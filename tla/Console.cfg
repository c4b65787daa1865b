SPECIFICATION Spec
CONSTANTS
    Reporters = {"collector", "correlator"}
    Keys = {"k"}
    MaxAlerts = 3
    MaxCases = 1
    MaxReports = 4
    Attackers = {"a"}
    Targets = {"a", "b"}
    Staff = {s1, s2}
    Ttl = 3
    RateMax = 1
    RateWindow = 1
    MaxClock = 7
    MaxRecs = 1
    Browsers = {b1, b2}
    Admins = {"root"}
    Members = {"ana"}
    Analysts = {"ana"}
    Secrets = {"s"}
    UserLimit = 1
    IpLimit = 2
    Rows <- MCRows
    Clerks = {c1, c2}
    Appliers = {n1, n2}
    MaxSnaps = 2
    Starters = {"w1", "w2"}
    Scripts <- MigrationList
    Bootstrap = 16
    Ages = {0, 15, 33, 50, 51}
    MaxStarts = 2
    Definitions <- MCDefinitions
    Contents = {"x", "y"}
    Disks = {{"db"}, {"db", "config", "rules"}}
    Uploads <- MCUploads
    MaxAsked = 2
    MaxTouched = 1
INVARIANTS
    OneOpenAlert
    BlockedWhileListed
    UndoRestores
    SchemaComplete
    SecondFactor
    RestoreToldTruth
CHECK_DEADLOCK FALSE
