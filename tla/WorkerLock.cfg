SPECIFICATION FairSpec
CONSTANTS
    Workers = {w1, w2, w3}
    MaxDeaths = 2
INVARIANTS
    TypeOK
    LeadersBounded
PROPERTY EventuallyLed
CHECK_DEADLOCK FALSE
