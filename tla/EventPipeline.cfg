SPECIFICATION Spec
CONSTANTS
    Sources = {"eve"}
    Operators = {"admin"}
    Threshold = 2
    MaxPerHour = 1
    MaxLines = 2
    MaxCalls = 2
    MaxFaults = 1
    MaxLogged = 3
    Never = Never
INVARIANTS
    NoLineLost
    ForwardNoGap
    MailCap
    NoSelfTrigger
    GateHolds
CHECK_DEADLOCK FALSE
