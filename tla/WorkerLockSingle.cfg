SPECIFICATION Spec
CONSTANTS
    Workers = {w1, w2}
    MaxDeaths = 0
INVARIANT SingleLeader
CHECK_DEADLOCK FALSE
