SPECIFICATION Spec
CONSTANTS
    Callers = {p1, p2}
    Confs = {c0, c1, cRejected, cUnloadable}
    Initial = c0
    Rejected = {cRejected}
    Unloadable = {cUnloadable}
    Unlimited = {c1}
    Torn = Torn
    NoFile = NoFile
    NoOne = NoOne
    MaxEvents = 1
INVARIANT KnownGoodWasLoaded
