SPECIFICATION Spec
CONSTANTS
    Workers = {w1, w2}
    Sweepers = {w1, w2}
    Macs = {m1}
    Ips = {i1}
    Vouchers = {v1}
    NoSession = NoSession
    NoVoucher = NoVoucher
    NoOne = NoOne
    AuthRequired = TRUE
    ManualExempt = {}
    Duration = 1
    MaxTime = 1
    MaxEvents = 2
PROPERTY ReplaceIsAtomic
