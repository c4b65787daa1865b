SPECIFICATION Spec
CONSTANTS
    Workers = {w1, w2}
    Sweepers = {w1}
    Macs = {m1, m2}
    Ips = {i1, i2}
    Vouchers = {v1}
    NoSession = NoSession
    NoVoucher = NoVoucher
    NoOne = NoOne
    AuthRequired = TRUE
    ManualExempt = {}
    Duration = 1
    MaxTime = 1
    MaxEvents = 2
INVARIANT VoucherSingleUse
