SPECIFICATION Spec
CONSTANTS
    Tenders <- CashOnly
    ReversalKinds = {}
    MaxCouponNumber = 1
    Outstanding = 0
    Quantities = {}
    Reqs = {r1, r2}
    Ops = {"CLOSE"}
    Wanted = {}
    OldBackups = {}
    MaxBackups = 1
    MaxRows = 1
    MaxClosings = 2
    MaxLog = 2
    MaxTime = 3
    MaxKey = 0
INVARIANTS NoIntervalTwice
CHECK_DEADLOCK FALSE
