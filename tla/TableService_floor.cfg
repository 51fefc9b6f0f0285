SPECIFICATION Spec
CONSTANTS
    soup = soup
    tea = tea
    Items <- MCItems
    UnitPrice <- MCUnitPrice
    Extra <- MCExtra
    Quantity <- MCQuantity
    Tables = {t1}
    Reqs = {r1, r2}
    Baskets <- OneSoup
    Coupons = {}
    NoCoupon = NoCoupon
    Benefit <- MCBenefit
    Targets <- MCTargets
    Locks <- NoChoice
    Switches <- NoChoice
    MayCrash = TRUE
    MaxSessions = 2
    MaxOrders = 1
    MaxPayments = 1
    MaxCalls = 2
SYMMETRY RequestSymmetry
INVARIANTS TypeOK TableSessionAgreement OneOpenCall
PROPERTIES ClosedForGood
