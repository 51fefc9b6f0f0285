SPECIFICATION Spec
CONSTANTS
    soup = soup
    tea = tea
    Items <- MCItems
    UnitPrice <- MCUnitPrice
    Extra <- MCExtra
    Quantity <- MCQuantity
    Tables = {t1}
    Reqs = {r1, r2}
    Baskets <- OneSoup
    Coupons = {}
    NoCoupon = NoCoupon
    Benefit <- MCBenefit
    Targets <- MCTargets
    Locks <- NoChoice
    Switches <- NoChoice
    MayCrash = FALSE
    MaxSessions = 1
    MaxOrders = 2
    MaxPayments = 1
    MaxCalls = 0
SYMMETRY RequestSymmetry
PROPERTIES AutoCloseOnlySettled
