SPECIFICATION FairSpec
CONSTANTS
    soup = soup
    tea = tea
    Items <- MCItems
    UnitPrice <- MCUnitPrice
    Extra <- MCExtra
    Quantity <- MCQuantity
    Tables = {t1}
    Reqs = {r1, r2}
    Baskets <- OneSoup
    Coupons = {}
    NoCoupon = NoCoupon
    Benefit <- MCBenefit
    Targets <- MCTargets
    Locks <- AllLocks
    Switches <- AllSwitches
    MayCrash = FALSE
    MaxSessions = 1
    MaxOrders = 1
    MaxPayments = 2
    MaxCalls = 0
INVARIANTS SettlementNotForgotten
PROPERTIES SettleCloses
