SPECIFICATION Spec
CONSTANTS
    soup = soup
    tea = tea
    Items <- MCItems
    UnitPrice <- MCUnitPrice
    Extra <- MCExtra
    Quantity <- MCQuantity
    Tables = {t1}
    Reqs = {r1, r2}
    Baskets <- TwoTeas
    Coupons = {c1, c2}
    NoCoupon = NoCoupon
    Benefit <- MCBenefit
    Targets <- MCTargets
    Locks <- NoChoice
    Switches <- NoChoice
    MayCrash = FALSE
    MaxSessions = 1
    MaxOrders = 1
    MaxPayments = 3
    MaxCalls = 0
SYMMETRY RequestSymmetry
INVARIANTS AutoCloseTookMoney OverpaidOnlyByCancellation ReversedOnce PaidWithinQuantity CouponUsedOnce RedemptionFollowsDiscount
CONSTRAINT OneSettling
