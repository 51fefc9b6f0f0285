SPECIFICATION Spec
CONSTANTS
    udon = udon
    spin = spin
    Items <- MCItems
    Extra <- MCExtra
    Quantity <- MCQuantity
    ServingMode <- MCServingMode
    Prices <- UdonChanges
    MaySellOut = {spin}
    Carts <- MixedOrSpins
    Coupons = {c1, c2}
    NoCoupon = NoCoupon
    Benefit <- MCBenefit
    Targets <- MCTargets
    Perishable = {c1}
    Tills = {front}
    Reqs = {r1, r2}
    NoReq = NoReq
    Switches <- SwitchedOff
    MayCrash = TRUE
    MaxKeys = 2
CONSTRAINT Stories
ACTION_CONSTRAINT SoldAndLeftAlone
SYMMETRY RequestSymmetry
INVARIANTS TypeOK AllocationsAddUp PaidInAdvance CancelledSaleSettled CouponBuysOneDiscount
PROPERTIES SoldAsShown RefundOwedUntilRecorded ImplementsCheckout
