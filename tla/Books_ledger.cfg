SPECIFICATION Spec
CONSTANTS
    Tenders <- Mixed
    ReversalKinds = {"REFUND"}
    MaxCouponNumber = 3
    Outstanding = 1
    Quantities = {1, 2}
    Reqs = {r1, r2}
    Ops <- AllOps
    Wanted <- Selections
    OldBackups <- Yesterday
    MaxBackups = 3
    MaxRows = 2
    MaxClosings = 2
    MaxLog = 3
    MaxTime = 3
    MaxKey = 2
CONSTRAINT Small
ACTION_CONSTRAINT LedgerEnds
SYMMETRY Alike
INVARIANTS TypeOK ReportsAddUp CountedOnce SnapshotStands ChainVerifies CouponUsedIffRedeemed IssuedOnce NothingDangling
PROPERTIES BackupBeforeLoss
CHECK_DEADLOCK FALSE
