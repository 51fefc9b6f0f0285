SPECIFICATION Spec
CONSTANTS
    ann = ann
    ben = ben
    desk = desk
    Users <- MCUsers
    NoUser = NoUser
    Reqs = {r1, r2}
    InitialRole <- OneAdmin
    InitialMfa = {}
    p1 = p1
    p2 = p2
    Passwords = {p1, p2}
    Present = {ann}
    Codes = {1}
    NoPassword = NoPassword
    Places = {desk}
    PairLimit = 1
    IpLimit = 1
    MaxFailures = 1
    Window = 1
    Production = FALSE
    Ops <- AllOps
    MaxSids = 2
    MaxVersion = 1
    MaxTime = 2
CONSTRAINT Small
SYMMETRY Alike
INVARIANTS TypeOK UsableSessionIsCurrent
PROPERTIES CodeUsedOnce RefusedForGood
CHECK_DEADLOCK FALSE
