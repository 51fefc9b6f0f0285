SPECIFICATION Spec
CONSTANTS
    ann = ann
    ben = ben
    desk = desk
    p1 = p1
    p2 = p2
    Users <- MCUsers
    NoUser = NoUser
    Reqs = {r1, r2}
    InitialRole <- TwoAdmins
    InitialMfa = {}
    Passwords = {p1}
    NoPassword = NoPassword
    Present = {ann, ben}
    Codes = {}
    Places = {desk}
    PairLimit = 1
    IpLimit = 1
    MaxFailures = 1
    Window = 1
    Production = FALSE
    Ops <- PatchOps
    MaxSids = 2
    MaxVersion = 1
    MaxTime = 1
INVARIANTS AnAdminRemains
CHECK_DEADLOCK FALSE
