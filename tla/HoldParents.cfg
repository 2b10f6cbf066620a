SPECIFICATION Spec
CONSTANTS
    o1 = o1
    o2 = o2
    p1 = p1
    b1 = b1
    b2 = b2
    l1 = l1
    l2 = l2
    g1 = g1
    NoName = NoName
    Free = Free
    Orgs = {o1, o2}
    Projects = {p1}
    Bindings = {}
    Grants = {g1}
    GrantOf <- SharedGrant
    Locks = {l1, l2}
    LockOf <- OneLock
    Subresource = FALSE
    MayUnregister = FALSE
    MiloHolds = {TRUE}
    Deletable = {o1}
    MaxUid = 3
    MaxBinds = 0
    MaxMoves = 1
    MaxFaults = 1
    MaxLate = 0
INVARIANT TypeOK
INVARIANT HoldInv
INVARIANT ParentsNeverOutlive
PROPERTY AccessLastsUntilDrained
CHECK_DEADLOCK FALSE
