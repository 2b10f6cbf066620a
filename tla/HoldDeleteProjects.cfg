SPECIFICATION FairSpec
CONSTANTS
    o1 = o1
    o2 = o2
    p1 = p1
    b1 = b1
    b2 = b2
    l1 = l1
    l2 = l2
    g1 = g1
    NoName = NoName
    Free = Free
    Orgs = {o1}
    Projects = {p1}
    Bindings = {}
    Grants = {g1}
    GrantOf <- SharedGrant
    Locks = {l1, l2}
    LockOf <- OneLock
    Subresource = FALSE
    MayUnregister = TRUE
    MiloHolds = {FALSE}
    Deletable = {o1, p1}
    MaxUid = 2
    MaxBinds = 0
    MaxMoves = 0
    MaxFaults = 1
    MaxLate = 0
PROPERTY DeletionCompletes
CHECK_DEADLOCK FALSE
