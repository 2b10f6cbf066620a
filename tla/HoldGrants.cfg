SPECIFICATION Spec
CONSTANTS
    o1 = o1
    o2 = o2
    p1 = p1
    b1 = b1
    b2 = b2
    l1 = l1
    l2 = l2
    g1 = g1
    NoName = NoName
    Free = Free
    Orgs = {o1}
    Projects = {}
    Bindings = {b1, b2}
    Grants = {g1}
    GrantOf <- SharedGrant
    Locks = {l1, l2}
    LockOf <- OneLock
    Subresource = TRUE
    MayUnregister = FALSE
    MiloHolds = {TRUE}
    Deletable = {o1}
    MaxUid = 2
    MaxBinds = 1
    MaxMoves = 0
    MaxFaults = 1
    MaxLate = 0
SYMMETRY BindingSymmetry
INVARIANT GrantsNeverOutlive
PROPERTY GrantNamesItsTarget
CHECK_DEADLOCK FALSE
