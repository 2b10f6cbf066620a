SPECIFICATION Spec
CONSTANTS
    a = a
    b = b
    c = c
    p = p
    q = q
    Names = {a, b, c}
    Perms = {p, q}
    Casts <- MCCasts
    MaxGen = 3
    MaxFaults = 1
INVARIANT TypeOK
INVARIANT WalkIsReachability
INVARIANT RoleTuplesGoFirst
INVARIANT RoleInv
PROPERTY ObservedIsStored
PROPERTY RolesSettle
CHECK_DEADLOCK FALSE
