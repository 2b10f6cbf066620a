SPECIFICATION Spec
CONSTANTS
    u1 = u1
    a1 = a1
    g1 = g1
    m1 = m1
    Users = {u1}
    Accounts = {a1}
    Groups = {g1}
    Members = {m1}
    UserOf <- MCUserOf
    GroupOf <- MCGroupOf
    Local = {m1}
    Casts <- MCCasts
    Relisted = {u1, a1, m1}
    MaxTimes = 4
    MaxFaults = 2
INVARIANT TypeOK
INVARIANT NoOrphanAuthenticated
INVARIANT MembershipInv
PROPERTY ReleasedMembersGone
PROPERTY AuthenticatedSettles
PROPERTY MembersSettle
PROPERTY DeletedObjectsLeave
CHECK_DEADLOCK FALSE
