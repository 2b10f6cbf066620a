SPECIFICATION MCSpec
CONSTANTS
    b1 = b1
    b2 = b2
    r1 = r1
    r2 = r2
    s1 = s1
    s2 = s2
    Bindings = {b1, b2}
    Roles = {r1, r2}
    Subjects = {s1, s2}
    Perms = {"get", "status"}
    RoleOf <- RolePerBinding
    SubjectsOf <- Overlapping
    Children = {"status"}
    SubPerms = {"status"}
    Flags = {TRUE, FALSE}
    MayGrow = TRUE
    MayEdit = TRUE
    MayVanish = TRUE
    MaxChanges = 2
    MaxFaults = 1
INVARIANT TypeOK
INVARIANT SettledGrantsKept
INVARIANT SettledNoOrphans
INVARIANT SettledInv
PROPERTY Converges
PROPERTY GrantsArrive
CHECK_DEADLOCK FALSE
