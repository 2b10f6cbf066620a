SPECIFICATION Spec
CONSTANTS
    b1 = b1
    b2 = b2
    r1 = r1
    r2 = r2
    s1 = s1
    s2 = s2
    Bindings = {b1, b2}
    Roles = {r1, r2}
    Subjects = {s1}
    Perms = {"get"}
    RoleOf <- RolePerBinding
    SubjectsOf <- Overlapping
    Children = {}
    SubPerms = {}
    Flags = {FALSE}
    MayGrow = TRUE
    MayEdit = FALSE
    MayVanish = FALSE
    MaxChanges = 0
    MaxFaults = 0
INVARIANT GrantedWhenQuiet
CHECK_DEADLOCK FALSE
