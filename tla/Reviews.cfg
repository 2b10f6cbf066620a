SPECIFICATION Spec
CONSTANTS
    O = O
    P = P
    W = W
    X = X
    ko = ko
    kp = kp
    kw = kw
    kx = kx
    u = u
    Types = {O, P, W, X}
    Root = Root
    Incomplete = Incomplete
    Keys = {ko, kp, kw, kx}
    Subs = {"status"}
    Base = Base
    Verbs = {"get", "list"}
    HashPermission <- MCHash
    Names = {1, 2, 3, 4}
    Absent = Absent
    Organization = O
    Namespaced = {kw}
    None = None
    Casts <- MCCasts
    MaxFaults = 1
INVARIANT TypeOK
INVARIANT HierarchyIsClosure
INVARIANT LastingGrantHonoured
PROPERTY AllowJustified
PROPERTY AnswersSettle
CHECK_DEADLOCK FALSE
