CONSTANTS
    p1 = p1
    p2 = p2
    r1 = r1
    a1 = a1
    u1 = u1
    ga = ga
    gb = gb
    s1 = s1
    Proc = {p1, p2}
    Req = {r1}
    Admin = {a1}
    User = {u1}
    persona <- MCPersona
    Group = {ga, gb}
    Scope = {s1}
    grants0 <- MCGrants0
    member0 <- MCMember0
    None = None
    GEN_SOFT = 1
    MaxLists = 2
    MaxEdits = 2
    MaxClock = 1
    MaxFaults = 1
SPECIFICATION Spec
INVARIANTS TypeOK SigReflectsBump GroupsStaleOnlyLate ForeignPageOnlyUnsettled
PROPERTIES ImplementsVisibility
CHECK_DEADLOCK FALSE
SYMMETRY Symmetry
