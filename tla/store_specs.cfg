SPECIFICATION Spec
CONSTANTS
    p1 = p1
    p2 = p2
    q1 = q1
    q2 = q2
    q3 = q3
    r1 = r1
    r2 = r2
    r3 = r3
    Projects = {p1}
    Requests = {q1, q2, q3}
    Resources = {r1, r2}
    Labels = {"a", "b"}
    Links <- OneLink
    Kinds <- AllKinds
    Absent = Absent
    NoSpec = NoSpec
    Free = Free
SYMMETRY StoreSymmetry
INVARIANTS
    TypeOK
    Lineage
    CommittedValid
    NothingRemovedSilently
    EditsApplyToParent
    AuditMatchesRevisions
PROPERTIES
    LedgerSpec
