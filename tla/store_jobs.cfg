SPECIFICATION FairJobAdminSpec
CONSTANTS
    p1 = p1
    p2 = p2
    q1 = q1
    q2 = q2
    q3 = q3
    r1 = r1
    r2 = r2
    r3 = r3
    Projects = {p1, p2}
    Requests = {q1, q2, q3}
    Resources = {r1}
    Labels = {"a"}
    Links <- NoLinks
    Kinds <- PruneOps
    Absent = Absent
    NoSpec = NoSpec
    Free = Free
    JobRequests = {q3}
INVARIANTS
    ParentsStored
    EditsNeverCorrupt
    BuiltAsSeen
    MissingWasDeleted
PROPERTIES
    RequestsEnd
