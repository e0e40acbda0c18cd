SPECIFICATION Spec
CONSTANTS
    o1 = o1
    o2 = o2
    u1 = u1
    u2 = u2
    u3 = u3
    q1 = q1
    q2 = q2
    q3 = q3
    Orgs = {o1, o2}
    Users = {u1, u2, u3}
    Requests = {q1, q2, q3}
    Seats <- Staffed
    Founders = {u3}
    Grants = {"owner", "member"}
    NoOp = NoOp
SYMMETRY RequestSymmetry
INVARIANT AcceptedHistoryKept
