SPECIFICATION IntegrationSpec
CONSTANTS
    u1 = u1
    u2 = u2
    p1 = p1
    p2 = p2
    q1 = q1
    q2 = q2
    c1 = c1
    c2 = c2
    Nobody = Nobody
    NoState = NoState
    Users = {u1, u2}
    Calls = {c1, c2}
    Projects = {p1, p2}
    EnvNames <- ChosenNames
    Requests = {q1, q2}
    LastRev = 2
    MaxEnvs = 2
    MaxDeployments = 2
    MaxStates = 2
INVARIANTS
    StaysInProject
    PreviewAnswers
    ConnectedByOwnFlow
SYMMETRY Symmetric
