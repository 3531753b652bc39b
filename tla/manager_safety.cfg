CONSTANTS
    Clients = {c1, c2}
    Mgr = Mgr
    QueueCount = 1
    Privileged = FALSE
    MaxSessions = 2
SPECIFICATION Spec
SYMMETRY Symmetry
INVARIANTS
    JoinedMeansOver
