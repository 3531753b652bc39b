CONSTANTS
    Clients = {c1, c2}
    Mgr = Mgr
    QueueCount = 1
    Privileged = FALSE
    MaxSessions = 1
SPECIFICATION FairSpec
PROPERTIES
    CallsReturn
    
