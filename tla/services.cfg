SPECIFICATION Spec
CONSTANTS
    Scenarios = {"queue", "runner", "rpc", "limit", "contexts", "sockets", "packets", "plugins", "children"}
    Handlers = {h1, h2, h3}
    Calls = {c1, c2}
    Patient = {c1}
    SidMod = 8
    MAX_PENDING_METHODS = 1
    QUEUE_LIMIT = 2
    Produced = 5
    Contexts = {x1, x2}
    Kinds = {"Server", "Client"}
    Senders = {s1, s2}
    Plugins = {p1, p2}
    Attaches = 1
    Callers = {1, 2, 3}
    PluginIds = {11, 12}
    InterfaceIds = {21}
    MaxRequests = 3
    HEADER_SIZE = 2
    MAX_PACKET_SIZE = 3
    Sizes = {0, 2, 3, 4}
CHECK_DEADLOCK FALSE
INVARIANTS
    LimitBalance ClientsExact AnswersMatch RunsOnLiveCall ExpiresSafely
     PacketsIntact OwnNode ChildrenExact

     
