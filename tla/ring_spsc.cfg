CONSTANTS
    Producers = {p1}
    Consumers = {c1}
    ProducerApis = {"push", "wrbuf", "free_space"}
    ConsumerApis = {"pop", "rdbuf", "is_empty"}
    Payloads = {v1, v2}
    NoPayload = NoPayload
    Sizes = {1, 4}
    BufSizes = {1, 4}
    TRACE_ALIGNMENT = 2
    P_HDR_SIZE = 4
    C_HDR_SIZE = 2
    MempoolSize = 17
    HasChdr = FALSE
    SIZE_MOD = 64
    WR_LOCK_RETRY = 1
    MaxLost = 1
SPECIFICATION Spec
SYMMETRY Symmetry
INVARIANTS
    TypeOK
    NoOverlap
    PointersChain
    EventsIntact
    DeliveredIsHead
    
PROPERTIES
    EmptyIsEmpty
