CONSTANTS
    Producers = {p1, p2}
    Consumers = {c1, c2}
    ProducerApis = {"wrbuf"}
    ConsumerApis = {"rdbuf"}
    Payloads = {v1}
    NoPayload = NoPayload
    Sizes = {0, 1}
    BufSizes = {1}
    TRACE_ALIGNMENT = 1
    P_HDR_SIZE = 4
    C_HDR_SIZE = 2
    MempoolSize = 8
    HasChdr = TRUE
    SIZE_MOD = 64
    WR_LOCK_RETRY = 0
    MaxLost = 2
SPECIFICATION Spec
SYMMETRY Symmetry
INVARIANTS
    PendingIsOwned
    LocksExact
    NeverInvalidated
