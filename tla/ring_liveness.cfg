CONSTANTS
    Producers = {p1, p2}
    Consumers = {c1}
    ProducerApis = {"push"}
    ConsumerApis = {"pop"}
    Payloads = {v1}
    NoPayload = NoPayload
    Sizes = {1}
    BufSizes = {1}
    TRACE_ALIGNMENT = 1
    P_HDR_SIZE = 4
    C_HDR_SIZE = 2
    MempoolSize = 9
    HasChdr = FALSE
    SIZE_MOD = 64
    WR_LOCK_RETRY = 1
    MaxLost = 2
SPECIFICATION FairSpec
PROPERTIES
    
    PushReturns
    HeadConsumed
