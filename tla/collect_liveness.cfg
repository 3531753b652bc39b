CONSTANTS
    IoThreads = {t1, t2}
    QueueCount = 2
    IoQueueIds = {0, 3}
    ChecksActive = TRUE
    RingCap = 1
    RingTrigger = 0
    MaxPushes = 1
    Done = Done
SPECIFICATION FairSpec
PROPERTIES
    SessionEnds
