CONSTANTS
    IoThreads = {t1, t2}
    QueueCount = 2
    IoQueueIds = {0, 3}
    ChecksActive = FALSE
    RingCap = 2
    RingTrigger = 0
    MaxPushes = 2
    Done = Done
SPECIFICATION Spec
SYMMETRY Symmetry
INVARIANTS
    PushOnlyIntoLiveJob
    CleanStopLosesNothing
    NothingDuplicated
