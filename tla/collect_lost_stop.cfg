CONSTANTS
    IoThreads = {t1}
    QueueCount = 1
    IoQueueIds = {0}
    ChecksActive = FALSE
    RingCap = 1
    RingTrigger = 0
    MaxPushes = 1
    Done = Done
SPECIFICATION Spec
SYMMETRY Symmetry
INVARIANTS
    StopWakesJob
