SPECIFICATION MCSpec
CONSTANTS
    Consumers = {n1, n2}
    MaxSequence = 3
    BatchSize = 2
    ReplayBatch = 1
    MaxLogFaults = 2
    SearchMessages = {m1}
    IndexWorkers = {w1, w2}
    MaxItems = 3
    IndexLimit = 2
    MaxSearchFaults = 1
    MediaJobIds = {j1, j2}
    MediaWorkers = {w1, w2}
    AvatarCalls = {a1}
    JobLimit = 2
    NoJobId = NoJobId
    MaxMediaFaults = 1
    ScheduledMessages = {m1, m2, m3}
    Schedulers = {s1, s2}
    ScheduleLimit = 2
INVARIANTS
    QueuesTypeOK
    EventsAccounted
    RebuildRestores
    ProcessedWasApplied
    CompletedIsProcessed
    ScheduledOnce
PROPERTIES
    ReadableReached
    DeletionIsReached
    ClaimedJobSettles
\* Every scheduled message may be published, the media file and its jobs be gone.
CHECK_DEADLOCK FALSE
