CONSTANTS
    Messages = {m1, m2}
    Calls = {c1, c2}
    BatchLimit = 1
    MaxCrashes = 1
SPECIFICATION FairSpec
INVARIANTS TypeOK OneEventPerMessage AckedIsStored MarkedReachedProducer
PROPERTIES ImplementsLifecycle QueuedIsPublished
CHECK_DEADLOCK FALSE
