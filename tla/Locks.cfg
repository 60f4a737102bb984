SPECIFICATION MCSpec
CONSTANTS
    Uploaders = {u1, u2}
    Finalizers = {f1, f2}
    Total = 2
    FileParts = 2
    NoOne = NoOne
    MaxUploadFaults = 1
    LeaseNodes = {n1, n2, n3}
    Partitions = {p1, p2}
    NoNode = NoNode
    LeaseTicks = 3
INVARIANTS
    LocksTypeOK
    CompletedIsWhole
    OneFreshOwner
PROPERTIES
    ChunksAreStable
    LockIsReleased
