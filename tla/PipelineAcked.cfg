\* What MessageFlow.md says of the outbox entry, against the code.
CONSTANTS
    Messages = {m1}
    Calls = {c1, c2}
    BatchLimit = 1
    MaxCrashes = 0
SPECIFICATION Spec
INVARIANT AckedHasEvent
CHECK_DEADLOCK FALSE
