\* One upload, two workers and two handlers of /approve; five failures are two.
SPECIFICATION FairSpec
CONSTANTS
    Uploads = {u1}
    Workers = {w1, w2}
    Approvers = {a1, a2}
    None = None
    ClearancesChange = TRUE
    MaxFailCount = 2
    MaxQueued = 2
    MaxFaults = 1
    MaxToggles = 2
INVARIANTS
    TypeOK
    ReviewGate
    ApprovalIsKept
    DroppedWasPublished
    AttachedOnce
PROPERTIES
    PendingIsSettled
CHECK_DEADLOCK FALSE
