\* The promise made while uploads are disabled: one upload, no faults.
SPECIFICATION FairSpec
CONSTANTS
    Uploads = {u1}
    Workers = {w1}
    Approvers = {a1}
    None = None
    ClearancesChange = FALSE
    MaxFailCount = 2
    MaxQueued = 2
    MaxFaults = 0
    MaxToggles = 2
PROPERTIES
    PublishedOnceEnabled
CHECK_DEADLOCK FALSE
