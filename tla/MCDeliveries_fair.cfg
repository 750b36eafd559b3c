\* Two workers, a lease outlives the work of a live holder; two sessions of a
\* browser, snapshots of three events.
CONSTANTS
    u1 = u1
    u2 = u2
    w1 = w1
    w2 = w2
    NoWorker = NoWorker
    NoJob = NoJob
    Users = {u1}
    Events = {1, 2}
    Enqueued = {1, 2}
    UserOf <- MCUserOf
    TimeOf <- MCTimeOf
    Workers = {w1, w2}
    MaxAttempts = 2
    BatchLimit = 1
    LeaseCoversWork = TRUE
    v1 = v1
    v2 = v2
    q1 = q1
    q2 = q2
    ViewedWorkspaces = {v1, v2}
    AuditedWorkspaces = {v1}
    ViewRequests = {q1, q2}
    Recents = 3
    Kept = 3
    StreamQueue = 3
    MaxHistory = 4
    MaxGeneration = 2
    NoWorkspace = NoWorkspace
    NoRequest = NoRequest
SPECIFICATION PartSpec
INVARIANTS ShortHistoryIsShownInOrder
PROPERTIES
    EveryRowSettles
    ViewCatchesUp
