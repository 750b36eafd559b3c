\* One session that initializes again while its history outgrows a snapshot.
CONSTANTS
    v1 = v1
    q1 = q1
    ViewedWorkspaces = {v1}
    AuditedWorkspaces = {}
    ViewRequests = {q1}
    Recents = 2
    Kept = 3
    StreamQueue = 3
    MaxHistory = 4
    MaxGeneration = 2
    NoWorkspace = NoWorkspace
    NoRequest = NoRequest
SPECIFICATION ViewSpec
INVARIANTS ReplayIsNoActivity
CHECK_DEADLOCK FALSE
