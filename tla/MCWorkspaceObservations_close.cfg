\* An audited workspace fills the buffer, then the broker closes.
CONSTANTS
    wa = wa
    wg = wg
    Workspaces = {wa}
    Audited = {wa}
    MaxConcurrent = 1
    MaxPending = 2
    MaxFacts = 6
    CoordinateFacts = 1
    MaxContext = 4
SPECIFICATION FairSpec
PROPERTIES CloseEnds
CHECK_DEADLOCK FALSE
