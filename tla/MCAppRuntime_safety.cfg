\* An audited and a guest workspace share one place of the semaphore; a client
\* streams two runs through a history and a queue of two events; three callers
\* share a pool of two connections. The bounds end.
CONSTANTS
    wa = wa
    wg = wg
    e1 = e1
    c1 = c1
    c2 = c2
    c3 = c3
    Workspaces = {wa, wg}
    Audited = {wa}
    MaxConcurrent = 1
    MaxPending = 2
    MaxFacts = 6
    CoordinateFacts = 1
    MaxContext = 3
    Readers = {e1}
    HistorySize = 2
    QueueSize = 2
    MaxEvents = 5
    MaxRuns = 2
    NoneKnown = NoneKnown
    Callers = {c1, c2, c3}
    MinSize = 1
    MaxSize = 2
    NoHolder = NoHolder
SPECIFICATION AppSpec
INVARIANTS
    PendingCoversWork
    QueueInOrder
    EventsWithoutHoles
    PoolCountersTrue
PROPERTIES
    CloseDrainsObservations
    ObservationsEnd
    EndsWithTheLastEvent
    StreamsEnd
    NoLeaseOnceShut
    PoolCloseEnds
CHECK_DEADLOCK FALSE
