\* Two workers race for two rows of one reader; every lease may run out early.
CONSTANTS
    u1 = u1
    u2 = u2
    w1 = w1
    w2 = w2
    NoWorker = NoWorker
    NoJob = NoJob
    Users = {u1}
    Events = {1, 2}
    Enqueued = {1, 2}
    UserOf <- MCUserOf
    TimeOf <- MCTimeOf
    Workers = {w1, w2}
    MaxAttempts = 3
    BatchLimit = 2
    LeaseCoversWork = FALSE
SPECIFICATION Spec
INVARIANTS
    AuditMatchesStatus
    AuditIsOneHistory
    DoneMeansProjected
    ProfileIsLatestReplay
PROPERTIES KeepsTheLedger
