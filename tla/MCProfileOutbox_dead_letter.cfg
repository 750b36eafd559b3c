\* Two workers and one row whose lease may run out early, under fairness.
CONSTANTS
    u1 = u1
    u2 = u2
    w1 = w1
    w2 = w2
    NoWorker = NoWorker
    NoJob = NoJob
    Users = {u1}
    Events = {1}
    Enqueued = {1}
    UserOf <- MCUserOf
    TimeOf <- MCTimeOf
    Workers = {w1, w2}
    MaxAttempts = 2
    BatchLimit = 1
    LeaseCoversWork = FALSE
SPECIFICATION FairSpec
PROPERTIES ExhaustedRowsSettle
