\* The announcement of a run meets a full audit buffer.
CONSTANTS
    t1 = t1
    t2 = t2
    p1 = p1
    p2 = p2
    k1 = k1
    k2 = k2
    a1 = a1
    a2 = a2
    c1 = c1
    c2 = c2
    NoRow = NoRow
    NoCall = NoCall
    NoRun = NoRun
    NoDriver = NoDriver
    Tasks = {t1}
    Payloads = {p1}
    Keys = {k1}
    Answers = {a1}
    Calls = {c1}
    MaxContext = 1
    MaxConcurrent = 1
    MaxFacts = 1
    Mirrored = {TRUE, FALSE}
SPECIFICATION FairRunsSpec
PROPERTIES AcceptedRunsEnd
