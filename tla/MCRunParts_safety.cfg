\* A task's run, mirrored or not, beside a direct call, while the audit buffer
\* fills up; or three tasks that compete for two slots.
CONSTANTS
    t1 = t1
    t2 = t2
    t3 = t3
    p1 = p1
    k1 = k1
    a1 = a1
    a2 = a2
    c1 = c1
    c2 = c2
    c3 = c3
    NoRow = NoRow
    NoCall = NoCall
    NoRun = NoRun
    NoDriver = NoDriver
    Tasks = {t1, t2, t3}
    Payloads = {p1}
    Keys = {k1}
    Answers = {a1, a2}
    Calls = {c1, c2, c3}
    MaxContext = 2
    MaxConcurrent = 2
    MaxFacts = 4
    Mirrored = {TRUE, FALSE}
SPECIFICATION PartSpec
INVARIANTS
    DriversMatchRuns
    DriversBounded
    CloseWaitsForDrivers
PROPERTIES
    TerminalRunIsFinal
    DriversEnd
