\* Two calls race over one task that may ask twice; two runs of its Agents race
\* while recall falls short; two feedbacks and two decisions race; three
\* workspaces plan in two sessions of one device. The bounds end.
CONSTANTS
    t1 = t1
    p1 = p1
    p2 = p2
    k1 = k1
    k2 = k2
    a1 = a1
    a2 = a2
    c1 = c1
    c2 = c2
    r1 = r1
    r2 = r2
    f1 = f1
    f2 = f2
    f3 = f3
    h1 = h1
    o1 = o1
    o2 = o2
    q1 = q1
    q2 = q2
    v1 = v1
    v2 = v2
    y1 = y1
    y2 = y2
    d1 = d1
    d2 = d2
    w1 = w1
    w2 = w2
    w3 = w3
    NoRow = NoRow
    NoCall = NoCall
    NoSnapshot = NoSnapshot
    NoFacts = NoFacts
    NoPlace = NoPlace
    NoPost = NoPost
    NoState = NoState
    NoKey = NoKey
    NoDecision = NoDecision
    NoPlan = NoPlan
    Tasks = {t1}
    Payloads = {p1, p2}
    Keys = {k1, k2}
    Answers = {a1, a2}
    Calls = {c1, c2}
    MaxContext = 3
    Runs = {r1, r2}
    Shaky = {"RECALL"}
    MaxTries = 1
    MaxCatalog = 2
    Feedbacks = {f1, f2, f3}
    Places = {h1}
    PlaceOf <- OneResource
    Posts = {o1, o2}
    MaxVersions = 4
    Proposals = {q1}
    Scopes = {q2}
    Verdicts = {v1, v2}
    ReviewKeys = {y1, y2}
    Deciders = {d1, d2}
    MaxDecisions = 2
    PlanningWorkspaces = {w1, w2, w3}
    SessionOf <- TwoSessions
    DeviceOf <- OneDevice
    MaxPerSession = 2
    MinInterval = 2
    MaxPerDay = 2
    DayLength = 3
    MaxTime = 4
    MaxVersion = 2
SYMMETRY RunSymmetry
SPECIFICATION ServicesSpec
INVARIANTS
    ContextsAreOneLine
    RecordIsTheLastContexts
    OneCatalogPerTask
    CompletedIsWhole
    ResultIsTheStoredOne
    ResourceStateIsOneLine
    DecisionsStand
    PlannerCallsKeepPolicy
PROPERTIES
    RetryAddsNoFact
    KeepsTheLifecycle
    OutcomeNeverOlder
CHECK_DEADLOCK FALSE
