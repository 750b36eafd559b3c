\* One account, its session, a code, two calls under way; or three calls that
\* race over a task that has to ask, or over one that has not, of which a
\* second version is all there is. The bounds end.
CONSTANTS
    u1 = u1
    s1 = s1
    x1 = x1
    y1 = y1
    y2 = y2
    f1 = f1
    f2 = f2
    t1 = t1
    p1 = p1
    p2 = p2
    k1 = k1
    k2 = k2
    a1 = a1
    a2 = a2
    c1 = c1
    c2 = c2
    c3 = c3
    Users = {u1}
    Sessions = {s1}
    Codes = {x1}
    ActionKeys = {y1, y2}
    Roles = {"user"}
    Flows = {f1, f2}
    LockThreshold = 1
    MaxAuth = 4
    MaxChain = 3
    NoSession = NoSession
    NoCode = NoCode
    NoFlow = NoFlow
    NoRow = NoRow
    NoCall = NoCall
    Tasks = {t1}
    Payloads = {p1, p2}
    Unclear = {p1}
    Keys = {k1, k2}
    Answers = {a1, a2}
    Calls = {c1, c2, c3}
    MaxContext = 2
SYMMETRY DemoSymmetry
SPECIFICATION DemoSpec
INVARIANTS
    ChainIsOneLine
    RevokedSessionHasNoToken
    LosersAreAnswered
    AskedAtMostOnce
PROPERTIES
    EndedSessionStaysEnded
    ChangeEndsSessions
CHECK_DEADLOCK FALSE
