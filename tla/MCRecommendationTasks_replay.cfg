\* One call at a time: create, answer, create again.
CONSTANTS
    t1 = t1
    p1 = p1
    p2 = p2
    k1 = k1
    k2 = k2
    a1 = a1
    a2 = a2
    c1 = c1
    c2 = c2
    NoRow = NoRow
    NoCall = NoCall
    Tasks = {t1}
    Payloads = {p1, p2}
    Keys = {k1, k2}
    Answers = {a1, a2}
    Calls = {c1}
    MaxContext = 3
SPECIFICATION Spec
INVARIANTS ReplayIsTheOriginal
