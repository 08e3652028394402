\* Two requests at a time, more session ids than the map may hold.
CONSTANTS
    Session = {s1, s2}
    MaxSessions = 1
    Request = {r1, r2}
    MaxCounter = 2
    NoSession = NoSession
    NoBundle = NoBundle
    Node = {n1, n2, n3, n4}
    Peers <- Cycle
    Evidence = {e12, e23}
    Names <- NamesOf
    MaxRestart = 1
    None = None
    n1 = n1
    n2 = n2
    n3 = n3
    n4 = n4
    e12 = e12
    e23 = e23
SPECIFICATION MCSpec
SYMMETRY Symmetry
INVARIANTS NeverReplays
CHECK_DEADLOCK FALSE
