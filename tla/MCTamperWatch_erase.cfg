\* A breach whose overwrite fails unnoticed.
CONSTANTS
    Call = {c1, c2}
    Nonce = {n1, n2}
    MaxCounter = 2
    Absent = Absent
    NoCall = NoCall
    MaxCut = 2
    c1 = c1
    n1 = n1
SPECIFICATION MCSpec
INVARIANT DeadMeansDestroyed
