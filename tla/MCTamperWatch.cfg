\* Two calls at a time, two values of the counter, two power cuts.
CONSTANTS
    Call = {c1, c2}
    Nonce = {n1, n2}
    MaxCounter = 2
    Absent = Absent
    NoCall = NoCall
    MaxCut = 2
    c1 = c1
    n1 = n1
SPECIFICATION MCSpec
INVARIANTS CounterSignedOnce FreshAfterRecord TrippedNeverSigns BreachIsAtomic
PROPERTIES BreachIsAnswered
