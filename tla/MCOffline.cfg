\* Every part that works on files alone; a and b, x and y stand for something
\* else in each of them.
CONSTANTS
    Leaf = {a, b}
    NoView = NoView
    Log = {x, y}
    MaxSize = 5
    MaxClaim = 3
    MaxAnchor = 4
    Datum = {a, b}
    Byte = 66
    Short = 68
    Word = 70
    MaxDepth = 3
    MaxEdits = 2
    Key = {k1, k2, k3}
    Name = {a, b}
    Input = {1, 2}
    EventID = {1, 7}
    LastCounter = 1
    MaxBundles = 3
    P = 5
    KeySpace = {2}
    Randoms = {0, 1, 2, 3, 4}
    Seal = {a, b}
    MaxShares = 3
    NoFile = NoFile
    Torn = Torn
    Session = {a, b}
    Batch = {0, 1}
    Window = {w}
    Emit = {x, y}
    Follower = {x, y}
    MaxReceipts = 3
    Idle = Idle
SPECIFICATION Spec
SYMMETRY Symmetry
INVARIANTS InclusionExact ConsistencyExact ProofVerifiesIsTheCheck DisclosedIsLogged ShownStays ForkNeverPasses LedgerIsAppendOnly OneEncoding ChainReadsTheSame EnvelopeBinds SkipsOneItem QuorumIsDistinctKeys QuorumOrderFree CoAttestIsDistinctInputs AnyKReveal FewerTellNothing ChainIsOneSession ForkIsSigned
CHECK_DEADLOCK FALSE
