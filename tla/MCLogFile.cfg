\* Two adds at a time, a daemon whose writes may fail, and a check that shares
\* its state file; crashes of any of them.
CONSTANTS
    Leaf = {a}
    View = {v1}
    Tampering = {}
    Witness = {w1}
    ViewOf <- ViewOfV1
    OneShot = {}
    Stateless = {}
    FlakyDisk = {w1}
    FlakySigner = {}
    MaxSize = 4
    ShortSize = 2
    MaxCrash = 1
    NoView = NoView
    Corrupt = Corrupt
    Adder = {a1, a2}
    Beside = {w1}
    NoJob = NoJob
    v1 = v1
    w1 = w1
SPECIFICATION MCSpec
INVARIANTS LossMeansOverlap
PROPERTIES DaemonCatchesUp
CHECK_DEADLOCK FALSE
