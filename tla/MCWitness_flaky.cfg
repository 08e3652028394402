\* One daemon with a state file it cannot always write.
CONSTANTS
    Leaf = {a, b}
    View = {v1}
    Tampering = {v1}
    Witness = {w1}
    ViewOf <- ViewOfV1
    OneShot = {}
    Stateless = {}
    FlakyDisk = {w1}
    FlakySigner = {}
    MaxSize = 2
    MaxCrash = 2
    NoView = NoView
    Corrupt = Corrupt
    v1 = v1
    w1 = w1
    w2 = w2
SPECIFICATION Spec
SYMMETRY LeafSymmetry
INVARIANTS EveryStatefulWitnessConsistent
CHECK_DEADLOCK FALSE
