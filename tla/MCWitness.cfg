\* A daemon and a one-shot command, each with a state file, against an operator
\* who rewinds and forks; the command's disk and both signers may fail.
CONSTANTS
    Leaf = {a, b}
    View = {v1}
    Tampering = {v1}
    Witness = {w1, w2}
    ViewOf <- ViewOfV1
    OneShot = {w2}
    Stateless = {}
    FlakyDisk = {w2}
    FlakySigner = {w1, w2}
    MaxSize = 2
    MaxCrash = 2
    NoView = NoView
    Corrupt = Corrupt
    v1 = v1
    w1 = w1
    w2 = w2
SPECIFICATION Spec
SYMMETRY LeafSymmetry
INVARIANTS CosignaturesConsistent PublishedIsSaved
PROPERTIES ImplementsCosigner
CHECK_DEADLOCK FALSE
