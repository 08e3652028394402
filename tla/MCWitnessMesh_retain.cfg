\* Two logs that fork, meet in size and grow on.
CONSTANTS
    Leaf = {a, b}
    View = {v1, v2}
    Tampering = {}
    Witness = {w1, w2}
    ViewOf <- SplitView
    OneShot = {}
    Stateless = {}
    FlakyDisk = {}
    FlakySigner = {}
    MaxSize = 2
    MaxCrash = 0
    MaxProofs = 2
    Peers <- FullMesh
    NoView = NoView
    Corrupt = Corrupt
    NoProof = NoProof
    NoHalf = NoHalf
    a = a
    b = b
    v1 = v1
    v2 = v2
    w1 = w1
    w2 = w2
SPECIFICATION MeshSpec
PROPERTIES EveryForkRetained
CHECK_DEADLOCK FALSE
