\* An honest log that grows while two daemons poll it and each other.
CONSTANTS
    Leaf = {a}
    View = {v1}
    Tampering = {}
    Witness = {w1, w2}
    ViewOf <- OneView
    OneShot = {}
    Stateless = {}
    FlakyDisk = {}
    FlakySigner = {}
    MaxSize = 3
    MaxCrash = 0
    MaxProofs = 2
    Peers <- FullMesh
    NoView = NoView
    Corrupt = Corrupt
    NoProof = NoProof
    NoHalf = NoHalf
    a = a
    b = b
    v1 = v1
    v2 = v2
    w1 = w1
    w2 = w2
SPECIFICATION MeshSpec
INVARIANTS AlarmMeansFork
CHECK_DEADLOCK FALSE
