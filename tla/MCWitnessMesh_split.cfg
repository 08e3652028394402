\* Two logs that stay apart; no state files, so a crash forgets everything.
CONSTANTS
    Leaf = {a, b}
    View = {v1, v2}
    Tampering = {}
    Witness = {w1, w2}
    ViewOf <- SplitView
    OneShot = {}
    Stateless = {w1, w2}
    FlakyDisk = {}
    FlakySigner = {}
    MaxSize = 1
    MaxCrash = 1
    MaxProofs = 2
    Peers <- FullMesh
    NoView = NoView
    Corrupt = Corrupt
    NoProof = NoProof
    NoHalf = NoHalf
    a = a
    b = b
    v1 = v1
    v2 = v2
    w1 = w1
    w2 = w2
SPECIFICATION FairSplitSpec
PROPERTIES SplitDetected
CHECK_DEADLOCK FALSE
