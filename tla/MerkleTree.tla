----------------------------- MODULE MerkleTree ----------------------------
(***************************************************************************)
(* The RFC 6962 / RFC 9162 Merkle tree of transparency.go: the tree hash,  *)
(* the inclusion and consistency proofs a log computes and the loops that  *)
(* verify them.                                                            *)
(*                                                                         *)
(* SHA-256 is a free constructor: collision free, with leaves and nodes    *)
(* told apart by their prefix byte.                                        *)
(***************************************************************************)
EXTENDS TreeHeads, SequencesExt

-----------------------------------------------------------------------------
(* The tree. *)

hashLeaf(x) == <<"leaf", x>>
hashNode(l, r) == <<"node", l, r>>
EmptyRoot == <<"empty">>

\* For n > 1.
largestPow2Below(n) == CHOOSE k \in {pow2[i] : i \in 0..n} : k < n /\ n <= 2 * k

First(s, k) == SubSeq(s, 1, k)
Rest(s, k) == SubSeq(s, k + 1, Len(s))

mth[s \in Seq(Leaf)] ==
    IF s = <<>> THEN EmptyRoot
    ELSE IF Len(s) = 1 THEN hashLeaf(s[1])
    ELSE LET k == largestPow2Below(Len(s)) IN hashNode(mth[First(s, k)], mth[Rest(s, k)])

\* The audit path of the leaf with (zero-based) index m.
path[s \in Seq(Leaf)] ==
    [m \in 0..(Len(s) - 1) |->
        IF Len(s) = 1 THEN <<>>
        ELSE LET k == largestPow2Below(Len(s)) IN
             IF m < k
             THEN Append(path[First(s, k)][m], mth[Rest(s, k)])
             ELSE Append(path[Rest(s, k)][m - k], mth[First(s, k)])]

subproof[s \in Seq(Leaf)] ==
    [m \in 1..Len(s) |-> [b \in BOOLEAN |->
        IF m = Len(s) THEN (IF b THEN <<>> ELSE <<mth[s]>>)
        ELSE LET k == largestPow2Below(Len(s)) IN
             IF m <= k
             THEN Append(subproof[First(s, k)][m][b], mth[Rest(s, k)])
             ELSE Append(subproof[Rest(s, k)][m - k][FALSE], mth[First(s, k)])]]

\* Mutant of ConsistencyProof: a complete old tree is sent as well.
ConsistencyProofWhole(s, oldSize) ==
    IF oldSize \in {0, Len(s)} THEN <<>> ELSE subproof[s][oldSize][FALSE]

\* For oldSize in 0..Len(s); the code refuses any other.
ConsistencyProof(s, oldSize) ==
    IF oldSize \in {0, Len(s)} THEN <<>> ELSE subproof[s][oldSize][TRUE]

-----------------------------------------------------------------------------
(* Verification. *)

\* Shift both numbers while fn ends in the bit (and is not 0).
Strip(bit) ==
    LET strip[fn \in Nat] ==
            [sn \in Nat |-> IF fn % 2 = bit /\ fn # 0
                            THEN strip[fn \div 2][sn \div 2] ELSE <<fn, sn>>]
    IN  strip

\* The numbers and the hashes that the loops start with.
Start(at, fr, sr) == [fn |-> at[1], sn |-> at[2], fr |-> fr, sr |-> sr]

\* One turn of the loop over the proof, the same in VerifyConsistency (fr, sr)
\* and in VerifyInclusion (sr alone): up to the next level that has a hash c.
\* A hash that is left when sn is 0 is refused: sn is then -1 for good.
Up(s, c) ==
    LET left == s.fn % 2 = 1 \/ s.fn = s.sn
        at == IF left THEN Strip(0)[s.fn][s.sn] ELSE <<s.fn, s.sn>>
    IN  IF s.sn <= 0 THEN Start(<<s.fn, -1>>, s.fr, s.sr)
        ELSE [fn |-> at[1] \div 2,
              sn |-> at[2] \div 2,
              fr |-> IF left THEN hashNode(c, s.fr) ELSE s.fr,
              sr |-> IF left THEN hashNode(c, s.sr) ELSE hashNode(s.sr, c)]

\* The loop, from the hash after idx: where it is after the first i hashes.
Climb(start, proof, idx) ==
    LET at[i \in Nat] == IF i <= idx THEN start ELSE Up(at[i - 1], proof[i]) IN at

\* Mutant of VerifyInclusion: the index may lie beyond the tree.
VerifyInclusionAnyIndex(entry, index, size, proof, root) ==
    /\ size > 0
    /\ LET end == Climb(Start(<<index, size - 1>>, EmptyRoot, hashLeaf(entry)), proof, 0)[Len(proof)]
       IN  end.sn = 0 /\ end.sr = root

VerifyInclusion(entry, index, size, proof, root) ==
    /\ 0 <= index /\ index < size
    /\ LET end == Climb(Start(<<index, size - 1>>, EmptyRoot, hashLeaf(entry)), proof, 0)[Len(proof)]
       IN  end.sn = 0 /\ end.sr = root

\* VerifyConsistency for 0 < oldSize < newSize, but for the comparison of roots:
\* a complete old tree is where the loop starts, else the first hash is.
Ascend(oldSize, newSize, proof, oldRoot) ==
    LET at == Strip(1)[oldSize - 1][newSize - 1] IN
    IF at[1] = 0 THEN Climb(Start(at, oldRoot, oldRoot), proof, 0)[Len(proof)]
    ELSE IF proof = <<>> THEN Start(<<0, -1>>, EmptyRoot, EmptyRoot)
    ELSE Climb(Start(at, proof[1], proof[1]), proof, 1)[Len(proof)]

\* Mutant of VerifyConsistency: the root of the old tree is not compared.
VerifyConsistencyNewRoot(oldSize, newSize, proof, oldRoot, newRoot) ==
    /\ newSize > 0 /\ oldSize <= newSize
    /\ IF oldSize \in {0, newSize}
       THEN proof = <<>>
       ELSE LET end == Ascend(oldSize, newSize, proof, oldRoot) IN end.sn = 0 /\ end.sr = newRoot

VerifyConsistency(oldSize, newSize, proof, oldRoot, newRoot) ==
    /\ newSize > 0
    /\ oldSize <= newSize
    /\ IF oldSize = newSize THEN proof = <<>> /\ oldRoot = newRoot
       ELSE IF oldSize = 0 THEN proof = <<>> /\ oldRoot = EmptyRoot
       ELSE LET end == Ascend(oldSize, newSize, proof, oldRoot) IN
            end.sn = 0 /\ end.fr = oldRoot /\ end.sr = newRoot

-----------------------------------------------------------------------------
(* What a prover can put together. *)

\* The hashes in the top d levels of a tree with this root.  Every hash of a proof
\* ends up inside the root it is checked against, at most as far down as the proof
\* is long, so no other hash can help a proof to verify.
Hashes(root, d) ==
    LET inside[e \in 0..d] ==
            IF e = 0 THEN {root}
            ELSE LET above == inside[e - 1] IN
                 above \cup UNION { {h[2], h[3]} : h \in {g \in above : g[1] = "node"} }
    IN  inside[d]

Depth(n) == CHOOSE d \in 0..n : n <= pow2[d] /\ \A e \in 0..(d - 1) : pow2[e] < n

\* The proofs that can be put together for a tree of size n.
Proofs(n, root) == LET d == Depth(n) + 1 IN BoundedSeq(Hashes(root, d), d)
=============================================================================
