--------------------------- MODULE Offline_proofs ---------------------------
(***************************************************************************)
(* Proofs about the parts that work on files and arguments alone, for      *)
(* every value of their constants: the readers of the transparency log,    *)
(* the on-chain anchor of its checkpoints, the quorum of provers, the      *)
(* threshold reveal, the readers of a bundle, and the restraint receipts.  *)
(***************************************************************************)
EXTENDS RelyingParty, CheckpointAnchor, ProverQuorum, Consent, BundleReader, ReceiptChain,
        MerkleTree_proofs, FiniteSetTheorems

-----------------------------------------------------------------------------
(* The readers of the log. *)

\* The leaves of the logs are lists of leaves.
LogTypeOK == leaves \in [Log -> Seq(Leaf)]

\* The logs only ever hold lists of leaves.
THEOREM LogTypeCorrect == LogSpec => []LogTypeOK
<1>1. LogInit => LogTypeOK
  BY DEF LogInit, LogTypeOK
<1>2. LogTypeOK /\ [LogNext]_leaves => LogTypeOK'
  <2> SUFFICES ASSUME LogTypeOK, [LogNext]_leaves PROVE LogTypeOK'
    OBVIOUS
  <2>1. CASE UNCHANGED leaves
    BY <2>1 DEF LogTypeOK
  <2>2. ASSUME NEW l \in Log, NEW leaf \in Leaf, Add(l, leaf)
        PROVE  LogTypeOK'
    <3>1. Append(leaves[l], leaf) \in Seq(Leaf)
      BY DEF LogTypeOK
    <3> QED
      BY <2>2, <3>1 DEF LogTypeOK, Add
  <2> QED
    BY <2>1, <2>2 DEF LogNext
<1> QED
  BY <1>1, <1>2, PTL DEF LogSpec

\* VerifyInclusion accepts the proof that Log.InclusionProof computes, and no proof
\* at all for a leaf that is not at that index, whatever the size of the tree.
THEOREM LogInclusionExact == LogSpec => []InclusionExact
<1>1. LogTypeOK => InclusionExact
  <2>1. SUFFICES ASSUME LogTypeOK, NEW l \in Log, NEW s, s = leaves[l], s # <<>>,
                        NEW m \in 0..(Len(s) + 1), NEW x \in Leaf
                 PROVE  /\ m < Len(s) /\ s[m + 1] = x => VerifyInclusion(x, m, Len(s), path[s][m], mth[s])
                        /\ ~(m < Len(s) /\ s[m + 1] = x) =>
                              \A p \in Proofs(Len(s), mth[s]) : ~VerifyInclusion(x, m, Len(s), p, mth[s])
    BY DEF InclusionExact
  <2>2. s \in Seq(Leaf)
    BY <2>1 DEF LogTypeOK
  <2>3. Len(s) \in Nat
    BY <2>2
  <2>4. m \in Nat /\ (m < Len(s) => m \in 0..(Len(s) - 1))
    BY <2>3
  <2>5. m < Len(s) /\ s[m + 1] = x => VerifyInclusion(x, m, Len(s), path[s][m], mth[s])
    BY <2>2, <2>4, InclusionComplete
  <2>6. ASSUME NEW p \in Proofs(Len(s), mth[s]), VerifyInclusion(x, m, Len(s), p, mth[s])
        PROVE  m < Len(s) /\ s[m + 1] = x
    <3>1. PICK H : p \in Seq(H)
      BY ProofIsSeq
    <3> QED
      BY <2>2, <2>4, <2>6, <3>1, InclusionSound
  <2> QED
    BY <2>5, <2>6
<1> QED
  BY <1>1, LogTypeCorrect, PTL

\* What Shown collects is shown.
LEMMA ShownIsShows ==
    ASSUME NEW n, NEW r, NEW c \in Shown(n, r)
    PROVE  c[1] \in 0..(n - 1) /\ c[2] \in Leaf /\ c = <<c[1], c[2]>> /\ Shows(c[1], n, hashLeaf(c[2]), r)
<1>1. /\ c \in (0..(n - 1)) \X Leaf
      /\ \E p \in Proofs(n, r) :
            VerifyWindowDisclosure([index |-> c[1], size |-> n, entry |-> c[2], proof |-> p], r)
  BY DEF Shown
<1>2. PICK p \in Proofs(n, r) :
          VerifyWindowDisclosure([index |-> c[1], size |-> n, entry |-> c[2], proof |-> p], r)
  BY <1>1
<1>3. VerifyInclusion(c[2], c[1], n, p, r)
  BY <1>2 DEF VerifyWindowDisclosure
<1>4. c[1] \in 0..(n - 1) /\ c[2] \in Leaf /\ c = <<c[1], c[2]>>
  BY <1>1
<1>5. c[1] \in Nat
  BY <1>4, FromOne
<1>6. PICK H : p \in Seq(H)
  BY ProofIsSeq
<1>7. Shows(c[1], n, hashLeaf(c[2]), r)
  BY <1>3, <1>5, <1>6, VerifiedIsShown
<1> QED
  BY <1>4, <1>7

\* What a checkpoint shows to be in the log, every later checkpoint that a proof
\* links to it shows at the same index.
THEOREM LogShownStays == LogSpec => []ShownStays
<1>1. ShownStays
  <2>1. SUFFICES ASSUME NEW old, NEW new, NEW i \in 1..MaxClaim, NEW j \in i..MaxClaim,
                        NEW p \in Proofs(j, new), VerifyConsistency(i, j, p, old, new),
                        NEW c \in Shown(i, old), NEW d \in Shown(j, new), c[1] = d[1]
                 PROVE  c = d
    BY DEF ShownStays
  <2>2. i \in Nat /\ j \in Nat /\ 0 < i /\ i <= j
    <3>1. i \in Nat /\ i >= 1
      BY FromOne
    <3> QED
      BY <3>1
  <2>3. /\ c[1] \in 0..(i - 1) /\ c = <<c[1], c[2]>> /\ Shows(c[1], i, hashLeaf(c[2]), old)
        /\ d[1] \in 0..(j - 1) /\ d = <<d[1], d[2]>> /\ Shows(d[1], j, hashLeaf(d[2]), new)
    BY ShownIsShows
  <2>4. Shows(c[1], j, hashLeaf(c[2]), new)
    <3>1. CASE i = j
      <4>1. old = new
        BY <2>1, <3>1 DEF VerifyConsistency
      <4> QED
        BY <2>3, <3>1, <4>1
    <3>2. CASE i < j
      <4>1. PICK H : p \in Seq(H)
        BY ProofIsSeq
      <4>2. Links(i, j, old, new)
        BY <2>1, <2>2, <3>2, <4>1, VerifiedIsLinked
      <4>3. Within(i, j) /\ c[1] \in Nat /\ c[1] < i
        BY <2>2, <2>3, <3>2 DEF Within
      <4> QED
        BY <2>2, <2>3, <4>2, <4>3, ShownKept
    <3> QED
      BY <2>2, <3>1, <3>2
  <2>5. hashLeaf(c[2]) = hashLeaf(d[2])
    BY <2>1, <2>2, <2>3, <2>4, ShowsUnique
  <2>6. c[2] = d[2]
    BY <2>5 DEF hashLeaf
  <2> QED
    BY <2>1, <2>3, <2>6
<1> QED
  BY <1>1, PTL

\* A window disclosure that VerifyWindowDisclosure accepts discloses leaves of the
\* log, each at the index it claims.
THEOREM LogDisclosedIsLogged == LogSpec => []DisclosedIsLogged
<1>1. LogTypeOK => DisclosedIsLogged
  <2>1. SUFFICES ASSUME LogTypeOK, NEW l \in Log, leaves[l] # <<>>, NEW s, s = leaves[l]
                 PROVE  /\ \A n \in 1..Len(s) : \A m \in 0..(n - 1) :
                              LET t == First(s, n) IN
                              /\ VerifyWindowDisclosure(DiscloseWindow(t, m), mth[t])
                              /\ CheckLoggedEndorsement(ProofBundle(l, t, m), l)
                        /\ \A n \in 1..(MaxClaim + 1) : \A c \in Shown(n, mth[s]) :
                              /\ c[2] \in ToSet(s)
                              /\ n = Len(s) => c[2] = s[c[1] + 1]
    BY DEF DisclosedIsLogged
  <2>2. s \in Seq(Leaf)
    BY <2>1 DEF LogTypeOK
  <2>3. Len(s) \in Nat
    BY <2>2
  <2>4. ASSUME NEW n \in 1..Len(s), NEW m \in 0..(n - 1), NEW t, t = First(s, n)
        PROVE  /\ VerifyWindowDisclosure(DiscloseWindow(t, m), mth[t])
               /\ CheckLoggedEndorsement(ProofBundle(l, t, m), l)
    <3>1. t \in Seq(Leaf) /\ Len(t) = n
      <4>1. n \in 0..Len(s)
        BY <2>3
      <4> QED
        BY <2>2, <2>4, <4>1, FirstRest
    <3>2. VerifyInclusion(t[m + 1], m, Len(t), path[t][m], mth[t])
      BY <3>1, InclusionComplete
    <3> QED
      BY <3>2 DEF VerifyWindowDisclosure, DiscloseWindow, CheckLoggedEndorsement, ProofBundle,
                  SignCheckpoint
  <2>5. ASSUME NEW n \in 1..(MaxClaim + 1), NEW c \in Shown(n, mth[s])
        PROVE  c[2] \in ToSet(s) /\ (n = Len(s) => c[2] = s[c[1] + 1])
    <3>1. c[1] \in 0..(n - 1) /\ Shows(c[1], n, hashLeaf(c[2]), mth[s])
      BY ShownIsShows
    <3>2. n \in Nat
      BY FromOne
    <3>3. PICK j \in 1..Len(s) : s[j] = c[2]
      BY <2>2, <3>1, <3>2, ShownIsLeaf
    <3>4. c[2] \in ToSet(s)
      BY <3>3 DEF ToSet
    <3> QED
      BY <2>2, <3>1, <3>4, ShownAtIndex
  <2> QED
    BY <2>4, <2>5
<1> QED
  BY <1>1, LogTypeCorrect, PTL

\* VerifyConsistency accepts the proof that Log.ConsistencyProof computes, and accepts
\* no proof between two trees of which one does not extend the other.
THEOREM LogConsistencyExact == LogSpec => []ConsistencyExact
<1>1. LogTypeOK => ConsistencyExact
  <2>1. SUFFICES ASSUME LogTypeOK, NEW l \in Log, NEW k \in Log, NEW old, NEW new,
                        old = leaves[l], new = leaves[k], Len(old) <= Len(new), new # <<>>
                 PROVE  IF Extends(new, old)
                        THEN VerifyConsistency(Len(old), Len(new), ConsistencyProof(new, Len(old)),
                                               mth[old], mth[new])
                        ELSE \A p \in Proofs(Len(new), mth[new]) :
                                ~VerifyConsistency(Len(old), Len(new), p, mth[old], mth[new])
    BY DEF ConsistencyExact
  <2>2. old \in Seq(Leaf) /\ new \in Seq(Leaf)
    BY <2>1 DEF LogTypeOK
  <2>3. CASE Extends(new, old)
    BY <2>1, <2>2, <2>3, ConsistencyComplete
  <2>4. CASE ~Extends(new, old)
    <3>1. ASSUME NEW p \in Proofs(Len(new), mth[new]),
                 VerifyConsistency(Len(old), Len(new), p, mth[old], mth[new])
          PROVE  FALSE
      <4>1. PICK H : p \in Seq(H)
        BY ProofIsSeq
      <4> QED
        BY <2>2, <2>4, <3>1, <4>1, ConsistencySound
    <3> QED
      BY <2>4, <3>1
  <2> QED
    BY <2>3, <2>4
<1> QED
  BY <1>1, LogTypeCorrect, PTL

\* The root of a tree is not the empty string of a new state file.
LEMMA mthIsRoot ==
    ASSUME NEW s \in Seq(Leaf)
    PROVE  mth[s] # NoRoot
<1>1. mth[s] = EmptyRoot \/ mth[s] = hashLeaf(s[1]) \/ \E a, b : mth[s] = hashNode(a, b)
  BY mthKinds
<1>2. EmptyRoot # NoRoot
  BY DEF NoRoot, EmptyRoot
<1>3. \A x : hashLeaf(x) # NoRoot
  BY DEF NoRoot, hashLeaf
<1>4. \A a, b : hashNode(a, b) # NoRoot
  BY DEF NoRoot, hashNode
<1> QED
  BY <1>1, <1>2, <1>3, <1>4

\* The verdicts of compare, once its arguments are named.
LEMMA Verdicts ==
    ASSUME NEW ours \in Seq(Leaf), NEW peer \in Seq(Leaf), NEW served,
           served = {} \/ \E t \in Seq(Leaf) : served = {t},
           NEW verdict, verdict = runCompare(CheckpointOf(ours), CheckpointOf(peer), served)
    PROVE  \/ verdict = "agree" /\ Extends(peer, ours)
           \/ verdict = "equivocation" /\ Len(peer) = Len(ours) /\ ~Comparable(peer, ours)
           \/ /\ verdict = "equivocation" /\ Len(peer) > Len(ours)
              /\ \E t \in served : ~ProofVerifies(ours, peer, t)
           \/ verdict = "inconclusive" /\ (Len(peer) < Len(ours) \/ (Len(peer) > Len(ours) /\ served = {}))
           \/ verdict = "died" /\ \E t \in served : Len(t) < Len(ours)
<1>1. ours # NoView /\ peer # NoView
  BY NoViewAssumption DEF TreeHead
<1>2. PICK i \in Nat, n \in Nat : i = Len(ours) /\ n = Len(peer)
  OBVIOUS
<1>3. PICK a, b : a = CheckpointOf(ours) /\ b = CheckpointOf(peer)
  OBVIOUS
<1>4. a.size = i /\ a.root = mth[ours] /\ b.size = n /\ b.root = mth[peer] /\ a.root # NoRoot
  BY <1>1, <1>2, <1>3, mthIsRoot DEF CheckpointOf
<1>5. PICK proofs : proofs = IF n > i /\ served # {} THEN {ConsistencyProof(t, i) : t \in served} ELSE {}
  OBVIOUS
<1>6. CASE n > i /\ \E t \in served : Len(t) < i
  BY <1>2, <1>3, <1>4, <1>6 DEF runCompare
<1>7. CASE ~(n > i /\ \E t \in served : Len(t) < i)
  <2>1. verdict = crossCheck(a, b, proofs)
    BY <1>3, <1>4, <1>5, <1>7 DEF runCompare
  <2>2. CASE n < i
    <3>1. verdict = "inconclusive"
      BY <1>4, <2>1, <2>2 DEF crossCheck
    <3> QED
      BY <1>2, <2>2, <3>1
  <2>3. CASE n = i
    <3>1. CASE mth[peer] = mth[ours]
      <4>1. verdict = "agree"
        BY <1>4, <2>1, <2>3, <3>1 DEF crossCheck
      <4>2. peer = ours
        BY <3>1, RootIsTree
      <4> QED
        BY <4>1, <4>2 DEF Extends
    <3>2. CASE mth[peer] # mth[ours]
      <4>1. verdict = "equivocation"
        BY <1>4, <2>1, <2>3, <3>2 DEF crossCheck
      <4>2. ~Comparable(peer, ours)
        BY <1>2, <2>3, <3>2, EqualLength
      <4> QED
        BY <1>2, <2>3, <4>1, <4>2
    <3> QED
      BY <3>1, <3>2
  <2>4. CASE n > i /\ served = {}
    <3>1. proofs = {} /\ ~ n < i /\ n # i
      BY <1>5, <2>4
    <3>2. verdict = "inconclusive"
      BY <1>4, <2>1, <3>1 DEF crossCheck
    <3> QED
      BY <1>2, <2>4, <3>2
  <2>5. CASE n > i /\ served # {}
    <3>1. PICK t \in Seq(Leaf) : served = {t}
      BY <2>5
    <3>2. PICK p : p = ConsistencyProof(t, i)
      OBVIOUS
    <3>3. proofs = {p} /\ ~ n < i /\ n # i
      BY <1>5, <2>5, <3>1, <3>2
    <3>4. i <= Len(t)
      BY <1>7, <2>5, <3>1
    <3>5. p \in Seq(Root)
      BY <3>2, <3>4, ConsistencyProofIsSeq
    <3>6. CASE VerifyConsistency(i, n, p, mth[ours], mth[peer])
      <4>1. verdict = "agree"
        BY <1>4, <2>1, <3>3, <3>6 DEF crossCheck
      <4>2. Extends(peer, ours)
        BY <1>2, <3>5, <3>6, ConsistencySound
      <4> QED
        BY <4>1, <4>2
    <3>7. CASE ~VerifyConsistency(i, n, p, mth[ours], mth[peer])
      <4>1. verdict = "equivocation"
        BY <1>4, <2>1, <3>3, <3>7 DEF crossCheck
      <4>2. ~ProofVerifies(ours, peer, t)
        BY <1>2, <2>5, <3>2, <3>4, <3>7, CheckIsExact
      <4> QED
        BY <1>2, <2>5, <3>1, <4>1, <4>2
    <3> QED
      BY <3>6, <3>7
  <2> QED
    BY <2>2, <2>3, <2>4, <2>5
<1> QED
  BY <1>6, <1>7

\* Without a view of its own compare has nothing to say.
LEMMA NoViewVerdict ==
    ASSUME NEW peer \in Seq(Leaf), NEW served
    PROVE  runCompare(CheckpointOf(NoView), CheckpointOf(peer), served) = "inconclusive"
BY DEF runCompare, crossCheck, CheckpointOf

\* A fork never passes he-witness compare: agreement is an extension of our view, for
\* any two checkpoints and whatever the log serves by then.  At our own size
\* "equivocation" is a fork; ahead of us it is exactly that the log's proof does not
\* lead to the peer's checkpoint, which is less than what the code's comment says.
THEOREM LogForkNeverPasses == LogSpec => []ForkNeverPasses
<1>1. LogTypeOK => ForkNeverPasses
  <2> DEFINE Fits(verdict, ours, peer, served, i, n) ==
                 \/ verdict = "agree" /\ ours # NoView /\ Extends(peer, ours)
                 \/ verdict = "equivocation" /\ n = i /\ ~Comparable(peer, ours)
                 \/ verdict = "equivocation" /\ n > i /\ \E t \in served : ~ProofVerifies(ours, peer, t)
                 \/ verdict = "inconclusive" /\ (ours = NoView \/ n < i \/ (n > i /\ served = {}))
                 \/ verdict = "died" /\ \E t \in served : Len(t) < i
  <2>0. SUFFICES ASSUME LogTypeOK, NEW j \in Log, NEW k \in Log, NEW i \in 0..Len(leaves[j]),
                        NEW n \in 0..Len(leaves[k]),
                        NEW ours \in {NoView, First(leaves[j], i)},
                        NEW served \in {{}} \cup { {leaves[l]} : l \in Log }
                 PROVE  Fits(runCompare(CheckpointOf(ours), CheckpointOf(First(leaves[k], n)), served),
                             ours, First(leaves[k], n), served, i, n)
    BY Zenon DEF ForkNeverPasses
  <2>1. PICK peer, verdict : /\ peer = First(leaves[k], n)
                             /\ verdict = runCompare(CheckpointOf(ours), CheckpointOf(peer), served)
    OBVIOUS
  <2>2. leaves[j] \in Seq(Leaf) /\ leaves[k] \in Seq(Leaf)
    BY <2>0 DEF LogTypeOK
  <2>3. peer \in Seq(Leaf) /\ Len(peer) = n
    BY <2>1, <2>2, FirstRest
  <2>4. ASSUME ours = NoView
        PROVE  Fits(verdict, ours, peer, served, i, n)
    <3>1. verdict = "inconclusive"
      BY <2>1, <2>3, <2>4, NoViewVerdict
    <3> QED
      BY <2>4, <3>1
  <2>5. ASSUME ours = First(leaves[j], i)
        PROVE  Fits(verdict, ours, peer, served, i, n)
    <3>1. ours \in Seq(Leaf) /\ Len(ours) = i
      BY <2>2, <2>5, FirstRest
    <3>2. served = {} \/ \E t \in Seq(Leaf) : served = {t}
      BY <2>0 DEF LogTypeOK
    <3>3. \/ verdict = "agree" /\ Extends(peer, ours)
          \/ verdict = "equivocation" /\ n = i /\ ~Comparable(peer, ours)
          \/ verdict = "equivocation" /\ n > i /\ \E t \in served : ~ProofVerifies(ours, peer, t)
          \/ verdict = "inconclusive" /\ (n < i \/ (n > i /\ served = {}))
          \/ verdict = "died" /\ \E t \in served : Len(t) < i
      BY <2>1, <2>3, <3>1, <3>2, Verdicts
    <3>4. ours # NoView
      BY <3>1, NoViewAssumption DEF TreeHead
    <3> QED
      BY <3>3, <3>4
  <2>6. Fits(verdict, ours, peer, served, i, n)
    BY <2>4, <2>5
  <2> QED
    BY <2>1, <2>6
<1> QED
  BY <1>1, LogTypeCorrect, PTL

\* The witnesses' model is right about every check it makes: ProofVerifies is what
\* VerifyConsistency computes, for trees of every size.
THEOREM LogProofVerifies == LogSpec => []ProofVerifiesIsTheCheck
<1>1. LogTypeOK => ProofVerifiesIsTheCheck
  <2>1. SUFFICES ASSUME LogTypeOK, NEW j \in Log, NEW k \in Log, NEW new, NEW served,
                        new = leaves[j], served = leaves[k], new # <<>>,
                        NEW old \in BoundedSeq(Leaf, Len(new) - 1), Len(old) <= Len(served)
                 PROVE  ProofVerifies(old, new, served) <=>
                            VerifyConsistency(Len(old), Len(new), ConsistencyProof(served, Len(old)),
                                              mth[old], mth[new])
    BY DEF ProofVerifiesIsTheCheck
  <2>2. new \in Seq(Leaf) /\ served \in Seq(Leaf)
    BY <2>1 DEF LogTypeOK
  <2>3. old \in Seq(Leaf)
    BY BoundedSeqIsSeq
  <2>4. Len(new) - 1 \in Int /\ Len(new) \in Nat /\ Len(old) \in Nat
    BY <2>2, <2>3
  <2>5. Len(old) <= Len(new) - 1
    BY <2>4, BoundedLength
  <2>6. Len(old) < Len(new)
    BY <2>4, <2>5
  <2> QED
    BY <2>1, <2>2, <2>3, <2>6, CheckIsExact
<1> QED
  BY <1>1, LogTypeCorrect, PTL

-----------------------------------------------------------------------------
(* The anchor. *)

\* The head shows every leaf that an anchored checkpoint shows.
Anchored(m, r) ==
    /\ m \in Nat /\ 1 <= m /\ m <= latestSize
    /\ \A i \in Nat : \A x : i < m /\ Shows(i, m, x, r) => Shows(i, latestSize, x, latestRoot)

\* The inductive invariant of the anchor: its head keeps every anchored checkpoint.
AnchorInv ==
    /\ latestSize \in Nat
    /\ latestSize # 0 => <<latestSize, latestRoot>> \in anchored
    /\ \A m, r : <<m, r>> \in anchored => Anchored(m, r)
    /\ \A x \in anchored : \E m, r : x = <<m, r>>

\* It holds in a contract that has just been deployed.
LEMMA AnchorInitInv == AnchorInit => AnchorInv
BY DEF AnchorInit, AnchorInv

\* anchor keeps it: an accepted proof links the old head and the new one.
LEMMA AnchorNextInv == AnchorInv /\ [AnchorNext]_anchorVars => AnchorInv'
<1> SUFFICES ASSUME AnchorInv, [AnchorNext]_anchorVars PROVE AnchorInv'
  OBVIOUS
<1>1. CASE UNCHANGED anchorVars
  BY <1>1 DEF AnchorInv, Anchored, anchorVars
<1>2. CASE AnchorNext
  <2>1. PICK size \in 1..MaxAnchor, root \in Roots :
            \E proof \in Proofs(size, root) : anchor(size, root, proof)
    BY <1>2 DEF AnchorNext
  <2>2. PICK proof \in Proofs(size, root) : anchor(size, root, proof)
    BY <2>1
  <2>3. /\ size > latestSize /\ latestSize' = size /\ latestRoot' = root
        /\ anchored' = anchored \cup {<<size, root>>}
        /\ latestSize # 0 => VerifyConsistency(latestSize, size, proof, latestRoot, root)
    BY <2>2 DEF anchor
  <2>4. size \in Nat /\ size >= 1 /\ latestSize \in Nat
    BY FromOne DEF AnchorInv
  <2>5. PICK H : proof \in Seq(H)
    BY ProofIsSeq
  <2>6. ASSUME NEW m, NEW r, <<m, r>> \in anchored, NEW i \in Nat, NEW x, i < m, Shows(i, m, x, r)
        PROVE  Shows(i, size, x, root) /\ m \in Nat /\ 1 <= m /\ m <= size
    <3>1. Anchored(m, r)
      BY <2>6 DEF AnchorInv
    <3>2. m \in Nat /\ 1 <= m /\ m <= latestSize /\ Shows(i, latestSize, x, latestRoot)
      BY <2>6, <3>1 DEF Anchored
    <3>3. i < latestSize /\ 0 < latestSize /\ latestSize < size /\ m <= size /\ latestSize # 0
      BY <2>3, <2>4, <2>6, <3>2
    <3>4. Links(latestSize, size, latestRoot, root)
      BY <2>3, <2>4, <2>5, <3>3, VerifiedIsLinked
    <3>5. Within(latestSize, size)
      BY <2>4, <3>3 DEF Within
    <3>6. Shows(i, size, x, root)
      BY <2>4, <3>2, <3>3, <3>4, <3>5, ShownKept
    <3> QED
      BY <3>2, <3>3, <3>6
  <2>7. \A m, r : <<m, r>> \in anchored' => Anchored(m, r)'
    <3>1. SUFFICES ASSUME NEW m, NEW r, <<m, r>> \in anchored'
                   PROVE  /\ m \in Nat /\ 1 <= m /\ m <= size
                          /\ \A i \in Nat : \A x : i < m /\ Shows(i, m, x, r) => Shows(i, size, x, root)
      BY <2>3 DEF Anchored
    <3>2. CASE <<m, r>> \in anchored
      <4>1. m \in Nat /\ 1 <= m /\ m <= latestSize
        BY <3>2 DEF AnchorInv, Anchored
      <4>2. m <= size
        BY <2>3, <2>4, <4>1
      <4> QED
        BY <2>6, <3>2, <4>1, <4>2
    <3>3. CASE <<m, r>> = <<size, root>>
      <4>1. m = size /\ r = root
        BY <3>3
      <4> QED
        BY <2>4, <4>1
    <3> QED
      BY <2>3, <3>1, <3>2, <3>3
  <2>8. \A x \in anchored' : \E m, r : x = <<m, r>>
    BY <2>3 DEF AnchorInv
  <2> QED
    BY <2>3, <2>4, <2>7, <2>8 DEF AnchorInv
<1> QED
  BY <1>1, <1>2

\* Two anchored checkpoints whose trees are known are of one growing tree.
LEMMA OneTree ==
    ASSUME AnchorInv, NEW s \in Seq(Leaf), NEW t \in Seq(Leaf), Len(s) <= Len(t),
           <<Len(s), mth[s]>> \in anchored, <<Len(t), mth[t]>> \in anchored
    PROVE  Extends(t, s)
<1>1. latestSize \in Nat /\ Anchored(Len(s), mth[s]) /\ Anchored(Len(t), mth[t])
  BY DEF AnchorInv
<1>2. ASSUME NEW i \in 1..Len(s)
      PROVE  t[i] = s[i]
  <2>1. PICK j \in Nat : j = i - 1 /\ j + 1 = i /\ j < Len(s) /\ j < Len(t) /\ j < latestSize
    BY <1>1 DEF Anchored
  <2>2. j \in 0..(Len(s) - 1) /\ j \in 0..(Len(t) - 1) /\ j \in 0..(latestSize - 1)
    BY <1>1, <2>1
  <2>3. Shows(j, Len(s), hashLeaf(s[j + 1]), mth[s]) /\ Shows(j, Len(t), hashLeaf(t[j + 1]), mth[t])
    BY <2>2, TreeShows
  <2>4. /\ Shows(j, latestSize, hashLeaf(s[j + 1]), latestRoot)
        /\ Shows(j, latestSize, hashLeaf(t[j + 1]), latestRoot)
    BY <1>1, <2>1, <2>3 DEF Anchored
  <2>5. hashLeaf(s[j + 1]) = hashLeaf(t[j + 1])
    BY <1>1, <2>2, <2>4, ShowsUnique
  <2> QED
    BY <2>1, <2>5, HashesFree
<1> QED
  BY <1>2 DEF Extends

\* However anchor is called, with whatever proofs, two checkpoints that the contract
\* has accepted and whose trees are known are of one tree: the later extends the
\* earlier (HonestEarCheckpointAnchor.anchor).
THEOREM AnchorLedger == AnchorSpec => []LedgerIsAppendOnly
<1>1. AnchorInv => LedgerIsAppendOnly
  <2> SUFFICES ASSUME AnchorInv, NEW x \in anchored, NEW y \in anchored, NEW s \in Trees, NEW t \in Trees,
                      <<Len(s), mth[s]>> = x, <<Len(t), mth[t]>> = y
               PROVE  Comparable(s, t)
    BY DEF LedgerIsAppendOnly
  <2>1. s \in Seq(Leaf) /\ t \in Seq(Leaf)
    BY BoundedSeqIsSeq DEF Trees
  <2>2. Len(s) <= Len(t) \/ Len(t) <= Len(s)
    BY <2>1
  <2> QED
    BY <2>1, <2>2, OneTree DEF Comparable
<1> QED
  BY <1>1, AnchorInitInv, AnchorNextInv, PTL DEF AnchorSpec

-----------------------------------------------------------------------------
(* Quorum and co-attestation.  A loop over the bundles in some order is described by the set of
   the bundles it has passed. *)

\* The enrolled names.
RootNames == {roots[i].name : i \in DOMAIN roots}

\* The names that one bundle votes for.
Voters(b) == {roots[i].name : i \in {j \in matchKeyHex(b) : verify(b, {roots[j].key})}}

\* The votes that quorumCore may have collected: bundles from B by name.
VoteMaps(B) == UNION {[N -> B] : N \in SUBSET RootNames}

\* The body of the loop of quorumCore, and its one turn.
PassedBody(inputs, g, i) ==
    IF i = 0 THEN [n \in {} |-> 0]
    ELSE IF Parses(inputs[i]) THEN vote(g[i - 1], inputs[i])
    ELSE g[i - 1]

Turn(f, b) == IF Parses(b) THEN vote(f, b) ELSE f

\* A turn adds the names that the bundle votes for and leaves the others.
LEMMA voteAdds ==
    ASSUME NEW f, NEW b
    PROVE  vote(f, b) = [n \in DOMAIN f \cup Voters(b) |-> IF n \in DOMAIN f THEN f[n] ELSE b]
BY DEF vote, Voters

\* Only enrolled names have votes.
LEMMA VotersEnrolled == \A b : Voters(b) \subseteq RootNames
BY DEF Voters, RootNames, matchKeyHex

\* A turn keeps the type of the votes.
LEMMA TurnType ==
    ASSUME NEW B, NEW f \in VoteMaps(B), NEW b \in B
    PROVE  Turn(f, b) \in VoteMaps(B)
<1>1. PICK N \in SUBSET RootNames : f \in [N -> B]
  BY DEF VoteMaps
<1>2. N \cup Voters(b) \in SUBSET RootNames
  BY VotersEnrolled
<1>3. vote(f, b) \in [N \cup Voters(b) -> B]
  BY <1>1, voteAdds
<1> QED
  BY <1>2, <1>3 DEF VoteMaps, Turn

\* The loop of quorumCore is a loop: one turn for each input.
LEMMA passedDef ==
    ASSUME NEW inputs
    PROVE  /\ passed(inputs)[0] = [n \in {} |-> 0]
           /\ \A i \in Nat : passed(inputs)[i + 1] = Turn(passed(inputs)[i], inputs[i + 1])
<1> DEFINE B == {inputs[i] : i \in Nat}
           V == VoteMaps(B)
           v == [n \in {} |-> 0]
           F == [p \in V \X Nat |-> Turn(p[1], inputs[p[2]])]
<1>1. v \in V
  <2>1. v \in [{} -> B]
    OBVIOUS
  <2> QED
    BY <2>1 DEF VoteMaps
<1>2. F \in [V \X Nat -> V]
  <2>1. ASSUME NEW p \in V \X Nat PROVE Turn(p[1], inputs[p[2]]) \in V
    <3>1. p[1] \in VoteMaps(B) /\ inputs[p[2]] \in B
      OBVIOUS
    <3> HIDE DEF B
    <3> QED
      BY <3>1, TurnType
  <2> HIDE DEF V
  <2> QED
    BY <2>1
<1>3. \A g \in V, i \in Nat : F[<<g, i>>] = Turn(g, inputs[i])
  OBVIOUS
<1> HIDE DEF V, F, v
<1>4a. PICK f : IsLoop(V, v, F, f)
  BY <1>1, <1>2, Loop
<1>4. f \in [Nat -> V] /\ f[0] = v /\ \A i \in Nat : f[i + 1] = F[<<f[i], i + 1>>]
  BY <1>4a DEF IsLoop
<1>5. ASSUME NEW i \in Nat PROVE f[i] = PassedBody(inputs, f, i)
  <2>1. CASE i = 0
    BY <2>1, <1>4 DEF PassedBody, v
  <2>2. CASE i # 0
    <3>1. i - 1 \in Nat /\ (i - 1) + 1 = i
      BY <2>2
    <3>2. f[(i - 1) + 1] = Turn(f[i - 1], inputs[(i - 1) + 1])
      BY <1>4, <1>3, <3>1
    <3>3. f[i] = Turn(f[i - 1], inputs[i])
      BY <3>1, <3>2
    <3> QED
      BY <3>3, <2>2 DEF PassedBody, Turn
  <2> QED
    BY <2>1, <2>2
<1>6. f = [i \in Nat |-> PassedBody(inputs, f, i)]
  BY <1>4, <1>5
<1>7. \E g : g = [i \in Nat |-> PassedBody(inputs, g, i)]
  BY <1>6
<1> DEFINE q == passed(inputs)
<1>8. q = [i \in Nat |-> PassedBody(inputs, q, i)]
  BY <1>7 DEF passed, PassedBody
<1> HIDE DEF q
<1>9. \A i \in Nat : q[i] = PassedBody(inputs, q, i)
  BY <1>8
<1>10. q[0] = [n \in {} |-> 0]
  BY <1>9 DEF PassedBody
<1>11. ASSUME NEW i \in Nat PROVE q[i + 1] = Turn(q[i], inputs[i + 1])
  <2>1. i + 1 \in Nat /\ i + 1 # 0 /\ (i + 1) - 1 = i
    OBVIOUS
  <2>2. q[i + 1] = PassedBody(inputs, q, i + 1)
    BY <1>9, <2>1
  <2> QED
    BY <2>1, <2>2 DEF PassedBody, Turn
<1> QED
  BY <1>10, <1>11 DEF q

\* Bundle b is a vote of name n.
Cast(b, n) == Parses(b) /\ n \in Voters(b)

\* f is a result of the loop on the set S of inputs: it has the names with a vote
\* in S, each with one of its votes.
IsVote(S, f) ==
    /\ \A n : n \in DOMAIN f <=> \E b \in S : Cast(b, n)
    /\ \A n \in DOMAIN f : f[n] \in S /\ Cast(f[n], n)

\* One turn, in terms of the set of the inputs so far.
LEMMA TurnVotes ==
    ASSUME NEW S, NEW f, NEW b, IsVote(S, f)
    PROVE  IsVote(S \cup {b}, Turn(f, b))
<1>1. CASE ~ Parses(b)
  BY <1>1 DEF IsVote, Turn, Cast
<1>2. CASE Parses(b)
  <2> DEFINE g == Turn(f, b)
  <2>1. g = [n \in DOMAIN f \cup Voters(b) |-> IF n \in DOMAIN f THEN f[n] ELSE b]
    BY <1>2, voteAdds DEF Turn
  <2>2. DOMAIN g = DOMAIN f \cup Voters(b)
    BY <2>1
  <2>3. \A n \in DOMAIN g : g[n] = IF n \in DOMAIN f THEN f[n] ELSE b
    BY <2>1
  <2> HIDE DEF g
  <2>4. ASSUME NEW n PROVE n \in DOMAIN g <=> \E c \in S \cup {b} : Cast(c, n)
    BY <1>2, <2>2 DEF IsVote, Cast
  <2>5. ASSUME NEW n \in DOMAIN g PROVE g[n] \in S \cup {b} /\ Cast(g[n], n)
    BY <1>2, <2>2, <2>3 DEF IsVote, Cast
  <2>6. IsVote(S \cup {b}, g)
    BY <2>4, <2>5 DEF IsVote
  <2> QED
    BY <2>6 DEF g
<1> QED
  BY <1>1, <1>2

\* The first i elements.
Firsts(s, i) == {s[j] : j \in 1..i}

\* The first i + 1 elements.
LEMMA FirstsStep ==
    \A s : Firsts(s, 0) = {} /\ \A i \in Nat : Firsts(s, i + 1) = Firsts(s, i) \cup {s[i + 1]}
<1> SUFFICES ASSUME NEW s
             PROVE  Firsts(s, 0) = {} /\ \A i \in Nat : Firsts(s, i + 1) = Firsts(s, i) \cup {s[i + 1]}
  OBVIOUS
<1>1. Firsts(s, 0) = {}
  BY DEF Firsts
<1>2. ASSUME NEW i \in Nat PROVE Firsts(s, i + 1) = Firsts(s, i) \cup {s[i + 1]}
  <2>1. 1..(i + 1) = (1..i) \cup {i + 1}
    OBVIOUS
  <2> QED
    BY <2>1 DEF Firsts
<1> QED
  BY <1>1, <1>2

\* After i turns the votes are those of the first i inputs, whatever their order.
LEMMA passedVotes ==
    ASSUME NEW inputs
    PROVE  \A i \in Nat : IsVote(Firsts(inputs, i), passed(inputs)[i])
<1> DEFINE T == {i \in Nat : IsVote(Firsts(inputs, i), passed(inputs)[i])}
<1>1. 0 \in T
  <2>1. DOMAIN passed(inputs)[0] = {}
    BY passedDef
  <2>2. Firsts(inputs, 0) = {}
    BY FirstsStep
  <2> QED
    BY <2>1, <2>2 DEF IsVote
<1>2. ASSUME NEW i \in Nat, i \in T PROVE i + 1 \in T
  <2>1. IsVote(Firsts(inputs, i) \cup {inputs[i + 1]}, Turn(passed(inputs)[i], inputs[i + 1]))
    BY <1>2, TurnVotes
  <2>2. passed(inputs)[i + 1] = Turn(passed(inputs)[i], inputs[i + 1])
    BY passedDef
  <2>3. Firsts(inputs, i + 1) = Firsts(inputs, i) \cup {inputs[i + 1]}
    BY FirstsStep
  <2>4. IsVote(Firsts(inputs, i + 1), passed(inputs)[i + 1])
    BY <2>1, <2>2, <2>3
  <2>5. i + 1 \in Nat
    OBVIOUS
  <2> QED
    BY <2>4, <2>5
<1>3. \A i \in Nat : i \in T
  <2> HIDE DEF T
  <2> QED
    BY <1>1, <1>2, Induction
<1> QED
  BY <1>3

\* s lists the elements of S, each at least once.
Lists(s, S) == s \in Seq(S) /\ \A b \in S : \E i \in 1..Len(s) : s[i] = b

\* All of a list is its set.
LEMMA ListsFirsts == \A s, S : Lists(s, S) => Len(s) \in Nat /\ Firsts(s, Len(s)) = S
<1> SUFFICES ASSUME NEW S, NEW s \in Seq(S), \A b \in S : \E i \in 1..Len(s) : s[i] = b
             PROVE  Len(s) \in Nat /\ Firsts(s, Len(s)) = S
  BY DEF Lists
<1>1. Len(s) \in Nat /\ \A i \in 1..Len(s) : s[i] \in S
  OBVIOUS
<1> QED
  BY <1>1 DEF Firsts

\* The result of the loop depends on which bundles are given, but for the choice
\* among the votes of one name.
LEMMA votesOfIsVote ==
    ASSUME NEW S, NEW s, Lists(s, S)
    PROVE  IsVote(S, votesOf(s))
BY ListsFirsts, passedVotes DEF votesOf

\* An order of the bundles, and the one that SetToSeq picks, list them.
LEMMA OrderLists ==
    ASSUME NEW S, IsFiniteSet(S)
    PROVE  \A s \in SetToSeqs(S) : Lists(s, S)
<1> SUFFICES ASSUME NEW s \in SetToSeqs(S) PROVE Lists(s, S)
  OBVIOUS
<1> DEFINE n == Cardinality(S)
<1>1. n \in Nat
  BY FS_CardinalityType
<1>2. s \in [1..n -> S] /\ \A i, j \in 1..n : i # j => s[i] # s[j]
  BY DEF SetToSeqs
<1> HIDE DEF n
<1>3. s \in Injection(1..n, S)
  BY <1>2 DEF Injection, IsInjective
<1>4. Cardinality(1..n) = n
  <2>1. Cardinality(1..n) = IF 1 > n THEN 0 ELSE n - 1 + 1
    BY <1>1, FS_Interval
  <2> QED
    BY <1>1, <2>1
<1>5. s \in Surjection(1..n, S)
  BY <1>3, <1>4, FS_Injection DEF n
<1>6. s \in Seq(S) /\ Len(s) = n
  BY <1>1, <1>2, SeqOfFunction
<1> QED
  BY <1>5, <1>6 DEF Lists, Surjection

\* The order that the model takes for the directory's is one of the orders.
LEMMA SetToSeqIsOrder ==
    ASSUME NEW S, IsFiniteSet(S)
    PROVE  SetToSeq(S) \in SetToSeqs(S)
<1> DEFINE n == Cardinality(S)
<1>1. PICK f : f \in Bijection(1..n, S)
  BY FS_CardinalityType DEF ExistsBijection
<1>2. f \in [1..n -> S] /\ IsInjective(f)
  BY <1>1 DEF Bijection, Injection
<1>3. SetToSeq(S) \in [1..n -> S] /\ IsInjective(SetToSeq(S))
  BY <1>2 DEF SetToSeq
<1> QED
  BY <1>3 DEF SetToSeqs, IsInjective

\* A list given twice is a list of the same bundles.
LEMMA ListsTwice ==
    ASSUME NEW S, NEW s, NEW t, Lists(s, S), Lists(t, S)
    PROVE  Lists(s \o t, S)
<1>1. s \in Seq(S) /\ t \in Seq(S) /\ \A b \in S : \E i \in 1..Len(s) : s[i] = b
  BY DEF Lists
<1>2. s \o t \in Seq(S)
  BY <1>1
<1>3. ASSUME NEW b \in S PROVE \E i \in 1..Len(s \o t) : (s \o t)[i] = b
  <2>1. PICK i \in 1..Len(s) : s[i] = b
    BY <1>1
  <2>2. i \in 1..Len(s \o t) /\ (s \o t)[i] = s[i]
    BY <1>1
  <2> QED
    BY <2>1, <2>2
<1> QED
  BY <1>2, <1>3 DEF Lists

\* The inductive invariant: the types of the roots and of the bundles.
QuorumInv ==
    /\ IsFiniteSet(bundles)
    /\ \E n \in Nat : roots \in [1..n -> [name : Name, key : Key]]

\* The roots are a list.
LEMMA RootsType == QuorumInv => Len(roots) \in Nat /\ DOMAIN roots = 1..Len(roots)
BY SeqOfFunction DEF QuorumInv

\* A bundle that votes for a name verifies under the key that the first root with
\* this key has, and no other name has a vote of the same key.
LEMMA VotersVerify ==
    ASSUME NEW b, NEW n \in Voters(b)
    PROVE  /\ b.pub \in Enrolled /\ b.signer = b.pub /\ b.lowS /\ b.nonce
           /\ b.counter > LastCounter /\ verify(b, Enrolled)
<1>1. PICK i \in DOMAIN roots : roots[i].key = b.pub /\ verify(b, {roots[i].key})
  BY DEF Voters, matchKeyHex
<1>2. b.pub \in Enrolled
  BY <1>1 DEF Enrolled
<1> QED
  BY <1>1, <1>2 DEF verify, gates

\* Two roots of one key: the first is taken.
LEMMA OneOwner ==
    ASSUME QuorumInv, NEW b, NEW n \in Voters(b)
    PROVE  {roots[i].name : i \in matchKeyHex(b)} = {n}
<1>1. PICK i \in matchKeyHex(b) : n = roots[i].name
  BY DEF Voters
<1>2. \A j \in DOMAIN roots : j \in Nat
  BY RootsType
<1>3. ASSUME NEW j \in matchKeyHex(b) PROVE j = i
  <2>1. i \in DOMAIN roots /\ j \in DOMAIN roots /\ i <= j /\ j <= i
    BY DEF matchKeyHex
  <2> QED
    BY <2>1, <1>2
<1> QED
  BY <1>1, <1>3

\* One key votes for one name.
LEMMA OneKeyOneName ==
    ASSUME QuorumInv, NEW b, NEW c, b.pub = c.pub, NEW m \in Voters(b), NEW n \in Voters(c)
    PROVE  m = n
<1>1. matchKeyHex(b) = matchKeyHex(c)
  BY DEF matchKeyHex
<1>2. {roots[i].name : i \in matchKeyHex(b)} = {m} /\ {roots[i].name : i \in matchKeyHex(c)} = {n}
  BY OneOwner
<1>3. {roots[i].name : i \in matchKeyHex(b)} = {roots[i].name : i \in matchKeyHex(c)}
  BY <1>1
<1> QED
  BY <1>2, <1>3

\* The keys that signed a valid bundle of event e.
Signers(e) ==
    { b.pub : b \in { c \in Parsed :
        c.pub \in Enrolled /\ c.signer = c.pub /\ c.lowS /\ c.nonce
        /\ c.counter > LastCounter /\ EventName(c) = e } }

\* The keys of an event are finitely many.
LEMMA KeysFinite ==
    \A S : IsFiniteSet(S) => IsFiniteSet({b.pub : b \in S})
<1> SUFFICES ASSUME NEW S, IsFiniteSet(S) PROVE IsFiniteSet({b.pub : b \in S})
  OBVIOUS
<1> DEFINE f == [b \in S |-> b.pub]
<1>1. f \in Surjection(S, {b.pub : b \in S})
  BY DEF Surjection
<1> QED
  BY <1>1, FS_Surjection

\* The names with a vote for an event are as many as the keys that signed for it.
LEMMA KeysOfVotes ==
    ASSUME QuorumInv, NEW f, IsVote(bundles, f), NEW K, IsFiniteSet(K),
           \A n \in DOMAIN f : f[n].pub \in K
    PROVE  /\ IsFiniteSet(DOMAIN f)
           /\ Cardinality(DOMAIN f) \in Nat
           /\ Cardinality(K) \in Nat
           /\ Cardinality(DOMAIN f) <= Cardinality(K)
<1> DEFINE g == [n \in DOMAIN f |-> f[n].pub]
<1>1. g \in [DOMAIN f -> K]
  OBVIOUS
<1>2. ASSUME NEW m \in DOMAIN f, NEW n \in DOMAIN f, g[m] = g[n] PROVE m = n
  <2>1. m \in Voters(f[m]) /\ n \in Voters(f[n])
    BY DEF IsVote, Cast
  <2>2. f[m].pub = f[n].pub
    BY <1>2
  <2> QED
    BY <2>1, <2>2, OneKeyOneName
<1>3. g \in Injection(DOMAIN f, K)
  BY <1>1, <1>2 DEF Injection, IsInjective
<1>4. IsFiniteSet(DOMAIN f) /\ Cardinality(DOMAIN f) <= Cardinality(K)
  BY <1>3, FS_Injection
<1> QED
  BY <1>4, FS_CardinalityType

\* The events that have votes are finitely many.
LEMMA EventsFinite ==
    ASSUME NEW f, IsFiniteSet(DOMAIN f)
    PROVE  IsFiniteSet({EventName(f[n]) : n \in DOMAIN f})
<1> DEFINE g == [n \in DOMAIN f |-> EventName(f[n])]
<1>1. g \in Surjection(DOMAIN f, {EventName(f[n]) : n \in DOMAIN f})
  BY DEF Surjection
<1> QED
  BY <1>1, FS_Surjection

\* quorumCore reports an event that the most keys have signed for, and how many.
LEMMA DecideIsKeys ==
    ASSUME QuorumInv, NEW f, IsVote(bundles, f), NEW k \in Nat, NEW e \in Decide(f, k)
    PROVE  Cardinality(Signers(e)) >= k
<1>1. IsFiniteSet(bundles)
  BY DEF QuorumInv
<1>2. {c \in Parsed :
        c.pub \in Enrolled /\ c.signer = c.pub /\ c.lowS /\ c.nonce
        /\ c.counter > LastCounter /\ EventName(c) = e} \subseteq bundles
  BY DEF Parsed
<1>3. IsFiniteSet(Signers(e))
  BY <1>1, <1>2, FS_Subset, KeysFinite DEF Signers
<1>4. IsFiniteSet(DOMAIN f)
  <2>1. IsFiniteSet({b.pub : b \in bundles})
    BY <1>1, KeysFinite
  <2>2. \A n \in DOMAIN f : f[n].pub \in {b.pub : b \in bundles}
    BY DEF IsVote
  <2>3. PICK K : K = {b.pub : b \in bundles}
    OBVIOUS
  <2> QED
    BY <2>1, <2>2, <2>3, KeysOfVotes
<1>5. PICK events : events = {EventName(f[n]) : n \in DOMAIN f}
  OBVIOUS
<1>6. e \in events /\ Cardinality(events) = 1 /\ Cardinality(DOMAIN f) >= k
  BY <1>5 DEF Decide
<1>7. events = {e}
  BY <1>4, <1>5, <1>6, EventsFinite, FS_Singleton
<1>8. ASSUME NEW n \in DOMAIN f PROVE f[n].pub \in Signers(e)
  <2>1. f[n] \in bundles /\ Parses(f[n]) /\ n \in Voters(f[n])
    BY DEF IsVote, Cast
  <2>2. EventName(f[n]) = e
    BY <1>5, <1>7
  <2>3. f[n] \in Parsed
    BY <2>1 DEF Parsed
  <2>4. /\ f[n].pub \in Enrolled /\ f[n].signer = f[n].pub /\ f[n].lowS /\ f[n].nonce
        /\ f[n].counter > LastCounter
    BY <2>1, VotersVerify
  <2> QED
    BY <2>2, <2>3, <2>4 DEF Signers
<1>9. PICK K : K = Signers(e)
  OBVIOUS
<1>10. /\ Cardinality(DOMAIN f) \in Nat /\ Cardinality(K) \in Nat
       /\ Cardinality(DOMAIN f) <= Cardinality(K)
  BY <1>3, <1>8, <1>9, KeysOfVotes
<1> QED
  BY <1>6, <1>9, <1>10

\* The number of witnesses is the number of keys.
LEMMA WitnessesAreKeys ==
    ASSUME QuorumInv,
           \A i, j \in DOMAIN roots : roots[i].key = roots[j].key => roots[i].name = roots[j].name
    PROVE  Cardinality(VerifyCheckpointWitnesses(bundles)) <=
              Cardinality({ c.pub : c \in { d \in bundles : d.signer = d.pub /\ d.nonce } })
<1>1. PICK K : K = { c.pub : c \in { d \in bundles : d.signer = d.pub /\ d.nonce } }
  OBVIOUS
<1>2. PICK W : W = VerifyCheckpointWitnesses(bundles)
  OBVIOUS
<1>3. IsFiniteSet(K)
  <2>1. { d \in bundles : d.signer = d.pub /\ d.nonce } \subseteq bundles
    OBVIOUS
  <2>2. IsFiniteSet({ d \in bundles : d.signer = d.pub /\ d.nonce })
    BY <2>1, FS_Subset DEF QuorumInv
  <2> QED
    BY <1>1, <2>2, KeysFinite
<1> DEFINE Holds(n, k) == \E i \in DOMAIN roots : roots[i].name = n /\ roots[i].key = k
           g == [n \in W |-> CHOOSE k \in K : Holds(n, k)]
<1>4. ASSUME NEW n \in W PROVE \E k \in K : Holds(n, k)
  BY <1>1, <1>2 DEF VerifyCheckpointWitnesses
<1>5. \A m, n, k : Holds(m, k) /\ Holds(n, k) => m = n
  OBVIOUS
<1> HIDE DEF Holds
<1>6. \A n \in W : g[n] \in K /\ Holds(n, g[n])
  BY <1>4
<1>7. g \in [W -> K]
  BY <1>6
<1>8. \A m, n \in W : g[m] = g[n] => m = n
  BY <1>5, <1>6
<1>9. g \in Injection(W, K)
  BY <1>7, <1>8 DEF Injection, IsInjective
<1> HIDE DEF g
<1>10. Cardinality(W) <= Cardinality(K)
  BY <1>3, <1>9, FS_Injection
<1> QED
  BY <1>1, <1>2, <1>10

\* The property in every state of the invariant.
LEMMA DistinctKeys == QuorumInv => QuorumIsDistinctKeys
<1> SUFFICES ASSUME QuorumInv PROVE QuorumIsDistinctKeys
  OBVIOUS
<1>1. ASSUME NEW order \in SetToSeqs(bundles), NEW k \in 1..Len(roots),
             NEW e \in Decide(votesOf(order), k)
      PROVE  Cardinality(Signers(e)) >= k
  <2>1. k \in Nat
    BY RootsType
  <2>2. IsFiniteSet(bundles)
    BY DEF QuorumInv
  <2>3. PICK S : S = bundles
    OBVIOUS
  <2>4. Lists(order, S)
    BY <2>2, <2>3, OrderLists
  <2>5. PICK f : f = votesOf(order)
    OBVIOUS
  <2>6. IsVote(bundles, f)
    BY <2>3, <2>4, <2>5, votesOfIsVote
  <2>7. e \in Decide(f, k)
    BY <2>5
  <2> QED
    BY <2>1, <2>6, <2>7, DecideIsKeys
<1> QED
  BY <1>1, WitnessesAreKeys DEF QuorumIsDistinctKeys, Signers

\* The invariant is one.
LEMMA QuorumInvariant == QuorumSpec => []QuorumInv
<1>1. QuorumInit => QuorumInv
  <2> SUFFICES ASSUME QuorumInit PROVE QuorumInv
    OBVIOUS
  <2>1. IsFiniteSet(bundles)
    BY FS_EmptySet DEF QuorumInit
  <2>2. PICK n \in 1..MaxBundles : roots \in [1..n -> [name : Name, key : Key]]
    BY DEF QuorumInit
  <2>3. n \in Nat
    BY QuorumAssumption
  <2> QED
    BY <2>1, <2>2, <2>3 DEF QuorumInv
<1>2. QuorumInv /\ [QuorumNext]_quorumVars => QuorumInv'
  <2> SUFFICES ASSUME QuorumInv, [QuorumNext]_quorumVars PROVE QuorumInv'
    OBVIOUS
  <2>1. CASE UNCHANGED quorumVars
    BY <2>1 DEF QuorumInv, quorumVars
  <2>2. ASSUME NEW b \in Handed, Hand(b) PROVE QuorumInv'
    <3>1. IsFiniteSet(bundles \cup {b})
      BY FS_AddElement DEF QuorumInv
    <3> QED
      BY <2>2, <3>1 DEF QuorumInv, Hand
  <2> QED
    BY <2>1, <2>2 DEF QuorumNext
<1> QED
  BY <1>1, <1>2, PTL DEF QuorumSpec

\* he-quorum's count, reached by voting names in directory order, is the number of
\* distinct enrolled keys with a valid bundle for the event (quorumCore), for every set of
\* roots and bundles, repeated roots and shared names included.
THEOREM QuorumKeys == QuorumSpec => []QuorumIsDistinctKeys
BY QuorumInvariant, DistinctKeys, PTL

\* The names of the roots that a bundle matches.
owners(b) == { roots[i].name : i \in matchKeyHex(b) }

\* No root's name is behind two valid bundles that name different events.
oneVoices ==
    \A b, c \in { d \in Parsed : verify(d, Enrolled) } :
        owners(b) = owners(c) => EventName(b) = EventName(c)

\* Two results of the loop with the same events by name decide alike.
LEMMA DecideSame ==
    ASSUME QuorumInv, oneVoices, NEW f, NEW g, IsVote(bundles, f), IsVote(bundles, g), NEW k
    PROVE  Decide(f, k) = Decide(g, k)
<1>1. DOMAIN f = DOMAIN g
  <2>1. \A n : n \in DOMAIN f <=> n \in DOMAIN g
    BY DEF IsVote
  <2> QED
    BY <2>1
<1>2. ASSUME NEW n \in DOMAIN f PROVE EventName(f[n]) = EventName(g[n])
  <2>1. /\ f[n] \in bundles /\ Parses(f[n]) /\ n \in Voters(f[n])
        /\ g[n] \in bundles /\ Parses(g[n]) /\ n \in Voters(g[n])
    BY <1>1 DEF IsVote, Cast
  <2>2. f[n] \in Parsed /\ g[n] \in Parsed
    BY <2>1 DEF Parsed
  <2>3. verify(f[n], Enrolled) /\ verify(g[n], Enrolled)
    BY <2>1, VotersVerify
  <2>4. owners(f[n]) = {n} /\ owners(g[n]) = {n}
    BY <2>1, OneOwner DEF owners
  <2> QED
    BY <2>2, <2>3, <2>4 DEF oneVoices
<1>3. {EventName(f[n]) : n \in DOMAIN f} = {EventName(g[n]) : n \in DOMAIN g}
  BY <1>1, <1>2
<1> QED
  BY <1>1, <1>3 DEF Decide

\* The property in every state of the invariant.
LEMMA OrderFree == QuorumInv => QuorumOrderFree
<1> SUFFICES ASSUME QuorumInv, oneVoices,
                    NEW order \in SetToSeqs(bundles), NEW k \in 1..Len(roots)
             PROVE  /\ Decide(votesOf(order), k) = Decide(votesOf(SetToSeq(bundles)), k)
                    /\ Decide(votesOf(order \o SetToSeq(bundles)), k)
                          = Decide(votesOf(SetToSeq(bundles)), k)
                    /\ runQuorum(order, k) \in {Decide(votesOf(SetToSeq(bundles)), k), {}}
  BY DEF QuorumOrderFree, oneVoices, owners
<1>1. IsFiniteSet(bundles)
  BY DEF QuorumInv
<1>2. PICK S : S = bundles
  OBVIOUS
<1>3. PICK one : one = SetToSeq(bundles)
  OBVIOUS
<1>4. Lists(order, S) /\ Lists(one, S)
  BY <1>1, <1>2, <1>3, OrderLists, SetToSeqIsOrder
<1>5. Lists(order \o one, S)
  BY <1>4, ListsTwice
<1>6. /\ IsVote(bundles, votesOf(order))
      /\ IsVote(bundles, votesOf(one))
      /\ IsVote(bundles, votesOf(order \o one))
  BY <1>2, <1>4, <1>5, votesOfIsVote
<1>7. PICK f, g, h : f = votesOf(order) /\ g = votesOf(one) /\ h = votesOf(order \o one)
  OBVIOUS
<1>8. Decide(f, k) = Decide(g, k) /\ Decide(h, k) = Decide(g, k)
  BY <1>6, <1>7, DecideSame
<1>9. runQuorum(order, k) \in {Decide(f, k), {}}
  BY <1>7 DEF runQuorum, quorumCore
<1> QED
  BY <1>3, <1>7, <1>8, <1>9

\* When no root speaks for two events the outcome of quorumCore does not depend on the
\* order or the repetition of the bundles it is given.
THEOREM QuorumOrder == QuorumSpec => []QuorumOrderFree
BY QuorumInvariant, OrderFree, PTL

\* The body of the loop of coAttestCore, and its one turn.
ModalBody(inputs, pinned, g, i) ==
    IF i = 0 THEN <<>>
    ELSE IF Parses(inputs[i]) THEN modality(g[i - 1], inputs[i], pinned)
    ELSE g[i - 1]

SeeInput(seen, b, pinned) == IF Parses(b) THEN modality(seen, b, pinned) ELSE seen

\* The loop of coAttestCore is a loop.
LEMMA modalitiesDef ==
    ASSUME NEW inputs, NEW pinned
    PROVE  /\ modalities(inputs, pinned)[0] = <<>>
           /\ \A i \in Nat : modalities(inputs, pinned)[i + 1] =
                             SeeInput(modalities(inputs, pinned)[i], inputs[i + 1], pinned)
<1> DEFINE B == {inputs[i] : i \in Nat}
           V == Seq(B)
           F == [p \in V \X Nat |-> SeeInput(p[1], inputs[p[2]], pinned)]
<1>1. <<>> \in V
  OBVIOUS
<1>2. F \in [V \X Nat -> V]
  <2>1. ASSUME NEW p \in V \X Nat PROVE SeeInput(p[1], inputs[p[2]], pinned) \in V
    <3>1. p[1] \in Seq(B) /\ inputs[p[2]] \in B
      OBVIOUS
    <3> HIDE DEF B
    <3>2. Append(p[1], inputs[p[2]]) \in Seq(B)
      BY <3>1
    <3> QED
      BY <3>1, <3>2 DEF SeeInput, modality
  <2> HIDE DEF V
  <2> QED
    BY <2>1
<1>3. \A g \in V, i \in Nat : F[<<g, i>>] = SeeInput(g, inputs[i], pinned)
  OBVIOUS
<1> HIDE DEF V, F
<1>4. PICK f : IsLoop(V, <<>>, F, f)
  BY <1>1, <1>2, Loop
<1>5. f \in [Nat -> V] /\ f[0] = <<>> /\ \A i \in Nat : f[i + 1] = F[<<f[i], i + 1>>]
  BY <1>4 DEF IsLoop
<1>6. ASSUME NEW i \in Nat PROVE f[i] = ModalBody(inputs, pinned, f, i)
  <2>1. CASE i = 0
    BY <2>1, <1>5 DEF ModalBody
  <2>2. CASE i # 0
    <3>1. i - 1 \in Nat /\ (i - 1) + 1 = i
      BY <2>2
    <3>2. f[(i - 1) + 1] = SeeInput(f[i - 1], inputs[(i - 1) + 1], pinned)
      BY <1>5, <1>3, <3>1
    <3>3. f[i] = SeeInput(f[i - 1], inputs[i], pinned)
      BY <3>1, <3>2
    <3> QED
      BY <3>3, <2>2 DEF ModalBody, SeeInput
  <2> QED
    BY <2>1, <2>2
<1>7. f = [i \in Nat |-> ModalBody(inputs, pinned, f, i)]
  BY <1>5, <1>6
<1>8. \E g : g = [i \in Nat |-> ModalBody(inputs, pinned, g, i)]
  BY <1>7
<1> DEFINE q == modalities(inputs, pinned)
<1>9. q = [i \in Nat |-> ModalBody(inputs, pinned, q, i)]
  BY <1>8 DEF modalities, ModalBody
<1> HIDE DEF q
<1>10. \A i \in Nat : q[i] = ModalBody(inputs, pinned, q, i)
  BY <1>9
<1>11. q[0] = <<>>
  BY <1>10 DEF ModalBody
<1>12. ASSUME NEW i \in Nat PROVE q[i + 1] = SeeInput(q[i], inputs[i + 1], pinned)
  <2>1. i + 1 \in Nat /\ i + 1 # 0 /\ (i + 1) - 1 = i
    OBVIOUS
  <2>2. q[i + 1] = ModalBody(inputs, pinned, q, i + 1)
    BY <1>10, <2>1
  <2> QED
    BY <2>1, <2>2 DEF ModalBody, SeeInput
<1> QED
  BY <1>11, <1>12 DEF q

\* The inputs that the valid ones of a set of bundles are about.
InputsOf(S, pinned) == { b.input : b \in { c \in S : Parses(c) /\ verify(c, pinned) } }

\* seen is a result of the loop on the set S.
IsSeen(S, seen, pinned) ==
    /\ seen \in Seq(S)
    /\ { seen[i].input : i \in 1..Len(seen) } = InputsOf(S, pinned)
    /\ IsFiniteSet(InputsOf(S, pinned))
    /\ Cardinality(InputsOf(S, pinned)) = Len(seen)

\* One turn, in terms of the set of the bundles so far.
LEMMA AcceptSeen ==
    ASSUME NEW S, NEW seen, NEW b, NEW pinned, IsSeen(S, seen, pinned)
    PROVE  IsSeen(S \cup {b}, SeeInput(seen, b, pinned), pinned)
<1>1. seen \in Seq(S) /\ seen \in Seq(S \cup {b}) /\ Len(seen) \in Nat /\ DOMAIN seen = 1..Len(seen)
  BY DEF IsSeen
<1>2. ToSet(seen) = {seen[i] : i \in 1..Len(seen)}
  BY <1>1 DEF ToSet
<1>3. CASE ~ (Parses(b) /\ verify(b, pinned))
  <2>1. SeeInput(seen, b, pinned) = seen
    BY <1>3 DEF SeeInput, modality
  <2>2. InputsOf(S \cup {b}, pinned) = InputsOf(S, pinned)
    BY <1>3 DEF InputsOf
  <2> QED
    BY <1>1, <2>1, <2>2 DEF IsSeen
<1>4. CASE Parses(b) /\ verify(b, pinned)
  <2>1. InputsOf(S \cup {b}, pinned) = InputsOf(S, pinned) \cup {b.input}
    BY <1>4 DEF InputsOf
  <2>2. PICK I : I = InputsOf(S, pinned)
    OBVIOUS
  <2>3. I = {seen[i].input : i \in 1..Len(seen)} /\ IsFiniteSet(I) /\ Cardinality(I) = Len(seen)
    BY <2>2 DEF IsSeen
  <2>4. CASE b.input \in I
    <3>1. I \cup {b.input} = I
      BY <2>4
    <3>2. SeeInput(seen, b, pinned) = seen
      BY <2>3, <2>4, <1>2 DEF SeeInput, modality
    <3> QED
      BY <1>1, <2>1, <2>2, <2>3, <3>1, <3>2 DEF IsSeen
  <2>5. CASE b.input \notin I
    <3>1. SeeInput(seen, b, pinned) = Append(seen, b)
      BY <1>2, <1>4, <2>3, <2>5 DEF SeeInput, modality
    <3>2. IsFiniteSet(I \cup {b.input}) /\ Cardinality(I \cup {b.input}) = Len(seen) + 1
      BY <2>3, <2>5, FS_AddElement
    <3> DEFINE t == Append(seen, b)
    <3>3. /\ t \in Seq(S \cup {b}) /\ Len(t) = Len(seen) + 1 /\ t[Len(seen) + 1] = b
          /\ \A i \in 1..Len(seen) : t[i] = seen[i]
      BY <1>1
    <3> HIDE DEF t
    <3>4. 1..(Len(seen) + 1) = (1..Len(seen)) \cup {Len(seen) + 1}
      BY <1>1
    <3>5. {t[i].input : i \in 1..Len(t)} = {seen[i].input : i \in 1..Len(seen)} \cup {b.input}
      BY <3>3, <3>4
    <3>6. IsSeen(S \cup {b}, t, pinned)
      BY <2>1, <2>2, <2>3, <3>2, <3>3, <3>5 DEF IsSeen
    <3> QED
      BY <3>1, <3>6 DEF t
  <2> QED
    BY <2>4, <2>5
<1> QED
  BY <1>3, <1>4

\* After i turns what is seen is of the first i bundles.
LEMMA modalitiesSeen ==
    ASSUME NEW inputs, NEW pinned
    PROVE  \A i \in Nat : IsSeen(Firsts(inputs, i), modalities(inputs, pinned)[i], pinned)
<1> DEFINE T == {i \in Nat : IsSeen(Firsts(inputs, i), modalities(inputs, pinned)[i], pinned)}
<1>1. 0 \in T
  <2>1. modalities(inputs, pinned)[0] = <<>>
    BY modalitiesDef
  <2>2. Firsts(inputs, 0) = {}
    BY FirstsStep
  <2>3. InputsOf({}, pinned) = {}
    BY DEF InputsOf
  <2>4. IsSeen({}, <<>>, pinned)
    BY <2>3, FS_EmptySet DEF IsSeen
  <2> QED
    BY <2>1, <2>2, <2>4
<1>2. ASSUME NEW i \in Nat, i \in T PROVE i + 1 \in T
  <2>1. IsSeen(Firsts(inputs, i) \cup {inputs[i + 1]},
               SeeInput(modalities(inputs, pinned)[i], inputs[i + 1], pinned), pinned)
    BY <1>2, AcceptSeen
  <2>2. modalities(inputs, pinned)[i + 1] =
            SeeInput(modalities(inputs, pinned)[i], inputs[i + 1], pinned)
    BY modalitiesDef
  <2>3. Firsts(inputs, i + 1) = Firsts(inputs, i) \cup {inputs[i + 1]}
    BY FirstsStep
  <2>4. IsSeen(Firsts(inputs, i + 1), modalities(inputs, pinned)[i + 1], pinned)
    BY <2>1, <2>2, <2>3
  <2>5. i + 1 \in Nat
    OBVIOUS
  <2> QED
    BY <2>4, <2>5
<1>3. \A i \in Nat : i \in T
  <2> HIDE DEF T
  <2> QED
    BY <1>1, <1>2, Induction
<1> QED
  BY <1>3

\* The property in every state of the invariant.
LEMMA DistinctInputs == QuorumInv => CoAttestIsDistinctInputs
<1> SUFFICES ASSUME QuorumInv, NEW pinned, NEW order \in SetToSeqs(bundles),
                    NEW k \in 1..MaxBundles
             PROVE  coAttestCore(order, k, pinned) <=> Cardinality(InputsOf(bundles, pinned)) >= k
  <2>1. \A pinned : InputsOf(bundles, pinned) = { b.input : b \in { c \in Parsed : verify(c, pinned) } }
    BY DEF InputsOf, Parsed
  <2> QED
    BY <2>1 DEF CoAttestIsDistinctInputs
<1>1. PICK S : S = bundles
  OBVIOUS
<1>2. Lists(order, S)
  BY <1>1, OrderLists DEF QuorumInv
<1>3. Len(order) \in Nat /\ Firsts(order, Len(order)) = S
  BY <1>2, ListsFirsts
<1>4. IsSeen(S, modalities(order, pinned)[Len(order)], pinned)
  BY <1>3, modalitiesSeen
<1>5. Len(modalities(order, pinned)[Len(order)]) = Cardinality(InputsOf(bundles, pinned))
  BY <1>1, <1>4 DEF IsSeen
<1>6. k > 0
  BY QuorumAssumption
<1> QED
  BY <1>5, <1>6 DEF coAttestCore

\* coAttestCore counts the distinct inputs that valid bundles are about, those of the
\* pinned key if one is given, in whatever order the bundles are given.
THEOREM CoAttestInputs == QuorumSpec => []CoAttestIsDistinctInputs
BY QuorumInvariant, DistinctInputs, PTL

-----------------------------------------------------------------------------
(* The threshold reveal.  Who writes alone in a directory leaves whole files of one polynomial;
   the algebra of the polynomial is a hypothesis, which TLC evaluates on an instance. *)

\* The body of the loop of the polynomial's evaluation.
HornerBody(coeffs, x, y, i) ==
    IF i = 0 THEN coeffs[Len(coeffs)] ELSE (y[i - 1] * x + coeffs[Len(coeffs) - i]) % P

\* Numbers modulo P are in the field.
LEMMA ModType == \A a \in Int : a % P \in Field
BY ConsentAssumption DEF Field

\* The polynomial has its values in the field.
LEMMA PolynomialInField ==
    ASSUME NEW coeffs \in Seq(Field), Len(coeffs) >= 1, NEW x \in Nat
    PROVE  Polynomial(coeffs, x) \in Field
<1> DEFINE k == Len(coeffs)
           D == 0..(k - 1)
           F == [p \in Field \X Nat |->
                    IF p[2] < k THEN (p[1] * x + coeffs[k - p[2]]) % P ELSE p[1]]
<1>1. k \in Nat /\ k >= 1 /\ \A i \in 1..k : coeffs[i] \in Field
  OBVIOUS
<1>2. \A a \in Field : a \in Int
  BY ConsentAssumption DEF Field
<1>3. ASSUME NEW a \in Field, NEW i \in Nat, i < k
      PROVE  (a * x + coeffs[k - i]) % P \in Field
  <2>1. k - i \in 1..k
    BY <1>1, <1>3
  <2>2. coeffs[k - i] \in Int
    BY <1>1, <1>2, <2>1
  <2>3. a * x \in Int
    BY <1>2
  <2>4. a * x + coeffs[k - i] \in Int
    BY <2>2, <2>3
  <2> QED
    BY <2>4, ModType
<1>4. F \in [Field \X Nat -> Field]
  <2>1. ASSUME NEW p \in Field \X Nat PROVE F[p] \in Field
    <3>1. p[1] \in Field /\ p[2] \in Nat
      OBVIOUS
    <3> QED
      BY <3>1, <1>3
  <2> QED
    BY <2>1
<1>5. \A a \in Field, i \in Nat : i < k => F[<<a, i>>] = (a * x + coeffs[k - i]) % P
  OBVIOUS
<1> HIDE DEF F
<1>6. coeffs[k] \in Field
  BY <1>1
<1>7. PICK f : IsLoop(Field, coeffs[k], F, f)
  BY <1>4, <1>6, Loop
<1>8. f \in [Nat -> Field] /\ f[0] = coeffs[k] /\ \A i \in Nat : f[i + 1] = F[<<f[i], i + 1>>]
  BY <1>7 DEF IsLoop
<1> DEFINE g == [i \in D |-> f[i]]
<1>9. ASSUME NEW i \in D PROVE g[i] = HornerBody(coeffs, x, g, i)
  <2>1. CASE i = 0
    BY <1>1, <1>8, <2>1 DEF HornerBody
  <2>2. CASE i # 0
    <3>1. i - 1 \in D /\ i - 1 \in Nat /\ (i - 1) + 1 = i /\ i \in Nat /\ i < k
      BY <1>1, <2>2
    <3>2. f[(i - 1) + 1] = F[<<f[i - 1], (i - 1) + 1>>]
      BY <1>8, <3>1
    <3>3. f[i] = F[<<f[i - 1], i>>]
      BY <3>1, <3>2
    <3>4. f[i - 1] \in Field
      BY <1>8, <3>1
    <3>5. f[i] = (f[i - 1] * x + coeffs[k - i]) % P
      BY <1>5, <3>1, <3>3, <3>4
    <3>6. g[i] = f[i] /\ g[i - 1] = f[i - 1]
      BY <3>1
    <3> HIDE DEF g
    <3> QED
      BY <2>2, <3>5, <3>6 DEF HornerBody
  <2> QED
    BY <2>1, <2>2
<1>10. g = [i \in D |-> HornerBody(coeffs, x, g, i)]
  BY <1>9
<1>11. \E y : y = [i \in D |-> HornerBody(coeffs, x, y, i)]
  BY <1>10
<1>12. PICK y : y = [i \in D |-> HornerBody(coeffs, x, y, i)] /\ Polynomial(coeffs, x) = y[k - 1]
  <2> DEFINE y == CHOOSE y : y = [i \in D |-> HornerBody(coeffs, x, y, i)]
  <2>1. y = [i \in D |-> HornerBody(coeffs, x, y, i)]
    BY <1>11
  <2>2. Polynomial(coeffs, x) = y[k - 1]
    BY DEF Polynomial, HornerBody
  <2> HIDE DEF y
  <2> QED
    BY <2>1, <2>2
<1> DEFINE T == {i \in Nat : i \in D => y[i] \in Field}
<1>13. \A i \in D : y[i] = HornerBody(coeffs, x, y, i)
  BY <1>12
<1>14. 0 \in T
  BY <1>1, <1>6, <1>13 DEF HornerBody
<1>15. ASSUME NEW i \in Nat, i \in T PROVE i + 1 \in T
  <2> SUFFICES ASSUME i + 1 \in D PROVE y[i + 1] \in Field
    OBVIOUS
  <2>1. i \in D /\ i + 1 # 0 /\ (i + 1) - 1 = i /\ i + 1 \in Nat /\ i + 1 < k
    BY <1>1
  <2>2. y[i] \in Field
    BY <1>15, <2>1
  <2>3. y[i + 1] = (y[i] * x + coeffs[k - (i + 1)]) % P
    BY <1>13, <2>1 DEF HornerBody
  <2> QED
    BY <1>3, <2>1, <2>2, <2>3
<1>16. \A i \in Nat : i \in T
  <2> HIDE DEF T
  <2> QED
    BY <1>14, <1>15, Induction
<1>17. k - 1 \in D /\ k - 1 \in Nat
  BY <1>1
<1> QED
  BY <1>12, <1>16, <1>17

\* So have its coefficients.
LEMMA CoefficientsInField ==
    ASSUME NEW key \in KeySpace, NEW k \in 2..MaxShares, NEW c \in Coefficients(key, k)
    PROVE  c \in Seq(Field) /\ Len(c) = k
<1>1. PICK d \in [1..(k - 1) -> Randoms] : c = <<key>> \o d
  BY DEF Coefficients
<1>2. k \in Nat /\ k - 1 \in Nat /\ (k - 1) + 1 = k
  BY ConsentAssumption
<1>3. d \in Seq(Field) /\ Len(d) = k - 1
  BY <1>2, ConsentAssumption
<1>4. <<key>> \in Seq(Field) /\ Len(<<key>>) = 1
  BY ConsentAssumption
<1> QED
  BY <1>1, <1>2, <1>3, <1>4

\* j is what ThresholdSeal computes for s.
IsJob(s, j) ==
    \E key \in KeySpace, k \in 2..MaxShares : \E n \in k..MaxShares :
        \E coeffs \in Coefficients(key, k) :
            j = [seal |-> s, k |-> k, n |-> n, key |-> key, coeffs |-> coeffs]

\* The types of the files and of the seals being written.
ConsentTypeOK ==
    /\ DOMAIN share = 1..MaxShares
    /\ DOMAIN job = Seal
    /\ \A s \in Seal : (job[s] = NoSeal /\ next[s] = MaxShares + 1) \/ IsJob(s, job[s])
    /\ next \in [Seal -> 0..(MaxShares + 1)]

\* The first i files are those of s.
Written(s, i) ==
    /\ i > 0 => sealed = job[s]
    /\ \A x \in 1..(i - 1) : share[x] = ShamirSplit(job[s].coeffs, job[s].n)[x]

\* A seal that nobody disturbed is alone in its directory, and its files so far are its.
AloneInDirectory == \A s \in Writing \ disturbed : Writing = {s} /\ Written(s, next[s])

\* A seal that finished undisturbed has all its files.
WholeIsWritten ==
    whole # NoFile => whole \in Seal /\ IsJob(whole, job[whole]) /\ Written(whole, job[whole].n + 1)

\* The inductive invariant.
ConsentInv == ConsentTypeOK /\ AloneInDirectory /\ WholeIsWritten

\* The parts of what ThresholdSeal computes.
LEMMA JobFacts ==
    ASSUME NEW s, NEW j, IsJob(s, j)
    PROVE  /\ j.seal = s /\ j.n \in 2..MaxShares /\ j.n \in Nat /\ j.k \in 2..MaxShares
           /\ j.n <= MaxShares /\ j.k <= j.n /\ MaxShares \in Nat /\ j.key \in KeySpace
           /\ j.coeffs \in Coefficients(j.key, j.k)
BY ConsentAssumption DEF IsJob

\* What the invariant says of a seal that is being written.
LEMMA WritingFacts ==
    ASSUME ConsentTypeOK, NEW s \in Writing
    PROVE  s \in Seal /\ IsJob(s, job[s]) /\ next[s] \in Nat /\ next[s] <= job[s].n
<1>1. s \in Seal /\ next[s] <= job[s].n /\ next[s] \in 0..(MaxShares + 1)
  BY DEF Writing, ConsentTypeOK
<1>2. MaxShares \in Nat
  BY ConsentAssumption
<1>3. next[s] \in Nat
  BY <1>1, <1>2
<1>4. ~(job[s] = NoSeal /\ next[s] = MaxShares + 1)
  <2> SUFFICES ASSUME job[s] = NoSeal, next[s] = MaxShares + 1 PROVE FALSE
    OBVIOUS
  <2>1. job[s].n = 0
    BY DEF NoSeal
  <2> QED
    BY <1>1, <1>2, <2>1
<1>5. IsJob(s, job[s])
  BY <1>1, <1>4 DEF ConsentTypeOK
<1> QED
  BY <1>1, <1>3, <1>5

\* The invariant holds in an empty directory.
LEMMA ConsentInitInv == ConsentInit => ConsentInv
<1> SUFFICES ASSUME ConsentInit PROVE ConsentInv
  OBVIOUS
<1>1. MaxShares \in Nat
  BY ConsentAssumption
<1>2. \A s \in Seal : job[s] = NoSeal /\ next[s] = MaxShares + 1
  BY DEF ConsentInit
<1>3. ConsentTypeOK
  BY <1>1, <1>2 DEF ConsentTypeOK, ConsentInit
<1>4. Writing = {}
  <2> SUFFICES ASSUME NEW s \in Writing PROVE FALSE
    OBVIOUS
  <2>1. s \in Seal /\ next[s] <= job[s].n
    BY DEF Writing
  <2>2. job[s].n = 0
    BY <1>2, <2>1 DEF NoSeal
  <2> QED
    BY <1>1, <1>2, <2>1, <2>2
<1> QED
  BY <1>3, <1>4 DEF ConsentInv, AloneInDirectory, WholeIsWritten, ConsentInit

\* Starting a seal keeps the invariant.
LEMMA SealKeepsInv ==
    ASSUME ConsentInv, NEW s \in Seal, NEW key \in KeySpace, NEW k \in 2..MaxShares,
           NEW n \in k..MaxShares, ThresholdSeal(s, key, k, n)
    PROVE  ConsentInv'
<1>1. PICK j : IsJob(s, j) /\ job' = [job EXCEPT ![s] = j]
  BY DEF ThresholdSeal, IsJob
<1>2. /\ job[s] = NoSeal /\ next' = [next EXCEPT ![s] = 0]
      /\ disturbed' = disturbed \cup (IF Writing = {} THEN {} ELSE Writing \cup {s})
      /\ sealed' = sealed /\ share' = share /\ whole' = whole
  BY DEF ThresholdSeal
<1>3. ConsentTypeOK
  BY DEF ConsentInv
<1>4. MaxShares \in Nat
  BY ConsentAssumption
<1>5. /\ DOMAIN job = Seal /\ next \in [Seal -> 0..(MaxShares + 1)] /\ DOMAIN share = 1..MaxShares
      /\ \A t \in Seal : (job[t] = NoSeal /\ next[t] = MaxShares + 1) \/ IsJob(t, job[t])
  BY <1>3 DEF ConsentTypeOK
<1>6. /\ job'[s] = j /\ next'[s] = 0
      /\ \A t \in Seal : t # s => job'[t] = job[t] /\ next'[t] = next[t]
  BY <1>1, <1>2, <1>5
<1>7. ConsentTypeOK'
  <2>1. next' \in [Seal -> 0..(MaxShares + 1)]
    BY <1>2, <1>4, <1>5
  <2>2. ASSUME NEW t \in Seal
        PROVE  (job'[t] = NoSeal /\ next'[t] = MaxShares + 1) \/ IsJob(t, job'[t])
    BY <1>1, <1>5, <1>6
  <2>3. DOMAIN job' = Seal
    BY <1>1, <1>5
  <2> QED
    BY <1>2, <1>5, <2>1, <2>2, <2>3 DEF ConsentTypeOK, IsJob
<1>8. j # NoSeal
  <2>1. j.seal = s
    BY <1>1, JobFacts
  <2> QED
    BY <2>1, ConsentAssumption DEF NoSeal
<1>9. Writing' = Writing \cup {s}
  <2>1. 0 <= j.n
    BY <1>1, JobFacts
  <2> QED
    BY <1>6, <2>1 DEF Writing
<1>10. AloneInDirectory'
  <2> SUFFICES ASSUME NEW t \in Writing' \ disturbed'
               PROVE  Writing' = {t} /\ Written(t, next[t])'
    BY DEF AloneInDirectory
  <2>1. Writing = {}
    BY <1>2, <1>9
  <2>2. t = s /\ Writing' = {t}
    BY <1>9, <2>1
  <2> QED
    BY <1>6, <2>2 DEF Written
<1>11. WholeIsWritten'
  <2> SUFFICES ASSUME whole # NoFile
               PROVE  /\ whole \in Seal /\ IsJob(whole, job'[whole])
                      /\ Written(whole, job[whole].n + 1)'
    BY <1>2 DEF WholeIsWritten, IsJob
  <2>1. whole \in Seal /\ IsJob(whole, job[whole]) /\ Written(whole, job[whole].n + 1)
    BY DEF ConsentInv, WholeIsWritten
  <2>2. job[whole].seal = whole
    BY <2>1, JobFacts
  <2>3. whole # s
    BY <1>2, <2>1, <2>2, ConsentAssumption DEF NoSeal
  <2>4. job'[whole] = job[whole]
    BY <1>6, <2>1, <2>3
  <2> QED
    BY <1>2, <2>1, <2>4 DEF Written
<1> QED
  BY <1>7, <1>10, <1>11 DEF ConsentInv

\* Writing a file keeps the invariant.
LEMMA WriteKeepsInv ==
    ASSUME ConsentInv, NEW s \in Seal, WriteFile(s)
    PROVE  ConsentInv'
<1>0. PICK m, n : m = next[s] /\ n = job[s].n
  OBVIOUS
<1>1. /\ s \in Writing /\ Put(m, Content(s)) /\ next' = [next EXCEPT ![s] = m + 1]
      /\ whole' = IF m = n /\ s \notin disturbed THEN s ELSE NoFile
      /\ job' = job /\ disturbed' = disturbed
  BY <1>0 DEF WriteFile
<1>2. ConsentTypeOK /\ AloneInDirectory
  BY DEF ConsentInv
<1>3. IsJob(s, job[s]) /\ m \in Nat /\ m <= n
  BY <1>0, <1>1, <1>2, WritingFacts
<1>4. n \in 2..MaxShares /\ n \in Nat /\ n <= MaxShares /\ MaxShares \in Nat
  BY <1>0, <1>3, JobFacts
<1>5. /\ DOMAIN job = Seal /\ next \in [Seal -> 0..(MaxShares + 1)] /\ DOMAIN share = 1..MaxShares
      /\ \A t \in Seal : (job[t] = NoSeal /\ next[t] = MaxShares + 1) \/ IsJob(t, job[t])
  BY <1>2 DEF ConsentTypeOK
<1>6. next'[s] = m + 1 /\ \A t \in Seal : t # s => next'[t] = next[t]
  BY <1>1, <1>5
<1>7. Content(s) = IF m = 0 THEN job[s] ELSE ShamirSplit(job[s].coeffs, n)[m]
  BY <1>0 DEF Content
<1>8. /\ m = 0 => sealed' = Content(s) /\ share' = share
      /\ m # 0 => sealed' = sealed /\ share' = [share EXCEPT ![m] = Content(s)]
  BY <1>1 DEF Put
<1>9. ConsentTypeOK'
  <2>1. next' \in [Seal -> 0..(MaxShares + 1)]
    <3>1. m + 1 \in 0..(MaxShares + 1)
      BY <1>3, <1>4
    <3> QED
      BY <1>1, <1>5, <3>1
  <2>2. DOMAIN share' = 1..MaxShares
    BY <1>5, <1>8
  <2>3. ASSUME NEW t \in Seal
        PROVE  (job'[t] = NoSeal /\ next'[t] = MaxShares + 1) \/ IsJob(t, job'[t])
    BY <1>1, <1>3, <1>5, <1>6
  <2>4. DOMAIN job' = Seal
    BY <1>1, <1>5
  <2> QED
    BY <2>1, <2>2, <2>3, <2>4 DEF ConsentTypeOK, IsJob
<1>10. s \notin disturbed => Writing = {s} /\ Written(s, m + 1)'
  <2> SUFFICES ASSUME s \notin disturbed PROVE Writing = {s} /\ Written(s, m + 1)'
    OBVIOUS
  <2>1. Writing = {s} /\ Written(s, m)
    BY <1>0, <1>1, <1>2 DEF AloneInDirectory
  <2>2. sealed' = job[s]
    BY <1>3, <1>7, <1>8, <2>1 DEF Written
  <2>3. ASSUME NEW x \in 1..m PROVE share'[x] = ShamirSplit(job[s].coeffs, n)[x]
    <3>1. m # 0 /\ x \in 1..MaxShares
      BY <1>3, <1>4
    <3>2. CASE x = m
      BY <1>5, <1>7, <1>8, <3>1, <3>2
    <3>3. CASE x # m
      <4>1. x \in 1..(m - 1)
        BY <1>3, <3>3
      <4>2. share'[x] = share[x]
        BY <1>5, <1>8, <3>1, <3>3
      <4> QED
        BY <1>0, <2>1, <4>1, <4>2 DEF Written
    <3> QED
      BY <3>2, <3>3
  <2>4. (m + 1) - 1 = m
    BY <1>3
  <2> QED
    BY <1>0, <1>1, <2>1, <2>2, <2>3, <2>4 DEF Written
<1>11. Writing' \subseteq Writing
  <2> SUFFICES ASSUME NEW t \in Writing' PROVE t \in Writing
    OBVIOUS
  <2>1. t \in Seal /\ next'[t] <= job'[t].n
    BY DEF Writing
  <2> QED
    BY <1>1, <1>6, <2>1 DEF Writing
<1>12. AloneInDirectory'
  <2> SUFFICES ASSUME NEW t \in Writing' \ disturbed'
               PROVE  Writing' = {t} /\ Written(t, next[t])'
    BY DEF AloneInDirectory
  <2>1. t \in Writing \ disturbed
    BY <1>1, <1>11
  <2>2. Writing = {t}
    BY <1>2, <2>1 DEF AloneInDirectory
  <2>3. t = s /\ Writing' = {t}
    BY <1>1, <1>11, <2>2
  <2>4. Written(s, m + 1)'
    BY <1>10, <2>1, <2>3
  <2> QED
    BY <1>6, <2>3, <2>4
<1>13. WholeIsWritten'
  <2> SUFFICES ASSUME whole' # NoFile
               PROVE  whole' \in Seal /\ IsJob(whole', job'[whole']) /\ Written(whole, job[whole].n + 1)'
    BY DEF WholeIsWritten, IsJob
  <2>1. whole' = s /\ m = n /\ s \notin disturbed
    BY <1>1
  <2>2. Written(s, m + 1)' /\ job'[s].n + 1 = m + 1
    BY <1>0, <1>1, <1>10, <2>1
  <2> QED
    BY <1>1, <1>3, <2>1, <2>2
<1> QED
  BY <1>9, <1>12, <1>13 DEF ConsentInv

\* A crash in the middle of a file keeps the invariant.
LEMMA CrashKeepsInv ==
    ASSUME ConsentInv, NEW s \in Seal, CrashSeal(s)
    PROVE  ConsentInv'
<1>1. /\ s \in Writing /\ next' = [next EXCEPT ![s] = MaxShares + 1]
      /\ job' = job /\ disturbed' = disturbed
      /\ \/ sealed' = sealed /\ share' = share /\ whole' = whole
         \/ Put(next[s], Torn) /\ whole' = NoFile
  BY DEF CrashSeal
<1>2. ConsentTypeOK /\ AloneInDirectory
  BY DEF ConsentInv
<1>3. IsJob(s, job[s])
  BY <1>1, <1>2, WritingFacts
<1>4. PICK n : n = job[s].n
  OBVIOUS
<1>5. n \in Nat /\ n <= MaxShares /\ MaxShares \in Nat
  BY <1>3, <1>4, JobFacts
<1>6. /\ DOMAIN job = Seal /\ next \in [Seal -> 0..(MaxShares + 1)] /\ DOMAIN share = 1..MaxShares
      /\ \A t \in Seal : (job[t] = NoSeal /\ next[t] = MaxShares + 1) \/ IsJob(t, job[t])
  BY <1>2 DEF ConsentTypeOK
<1>7. next'[s] = MaxShares + 1 /\ \A t \in Seal : t # s => next'[t] = next[t]
  BY <1>1, <1>6
<1>8. ConsentTypeOK'
  <2>1. next' \in [Seal -> 0..(MaxShares + 1)]
    BY <1>1, <1>5, <1>6
  <2>2. DOMAIN share' = 1..MaxShares
    BY <1>1, <1>6 DEF Put
  <2>3. ASSUME NEW t \in Seal
        PROVE  (job'[t] = NoSeal /\ next'[t] = MaxShares + 1) \/ IsJob(t, job'[t])
    BY <1>1, <1>3, <1>6, <1>7
  <2>4. DOMAIN job' = Seal
    BY <1>1, <1>6
  <2> QED
    BY <2>1, <2>2, <2>3, <2>4 DEF ConsentTypeOK, IsJob
<1>9. Writing' \subseteq Writing \ {s}
  <2> SUFFICES ASSUME NEW t \in Writing' PROVE t \in Writing /\ t # s
    OBVIOUS
  <2>1. t \in Seal /\ next'[t] <= job'[t].n
    BY DEF Writing
  <2>2. t # s
    BY <1>1, <1>4, <1>5, <1>7, <2>1
  <2> QED
    BY <1>1, <1>7, <2>1, <2>2 DEF Writing
<1>10. AloneInDirectory'
  <2> SUFFICES ASSUME NEW t \in Writing' \ disturbed' PROVE FALSE
    BY DEF AloneInDirectory
  <2>1. Writing = {t}
    BY <1>1, <1>2, <1>9 DEF AloneInDirectory
  <2> QED
    BY <1>1, <1>9, <2>1
<1>11. WholeIsWritten'
  <2> SUFFICES ASSUME whole' # NoFile
               PROVE  whole' \in Seal /\ IsJob(whole', job'[whole']) /\ Written(whole, job[whole].n + 1)'
    BY DEF WholeIsWritten, IsJob
  <2>1. sealed' = sealed /\ share' = share /\ whole' = whole
    BY <1>1
  <2> QED
    BY <1>1, <2>1 DEF ConsentInv, WholeIsWritten, Written
<1> QED
  BY <1>8, <1>10, <1>11 DEF ConsentInv

\* The invariant is one.
LEMMA ConsentInvariant == ConsentSpec => []ConsentInv
<1>1. ConsentInv /\ [ConsentNext]_consentVars => ConsentInv'
  <2> SUFFICES ASSUME ConsentInv, [ConsentNext]_consentVars PROVE ConsentInv'
    OBVIOUS
  <2>1. CASE UNCHANGED consentVars
    <3>1. /\ sealed' = sealed /\ share' = share /\ job' = job /\ next' = next
          /\ disturbed' = disturbed /\ whole' = whole
      BY <2>1 DEF consentVars
    <3>2. ConsentTypeOK'
      BY <3>1 DEF ConsentInv, ConsentTypeOK, IsJob
    <3>3. Writing' = Writing
      BY <3>1 DEF Writing
    <3>4. AloneInDirectory'
      BY <3>1, <3>3 DEF ConsentInv, AloneInDirectory, Written
    <3>5. WholeIsWritten'
      BY <3>1 DEF ConsentInv, WholeIsWritten, Written, IsJob
    <3> QED
      BY <3>2, <3>4, <3>5 DEF ConsentInv
  <2>2. ASSUME NEW s \in Seal, NEW key \in KeySpace, NEW k \in 2..MaxShares,
               NEW n \in k..MaxShares, ThresholdSeal(s, key, k, n)
        PROVE  ConsentInv'
    BY <2>2, SealKeepsInv
  <2>3. ASSUME NEW s \in Seal, WriteFile(s) PROVE ConsentInv'
    BY <2>3, WriteKeepsInv
  <2>4. ASSUME NEW s \in Seal, CrashSeal(s) PROVE ConsentInv'
    BY <2>4, CrashKeepsInv
  <2> QED
    BY <2>1, <2>2, <2>3, <2>4 DEF ConsentNext
<1> QED
  BY <1>1, ConsentInitInv, PTL DEF ConsentSpec

\* The order of the holders' files lists them.
LEMMA HoldersList ==
    ASSUME NEW xs, IsFiniteSet(xs), NEW h, h = SetToSeq(xs)
    PROVE  /\ Cardinality(xs) \in Nat /\ Len(h) = Cardinality(xs)
           /\ ToSet(h) = xs /\ IsInjective(h)
<1>1. PICK n : n = Cardinality(xs)
  OBVIOUS
<1>2. n \in Nat
  BY <1>1, FS_CardinalityType
<1>3. PICK f : f \in Bijection(1..n, xs)
  BY <1>1, FS_CardinalityType DEF ExistsBijection
<1>4. f \in [1..n -> xs] /\ IsInjective(f)
  BY <1>3 DEF Bijection, Injection
<1>5. h \in [1..n -> xs] /\ IsInjective(h)
  BY <1>1, <1>4 DEF SetToSeq
<1>6. h \in Injection(1..n, xs)
  BY <1>5 DEF Injection
<1>7. Cardinality(1..n) = n
  <2>1. Cardinality(1..n) = IF 1 > n THEN 0 ELSE n - 1 + 1
    BY <1>2, FS_Interval
  <2> QED
    BY <1>2, <2>1
<1>8. h \in Surjection(1..n, xs)
  BY <1>1, <1>6, <1>7, FS_Injection
<1>9. Len(h) = n /\ DOMAIN h = 1..n
  BY <1>2, <1>5
<1>10. ToSet(h) = xs
  BY <1>5, <1>8, <1>9 DEF ToSet, Surjection
<1> QED
  BY <1>1, <1>2, <1>5, <1>9, <1>10

\* Holders are finitely many.
LEMMA HoldersFinite == \A n \in Nat : \A xs \in SUBSET (1..n) : IsFiniteSet(xs)
<1> SUFFICES ASSUME NEW n \in Nat, NEW xs \in SUBSET (1..n) PROVE IsFiniteSet(xs)
  OBVIOUS
<1>1. IsFiniteSet(1..n)
  BY FS_Interval
<1> QED
  BY <1>1, FS_Subset

\* ShamirCombine looks at the shares of its holders and at no others.
LEMMA CombineLocal ==
    ASSUME NEW xs, NEW y, NEW z, \A x \in xs : y[x] = z[x]
    PROVE  ShamirCombine(xs, y) = ShamirCombine(xs, z)
<1>1. [j \in xs |-> y[j] * Lagrange(xs, j)] = [j \in xs |-> z[j] * Lagrange(xs, j)]
  OBVIOUS
<1> QED
  BY <1>1 DEF ShamirCombine

\* What the invariant says of the files of a seal that was alone.
LEMMA WholeFiles ==
    ASSUME ConsentInv, whole # NoFile, NEW j, j = job[whole]
    PROVE  /\ sealed = j /\ j.seal = whole /\ sealed \notin {NoFile, Torn}
           /\ j.n \in Nat /\ j.k \in 2..MaxShares /\ j.n \in j.k..MaxShares
           /\ j.key \in KeySpace /\ j.coeffs \in Coefficients(j.key, j.k)
           /\ \A x \in 1..j.n : /\ share[x] = ShamirSplit(j.coeffs, j.n)[x]
                                /\ share[x] = Polynomial(j.coeffs, x)
                                /\ share[x] \notin {NoFile, Torn}
<1>1. whole \in Seal /\ IsJob(whole, j) /\ Written(whole, j.n + 1)
  BY DEF ConsentInv, WholeIsWritten
<1>2. /\ j.seal = whole /\ j.n \in 2..MaxShares /\ j.n \in Nat /\ j.k \in 2..MaxShares
      /\ j.n <= MaxShares /\ j.k <= j.n /\ MaxShares \in Nat /\ j.key \in KeySpace
      /\ j.coeffs \in Coefficients(j.key, j.k)
  BY <1>1, JobFacts
<1>3. j.coeffs \in Seq(Field) /\ Len(j.coeffs) = j.k
  BY <1>2, CoefficientsInField
<1>4. sealed = j
  BY <1>1, <1>2 DEF Written
<1>5. sealed \notin {NoFile, Torn}
  <2>1. j \in SealedReveal
    <3>1. j = [seal |-> j.seal, k |-> j.k, n |-> j.n, key |-> j.key, coeffs |-> j.coeffs]
      BY <1>1 DEF IsJob
    <3> QED
      BY <1>1, <1>2, <1>3, <3>1 DEF SealedReveal
  <2> QED
    BY <1>4, <2>1, ConsentAssumption
<1>6. ASSUME NEW x \in 1..j.n
      PROVE  /\ share[x] = ShamirSplit(j.coeffs, j.n)[x]
             /\ share[x] = Polynomial(j.coeffs, x)
             /\ share[x] \notin {NoFile, Torn}
  <2>1. x \in 1..((j.n + 1) - 1)
    BY <1>2
  <2>2. share[x] = ShamirSplit(j.coeffs, j.n)[x]
    BY <1>1, <2>1 DEF Written
  <2>3. share[x] = Polynomial(j.coeffs, x)
    BY <2>2 DEF ShamirSplit
  <2>4. Polynomial(j.coeffs, x) \in Field
    <3>1. Len(j.coeffs) >= 1 /\ x \in Nat
      BY <1>2, <1>3
    <3> QED
      BY <1>3, <3>1, PolynomialInField
  <2> QED
    BY <2>2, <2>3, <2>4, ConsentAssumption
<1>7. j.n \in j.k..MaxShares
  BY <1>2
<1> QED
  BY <1>2, <1>4, <1>5, <1>6, <1>7

\* From the files of a seal, k holders reveal what it sealed.
LEMMA RevealsIt ==
    ASSUME ConsentInv, ShamirOpens, whole # NoFile, NEW j, j = job[whole],
           NEW xs \in SUBSET (1..j.n), Cardinality(xs) >= j.k
    PROVE  Reveal(SetToSeq(xs)) = {whole}
<1>1. /\ sealed = j /\ j.seal = whole /\ sealed \notin {NoFile, Torn}
      /\ j.n \in Nat /\ j.k \in 2..MaxShares /\ j.n \in j.k..MaxShares
      /\ j.key \in KeySpace /\ j.coeffs \in Coefficients(j.key, j.k)
      /\ \A x \in 1..j.n : /\ share[x] = ShamirSplit(j.coeffs, j.n)[x]
                           /\ share[x] \notin {NoFile, Torn}
  BY WholeFiles
<1>2. IsFiniteSet(xs)
  BY <1>1, HoldersFinite
<1>3. PICK h : h = SetToSeq(xs)
  OBVIOUS
<1>4. Cardinality(xs) \in Nat /\ Len(h) = Cardinality(xs) /\ ToSet(h) = xs /\ IsInjective(h)
  BY <1>2, <1>3, HoldersList
<1>5. ShamirCombine(xs, share) = j.key
  <2>1. ShamirCombine(xs, ShamirSplit(j.coeffs, j.n)) = j.key
    BY <1>1 DEF ShamirOpens
  <2>2. PICK y : y = share
    OBVIOUS
  <2>3. \A x \in xs : y[x] = ShamirSplit(j.coeffs, j.n)[x]
    BY <1>1, <2>2
  <2> QED
    BY <2>1, <2>2, <2>3, CombineLocal
<1>6. Len(h) >= sealed.k /\ Len(h) >= 2
  <2>1. j.k \in Nat /\ j.k >= 2
    BY <1>1, ConsentAssumption
  <2> QED
    BY <1>1, <1>4, <2>1
<1>7. /\ \A x \in ToSet(h) : share[x] \notin {NoFile, Torn}
      /\ ShamirCombine(ToSet(h), share) = sealed.key
  BY <1>1, <1>4, <1>5
<1>8. Reveal(h) = {sealed.seal}
  BY <1>1, <1>4, <1>6, <1>7 DEF Reveal
<1> QED
  BY <1>1, <1>3, <1>8

\* Fewer than k are turned away.
LEMMA TooFew ==
    ASSUME ConsentInv, whole # NoFile, NEW j, j = job[whole],
           NEW xs \in SUBSET (1..j.n), Cardinality(xs) = j.k - 1
    PROVE  Reveal(SetToSeq(xs)) = {}
<1>1. sealed = j /\ j.n \in Nat /\ j.k \in 2..MaxShares
  BY WholeFiles
<1>2. IsFiniteSet(xs)
  BY <1>1, HoldersFinite
<1>3. PICK h : h = SetToSeq(xs)
  OBVIOUS
<1>4. Len(h) = Cardinality(xs)
  BY <1>2, <1>3, HoldersList
<1>5. j.k \in Nat
  BY <1>1, ConsentAssumption
<1>6. ~(Len(h) >= sealed.k)
  BY <1>1, <1>4, <1>5
<1> QED
  BY <1>3, <1>6 DEF Reveal

\* Any k holders of a seal that was written whole and alone open it (ThresholdSeal,
\* RevealThreshold), for every field, threshold and number of holders in which Lagrange
\* interpolation holds (ShamirOpens).
THEOREM AnyKOpen ==
    ASSUME ShamirOpens
    PROVE  ConsentSpec => []AnyKReveal
<1>1. ConsentInv => AnyKReveal
  <2> SUFFICES ASSUME ConsentInv, whole # NoFile, NEW xs \in SUBSET (1..job[whole].n),
                      Cardinality(xs) >= job[whole].k
               PROVE  Reveal(SetToSeq(xs)) = {whole}
    BY DEF AnyKReveal
  <2>1. PICK j : j = job[whole]
    OBVIOUS
  <2> QED
    BY <2>1, ShamirOpens, RevealsIt
<1> QED
  BY <1>1, ConsentInvariant, PTL

\* Fewer than k holders of such a seal hold shares that fit every secret, and reveal
\* turns them away, where interpolation holds (ShamirHides).
THEOREM FewerLearnNothing ==
    ASSUME ShamirHides
    PROVE  ConsentSpec => []FewerTellNothing
<1>1. ConsentInv => FewerTellNothing
  <2> SUFFICES ASSUME ConsentInv, whole # NoFile, NEW xs \in SUBSET (1..job[whole].n),
                      Cardinality(xs) = job[whole].k - 1
               PROVE  /\ Reveal(SetToSeq(xs)) = {}
                      /\ \A secret \in Field : \E c \in Coefficients(secret, job[whole].k) :
                            \A x \in xs : Polynomial(c, x) = share[x]
    BY DEF FewerTellNothing
  <2>1. PICK j : j = job[whole]
    OBVIOUS
  <2>2. Reveal(SetToSeq(xs)) = {}
    BY <2>1, TooFew
  <2>3. /\ j.k \in 2..MaxShares /\ j.n \in j.k..MaxShares
        /\ j.key \in KeySpace /\ j.coeffs \in Coefficients(j.key, j.k)
        /\ \A x \in 1..j.n : share[x] = Polynomial(j.coeffs, x)
    BY <2>1, WholeFiles
  <2>4. ASSUME NEW secret \in Field
        PROVE  \E c \in Coefficients(secret, j.k) : \A x \in xs : Polynomial(c, x) = share[x]
    <3>1. PICK c \in Coefficients(secret, j.k) :
              \A x \in xs : Polynomial(c, x) = Polynomial(j.coeffs, x)
      BY <2>1, <2>3, ShamirHides DEF ShamirHides
    <3> QED
      BY <2>1, <2>3, <3>1
  <2> QED
    BY <2>1, <2>2, <2>4
<1> QED
  BY <1>1, ConsentInvariant, PTL

-----------------------------------------------------------------------------
(* The readers of a payload and of its envelope. *)

\* The states of a reader whose fields are from W.
Readers(W) ==
    [ok : BOOLEAN, pos : Nat, last : Int, pred : UNION {[N -> W] : N \in SUBSET Keys}]

\* A reader that starts or has failed is a reader.
LEMMA ReadersStart == \A W : Failed \in Readers(W) /\ AfterMapHead \in Readers(W)
<1> SUFFICES ASSUME NEW W PROVE Failed \in Readers(W) /\ AfterMapHead \in Readers(W)
  OBVIOUS
<1>1. NoFields \in [{} -> W]
  BY DEF NoFields
<1>2. NoFields \in UNION {[N -> W] : N \in SUBSET Keys}
  BY <1>1
<1> QED
  BY <1>2 DEF Readers, Failed, AfterMapHead

\* So is one that has read a pair.
LEMMA PastType ==
    ASSUME NEW W, NEW r \in Readers(W), NEW key \in Keys, NEW v \in W
    PROVE  Past(r, key, v) \in Readers(W)
<1>1. PICK N \in SUBSET Keys : r.pred \in [N -> W]
  BY DEF Readers
<1> DEFINE f == [k \in DOMAIN r.pred \cup {key} |-> IF k = key THEN v ELSE r.pred[k]]
<1>2. f \in [N \cup {key} -> W]
  BY <1>1
<1>3. N \cup {key} \in SUBSET Keys
  OBVIOUS
<1>4. f \in UNION {[M -> W] : M \in SUBSET Keys}
  BY <1>2, <1>3
<1>5. r.pos + 2 \in Nat /\ key \in Int
  BY DEF Readers, Keys
<1> HIDE DEF f
<1>6. Past(r, key, v) = [ok |-> TRUE, pos |-> r.pos + 2, last |-> key, pred |-> f]
  BY DEF Past, f
<1> QED
  BY <1>4, <1>5, <1>6 DEF Readers

\* The bodies of the two loops over pairs.
PairsBody(s, g, n) == IF n = 0 THEN AfterMapHead ELSE readPair(s, g[n - 1])

FieldsBody(s, g, n) == IF n = 0 THEN AfterMapHead ELSE readDeviceField(s, g[n - 1])

\* The loop of DecodePayload is a loop.
LEMMA pairsDef ==
    ASSUME NEW s
    PROVE  /\ pairs(s)[0] = AfterMapHead
           /\ \A n \in Nat : pairs(s)[n + 1] = readPair(s, pairs(s)[n])
<1> DEFINE W == {Value(s[p]) : p \in Nat}
           V == Readers(W)
           F == [p \in V \X Nat |-> readPair(s, p[1])]
<1>1. F \in [V \X Nat -> V]
  <2>1. ASSUME NEW r \in V PROVE readPair(s, r) \in V
    <3>1. r.pos + 1 \in Nat
      BY DEF Readers
    <3>2. Value(s[r.pos + 1]) \in W
      BY <3>1
    <3> HIDE DEF W
    <3>3. CASE s[r.pos].arg \in Keys
      <4>1. Past(r, s[r.pos].arg, Value(s[r.pos + 1])) \in V
        BY <3>2, <3>3, PastType
      <4> QED
        BY <4>1, ReadersStart DEF readPair
    <3>4. CASE ~(s[r.pos].arg \in Keys)
      <4>1. readPair(s, r) = Failed
        BY <3>4 DEF readPair
      <4> QED
        BY <4>1, ReadersStart
    <3> QED
      BY <3>3, <3>4
  <2> HIDE DEF V
  <2> QED
    BY <2>1
<1>2. \A r \in V, n \in Nat : F[<<r, n>>] = readPair(s, r)
  OBVIOUS
<1>3. AfterMapHead \in V
  BY ReadersStart
<1> HIDE DEF V, F
<1>4. PICK f : IsLoop(V, AfterMapHead, F, f)
  BY <1>1, <1>3, Loop
<1>5. f \in [Nat -> V] /\ f[0] = AfterMapHead /\ \A n \in Nat : f[n + 1] = F[<<f[n], n + 1>>]
  BY <1>4 DEF IsLoop
<1>6. ASSUME NEW n \in Nat PROVE f[n] = PairsBody(s, f, n)
  <2>1. CASE n = 0
    BY <2>1, <1>5 DEF PairsBody
  <2>2. CASE n # 0
    <3>1. n - 1 \in Nat /\ (n - 1) + 1 = n
      BY <2>2
    <3>2. f[(n - 1) + 1] = readPair(s, f[n - 1])
      BY <1>5, <1>2, <3>1
    <3>3. f[n] = readPair(s, f[n - 1])
      BY <3>1, <3>2
    <3> QED
      BY <3>3, <2>2 DEF PairsBody
  <2> QED
    BY <2>1, <2>2
<1>7. f = [n \in Nat |-> PairsBody(s, f, n)]
  BY <1>5, <1>6
<1>8. \E g : g = [n \in Nat |-> PairsBody(s, g, n)]
  BY <1>7
<1> DEFINE q == pairs(s)
<1>9. q = [n \in Nat |-> PairsBody(s, q, n)]
  BY <1>8 DEF pairs, PairsBody
<1> HIDE DEF q
<1>10. \A n \in Nat : q[n] = PairsBody(s, q, n)
  BY <1>9
<1>11. q[0] = AfterMapHead
  BY <1>10 DEF PairsBody
<1>12. ASSUME NEW n \in Nat PROVE q[n + 1] = readPair(s, q[n])
  <2>1. n + 1 \in Nat /\ n + 1 # 0 /\ (n + 1) - 1 = n
    OBVIOUS
  <2>2. q[n + 1] = PairsBody(s, q, n + 1)
    BY <1>10, <2>1
  <2> QED
    BY <2>1, <2>2 DEF PairsBody
<1> QED
  BY <1>11, <1>12 DEF q

\* The loop of _readDevice is a loop.
LEMMA fieldsDef ==
    ASSUME NEW s
    PROVE  /\ fields(s)[0] = AfterMapHead
           /\ \A n \in Nat : fields(s)[n + 1] = readDeviceField(s, fields(s)[n])
<1> DEFINE W == {Kept(k, s[p]) : k \in Keys, p \in Nat}
           V == Readers(W)
           F == [p \in V \X Nat |-> readDeviceField(s, p[1])]
<1>1. F \in [V \X Nat -> V]
  <2>1. ASSUME NEW r \in V PROVE readDeviceField(s, r) \in V
    <3>1. r.pos + 1 \in Nat
      BY DEF Readers
    <3>2. \A k \in Keys : Kept(k, s[r.pos + 1]) \in W
      BY <3>1
    <3> HIDE DEF W
    <3>3. CASE s[r.pos].arg \in Keys
      <4>1. Past(r, s[r.pos].arg, Kept(s[r.pos].arg, s[r.pos + 1])) \in V
        BY <3>2, <3>3, PastType
      <4> QED
        BY <4>1, ReadersStart DEF readDeviceField
    <3>4. CASE ~(s[r.pos].arg \in Keys)
      <4>1. readDeviceField(s, r) = Failed \/ readDeviceField(s, r) = r
        BY <3>4 DEF readDeviceField
      <4> QED
        BY <4>1, ReadersStart
    <3> QED
      BY <3>3, <3>4
  <2> HIDE DEF V
  <2> QED
    BY <2>1
<1>2. \A r \in V, n \in Nat : F[<<r, n>>] = readDeviceField(s, r)
  OBVIOUS
<1>3. AfterMapHead \in V
  BY ReadersStart
<1> HIDE DEF V, F
<1>4. PICK f : IsLoop(V, AfterMapHead, F, f)
  BY <1>1, <1>3, Loop
<1>5. f \in [Nat -> V] /\ f[0] = AfterMapHead /\ \A n \in Nat : f[n + 1] = F[<<f[n], n + 1>>]
  BY <1>4 DEF IsLoop
<1>6. ASSUME NEW n \in Nat PROVE f[n] = FieldsBody(s, f, n)
  <2>1. CASE n = 0
    BY <2>1, <1>5 DEF FieldsBody
  <2>2. CASE n # 0
    <3>1. n - 1 \in Nat /\ (n - 1) + 1 = n
      BY <2>2
    <3>2. f[(n - 1) + 1] = readDeviceField(s, f[n - 1])
      BY <1>5, <1>2, <3>1
    <3>3. f[n] = readDeviceField(s, f[n - 1])
      BY <3>1, <3>2
    <3> QED
      BY <3>3, <2>2 DEF FieldsBody
  <2> QED
    BY <2>1, <2>2
<1>7. f = [n \in Nat |-> FieldsBody(s, f, n)]
  BY <1>5, <1>6
<1>8. \E g : g = [n \in Nat |-> FieldsBody(s, g, n)]
  BY <1>7
<1> DEFINE q == fields(s)
<1>9. q = [n \in Nat |-> FieldsBody(s, q, n)]
  BY <1>8 DEF fields, FieldsBody
<1> HIDE DEF q
<1>10. \A n \in Nat : q[n] = FieldsBody(s, q, n)
  BY <1>9
<1>11. q[0] = AfterMapHead
  BY <1>10 DEF FieldsBody
<1>12. ASSUME NEW n \in Nat PROVE q[n + 1] = readDeviceField(s, q[n])
  <2>1. n + 1 \in Nat /\ n + 1 # 0 /\ (n + 1) - 1 = n
    OBVIOUS
  <2>2. q[n + 1] = FieldsBody(s, q, n + 1)
    BY <1>10, <2>1
  <2> QED
    BY <2>1, <2>2 DEF FieldsBody
<1> QED
  BY <1>11, <1>12 DEF q

\* Key j is in its place, and pred has the value after it.
GoodPair(s, pred, j) ==
    /\ readUint(s, 2 * j + 2) /\ s[2 * j + 2].arg = j
    /\ readField(j, s, 2 * j + 3)
    /\ pred[j] = Value(s[2 * j + 3])

\* The first n pairs are keys 0 to n - 1, each with a value of its type.
InOrder(s, r, n) ==
    /\ r.last = n - 1 /\ n <= 11
    /\ DOMAIN r.pred = 0..(n - 1)
    /\ \A j \in 0..(n - 1) : GoodPair(s, r.pred, j)

\* A key is missing that can no longer come.
HasGap(r) == \E k \in Keys : k < r.last /\ k \notin DOMAIN r.pred

\* After n pairs: they are in order, or a key has been left out for good.
PairsInv(s, r, n) ==
    r.ok => r.pos = 2 * n + 2 /\ r.last \in Int /\ (InOrder(s, r, n) \/ HasGap(r))

\* One pair keeps it.
LEMMA PairsStep ==
    ASSUME NEW s, NEW r, NEW n \in Nat, PairsInv(s, r, n)
    PROVE  PairsInv(s, readPair(s, r), n + 1)
<1> SUFFICES ASSUME NEW q, q = readPair(s, r), q.ok
             PROVE  /\ q.pos = 2 * (n + 1) + 2 /\ q.last \in Int
                    /\ InOrder(s, q, n + 1) \/ HasGap(q)
  BY DEF PairsInv
<1>1. PICK key : key = s[r.pos].arg
  OBVIOUS
<1>2. PICK v : v = Value(s[r.pos + 1])
  OBVIOUS
<1>3. /\ r.ok /\ readUint(s, r.pos) /\ key > r.last /\ key \in Keys
      /\ readField(key, s, r.pos + 1) /\ q = Past(r, key, v)
  BY <1>1, <1>2 DEF readPair, Failed
<1>4. r.pos = 2 * n + 2 /\ r.last \in Int /\ (InOrder(s, r, n) \/ HasGap(r))
  BY <1>3 DEF PairsInv
<1>5. /\ q.pos = r.pos + 2 /\ q.last = key /\ DOMAIN q.pred = DOMAIN r.pred \cup {key}
      /\ q.pred[key] = v /\ \A k \in DOMAIN r.pred : k # key => q.pred[k] = r.pred[k]
  <2>1. q = Past(r, key, v)
    BY <1>3
  <2> QED
    BY ONLY <2>1 DEF Past
<1>6. key \in Int /\ 0 <= key /\ key <= 10
  BY <1>3 DEF Keys
<1>7. q.pos = 2 * (n + 1) + 2 /\ q.last \in Int
  BY <1>4, <1>5, <1>6
<1>8. CASE HasGap(r)
  <2>1. PICK k \in Keys : k < r.last /\ k \notin DOMAIN r.pred
    BY <1>8 DEF HasGap
  <2>2. k \in Int
    BY DEF Keys
  <2>3. k < key /\ k # key
    BY <1>3, <1>4, <1>6, <2>1, <2>2
  <2>4. HasGap(q)
    BY <1>5, <2>1, <2>3 DEF HasGap
  <2> QED
    BY <1>7, <2>4
<1>9. CASE InOrder(s, r, n)
  <2>1. /\ r.last = n - 1 /\ n <= 11 /\ DOMAIN r.pred = 0..(n - 1)
        /\ \A j \in 0..(n - 1) : GoodPair(s, r.pred, j)
    BY <1>9 DEF InOrder
  <2>2. key >= n
    BY <1>3, <1>6, <2>1
  <2>3. CASE key = n
    <3>1. n + 1 <= 11 /\ q.last = (n + 1) - 1
      BY <1>5, <1>6, <2>3
    <3>2. DOMAIN q.pred = 0..((n + 1) - 1)
      <4>1. 0..((n + 1) - 1) = (0..(n - 1)) \cup {n}
        OBVIOUS
      <4> QED
        BY <1>5, <2>1, <2>3, <4>1
    <3>3. ASSUME NEW j \in 0..((n + 1) - 1) PROVE GoodPair(s, q.pred, j)
      <4>1. CASE j = n
        <5>1. r.pos = 2 * j + 2 /\ r.pos + 1 = 2 * j + 3
          BY <1>4, <4>1
        <5>2. key = j
          BY <2>3, <4>1
        <5>3. readUint(s, 2 * j + 2) /\ s[2 * j + 2].arg = j
          BY <1>1, <1>3, <5>1, <5>2
        <5>4. readField(j, s, 2 * j + 3)
          BY <1>3, <5>1, <5>2
        <5>5. q.pred[j] = Value(s[2 * j + 3])
          BY <1>2, <1>5, <5>1, <5>2
        <5> QED
          BY <5>3, <5>4, <5>5 DEF GoodPair
      <4>2. CASE j # n
        <5>1. j \in 0..(n - 1) /\ j # key
          BY <2>3, <4>2
        <5>2. q.pred[j] = r.pred[j] /\ GoodPair(s, r.pred, j)
          BY <1>5, <2>1, <5>1
        <5> QED
          BY <5>2 DEF GoodPair
      <4> QED
        BY <4>1, <4>2
    <3>4. InOrder(s, q, n + 1)
      BY <3>1, <3>2, <3>3 DEF InOrder
    <3> QED
      BY <1>7, <3>4
  <2>4. CASE key # n
    <3>1. n < key /\ n \in Keys
      BY <1>6, <2>2, <2>4 DEF Keys
    <3>2. n \notin DOMAIN q.pred
      BY <1>5, <2>1, <3>1
    <3>3. HasGap(q)
      BY <1>5, <3>1, <3>2 DEF HasGap
    <3> QED
      BY <1>7, <3>3
  <2> QED
    BY <2>3, <2>4
<1> QED
  BY <1>4, <1>8, <1>9

\* It holds after every number of pairs.
LEMMA PairsKeep ==
    ASSUME NEW s
    PROVE  \A n \in Nat : PairsInv(s, pairs(s)[n], n)
<1> DEFINE T == {n \in Nat : PairsInv(s, pairs(s)[n], n)}
<1>1. 0 \in T
  <2>1. pairs(s)[0] = AfterMapHead
    BY pairsDef
  <2>2. AfterMapHead.pos = 2 /\ AfterMapHead.last = -1 /\ DOMAIN AfterMapHead.pred = {}
    BY DEF AfterMapHead, NoFields
  <2>3. InOrder(s, AfterMapHead, 0)
    BY <2>2 DEF InOrder
  <2>4. PairsInv(s, AfterMapHead, 0)
    BY <2>2, <2>3 DEF PairsInv
  <2> QED
    BY <2>1, <2>4
<1>2. ASSUME NEW n \in Nat, n \in T PROVE n + 1 \in T
  <2>1. PICK r : r = pairs(s)[n]
    OBVIOUS
  <2>2. PairsInv(s, readPair(s, r), n + 1)
    BY <1>2, <2>1, PairsStep
  <2>3. pairs(s)[n + 1] = readPair(s, r)
    BY <2>1, pairsDef
  <2>4. PairsInv(s, pairs(s)[n + 1], n + 1)
    BY <2>2, <2>3
  <2>5. n + 1 \in Nat
    OBVIOUS
  <2> QED
    BY <2>4, <2>5
<1>3. \A n \in Nat : n \in T
  <2> HIDE DEF T
  <2> QED
    BY <1>1, <1>2, Induction
<1> QED
  BY <1>3

\* What DecodePayload accepts is eleven pairs in order and nothing after them.
LEMMA DecodedInOrder ==
    ASSUME NEW s, s[1].arg \in Nat, Len(s) \in Nat, NEW r, r = DecodePayload(s), r.ok
    PROVE  /\ readHead(s, 1) /\ s[1].major = 5 /\ s[1].arg = 11
           /\ Len(s) = 23 /\ DOMAIN r.pred = Keys /\ InOrder(s, r, 11)
<1>1. PICK n : n = s[1].arg
  OBVIOUS
<1>2. /\ readHead(s, 1) /\ s[1].major = 5 /\ r = pairs(s)[n]
      /\ DOMAIN r.pred = Keys /\ r.pos = Len(s) + 1
  BY <1>1 DEF DecodePayload, Failed
<1>3. n \in Nat
  BY <1>1
<1>4. PairsInv(s, r, n)
  BY <1>2, <1>3, PairsKeep
<1>5. ~HasGap(r)
  BY <1>2 DEF HasGap
<1>6. r.pos = 2 * n + 2 /\ InOrder(s, r, n)
  BY <1>4, <1>5 DEF PairsInv
<1>7. 0..(n - 1) = 0..10
  BY <1>2, <1>6 DEF InOrder, Keys
<1>8. n = 11
  <2>1. 10 \in 0..(n - 1)
    BY <1>7
  <2>2. n <= 11
    BY <1>6 DEF InOrder
  <2> QED
    BY <1>3, <2>1, <2>2
<1>9. Len(s) = 23
  <2>1. PICK len \in Nat : len = Len(s)
    OBVIOUS
  <2>2. r.pos = len + 1 /\ r.pos = 2 * 11 + 2
    BY <1>2, <1>6, <1>8, <2>1
  <2>3. len = 23
    BY <2>2
  <2> QED
    BY <2>1, <2>3
<1> QED
  BY <1>1, <1>2, <1>6, <1>8, <1>9

\* The forms of an argument.
Widths == {0, 1, 2, 4, 8}

\* Items with contents from C: the argument fits its form, and only strings have contents.
Items(C) ==
    {x \in [major : Nat, arg : Nat, width : Widths, data : C] :
        Width(x.arg) <= x.width /\ (x.major # 2 => x.data = <<>>)}

\* The bounds of the forms, in order.
LEMMA Forms == Byte \in Nat /\ Short \in Nat /\ Word \in Nat /\ 64 < Byte /\ Byte < Short /\ Short < Word
BY ReaderAssumption

\* What the encoder gives an argument is a form, and the argument needs it.
LEMMA WidthFits == \A n \in Nat : Width(n) \in Widths /\ n >= Least(Width(n))
BY Forms DEF Width, Least, Widths

\* A form that holds the argument and that the argument needs is the encoder's.
LEMMA WidthIs ==
    ASSUME NEW n \in Nat, NEW w \in Widths, Width(n) <= w, n >= Least(w)
    PROVE  w = Width(n)
BY Forms DEF Width, Least, Widths

\* An argument at the edge of a form, within it or one too small, fits the form.
LEMMA EdgeFits ==
    ASSUME NEW w \in {1, 2, 4, 8}, NEW k \in {0, 1}
    PROVE  Least(w) - k \in Nat /\ Width(Least(w) - k) <= w
BY Forms DEF Width, Least

\* Bounds of the form of a small argument that is read.
LEMMA SmallForm ==
    ASSUME NEW n \in Nat, NEW w \in Widths, n >= Least(w)
    PROVE  (n < 24 => w = 0) /\ (n <= 64 => w <= 1) /\ (n = 32 /\ Width(n) <= w => w = 1)
BY Forms DEF Width, Least, Widths

\* An item in a form it needs is given by its type, its argument and its contents.
LEMMA ItemIs ==
    ASSUME NEW C, NEW x \in Items(C), x.arg >= Least(x.width)
    PROVE  x = Item(x.major, x.arg, x.data)
<1>1. x = [major |-> x.major, arg |-> x.arg, width |-> x.width, data |-> x.data]
  BY DEF Items
<1>2. x.width = Width(x.arg)
  BY WidthIs DEF Items
<1> QED
  BY <1>1, <1>2 DEF Item

\* A value that is read for a key has the key's type and a form it needs.
LEMMA FieldMajor ==
    ASSUME NEW s, NEW p, NEW key \in Keys, readField(key, s, p)
    PROVE  p \in DOMAIN s /\ s[p].arg >= Least(s[p].width) /\ s[p].major = Major(key)
<1>1. CASE key = 3
  BY <1>1 DEF readField, readBool, Major, BstrKeys, Least
<1>2. CASE key # 3
  BY <1>2 DEF readField, readBstr, readUint, readHead, Major, BstrKeys, Keys
<1> QED
  BY <1>1, <1>2

\* The items of an encoding, by position.
LEMMA EncodedItems ==
    ASSUME NEW pred, NEW e, e = EncodePayload(pred)
    PROVE  /\ e[1] = Item(5, 11, <<>>)
           /\ \A j \in Keys : /\ e[2 * j + 2] = Uint(j)
                              /\ e[2 * j + 3] = Item(Major(j), pred[j].arg, pred[j].data)
<1>1. e[1] = Item(5, 11, <<>>)
  BY DEF EncodePayload
<1>2. ASSUME NEW j \in Keys PROVE e[2 * j + 2] = Uint(j)
  <2>1. 2 * j + 2 \in 1..23 /\ 2 * j + 2 # 1 /\ (2 * j + 2) % 2 = 0 /\ (2 * j + 2) \div 2 - 1 = j
    BY DEF Keys
  <2>2. PICK i : i = 2 * j + 2
    OBVIOUS
  <2>3. i \in 1..23 /\ i # 1 /\ i % 2 = 0 /\ i \div 2 - 1 = j
    BY <2>1, <2>2
  <2>4. e[i] = Uint(j)
    BY ONLY <2>3, e = EncodePayload(pred) DEF EncodePayload
  <2> QED
    BY <2>2, <2>4
<1>3. ASSUME NEW j \in Keys PROVE e[2 * j + 3] = Item(Major(j), pred[j].arg, pred[j].data)
  <2>1. 2 * j + 3 \in 1..23 /\ 2 * j + 3 # 1 /\ (2 * j + 3) % 2 # 0 /\ (2 * j + 3) \div 2 - 1 = j
    BY DEF Keys
  <2>2. PICK i : i = 2 * j + 3
    OBVIOUS
  <2>3. i \in 1..23 /\ i # 1 /\ i % 2 # 0 /\ i \div 2 - 1 = j
    BY <2>1, <2>2
  <2>4. e[i] = Item(Major(j), pred[j].arg, pred[j].data)
    BY ONLY <2>3, e = EncodePayload(pred) DEF EncodePayload
  <2> QED
    BY <2>2, <2>4
<1> QED
  BY <1>1, <1>2, <1>3

\* Every position but the first is of a key or of its value.
LEMMA Positions == \A i \in 1..23 : i = 1 \/ \E j \in Keys : i = 2 * j + 2 \/ i = 2 * j + 3
<1> SUFFICES ASSUME NEW i \in 1..23, i # 1
             PROVE  \E j \in Keys : i = 2 * j + 2 \/ i = 2 * j + 3
  OBVIOUS
<1> DEFINE j == i \div 2 - 1
<1>1. j \in Keys /\ (i = 2 * j + 2 \/ i = 2 * j + 3)
  BY DEF Keys
<1> QED
  BY <1>1

\* What DecodePayload accepts is the encoding of what it returns, and is read in order.
LEMMA DecodedIsEncoded ==
    ASSUME NEW C, NEW s \in Seq(Items(C)), NEW r, r = DecodePayload(s), r.ok
    PROVE  /\ s = EncodePayload(r.pred) /\ Len(s) = 23
           /\ DOMAIN r.pred = Keys
           /\ \A j \in Keys : GoodPair(s, r.pred, j)
<1>1. Len(s) \in Nat /\ DOMAIN s = 1..Len(s) /\ \A i \in 1..Len(s) : s[i] \in Items(C)
  OBVIOUS
<1>2. 1 \in DOMAIN s
  BY DEF DecodePayload, Failed, readHead
<1>3. s[1].arg \in Nat
  BY <1>1, <1>2 DEF Items
<1>4. /\ readHead(s, 1) /\ s[1].major = 5 /\ s[1].arg = 11
      /\ Len(s) = 23 /\ DOMAIN r.pred = Keys /\ InOrder(s, r, 11)
  BY <1>1, <1>3, DecodedInOrder
<1>5. ASSUME NEW j \in Keys PROVE GoodPair(s, r.pred, j)
  <2>1. j \in 0..(11 - 1)
    BY DEF Keys
  <2> QED
    BY <1>4, <2>1 DEF InOrder
<1>6. PICK e : e = EncodePayload(r.pred)
  OBVIOUS
<1>7. s[1] = e[1]
  <2>1. s[1] \in Items(C) /\ s[1].arg >= Least(s[1].width)
    BY <1>1, <1>2, <1>4 DEF readHead
  <2>2. s[1] = Item(5, 11, s[1].data)
    BY <1>4, <2>1, ItemIs
  <2>3. s[1].data = <<>>
    BY <1>4, <2>1 DEF Items
  <2> QED
    BY <1>6, <2>2, <2>3, EncodedItems
<1>8. ASSUME NEW j \in Keys PROVE s[2 * j + 2] = e[2 * j + 2] /\ s[2 * j + 3] = e[2 * j + 3]
  <2>1. /\ readUint(s, 2 * j + 2) /\ s[2 * j + 2].arg = j
        /\ readField(j, s, 2 * j + 3) /\ r.pred[j] = Value(s[2 * j + 3])
    BY <1>5 DEF GoodPair
  <2>2. PICK x, y : x = s[2 * j + 2] /\ y = s[2 * j + 3]
    OBVIOUS
  <2>3. x \in Items(C) /\ x.arg >= Least(x.width) /\ x.major = 0 /\ x.arg = j
    BY <1>1, <2>1, <2>2 DEF readUint, readHead
  <2>4. x = Item(x.major, x.arg, x.data) /\ x.data = <<>>
    <3>1. x.data = <<>>
      BY <2>3 DEF Items
    <3> QED
      BY <2>3, <3>1, ItemIs
  <2>5. x = Uint(j)
    BY <2>3, <2>4 DEF Uint
  <2>6. y \in Items(C) /\ y.arg >= Least(y.width) /\ y.major = Major(j)
    BY <1>1, <2>1, <2>2, FieldMajor
  <2>7. y = Item(y.major, y.arg, y.data)
    BY <2>6, ItemIs
  <2>8. r.pred[j].arg = y.arg /\ r.pred[j].data = y.data
    BY <2>1, <2>2 DEF Value
  <2>9. y = Item(Major(j), r.pred[j].arg, r.pred[j].data)
    BY <2>6, <2>7, <2>8
  <2>10. e[2 * j + 2] = Uint(j) /\ e[2 * j + 3] = Item(Major(j), r.pred[j].arg, r.pred[j].data)
    BY <1>6, EncodedItems
  <2> QED
    BY <2>2, <2>5, <2>9, <2>10
<1>9. ASSUME NEW i \in 1..23 PROVE s[i] = e[i]
  BY <1>7, <1>8, Positions
<1>10. DOMAIN e = 1..23 /\ e = [i \in 1..23 |-> e[i]]
  BY <1>6 DEF EncodePayload
<1>11. s = [i \in 1..23 |-> s[i]]
  BY <1>1, <1>4
<1>12. s = e
  BY <1>9, <1>10, <1>11
<1> QED
  BY <1>4, <1>5, <1>6, <1>12

\* The contents of the strings of a payload.
Contents == {<<>>, Cut} \cup {Bytes(d) : d \in Datum}

\* The signature over the payload of p, and the contents of the strings of a message.
Signed(p) == coseSigStruct(coseProtected, Bstr(123, EncodePayload(p)))

MsgContents(p) == Contents \cup {coseProtected.data, EncodePayload(p), Signed(p)}

\* The inductive invariant: edits make items of the same contents, in any order.  Above
\* all, no edit makes a signature.
ReaderInv ==
    /\ payload \in Seq(Items(Contents))
    /\ \E p \in Predicates : msg \in Seq(Items(MsgContents(p)))

\* An edited item is an item.
LEMMA EntryType ==
    ASSUME NEW C, <<>> \in C, NEW major \in Nat, NEW arg \in Nat, NEW width \in Widths,
           Width(arg) <= width, NEW data \in C
    PROVE  Entry(major, arg, width, data) \in Items(C)
<1>1. PICK d : d = IF major = 2 THEN data ELSE <<>>
  OBVIOUS
<1>2. Entry(major, arg, width, data) = [major |-> major, arg |-> arg, width |-> width, data |-> d]
  BY <1>1 DEF Entry
<1> QED
  BY <1>1, <1>2 DEF Items

\* A change of an item is an item with contents that were there.
LEMMA ChangesType ==
    ASSUME NEW C, Contents \subseteq C, NEW x \in Items(C), NEW z \in Changes(x)
    PROVE  z \in Items(C)
<1>1. /\ x.major \in Nat /\ x.arg \in Nat /\ x.width \in Widths /\ x.data \in C
      /\ Width(x.arg) <= x.width
  BY DEF Items
<1>2. x.arg + 1 \in Nat /\ Width(x.arg) <= 8 /\ Width(20) = 0 /\ 0 \in Widths /\ 8 \in Widths
  BY <1>1, WidthFits DEF Widths, Width
<1>3. <<>> \in C /\ \A d \in Datum : Bytes(d) \in C
  BY DEF Contents
<1>4. CASE z \in { Entry(x.major, Least(w) - k, w, x.data) : w \in {1, 2, 4, 8}, k \in {0, 1} }
  <2>1. PICK w \in {1, 2, 4, 8}, k \in {0, 1} : z = Entry(x.major, Least(w) - k, w, x.data)
    BY <1>4
  <2>2. PICK n : n = Least(w) - k
    OBVIOUS
  <2>3. n \in Nat /\ Width(n) <= w /\ w \in Widths
    BY <2>2, EdgeFits DEF Widths
  <2> QED
    BY <1>1, <1>3, <2>1, <2>2, <2>3, EntryType
<1>5. CASE z = Entry(x.major, x.arg, 8, x.data)
  BY <1>1, <1>2, <1>3, <1>5, EntryType
<1>6. CASE z = Entry(x.major, x.arg + 1, Width(x.arg + 1), x.data)
  <2>1. PICK n, w : n = x.arg + 1 /\ w = Width(n)
    OBVIOUS
  <2>2. n \in Nat /\ w \in Widths /\ Width(n) <= w
    BY <1>2, <2>1, WidthFits DEF Widths
  <2> QED
    BY <1>1, <1>3, <1>6, <2>1, <2>2, EntryType
<1>7. CASE z = Entry(7, 20, 0, x.data)
  <2>1. 7 \in Nat /\ 20 \in Nat /\ Width(20) <= 0
    BY <1>2
  <2> QED
    BY <1>1, <1>2, <1>3, <1>7, <2>1, EntryType
<1>8. CASE z \in { Entry(major, x.arg, x.width, x.data) : major \in {0, 2} }
  <2>1. PICK major \in {0, 2} : z = Entry(major, x.arg, x.width, x.data)
    BY <1>8
  <2>2. major \in Nat
    OBVIOUS
  <2> QED
    BY <1>1, <1>3, <2>1, <2>2, EntryType
<1>9. CASE z \in { Entry(x.major, x.arg, x.width, Bytes(d)) : d \in Datum }
  <2>1. PICK d \in Datum : z = Entry(x.major, x.arg, x.width, Bytes(d))
    BY <1>9
  <2>2. PICK u : u = Bytes(d) /\ u \in C
    BY <1>3
  <2> QED
    BY <1>1, <1>3, <2>1, <2>2, EntryType
<1> QED
  BY <1>4, <1>5, <1>6, <1>7, <1>8, <1>9 DEF Changes

\* Items by construction.
LEMMA ItemType ==
    ASSUME NEW C, NEW major \in Nat, NEW arg \in Nat, NEW data \in C, major # 2 => data = <<>>
    PROVE  Item(major, arg, data) \in Items(C)
<1>1. PICK w : w = Width(arg) /\ w \in Widths /\ Width(arg) <= w
  BY WidthFits DEF Widths
<1>2. Item(major, arg, data) = [major |-> major, arg |-> arg, width |-> w, data |-> data]
  BY <1>1 DEF Item
<1> QED
  BY <1>1, <1>2 DEF Items

LEMMA MadeItems ==
    ASSUME NEW C, <<>> \in C
    PROVE  /\ \A n \in Nat : Uint(n) \in Items(C)
           /\ \A m, n \in Nat : m # 2 => Item(m, n, <<>>) \in Items(C)
           /\ \A n \in Nat, d \in C : Bstr(n, d) \in Items(C)
BY ItemType DEF Uint, Bstr

\* The slices that edits are made of.
LEMMA Slices ==
    ASSUME NEW S, NEW s \in Seq(S), NEW i \in 1..Len(s)
    PROVE  /\ SubSeq(s, 1, i - 1) \in Seq(S)
           /\ SubSeq(s, i, Len(s)) \in Seq(S)
           /\ SubSeq(s, i + 1, Len(s)) \in Seq(S)
           /\ i + 3 <= Len(s) => /\ SubSeq(s, i + 2, i + 3) \in Seq(S)
                                 /\ SubSeq(s, i, i + 1) \in Seq(S)
                                 /\ SubSeq(s, i + 4, Len(s)) \in Seq(S)
<1>1. Len(s) \in Nat /\ i \in Nat /\ 1 <= i /\ i <= Len(s)
  OBVIOUS
<1>2. SubSeq(s, 1, i - 1) \in Seq(S)
  BY <1>1
<1>3. SubSeq(s, i, Len(s)) \in Seq(S)
  BY <1>1
<1>4. SubSeq(s, i + 1, Len(s)) \in Seq(S)
  BY <1>1
<1>5. ASSUME i + 3 <= Len(s)
      PROVE  /\ SubSeq(s, i + 2, i + 3) \in Seq(S)
             /\ SubSeq(s, i, i + 1) \in Seq(S)
             /\ SubSeq(s, i + 4, Len(s)) \in Seq(S)
  BY <1>1, <1>5
<1> QED
  BY <1>2, <1>3, <1>4, <1>5

\* An element put between two pieces.
LEMMA Inserted ==
    ASSUME NEW S, NEW a \in Seq(S), NEW b \in Seq(S), NEW x \in S
    PROVE  (a \o <<x>>) \o b \in Seq(S)
<1>1. <<x>> \in Seq(S)
  OBVIOUS
<1>2. a \o <<x>> \in Seq(S)
  BY <1>1
<1> QED
  BY <1>2

\* An edit keeps the contents.
LEMMA EditedType ==
    ASSUME NEW C, Contents \subseteq C, NEW s \in Seq(Items(C)), NEW t \in Edited(s)
    PROVE  t \in Seq(Items(C))
<1> DEFINE I == Items(C)
<1>1. PICK i \in DOMAIN s :
          \/ t \in { ReplaceAt(s, i, x) : x \in Changes(s[i]) }
          \/ t \in { RemoveAt(s, i), InsertAt(s, i, s[i]), SubSeq(s, 1, i - 1),
                     InsertAt(s, i + 1, Uint(11)), InsertAt(s, i, Item(4, 1, <<>>)) }
          \/ s[i].major = 2 /\ t = Append(SubSeq(s, 1, i - 1), Bstr(s[i].arg, Cut))
          \/ i + 3 <= Len(s) /\ t = SubSeq(s, 1, i - 1) \o SubSeq(s, i + 2, i + 3)
                                      \o SubSeq(s, i, i + 1) \o SubSeq(s, i + 4, Len(s))
  BY DEF Edited
<1>2. i \in 1..Len(s) /\ s[i] \in I /\ Len(s) \in Nat
  OBVIOUS
<1>3. <<>> \in C /\ Cut \in C
  BY DEF Contents
<1>4. Uint(11) \in I /\ Item(4, 1, <<>>) \in I /\ Bstr(s[i].arg, Cut) \in I
  <2>1. s[i].arg \in Nat
    BY <1>2 DEF Items
  <2>2. \A n \in Nat : Uint(n) \in Items(C)
    BY <1>3, MadeItems
  <2>3. \A j, n \in Nat : j # 2 => Item(j, n, <<>>) \in Items(C)
    BY <1>3, MadeItems
  <2>4. \A n \in Nat, d \in C : Bstr(n, d) \in Items(C)
    BY <1>3, MadeItems
  <2>5. Uint(11) \in Items(C)
    BY <2>2
  <2>6. Item(4, 1, <<>>) \in Items(C)
    BY <2>3
  <2>7. Bstr(s[i].arg, Cut) \in Items(C)
    BY <1>3, <2>1, <2>4
  <2> QED
    BY <2>5, <2>6, <2>7
<1> HIDE DEF I
<1>5. /\ SubSeq(s, 1, i - 1) \in Seq(I)
      /\ SubSeq(s, i, Len(s)) \in Seq(I)
      /\ SubSeq(s, i + 1, Len(s)) \in Seq(I)
      /\ i + 3 <= Len(s) => /\ SubSeq(s, i + 2, i + 3) \in Seq(I)
                            /\ SubSeq(s, i, i + 1) \in Seq(I)
                            /\ SubSeq(s, i + 4, Len(s)) \in Seq(I)
  BY <1>2, Slices DEF I
<1>6. PICK a, b, c : a = SubSeq(s, 1, i - 1) /\ b = SubSeq(s, i, Len(s)) /\ c = SubSeq(s, i + 1, Len(s))
  OBVIOUS
<1>7. a \in Seq(I) /\ b \in Seq(I) /\ c \in Seq(I)
  BY <1>5, <1>6
<1>8. CASE t \in { ReplaceAt(s, i, x) : x \in Changes(s[i]) }
  <2>1. PICK x \in Changes(s[i]) : t = ReplaceAt(s, i, x)
    BY <1>8
  <2>2. x \in Items(C)
    BY <1>2, ChangesType DEF I
  <2> QED
    BY <1>2, <2>1, <2>2 DEF ReplaceAt
<1>9. CASE t = RemoveAt(s, i)
  BY <1>6, <1>7, <1>9 DEF RemoveAt, I
<1>10. CASE t = InsertAt(s, i, s[i])
  <2>1. t = (a \o <<s[i]>>) \o b
    BY <1>6, <1>10 DEF InsertAt
  <2> QED
    BY <1>2, <1>7, <2>1, Inserted DEF I
<1>11. CASE t = SubSeq(s, 1, i - 1)
  BY <1>6, <1>7, <1>11 DEF I
<1>12. CASE t = InsertAt(s, i + 1, Uint(11))
  <2>1. (i + 1) - 1 = i
    BY <1>2
  <2>2. PICK d : d = SubSeq(s, 1, i)
    OBVIOUS
  <2>3. d \in Seq(I)
    BY <1>2, <2>2 DEF I
  <2>4. t = (d \o <<Uint(11)>>) \o c
    BY <1>6, <1>12, <2>1, <2>2 DEF InsertAt
  <2> QED
    BY <1>4, <1>7, <2>3, <2>4, Inserted DEF I
<1>13. CASE t = InsertAt(s, i, Item(4, 1, <<>>))
  <2>1. t = (a \o <<Item(4, 1, <<>>)>>) \o b
    BY <1>6, <1>13 DEF InsertAt
  <2> QED
    BY <1>4, <1>7, <2>1, Inserted DEF I
<1>14. CASE t = Append(SubSeq(s, 1, i - 1), Bstr(s[i].arg, Cut))
  BY <1>4, <1>6, <1>7, <1>14 DEF I
<1>15. CASE i + 3 <= Len(s) /\ t = SubSeq(s, 1, i - 1) \o SubSeq(s, i + 2, i + 3)
                                      \o SubSeq(s, i, i + 1) \o SubSeq(s, i + 4, Len(s))
  <2>1. PICK d, e, f : d = SubSeq(s, i + 2, i + 3) /\ e = SubSeq(s, i, i + 1)
                       /\ f = SubSeq(s, i + 4, Len(s))
    OBVIOUS
  <2>2. d \in Seq(I) /\ e \in Seq(I) /\ f \in Seq(I)
    BY <1>5, <1>15, <2>1
  <2>3. t = a \o d \o e \o f
    BY <1>6, <1>15, <2>1
  <2>4. a \o d \in Seq(I)
    BY <1>7, <2>2
  <2>5. (a \o d) \o e \in Seq(I)
    BY <2>2, <2>4
  <2>6. ((a \o d) \o e) \o f \in Seq(I)
    BY <2>2, <2>5
  <2> QED
    BY <2>3, <2>6 DEF I
<1> QED
  BY <1>1, <1>8, <1>9, <1>10, <1>11, <1>12, <1>13, <1>14, <1>15

\* The fields of a predicate.
LEMMA PredicateFacts ==
    ASSUME NEW p \in Predicates
    PROVE  /\ p = [k \in Keys |-> p[k]]
           /\ \A k \in Keys : /\ p[k].arg \in Nat /\ p[k].data \in Contents
                              /\ p[k] = [arg |-> p[k].arg, data |-> p[k].data]
                              /\ Major(k) # 2 => p[k].data = <<>>
<1>1. PICK d \in Datum :
          p = [k \in Keys |-> IF k = 1 THEN [arg |-> 16, data |-> Bytes(d)]
                              ELSE IF k = 3 THEN [arg |-> 21, data |-> <<>>]
                              ELSE IF k \in BstrKeys THEN [arg |-> HashLen, data |-> Bytes(d)]
                              ELSE [arg |-> 1, data |-> <<>>]]
  BY DEF Predicates
<1>2. PICK u : u = Bytes(d)
  OBVIOUS
<1>3. u \in Contents /\ <<>> \in Contents
  BY <1>2 DEF Contents
<1>4. HashLen \in Nat
  BY DEF HashLen
<1>5. ASSUME NEW k \in Keys
      PROVE  /\ p[k].arg \in Nat /\ p[k].data \in Contents
             /\ p[k] = [arg |-> p[k].arg, data |-> p[k].data]
             /\ Major(k) # 2 => p[k].data = <<>>
  <2>1. CASE k = 1
    <3>1. p[k] = [arg |-> 16, data |-> u]
      BY <1>1, <1>2, <2>1
    <3>2. Major(k) = 2
      BY <2>1 DEF Major, BstrKeys
    <3> QED
      BY <1>3, <3>1, <3>2
  <2>2. CASE k = 3
    <3>1. p[k] = [arg |-> 21, data |-> <<>>]
      BY <1>1, <2>2
    <3> QED
      BY <1>3, <3>1
  <2>3. CASE k # 1 /\ k \in BstrKeys
    <3>1. p[k] = [arg |-> HashLen, data |-> u]
      BY <1>1, <1>2, <2>3 DEF BstrKeys
    <3>2. Major(k) = 2
      BY <2>3 DEF Major
    <3> QED
      BY <1>3, <1>4, <3>1, <3>2
  <2>4. CASE k # 1 /\ k # 3 /\ k \notin BstrKeys
    <3>1. p[k] = [arg |-> 1, data |-> <<>>]
      BY <1>1, <2>4
    <3> QED
      BY <1>3, <3>1
  <2> QED
    BY <2>1, <2>2, <2>3, <2>4
<1>6. p = [k \in Keys |-> p[k]]
  BY <1>1
<1> QED
  BY <1>5, <1>6

\* An encoding is 23 items.
LEMMA EncodedType ==
    ASSUME NEW p \in Predicates
    PROVE  EncodePayload(p) \in Seq(Items(Contents)) /\ Len(EncodePayload(p)) = 23
<1>1. PICK e : e = EncodePayload(p)
  OBVIOUS
<1>2. e = [i \in 1..23 |-> e[i]]
  BY <1>1 DEF EncodePayload
<1>3. <<>> \in Contents
  BY DEF Contents
<1>4. ASSUME NEW i \in 1..23 PROVE e[i] \in Items(Contents)
  <2>1. CASE i = 1
    <3>1. e[i] = Item(5, 11, <<>>)
      BY <1>1, <2>1, EncodedItems
    <3>2. Item(5, 11, <<>>) \in Items(Contents)
      BY <1>3, MadeItems
    <3> QED
      BY <3>1, <3>2
  <2>2. CASE i # 1
    <3>1. PICK j \in Keys : i = 2 * j + 2 \/ i = 2 * j + 3
      BY <2>2, Positions
    <3>2. j \in Nat
      BY DEF Keys
    <3>3. e[2 * j + 2] = Uint(j) /\ e[2 * j + 3] = Item(Major(j), p[j].arg, p[j].data)
      BY <1>1, EncodedItems
    <3>4. Uint(j) \in Items(Contents)
      BY <1>3, <3>2, MadeItems
    <3>5. PICK y : y = p[j]
      OBVIOUS
    <3>6. y.arg \in Nat /\ y.data \in Contents /\ (Major(j) # 2 => y.data = <<>>)
      BY <3>5, PredicateFacts
    <3>7. Major(j) \in Nat
      BY DEF Major
    <3>8. Item(Major(j), y.arg, y.data) \in Items(Contents)
      BY <3>6, <3>7, ItemType
    <3> QED
      BY <3>1, <3>3, <3>4, <3>5, <3>8
  <2> QED
    BY <2>1, <2>2
<1>5. e \in [1..23 -> Items(Contents)]
  BY <1>2, <1>4
<1>6. e \in Seq(Items(Contents)) /\ Len(e) = 23
  BY <1>5, SeqOfFunction
<1> QED
  BY <1>1, <1>6

\* The contents of a message, one by one.
LEMMA MsgContentsHas ==
    ASSUME NEW p
    PROVE  /\ Contents \subseteq MsgContents(p) /\ <<>> \in MsgContents(p)
           /\ coseProtected.data \in MsgContents(p)
           /\ EncodePayload(p) \in MsgContents(p) /\ Signed(p) \in MsgContents(p)
BY DEF MsgContents, Contents

\* A signed message is of these contents.
LEMMA SignedType ==
    ASSUME NEW p \in Predicates
    PROVE  SignCOSESign1(EncodePayload(p)) \in Seq(Items(MsgContents(p)))
<1>1. PICK C, e, g : C = MsgContents(p) /\ e = EncodePayload(p) /\ g = Signed(p)
  OBVIOUS
<1>2. <<>> \in C /\ coseProtected.data \in C /\ e \in C /\ g \in C
  BY <1>1, MsgContentsHas
<1>3. Item(6, 18, <<>>) \in Items(C) /\ Item(4, 4, <<>>) \in Items(C) /\ Item(5, 0, <<>>) \in Items(C)
  BY <1>2, MadeItems
<1>4. ASSUME NEW n \in Nat, NEW d \in C PROVE Bstr(n, d) \in Items(C)
  BY <1>2, MadeItems
<1>5. coseProtected \in Items(C)
  <2>1. coseProtected = Bstr(3, coseProtected.data)
    BY DEF coseProtected, Bstr, Item
  <2>2. Bstr(3, coseProtected.data) \in Items(C)
    BY <1>2, <1>4
  <2> QED
    BY <2>1, <2>2
<1>6. Bstr(123, e) \in Items(C) /\ Bstr(64, g) \in Items(C)
  BY <1>2, <1>4
<1>7. SignCOSESign1(e) = <<Item(6, 18, <<>>), Item(4, 4, <<>>), coseProtected, Item(5, 0, <<>>),
                           Bstr(123, e), Bstr(64, g)>>
  BY <1>1 DEF SignCOSESign1, Signed
<1>8. PICK x1, x2, x3, x4, x5, x6 :
          /\ x1 = Item(6, 18, <<>>) /\ x2 = Item(4, 4, <<>>) /\ x3 = coseProtected
          /\ x4 = Item(5, 0, <<>>) /\ x5 = Bstr(123, e) /\ x6 = Bstr(64, g)
  OBVIOUS
<1>9. PICK I : I = Items(C)
  OBVIOUS
<1>10. x1 \in I /\ x2 \in I /\ x3 \in I /\ x4 \in I /\ x5 \in I /\ x6 \in I
  BY <1>3, <1>5, <1>6, <1>8, <1>9
<1>11. <<x1, x2, x3, x4, x5, x6>> \in Seq(I)
  BY <1>10
<1> QED
  BY <1>1, <1>7, <1>8, <1>9, <1>11

\* The invariant holds of what the device emits.
LEMMA ReaderInitInv == ReaderInit => ReaderInv
<1> SUFFICES ASSUME ReaderInit PROVE ReaderInv
  OBVIOUS
<1>1. PICK p \in Predicates :
          \/ payload = EncodePayload(p) /\ msg = <<>>
          \/ payload = <<>> /\ msg = SignCOSESign1(EncodePayload(p))
  BY DEF ReaderInit
<1>2. \A S : <<>> \in Seq(S)
  OBVIOUS
<1>3. payload \in Seq(Items(Contents))
  <2>1. EncodePayload(p) \in Seq(Items(Contents))
    BY EncodedType
  <2> QED
    BY <1>1, <1>2, <2>1
<1>4. msg \in Seq(Items(MsgContents(p)))
  <2>1. SignCOSESign1(EncodePayload(p)) \in Seq(Items(MsgContents(p)))
    BY SignedType
  <2> QED
    BY <1>1, <1>2, <2>1
<1> QED
  BY <1>3, <1>4 DEF ReaderInv

\* Edits keep it.
LEMMA ReaderStepInv == ReaderInv /\ [ReaderNext]_readerVars => ReaderInv'
<1> SUFFICES ASSUME ReaderInv, [ReaderNext]_readerVars PROVE ReaderInv'
  OBVIOUS
<1>1. PICK s, m, p : s = payload /\ m = msg /\ p \in Predicates
                     /\ s \in Seq(Items(Contents)) /\ m \in Seq(Items(MsgContents(p)))
  BY DEF ReaderInv
<1>2. PICK t, n : t = payload' /\ n = msg'
  OBVIOUS
<1>3. t \in Seq(Items(Contents)) /\ n \in Seq(Items(MsgContents(p)))
  <2>1. CASE EditPayload
    <3>1. t \in Edited(s) /\ n = m
      BY <1>1, <1>2, <2>1 DEF EditPayload
    <3>2. t \in Seq(Items(Contents))
      BY <1>1, <3>1, EditedType
    <3> QED
      BY <1>1, <3>1, <3>2
  <2>2. CASE EditMessage
    <3>1. n \in Edited(m) /\ t = s
      BY <1>1, <1>2, <2>2 DEF EditMessage
    <3>2. Contents \subseteq MsgContents(p)
      BY MsgContentsHas
    <3>3. n \in Seq(Items(MsgContents(p)))
      BY <1>1, <3>1, <3>2, EditedType
    <3> QED
      BY <1>1, <3>1, <3>3
  <2>3. CASE UNCHANGED readerVars
    BY <1>1, <1>2, <2>3 DEF readerVars
  <2> QED
    BY <2>1, <2>2, <2>3 DEF ReaderNext
<1>4. p \in Predicates
  BY <1>1
<1> QED
  BY <1>2, <1>3, <1>4 DEF ReaderInv

\* The invariant is one.
LEMMA ReaderInvariant == ReaderSpec => []ReaderInv
BY ReaderInitInv, ReaderStepInv, PTL DEF ReaderSpec

\* Whatever edits have been made, a payload that DecodePayload accepts is, item by item,
\* what he_payload_encode emits for the fields it returns.
THEOREM EncodingIsOne == ReaderSpec => []OneEncoding
<1>1. ReaderInv => OneEncoding
  <2> SUFFICES ASSUME ReaderInv PROVE OneEncoding
    OBVIOUS
  <2>1. PICK s : s = payload /\ s \in Seq(Items(Contents))
    BY DEF ReaderInv
  <2>2. PICK r : r = DecodePayload(s)
    OBVIOUS
  <2>3. r.ok => s = EncodePayload(r.pred)
    BY <2>1, <2>2, DecodedIsEncoded
  <2> QED
    BY <2>1, <2>2, <2>3 DEF OneEncoding
<1> QED
  BY <1>1, ReaderInvariant, PTL

\* The remainder of a small number.
LEMMA ModSmall == \A a \in Nat, b \in Nat \ {0} : a < b => a % b = a
OBVIOUS

\* The contract has read the first n fields.
FieldsInv(s, q, n) ==
    /\ q.ok /\ q.pos = 2 * n + 2 /\ q.last = n - 1 /\ DOMAIN q.pred = 0..(n - 1)
    /\ \A k \in 0..(n - 1) : q.pred[k] = Kept(k, s[2 * k + 3])

\* What Go reads for a key the contract takes for it.
LEMMA FieldIsVal ==
    ASSUME NEW s, NEW p, NEW key \in Keys, readField(key, s, p), NEW C, s[p] \in Items(C)
    PROVE  /\ ValOK(s[p])
           /\ key \in {1, 9} => s[p].major = 2
           /\ key = 9 => s[p].arg = HashLen /\ s[p].width = 1
<1>1. PICK v : v = s[p] /\ v.arg \in Nat /\ v.width \in Widths /\ Width(v.arg) <= v.width
  BY DEF Items
<1>2. CASE key \in BstrKeys
  <2>1. /\ v.major = 2 /\ v.data # Cut /\ v.arg >= Least(v.width)
        /\ (v.arg <= 64 \/ v.arg = 32) /\ (key = 9 => v.arg = HashLen)
    BY <1>1, <1>2 DEF readField, readBstr, readHead, BstrKeys, NonceMax, HashLen
  <2>2. v.width <= 1 /\ (v.arg = HashLen => v.width = 1)
    <3>1. PICK n, w : n = v.arg /\ w = v.width /\ n \in Nat /\ w \in Widths /\ Width(n) <= w
      BY <1>1
    <3>2. n <= 64 /\ n >= Least(w)
      BY <2>1, <3>1
    <3> QED
      BY <3>1, <3>2, SmallForm DEF HashLen
  <2> QED
    BY <1>1, <2>1, <2>2 DEF ValOK
<1>3. CASE key = 3
  BY <1>3 DEF readField, readBool, ValOK
<1>4. CASE key \notin BstrKeys /\ key # 3
  BY <1>4 DEF readField, readUint, ValOK, BstrKeys
<1> QED
  BY <1>2, <1>3, <1>4

\* One turn of the contract's loop on a payload that is in order.
LEMMA FieldsStep ==
    ASSUME NEW C, NEW s \in Seq(Items(C)), Len(s) = 23, NEW pred, NEW n \in 0..9,
           GoodPair(s, pred, n), NEW q, FieldsInv(s, q, n)
    PROVE  FieldsInv(s, readDeviceField(s, q), n + 1)
<1>1. /\ q.ok /\ q.pos = 2 * n + 2 /\ q.last = n - 1 /\ DOMAIN q.pred = 0..(n - 1)
      /\ \A k \in 0..(n - 1) : q.pred[k] = Kept(k, s[2 * k + 3])
  BY DEF FieldsInv
<1>2. ~(DeviceKeys \subseteq DOMAIN q.pred)
  <2>1. 9 \notin 0..(n - 1)
    OBVIOUS
  <2> QED
    BY <1>1, <2>1 DEF DeviceKeys
<1>3. q.pos < Len(s) /\ ~(q.pos > Len(s)) /\ q.pos + 1 = 2 * n + 3 /\ q.pos + 2 = 2 * (n + 1) + 2
  BY <1>1
<1>4. PICK key, v : key = s[q.pos] /\ v = s[q.pos + 1]
  OBVIOUS
<1>5. key = s[2 * n + 2] /\ v = s[2 * n + 3]
  BY <1>1, <1>3, <1>4
<1>6. key.major = 0 /\ key.width = 0 /\ key.arg = n /\ readField(n, s, 2 * n + 3)
  <2>1. /\ key.major = 0 /\ key.arg >= Least(key.width) /\ key.arg = n
        /\ readField(n, s, 2 * n + 3)
    BY <1>5 DEF GoodPair, readUint, readHead
  <2>2. PICK i \in 1..Len(s) : i = 2 * n + 2
    OBVIOUS
  <2>3. s[i] \in Items(C)
    BY ElementOfSeq
  <2>4. key.width \in Widths
    BY <1>5, <2>2, <2>3 DEF Items
  <2>5. PICK w : w = key.width /\ w \in Widths /\ n >= Least(w) /\ n \in Nat /\ n < 24
    BY <2>1, <2>4
  <2>6. w = 0
    BY <2>5, SmallForm
  <2> QED
    BY <2>1, <2>5, <2>6
<1>7. n \in Keys /\ key.arg > q.last
  BY <1>1, <1>6 DEF Keys
<1>8. v \in Items(C)
  <2>1. PICK i \in 1..Len(s) : i = 2 * n + 3
    OBVIOUS
  <2>2. s[i] \in Items(C)
    BY ElementOfSeq
  <2> QED
    BY <1>5, <2>1, <2>2
<1>9. ValOK(v) /\ (n \in {1, 9} => v.major = 2) /\ (n = 9 => v.arg = HashLen /\ v.width = 1)
  <2>1. PICK p : p = 2 * n + 3
    OBVIOUS
  <2>2. readField(n, s, p) /\ v = s[p]
    BY <1>5, <1>6, <2>1
  <2> QED
    BY <1>7, <1>8, <2>2, FieldIsVal
<1>10. readDeviceField(s, q) = Past(q, n, Kept(n, v))
  BY <1>1, <1>2, <1>3, <1>4, <1>6, <1>7, <1>9 DEF readDeviceField
<1>11. PICK u, w : u = Past(q, n, w) /\ w = Kept(n, v)
  OBVIOUS
<1>12. /\ u.ok /\ u.pos = q.pos + 2 /\ u.last = n /\ DOMAIN u.pred = DOMAIN q.pred \cup {n}
       /\ u.pred[n] = w /\ \A k \in DOMAIN q.pred : k # n => u.pred[k] = q.pred[k]
  <2>1. u = Past(q, n, w)
    BY <1>11
  <2> QED
    BY ONLY <2>1 DEF Past
<1>13. 0..((n + 1) - 1) = (0..(n - 1)) \cup {n} /\ (n + 1) - 1 = n
  OBVIOUS
<1>14. ASSUME NEW k \in 0..((n + 1) - 1) PROVE u.pred[k] = Kept(k, s[2 * k + 3])
  <2>1. CASE k = n
    BY <1>5, <1>11, <1>12, <2>1
  <2>2. CASE k # n
    <3>1. k \in 0..(n - 1)
      BY <2>2
    <3> QED
      BY <1>1, <1>12, <2>2, <3>1
  <2> QED
    BY <2>1, <2>2
<1>15. FieldsInv(s, u, n + 1)
  <2>1. u.ok /\ u.pos = 2 * (n + 1) + 2 /\ u.last = (n + 1) - 1
    BY <1>3, <1>12, <1>13
  <2>2. DOMAIN u.pred = 0..((n + 1) - 1)
    BY <1>1, <1>12, <1>13
  <2> QED
    BY <2>1, <2>2, <1>14 DEF FieldsInv
<1> QED
  BY <1>10, <1>11, <1>15

\* At the end it has read keys 0 to 9, and so all that it keeps.
LEMMA FieldsKeep ==
    ASSUME NEW C, NEW s \in Seq(Items(C)), Len(s) = 23, NEW pred,
           \A j \in Keys : GoodPair(s, pred, j)
    PROVE  FieldsInv(s, fields(s)[23], 10)
<1> DEFINE q(n) == fields(s)[n]
<1>1. q(0) = AfterMapHead /\ \A n \in Nat : q(n + 1) = readDeviceField(s, q(n))
  BY fieldsDef
<1> HIDE DEF q
<1>2. FieldsInv(s, q(0), 0)
  BY <1>1 DEF AfterMapHead, NoFields, FieldsInv
<1>3. ASSUME NEW n \in 0..9, FieldsInv(s, q(n), n) PROVE FieldsInv(s, q(n + 1), n + 1)
  <2>1. GoodPair(s, pred, n)
    BY DEF Keys
  <2>2. PICK r : r = q(n)
    OBVIOUS
  <2>3. FieldsInv(s, readDeviceField(s, r), n + 1)
    BY <1>3, <2>1, <2>2, FieldsStep
  <2> QED
    BY <1>1, <2>2, <2>3
<1> DEFINE T == {n \in Nat : IF n <= 10 THEN FieldsInv(s, q(n), n) ELSE FieldsInv(s, q(n), 10)}
<1>4. 0 \in T
  BY <1>2
<1>5. ASSUME NEW n \in Nat, n \in T PROVE n + 1 \in T
  <2>1. CASE n <= 9
    <3>1. n \in 0..9 /\ FieldsInv(s, q(n), n)
      BY <1>5, <2>1
    <3>2. FieldsInv(s, q(n + 1), n + 1)
      BY <1>3, <3>1
    <3> QED
      BY <2>1, <3>2
  <2>2. CASE ~(n <= 9)
    <3>1. FieldsInv(s, q(n), 10)
      <4>1. CASE n = 10
        BY <1>5, <4>1
      <4>2. CASE n # 10
        BY <1>5, <2>2, <4>2
      <4> QED
        BY <4>1, <4>2
    <3>2. PICK r : r = q(n)
      OBVIOUS
    <3>3. DOMAIN r.pred = 0..(10 - 1)
      BY <3>1, <3>2 DEF FieldsInv
    <3>4. DeviceKeys \subseteq DOMAIN r.pred
      BY <3>3 DEF DeviceKeys
    <3>5. readDeviceField(s, r) = r
      BY <3>4 DEF readDeviceField
    <3>6. FieldsInv(s, q(n + 1), 10)
      BY <1>1, <3>1, <3>2, <3>5
    <3>7. n + 1 \in Nat /\ ~(n + 1 <= 10)
      BY <2>2
    <3> QED
      BY <3>6, <3>7
  <2> QED
    BY <2>1, <2>2
<1>6. \A n \in Nat : n \in T
  <2> HIDE DEF T
  <2> QED
    BY <1>4, <1>5, Induction
<1>7. 23 \in T
  BY <1>6
<1>8. FieldsInv(s, q(23), 10)
  BY <1>7
<1> QED
  BY <1>8 DEF q

\* What the contract keeps of a field of Go's reader.
SameField(u, key, f) ==
    /\ key \in {1, 9} => u = f.data
    /\ key = 3 => u = <<Uint(f.arg - 20)>>
    /\ key \in {0, 2, 4, 5, 7} => u = <<Uint(f.arg)>>

\* What it keeps of each is what Go returns, if that is of the device's width.
LEMMA KeptIsSame ==
    ASSUME NEW s, NEW pred, NEW key \in 0..9, GoodPair(s, pred, key), s[2 * key + 3].arg \in Nat,
           key \in {0, 2, 4, 5} => pred[key].arg < Word
    PROVE  SameField(Kept(key, s[2 * key + 3]), key, pred[key])
<1>1. PICK p, v, f : p = 2 * key + 3 /\ v = s[p] /\ f = pred[key]
  OBVIOUS
<1>2. readField(key, s, p) /\ f = Value(v) /\ v.arg \in Nat
  BY <1>1 DEF GoodPair
<1>3. f.arg = v.arg /\ f.data = v.data
  BY <1>2 DEF Value
<1>4. CASE key \in {1, 9}
  BY <1>1, <1>3, <1>4 DEF SameField, Kept
<1>5. CASE key = 3
  <2>1. v.major = 7 /\ v.arg \in {20, 21}
    BY <1>1, <1>2, <1>5 DEF readField, readBool
  <2>2. v.arg - 20 \in Nat /\ v.arg - 20 < Word /\ Word \in Nat \ {0}
    BY <2>1, ReaderAssumption
  <2>3. (v.arg - 20) % Word = v.arg - 20
    BY <2>2, ModSmall
  <2>4. Kept(key, v) = <<Uint(f.arg - 20)>>
    BY <1>3, <1>5, <2>1, <2>3 DEF Kept, Val
  <2> QED
    BY <1>1, <1>5, <2>4 DEF SameField
<1>6. CASE key \in {0, 2, 4, 5}
  <2>1. v.major = 0
    BY <1>1, <1>2, <1>6 DEF readField, readUint
  <2>2. v.arg < Word
    BY <1>1, <1>3, <1>6
  <2>3. v.arg % Word = v.arg
    BY <1>2, <2>2, ModSmall, ReaderAssumption
  <2>4. Kept(key, v) = <<Uint(f.arg)>>
    BY <1>3, <1>6, <2>1, <2>3 DEF Kept, Val
  <2> QED
    BY <1>1, <1>6, <2>4 DEF SameField
<1>7. CASE key = 7
  <2>1. v.major = 0
    BY <1>1, <1>2, <1>7 DEF readField, readUint
  <2>2. Kept(key, v) = <<Uint(f.arg)>>
    BY <1>3, <1>7, <2>1 DEF Kept, Val
  <2> QED
    BY <1>1, <1>7, <2>2 DEF SameField
<1>8. CASE key \in {6, 8}
  BY <1>8 DEF SameField
<1> QED
  BY <1>4, <1>5, <1>6, <1>7, <1>8

\* _readDevice accepts what DecodePayload accepts, with the same fields.
LEMMA DeviceReads ==
    ASSUME NEW C, NEW s \in Seq(Items(C)), NEW r, r = DecodePayload(s), r.ok,
           \A k \in {0, 2, 4, 5} : r.pred[k].arg < Word, NEW d, d = readDevice(s)
    PROVE  d.ok /\ \A k \in 0..9 : SameField(d.pred[k], k, r.pred[k])
<1>1. /\ s = EncodePayload(r.pred) /\ Len(s) = 23
      /\ \A j \in Keys : GoodPair(s, r.pred, j)
  BY DecodedIsEncoded
<1>2. s[1].major = 5 /\ s[1].arg = 11 /\ s[1].width = 0
  <2>1. s[1] = Item(5, 11, <<>>)
    BY <1>1, EncodedItems
  <2> QED
    BY <2>1 DEF Item, Width
<1>3. s # <<>>
  <2>1. Len(<<>>) # 23
    OBVIOUS
  <2> QED
    BY <1>1, <2>1, Zenon
<1>4. FieldsInv(s, fields(s)[23], 10)
  BY <1>1, FieldsKeep
<1>5. PICK q : q = fields(s)[23]
  OBVIOUS
<1>6. q.ok /\ DOMAIN q.pred = 0..9 /\ \A k \in 0..9 : q.pred[k] = Kept(k, s[2 * k + 3])
  <2>1. 10 - 1 = 9
    OBVIOUS
  <2> QED
    BY <1>4, <1>5, <2>1 DEF FieldsInv
<1>7. DeviceKeys \subseteq DOMAIN q.pred
  BY <1>6 DEF DeviceKeys
<1>8. d = q
  BY <1>1, <1>2, <1>3, <1>5, <1>7 DEF readDevice
<1>9. ASSUME NEW k \in 0..9 PROVE SameField(q.pred[k], k, r.pred[k])
  <2>1. k \in Keys
    BY DEF Keys
  <2>2. PICK i : i = 2 * k + 3 /\ i \in 1..Len(s)
    BY <1>1
  <2>3. s[i] \in Items(C)
    BY <2>2, ElementOfSeq
  <2>4. s[2 * k + 3].arg \in Nat
    BY <2>2, <2>3 DEF Items
  <2>5. SameField(Kept(k, s[2 * k + 3]), k, r.pred[k])
    BY <1>1, <2>1, <2>4, KeptIsSame
  <2> QED
    BY <1>6, <2>5
<1> QED
  BY <1>6, <1>8, <1>9

\* Whatever edits have been made, a payload that DecodePayload accepts with fields of the
\* device's widths is accepted by HonestEarQuorum._readDevice with the same fields, for
\* every word size of at least two values.
THEOREM ChainAgrees == ReaderSpec => []ChainReadsTheSame
<1>1. ReaderInv => ChainReadsTheSame
  <2> SUFFICES ASSUME ReaderInv PROVE ChainReadsTheSame
    OBVIOUS
  <2>1. PICK s : s = payload /\ s \in Seq(Items(Contents))
    BY DEF ReaderInv
  <2>2. PICK r, d : r = DecodePayload(s) /\ d = readDevice(s)
    OBVIOUS
  <2>3. ASSUME r.ok, \A k \in {0, 2, 4, 5} : r.pred[k].arg < Word
        PROVE  /\ d.ok
               /\ \A k \in {1, 9} : d.pred[k] = r.pred[k].data
               /\ d.pred[3] = <<Uint(r.pred[3].arg - 20)>>
               /\ \A k \in {0, 2, 4, 5, 7} : d.pred[k] = <<Uint(r.pred[k].arg)>>
    <3>1. d.ok /\ \A k \in 0..9 : SameField(d.pred[k], k, r.pred[k])
      BY <2>1, <2>2, <2>3, DeviceReads
    <3>2. ASSUME NEW k \in {1, 9} PROVE d.pred[k] = r.pred[k].data
      <4>1. k \in 0..9
        OBVIOUS
      <4> QED
        BY <3>1, <4>1 DEF SameField
    <3>3. d.pred[3] = <<Uint(r.pred[3].arg - 20)>>
      <4>1. SameField(d.pred[3], 3, r.pred[3])
        BY <3>1
      <4> QED
        BY <4>1 DEF SameField
    <3>4. ASSUME NEW k \in {0, 2, 4, 5, 7} PROVE d.pred[k] = <<Uint(r.pred[k].arg)>>
      <4>1. k \in 0..9
        OBVIOUS
      <4>2. SameField(d.pred[k], k, r.pred[k])
        BY <3>1, <4>1
      <4> QED
        BY <4>2 DEF SameField
    <3> QED
      BY <3>1, <3>2, <3>3, <3>4
  <2> QED
    BY <2>1, <2>2, <2>3 DEF ChainReadsTheSame
<1> QED
  BY <1>1, ReaderInvariant, PTL

\* The fields that are read are a function.
LEMMA PairsMake ==
    ASSUME NEW s, NEW n \in Nat, NEW r, r = pairs(s)[n]
    PROVE  r.pred = [k \in DOMAIN r.pred |-> r.pred[k]]
<1>1. CASE n = 0
  <2>1. r.pred = [k \in {} |-> 0]
    BY <1>1, pairsDef DEF AfterMapHead, NoFields
  <2> QED
    BY <2>1
<1>2. CASE n # 0
  <2>1. n - 1 \in Nat /\ (n - 1) + 1 = n
    BY <1>2
  <2>2. PICK q : q = pairs(s)[n - 1]
    OBVIOUS
  <2>3. r = readPair(s, q)
    <3>1. pairs(s)[(n - 1) + 1] = readPair(s, pairs(s)[n - 1])
      BY <2>1, pairsDef
    <3> QED
      BY <2>1, <2>2, <3>1
  <2>4. CASE r = Failed
    <3>1. r.pred = [k \in {} |-> 0]
      BY <2>4 DEF Failed, NoFields
    <3> QED
      BY <3>1
  <2>5. CASE r # Failed
    <3>1. r = Past(q, s[q.pos].arg, Value(s[q.pos + 1]))
      BY <2>3, <2>5 DEF readPair
    <3>2. PICK key, v : key = s[q.pos].arg /\ v = Value(s[q.pos + 1])
      OBVIOUS
    <3>3. r = Past(q, key, v)
      BY <3>1, <3>2
    <3>4. r.pred = [k \in DOMAIN q.pred \cup {key} |-> IF k = key THEN v ELSE q.pred[k]]
      BY ONLY <3>3 DEF Past
    <3> QED
      BY <3>4
  <2> QED
    BY <2>4, <2>5
<1> QED
  BY <1>1, <1>2

\* Decoding an encoding gives the predicate back.
LEMMA RoundTrip ==
    ASSUME NEW p \in Predicates, NEW r, r = DecodePayload(EncodePayload(p)), r.ok
    PROVE  r.pred = p
<1>1. PICK s : s = EncodePayload(p)
  OBVIOUS
<1>2. s \in Seq(Items(Contents))
  BY <1>1, EncodedType
<1>3. DOMAIN r.pred = Keys /\ \A j \in Keys : GoodPair(s, r.pred, j)
  BY <1>1, <1>2, DecodedIsEncoded
<1>4. s[1].arg = 11
  <2>1. s[1] = Item(5, 11, <<>>)
    BY <1>1, EncodedItems
  <2> QED
    BY <2>1 DEF Item
<1>5. r = pairs(s)[11]
  BY <1>1, <1>4 DEF DecodePayload, Failed
<1>6. r.pred = [k \in Keys |-> r.pred[k]]
  BY <1>3, <1>5, PairsMake
<1>7. ASSUME NEW k \in Keys PROVE r.pred[k] = p[k]
  <2>1. s[2 * k + 3] = Item(Major(k), p[k].arg, p[k].data)
    BY <1>1, EncodedItems
  <2>2. r.pred[k] = Value(s[2 * k + 3])
    BY <1>3 DEF GoodPair
  <2>3. r.pred[k] = [arg |-> p[k].arg, data |-> p[k].data]
    BY <2>1, <2>2 DEF Value, Item
  <2>4. p[k] = [arg |-> p[k].arg, data |-> p[k].data]
    BY PredicateFacts
  <2> QED
    BY <2>3, <2>4
<1>8. p = [k \in Keys |-> p[k]]
  BY PredicateFacts
<1> QED
  BY <1>6, <1>7, <1>8

\* Among the contents there is one signature structure: the one that was signed.
LEMMA OnlySignature ==
    ASSUME NEW p \in Predicates, NEW prot, NEW body, NEW sig \in MsgContents(p),
           sig = coseSigStruct(prot, body)
    PROVE  prot = coseProtected /\ body = Bstr(123, EncodePayload(p))
<1>1. PICK none, e : none = Bstr(0, <<>>) /\ e = Bstr(123, EncodePayload(p))
  OBVIOUS
<1>2. sig = <<prot, none, body>>
  BY <1>1 DEF coseSigStruct
<1>3. Len(sig) = 3 /\ sig[2] = none
  BY <1>2
<1>4. none.major = 2
  BY <1>1 DEF Bstr, Item
<1>5. sig # <<>>
  BY <1>3
<1>6. sig # Cut
  BY <1>3 DEF Cut
<1>7. ASSUME NEW d \in Datum PROVE sig # Bytes(d)
  BY <1>3 DEF Bytes
<1>8. sig # coseProtected.data
  <2>1. coseProtected.data = <<Item(5, 1, <<>>), Uint(1), Item(1, 6, <<>>)>>
    BY DEF coseProtected, Bstr, Item
  <2>2. PICK x, y, z : x = Item(5, 1, <<>>) /\ y = Uint(1) /\ z = Item(1, 6, <<>>)
    OBVIOUS
  <2>3. coseProtected.data = <<x, y, z>>
    BY <2>1, <2>2
  <2>4. y.major = 0
    BY <2>2 DEF Uint, Item
  <2>5. ASSUME sig = coseProtected.data PROVE FALSE
    <3>1. <<x, y, z>> = <<prot, none, body>>
      BY <1>2, <2>3, <2>5
    <3>2. y = none
      BY <3>1
    <3> QED
      BY <1>4, <2>4, <3>2
  <2> QED
    BY <2>5
<1>9. sig # EncodePayload(p)
  <2>1. Len(EncodePayload(p)) = 23
    BY EncodedType
  <2> QED
    BY ONLY <1>3, <2>1
<1>10. sig = Signed(p)
  BY <1>5, <1>6, <1>7, <1>8, <1>9 DEF MsgContents, Contents
<1>11. Signed(p) = <<coseProtected, none, e>>
  BY <1>1 DEF Signed, coseSigStruct
<1>12. PICK c : c = coseProtected
  OBVIOUS
<1>13. <<c, none, e>> = <<prot, none, body>>
  BY <1>2, <1>10, <1>11, <1>12
<1>14. c = prot /\ e = body
  BY <1>13
<1> QED
  BY <1>1, <1>12, <1>14

\* The signature and the protected header are items of the message.
LEMMA EnvelopeParts ==
    ASSUME NEW C, NEW s \in Seq(Items(C)), NEW m, m = parseCOSESign1(s), m.ok
    PROVE  m.sig \in C /\ m.prot \in ToSet(s)
<1>1. PICK a, b : /\ readBstr(s, a + 1) /\ readBstr(s, b + 1)
                  /\ m = [ok |-> TRUE, prot |-> s[a + 1], body |-> s[b], sig |-> s[b + 1].data]
  <2>1. PICK a : a = IF s # <<>> /\ s[1] = Item(6, 18, <<>>) THEN 2 ELSE 1
    OBVIOUS
  <2>2. PICK b : b = skipValue(s)[a + 2]
    OBVIOUS
  <2>3. /\ readBstr(s, a + 1) /\ readBstr(s, b + 1)
        /\ m = [ok |-> TRUE, prot |-> s[a + 1], body |-> s[b], sig |-> s[b + 1].data]
    BY <2>1, <2>2 DEF parseCOSESign1
  <2> QED
    BY <2>3
<1>2. PICK i, j : i = a + 1 /\ j = b + 1
  OBVIOUS
<1>3. i \in DOMAIN s /\ j \in DOMAIN s
  BY <1>1, <1>2 DEF readBstr, readHead
<1>4. s[j] \in Items(C)
  BY <1>3, ElementOfSeq, LenProperties
<1>5. s[j].data \in C
  BY <1>4 DEF Items
<1>6. s[i] \in ToSet(s)
  BY <1>3 DEF ToSet
<1>7. m = [ok |-> TRUE, prot |-> s[i], body |-> s[b], sig |-> s[j].data]
  BY <1>1, <1>2
<1> QED
  BY <1>5, <1>6, <1>7

\* However a COSE_Sign1 message was edited, if VerifyCOSEBundle gets to the payload then
\* it is one that was signed, under a protected header that names ES256.
THEOREM EnvelopeIsSigned == ReaderSpec => []EnvelopeBinds
<1>1. ReaderInv => EnvelopeBinds
  <2> SUFFICES ASSUME ReaderInv PROVE EnvelopeBinds
    OBVIOUS
  <2>1. PICK s, p : s = msg /\ p \in Predicates /\ s \in Seq(Items(MsgContents(p)))
    BY DEF ReaderInv
  <2>2. PICK r : r = VerifyCOSE(s)
    OBVIOUS
  <2>3. ASSUME r.ok PROVE r.pred \in Predicates /\ coseProtected \in ToSet(s)
    <3>1. PICK m : m = parseCOSESign1(s)
      OBVIOUS
    <3>2. m.ok /\ m.sig = coseSigStruct(m.prot, m.body) /\ r = DecodePayload(m.body.data)
      BY <2>2, <2>3, <3>1 DEF VerifyCOSE, Failed
    <3>3. m.sig \in MsgContents(p) /\ m.prot \in ToSet(s)
      BY <2>1, <3>1, <3>2, EnvelopeParts
    <3>4. PICK prot, body, sig : prot = m.prot /\ body = m.body /\ sig = m.sig
      OBVIOUS
    <3>5. prot = coseProtected /\ body = Bstr(123, EncodePayload(p))
      BY <2>1, <3>2, <3>3, <3>4, OnlySignature
    <3>6. body.data = EncodePayload(p)
      BY <3>5 DEF Bstr, Item
    <3>7. r = DecodePayload(EncodePayload(p))
      BY <3>2, <3>4, <3>6
    <3>8. r.pred = p
      BY <2>1, <2>3, <3>7, RoundTrip
    <3> QED
      BY <2>1, <3>3, <3>4, <3>5, <3>8
  <2> QED
    BY <2>1, <2>2, <2>3 DEF EnvelopeBinds
<1> QED
  BY <1>1, ReaderInvariant, PTL

-----------------------------------------------------------------------------
(* The restraint receipts: what a follower accepts has no gap in a session that is
   continued as it is meant to be, and two followers who see different pieces hold
   the evidence of a fork. *)

\* r is a record of the fields of a receipt.
Whole(r) ==
    /\ r = [session |-> r.session, batch |-> r.batch, window |-> r.window,
            retained |-> r.retained, prev |-> r.prev]
    /\ r.session \in Session

IsSigned(r) == \E i \in 1..Len(receipts) : receipts[i] = r

\* p is the digest of the last receipt of session s among the first n of q, or the
\* genesis digest if there is none.
IsTip(q, p, s, n) ==
    \/ p = Genesis /\ \A j \in 1..n : q[j].session # s
    \/ \E j \in 1..n : /\ q[j].session = s /\ p = ReceiptDigest(q[j])
                       /\ \A k \in (j + 1)..n : q[k].session # s

\* c and d differ in two receipts of one prev_digest, one in a session of L.
Forked(c, d, L) ==
    \E i \in 1..Len(c) : /\ i <= Len(d) /\ c[i] # d[i] /\ c[i].prev = d[i].prev
                         /\ (c[i].session \in L \/ d[i].session \in L)

\* The digest kept for a session is the last that was printed in it.
Stored ==
    /\ \E S : receipts \in Seq(S)
    /\ \A i \in 1..Len(receipts) : Whole(receipts[i])
    /\ DOMAIN tip = Session /\ tip = [s \in Session |-> tip[s]]
    /\ DOMAIN given = Emit /\ given = [e \in Emit |-> given[e]]
    /\ \A s \in Session : IsTip(receipts, tip[s], s, Len(receipts))
    /\ \A e \in Emit : given[e] # Idle => given[e].session \in Session

\* Where emits come one after another and are given the last digest, each receipt
\* names the one signed before it, the next one will, and none is signed twice.
Regular ==
    \A s \in Session : s \notin lapses =>
        /\ \A i \in 1..Len(receipts) :
              receipts[i].session = s => IsTip(receipts, receipts[i].prev, s, i - 1)
        /\ \A i, j \in 1..Len(receipts) :
              receipts[i].session = s /\ receipts[i] = receipts[j] => i = j
        /\ \A e \in Emit : given[e] # Idle /\ given[e].session = s =>
              /\ given[e].prev = tip[s]
              /\ \A d \in Emit : given[d] # Idle /\ given[d].session = s => d = e

\* A follower holds receipts that were signed, each with the digest of the one
\* before it, and waits for one with the digest of the last.
Linked ==
    /\ \E S : chain \in [Follower -> Seq(S)]
    /\ DOMAIN expected = Follower /\ expected = [f \in Follower |-> expected[f]]
    /\ \A f \in Follower : LET c == chain[f] IN
          /\ expected[f] = IF c = <<>> THEN Genesis ELSE ReceiptDigest(c[Len(c)])
          /\ \A i \in 1..Len(c) :
                IsSigned(c[i]) /\ c[i].prev = IF i = 1 THEN Genesis ELSE ReceiptDigest(c[i - 1])
          /\ \A i, j \in 1..Len(c) : c[i] = c[j] => i = j

\* The receipts of c are those of session s among the first n of q.
Holds(q, c, s, n) ==
    /\ \A i \in 1..Len(c) : \E j \in 1..n : q[j] = c[i] /\ q[j].session = s
    /\ \A j \in 1..n : q[j].session = s => \E i \in 1..Len(c) : c[i] = q[j]

\* In a regular session a follower has all that was signed up to where it is.
Complete ==
    \A f \in Follower : LET c == chain[f] IN
        Len(c) # 0 /\ c[Len(c)].session \notin lapses =>
            \E n \in 1..Len(receipts) : receipts[n] = c[Len(c)] /\ Holds(receipts, c, c[Len(c)].session, n)

\* Followers of one session have the same receipts in the same places, up to a fork.
Agreed ==
    \A f, g \in Follower : \A i \in 1..Len(chain[f]) :
        i <= Len(chain[g]) /\ chain[f][1].session = chain[g][1].session =>
            chain[f][i] = chain[g][i] \/ Forked(chain[f], chain[g], lapses)

ReceiptInv == Stored /\ Regular /\ Linked /\ Complete /\ Agreed

-----------------------------------------------------------------------------
(* Digests. *)

\* A digest determines its receipt, and is not the genesis digest.
LEMMA DigestInjective ==
    ASSUME NEW r, NEW q, Whole(r), Whole(q), ReceiptDigest(r) = ReceiptDigest(q)
    PROVE  r = q
<1>1. /\ r.session = q.session /\ r.batch = q.batch /\ r.window = q.window
      /\ r.retained = q.retained /\ r.prev = q.prev
  BY DEF ReceiptDigest
<1> QED
  BY <1>1 DEF Whole

LEMMA DigestNotGenesis ==
    ASSUME NEW r
    PROVE  ReceiptDigest(r) # Genesis
  BY DEF ReceiptDigest, Genesis

LEMMA SignedIsWhole ==
    ASSUME Stored
    PROVE  /\ Len(receipts) \in Nat
           /\ \A r : IsSigned(r) => Whole(r) /\ r.session \in Session
<1>1. PICK S : receipts \in Seq(S)
  BY DEF Stored
<1>2. Len(receipts) \in Nat
  BY <1>1
<1>3. \A r : IsSigned(r) => Whole(r)
  BY DEF Stored, IsSigned
<1>4. \A r : Whole(r) => r.session \in Session
  BY DEF Whole
<1> QED  BY <1>2, <1>3, <1>4

\* The receipt that the tip of a regular session names is unique.
LEMMA TipIsLast ==
    ASSUME Stored, Regular, NEW s \in Session, s \notin lapses,
           NEW a \in 1..Len(receipts), receipts[a].session = s, receipts[a].prev # Genesis
    PROVE  \E j \in 1..(a - 1) :
              /\ receipts[j].session = s /\ receipts[a].prev = ReceiptDigest(receipts[j])
              /\ \A k \in (j + 1)..(a - 1) : receipts[k].session # s
  BY DEF Regular, IsTip

\* Two receipts of one prev_digest are signed only where a session is not regular.
LEMMA ForkIsLapse ==
    ASSUME Stored, Regular, NEW p, NEW q, IsSigned(p), IsSigned(q), p # q, p.prev = q.prev,
           p.session = q.session \/ p.prev # Genesis
    PROVE  p.session \in lapses \/ q.session \in lapses
<1> SUFFICES ASSUME p.session \notin lapses, q.session \notin lapses
             PROVE  FALSE
  OBVIOUS
<1>1. PICK a \in 1..Len(receipts), b \in 1..Len(receipts) : receipts[a] = p /\ receipts[b] = q
  BY DEF IsSigned
<1>2. /\ Len(receipts) \in Nat /\ p.session \in Session /\ q.session \in Session
      /\ \A i \in 1..Len(receipts) : Whole(receipts[i])
  BY SignedIsWhole DEF Stored
<1>3. a < b \/ b < a
  BY <1>1, <1>2
<1>4. CASE p.prev = Genesis
  <2>1. IsTip(receipts, Genesis, p.session, a - 1) /\ IsTip(receipts, Genesis, p.session, b - 1)
    BY <1>1, <1>2, <1>4 DEF Regular
  <2>2. /\ \A j \in 1..(a - 1) : receipts[j].session # p.session
        /\ \A j \in 1..(b - 1) : receipts[j].session # p.session
    BY <2>1, DigestNotGenesis DEF IsTip
  <2> QED  BY <1>1, <1>2, <1>3, <1>4, <2>2
<1>5. CASE p.prev # Genesis
  <2>1. PICK j \in 1..(a - 1) :
              /\ receipts[j].session = p.session /\ p.prev = ReceiptDigest(receipts[j])
              /\ \A k \in (j + 1)..(a - 1) : receipts[k].session # p.session
    BY <1>1, <1>2, <1>5, TipIsLast
  <2>2. PICK l \in 1..(b - 1) :
              /\ receipts[l].session = q.session /\ q.prev = ReceiptDigest(receipts[l])
              /\ \A k \in (l + 1)..(b - 1) : receipts[k].session # q.session
    BY <1>1, <1>2, <1>5, TipIsLast
  <2>3. j \in 1..Len(receipts) /\ l \in 1..Len(receipts)
    BY <1>2
  <2>4. receipts[j] = receipts[l]
    <3>1. Whole(receipts[j]) /\ Whole(receipts[l]) /\ ReceiptDigest(receipts[j]) = ReceiptDigest(receipts[l])
      BY <1>2, <2>1, <2>2, <2>3
    <3>2. PICK x, y : x = receipts[j] /\ y = receipts[l]
      OBVIOUS
    <3> QED  BY <3>1, <3>2, DigestInjective
  <2>5. j = l /\ p.session = q.session
    BY <1>2, <2>1, <2>2, <2>3, <2>4 DEF Regular
  <2>6. a \in (l + 1)..(b - 1) \/ b \in (j + 1)..(a - 1)
    BY <1>2, <1>3, <2>5
  <2> QED  BY <1>1, <2>1, <2>2, <2>5, <2>6
<1> QED  BY <1>4, <1>5

-----------------------------------------------------------------------------
(* Steps that accept nothing. *)

LEMMA ForkedKeeps ==
    ASSUME NEW c, NEW d, NEW L, NEW M, L \subseteq M, Forked(c, d, L)
    PROVE  Forked(c, d, M)
  BY DEF Forked

LEMMA HoldsKeeps ==
    ASSUME NEW q, NEW p, NEW c, NEW s, NEW n \in Nat,
           \A i \in 1..n : p[i] = q[i], Holds(q, c, s, n)
    PROVE  Holds(p, c, s, n)
<1>1. ASSUME NEW i \in 1..Len(c)
      PROVE  \E j \in 1..n : p[j] = c[i] /\ p[j].session = s
  <2>1. PICK j \in 1..n : q[j] = c[i] /\ q[j].session = s
    BY DEF Holds
  <2>2. p[j] = q[j]
    OBVIOUS
  <2> QED  BY <2>1, <2>2
<1>2. ASSUME NEW j \in 1..n, p[j].session = s
      PROVE  \E i \in 1..Len(c) : c[i] = p[j]
  <2>1. p[j] = q[j]
    OBVIOUS
  <2>2. q[j].session = s
    BY <1>2, <2>1
  <2> QED  BY <2>1, <2>2 DEF Holds
<1> QED  BY <1>1, <1>2 DEF Holds

\* A follower's part of the invariant is safe as receipts and lapses only grow.
LEMMA FollowersKeep ==
    ASSUME Linked, Complete, Agreed, lapses \subseteq lapses',
           Len(receipts) \in Nat, Len(receipts') \in Nat, Len(receipts) <= Len(receipts'),
           \A i \in 1..Len(receipts) : receipts'[i] = receipts[i],
           UNCHANGED <<chain, expected>>
    PROVE  Linked' /\ Complete' /\ Agreed'
<1>1. \A r : IsSigned(r) => IsSigned(r)'
  BY DEF IsSigned
<1>2. Linked'
  BY <1>1 DEF Linked
<1>3. Complete'
  <2> SUFFICES ASSUME NEW f \in Follower, Len(chain[f]) # 0,
                      chain[f][Len(chain[f])].session \notin lapses'
               PROVE  \E n \in 1..Len(receipts') :
                          /\ receipts'[n] = chain[f][Len(chain[f])]
                          /\ Holds(receipts', chain[f], chain[f][Len(chain[f])].session, n)
    BY DEF Complete
  <2>1. PICK n \in 1..Len(receipts) :
            /\ receipts[n] = chain[f][Len(chain[f])]
            /\ Holds(receipts, chain[f], chain[f][Len(chain[f])].session, n)
    BY DEF Complete
  <2>2. n \in 1..Len(receipts') /\ receipts'[n] = chain[f][Len(chain[f])]
    BY <2>1
  <2>3. Holds(receipts', chain[f], chain[f][Len(chain[f])].session, n)
    <3>1. PICK p, q, c, s : /\ p = receipts' /\ q = receipts /\ c = chain[f]
                            /\ s = chain[f][Len(chain[f])].session
      OBVIOUS
    <3>2. n \in Nat /\ (\A i \in 1..n : p[i] = q[i]) /\ Holds(q, c, s, n)
      BY <2>1, <3>1
    <3>3. Holds(p, c, s, n)
      BY ONLY <3>2, HoldsKeeps
    <3> QED  BY <3>1, <3>3
  <2> QED  BY <2>2, <2>3
<1>4. Agreed'
  BY ForkedKeeps DEF Agreed
<1> QED  BY <1>2, <1>3, <1>4

LEMMA StartStep ==
    ASSUME ReceiptInv, NEW e \in Emit, NEW s \in Session, NEW prev, StartEmit(e, s, prev)
    PROVE  ReceiptInv'
<1> USE DEF ReceiptInv
<1>1. /\ UNCHANGED <<receipts, tip, chain, expected>>
      /\ given' = [given EXCEPT ![e] = [session |-> s, prev |-> prev]]
      /\ lapses \subseteq lapses'
      /\ s \notin lapses' => /\ prev = tip[s]
                             /\ \A d \in Emit : given[d] # Idle => given[d].session # s
  BY DEF StartEmit, Overlaps
<1>2. DOMAIN given = Emit
  BY DEF Stored
<1>3. /\ given'[e] = [session |-> s, prev |-> prev]
      /\ \A d \in Emit : d # e => given'[d] = given[d]
      /\ DOMAIN given' = Emit /\ given' = [d \in Emit |-> given'[d]]
  BY <1>1, <1>2
<1>4. Stored'
  BY <1>1, <1>3 DEF Stored
<1>5. Regular'
  BY <1>1, <1>3 DEF Regular
<1> QED  BY <1>1, <1>4, <1>5, FollowersKeep, SignedIsWhole

LEMMA LoseEmitStep ==
    ASSUME ReceiptInv, NEW e \in Emit, LoseEmit(e)
    PROVE  ReceiptInv'
<1> USE DEF ReceiptInv
<1>1. /\ UNCHANGED <<receipts, tip, chain, expected, lapses>>
      /\ given' = [given EXCEPT ![e] = Idle]
  BY DEF LoseEmit
<1>2. DOMAIN given = Emit
  BY DEF Stored
<1>3. /\ given'[e] = Idle
      /\ \A d \in Emit : d # e => given'[d] = given[d]
      /\ DOMAIN given' = Emit /\ given' = [d \in Emit |-> given'[d]]
  BY <1>1, <1>2
<1>4. Stored'
  BY <1>1, <1>3 DEF Stored
<1>5. Regular'
  BY <1>1, <1>3 DEF Regular
<1> QED  BY <1>1, <1>4, <1>5, FollowersKeep, SignedIsWhole

LEMMA FinishStep ==
    ASSUME ReceiptInv, NEW e \in Emit, NEW b \in Batch, NEW w \in Window,
           NEW retained \in BOOLEAN, FinishEmit(e, b, w, retained)
    PROVE  ReceiptInv'
<1> DEFINE s == given[e].session
           n == Len(receipts)
<1>0. Stored /\ Regular /\ Linked /\ Complete /\ Agreed
  BY DEF ReceiptInv
<1>1. PICK r : r = [session |-> s, batch |-> b, window |-> w, retained |-> retained,
                    prev |-> given[e].prev]
  OBVIOUS
<1>2. /\ given[e] # Idle
      /\ receipts' = Append(receipts, r)
      /\ tip' = [tip EXCEPT ![s] = ReceiptDigest(r)]
      /\ given' = [given EXCEPT ![e] = Idle]
      /\ UNCHANGED <<chain, expected, lapses>>
  BY <1>1 DEF FinishEmit
<1>3. s \in Session
  BY <1>0, <1>2 DEF Stored
<1>4. r.session = s /\ r.prev = given[e].prev /\ Whole(r)
  BY <1>1, <1>3 DEF Whole
<1>5. PICK S : receipts \in Seq(S)
  BY <1>0 DEF Stored
<1>6. /\ n \in Nat /\ Len(receipts') = n + 1 /\ receipts' \in Seq(S \cup {r})
      /\ \A i \in 1..n : receipts'[i] = receipts[i]
      /\ receipts'[n + 1] = r
      /\ \A i \in 1..(n + 1) : i \in 1..n \/ i = n + 1
  <2>1. receipts \in Seq(S \cup {r})
    BY <1>5
  <2> QED  BY <1>2, <1>5, <2>1
<1>7. /\ tip'[s] = ReceiptDigest(r)
      /\ \A t \in Session : t # s => tip'[t] = tip[t]
      /\ DOMAIN tip' = Session /\ tip' = [t \in Session |-> tip'[t]]
      /\ given'[e] = Idle
      /\ \A d \in Emit : d # e => given'[d] = given[d]
      /\ DOMAIN given' = Emit /\ given' = [d \in Emit |-> given'[d]]
  BY <1>0, <1>2, <1>3 DEF Stored
<1> HIDE DEF s, n
<1>8. ASSUME NEW p, NEW t, NEW k \in 0..n
      PROVE  IsTip(receipts, p, t, k) => IsTip(receipts', p, t, k)
  BY <1>6 DEF IsTip
<1>9. Stored'
  <2>1. \A i \in 1..Len(receipts') : Whole(receipts'[i])
    <3>1. \A i \in 1..n : Whole(receipts[i])
      BY <1>0 DEF Stored, n
    <3> QED  BY <1>4, <1>6, <3>1
  <2>2. ASSUME NEW t \in Session
        PROVE  IsTip(receipts', tip'[t], t, Len(receipts'))
    <3>1. CASE t = s
      BY <1>4, <1>6, <1>7, <3>1 DEF IsTip
    <3>2. CASE t # s
      <4>1. IsTip(receipts, tip[t], t, n)
        BY <1>0 DEF Stored, n
      <4>2. IsTip(receipts', tip[t], t, n)
        BY <1>6, <1>8, <4>1
      <4>3. CASE tip[t] = Genesis /\ \A j \in 1..n : receipts'[j].session # t
        BY <1>4, <1>6, <1>7, <3>2, <4>3 DEF IsTip
      <4>4. ASSUME NEW j \in 1..n, receipts'[j].session = t, tip[t] = ReceiptDigest(receipts'[j]),
                   \A k \in (j + 1)..n : receipts'[k].session # t
            PROVE  IsTip(receipts', tip'[t], t, Len(receipts'))
        <5>1. \A k \in (j + 1)..(n + 1) : receipts'[k].session # t
          BY <1>4, <1>6, <3>2, <4>4
        <5> QED  BY <1>6, <1>7, <3>2, <4>4, <5>1 DEF IsTip
      <4> QED  BY <4>2, <4>3, <4>4 DEF IsTip
    <3> QED  BY <3>1, <3>2
  <2>3. \A d \in Emit : given'[d] # Idle => given'[d].session \in Session
    BY <1>0, <1>7 DEF Stored
  <2>4. \E Q : receipts' \in Seq(Q)
    BY <1>6
  <2> QED  BY <1>7, <2>1, <2>2, <2>3, <2>4 DEF Stored
<1>10. Regular'
  <2> SUFFICES ASSUME NEW t \in Session, t \notin lapses
               PROVE  /\ \A i \in 1..Len(receipts') : receipts'[i].session = t =>
                            IsTip(receipts', receipts'[i].prev, t, i - 1)
                      /\ \A i, j \in 1..Len(receipts') :
                            receipts'[i].session = t /\ receipts'[i] = receipts'[j] => i = j
                      /\ \A d \in Emit : given'[d] # Idle /\ given'[d].session = t =>
                            /\ given'[d].prev = tip'[t]
                            /\ \A c \in Emit : given'[c] # Idle /\ given'[c].session = t => c = d
    BY <1>2 DEF Regular
  <2>1. /\ \A i \in 1..n : receipts[i].session = t => IsTip(receipts, receipts[i].prev, t, i - 1)
        /\ \A i, j \in 1..n : receipts[i].session = t /\ receipts[i] = receipts[j] => i = j
        /\ \A d \in Emit : given[d] # Idle /\ given[d].session = t =>
              /\ given[d].prev = tip[t]
              /\ \A c \in Emit : given[c] # Idle /\ given[c].session = t => c = d
    BY <1>0 DEF Regular, n
  <2>2. t = s => r.prev = tip[t] /\ IsTip(receipts, r.prev, t, n)
    BY <1>0, <1>2, <1>4, <2>1 DEF Stored, n, s
  <2>3. ASSUME NEW i \in 1..(n + 1), receipts'[i].session = t
        PROVE  IsTip(receipts', receipts'[i].prev, t, i - 1)
    <3>1. CASE i \in 1..n
      <4>1. i - 1 \in 0..n
        BY <1>6, <3>1
      <4> QED  BY <1>6, <1>8, <2>1, <2>3, <3>1, <4>1
    <3>2. CASE i = n + 1
      <4>1. t = s /\ i - 1 = n /\ n \in 0..n /\ receipts'[i] = r
        BY <1>4, <1>6, <2>3, <3>2
      <4> QED  BY <1>8, <2>2, <4>1
    <3> QED  BY <1>6, <3>1, <3>2
  <2>4. ASSUME NEW i \in 1..n, receipts[i] = r, t = s
        PROVE  FALSE
    <3>1. IsTip(receipts, r.prev, s, i - 1) /\ IsTip(receipts, r.prev, s, n) /\ receipts[i].session = s
      BY <1>4, <2>1, <2>2, <2>4
    <3>2. CASE r.prev = Genesis
      <4>1. \A j \in 1..n : receipts[j].session # s
        BY <3>1, <3>2, DigestNotGenesis DEF IsTip
      <4> QED  BY <3>1, <4>1
    <3>3. CASE r.prev # Genesis
      <4>1. PICK j \in 1..n : /\ receipts[j].session = s /\ r.prev = ReceiptDigest(receipts[j])
                              /\ \A k \in (j + 1)..n : receipts[k].session # s
        BY <3>1, <3>3 DEF IsTip
      <4>2. PICK l \in 1..(i - 1) : receipts[l].session = s /\ r.prev = ReceiptDigest(receipts[l])
        BY <3>1, <3>3 DEF IsTip
      <4>3. l \in 1..n
        BY <1>6
      <4>4. receipts[j] = receipts[l]
        <5>1. Whole(receipts[j]) /\ Whole(receipts[l])
          BY <1>0, <4>3 DEF Stored, n
        <5>2. PICK x, y : x = receipts[j] /\ y = receipts[l]
          OBVIOUS
        <5> QED  BY <4>1, <4>2, <5>1, <5>2, DigestInjective
      <4>5. j = l
        BY <2>1, <2>4, <4>1, <4>3, <4>4
      <4>6. i \in (j + 1)..n
        BY <1>6, <4>2, <4>5
      <4> QED  BY <3>1, <4>1, <4>6
    <3> QED  BY <3>2, <3>3
  <2>5. ASSUME NEW i \in 1..(n + 1), NEW j \in 1..(n + 1),
               receipts'[i].session = t, receipts'[i] = receipts'[j]
        PROVE  i = j
    <3>1. CASE i \in 1..n /\ j \in 1..n
      BY <1>6, <2>1, <2>5, <3>1
    <3>2. CASE i = n + 1 /\ j \in 1..n
      BY <1>4, <1>6, <2>4, <2>5, <3>2
    <3>3. CASE i \in 1..n /\ j = n + 1
      BY <1>4, <1>6, <2>4, <2>5, <3>3
    <3>4. CASE i = n + 1 /\ j = n + 1
      BY <3>4
    <3> QED  BY <1>6, <3>1, <3>2, <3>3, <3>4
  <2>6. \A d \in Emit : given'[d] # Idle /\ given'[d].session = t => d # e /\ t # s
    BY <1>2, <1>7, <2>1 DEF s
  <2> QED  BY <1>6, <1>7, <2>1, <2>3, <2>5, <2>6
<1>11. Linked' /\ Complete' /\ Agreed'
  <2>1. /\ Len(receipts) \in Nat /\ Len(receipts') \in Nat /\ Len(receipts) <= Len(receipts')
        /\ \A i \in 1..Len(receipts) : receipts'[i] = receipts[i]
    BY <1>6 DEF n
  <2> QED  BY <1>0, <1>2, <2>1, FollowersKeep
<1> QED  BY <1>9, <1>10, <1>11 DEF ReceiptInv

-----------------------------------------------------------------------------
(* Accepting a receipt. *)

\* What follows the last receipt of a whole piece of a regular session makes the
\* next whole piece of it.
LEMMA OneMore ==
    ASSUME Stored, Regular, NEW c, NEW d, Len(c) \in Nat, Len(d) = Len(c) + 1,
           \A i \in 1..Len(c) : d[i] = c[i],
           NEW r, IsSigned(r), r = d[Len(d)], r.session \notin lapses,
           r.prev = IF Len(c) = 0 THEN Genesis ELSE ReceiptDigest(c[Len(c)]),
           Len(c) # 0 => IsSigned(c[Len(c)]),
           Len(c) # 0 /\ c[Len(c)].session \notin lapses =>
               \E n \in 1..Len(receipts) :
                   receipts[n] = c[Len(c)] /\ Holds(receipts, c, c[Len(c)].session, n)
    PROVE  \E n \in 1..Len(receipts) : receipts[n] = r /\ Holds(receipts, d, r.session, n)
<1>1. /\ Len(receipts) \in Nat /\ r.session \in Session
      /\ \A i \in 1..Len(receipts) : Whole(receipts[i])
  BY SignedIsWhole DEF Stored
<1>2. PICK k \in 1..Len(receipts) : receipts[k] = r
  BY DEF IsSigned
<1>3. CASE Len(c) = 0
  <2>1. \A j \in 1..(k - 1) : receipts[j].session # r.session
    <3>1. IsTip(receipts, Genesis, r.session, k - 1)
      BY <1>1, <1>2, <1>3 DEF Regular
    <3> QED  BY <3>1, DigestNotGenesis DEF IsTip
  <2>2. d[1] = r /\ Len(d) = 1
    BY <1>3
  <2>3. Holds(receipts, d, r.session, k)
    <3>1. k \in 1..k /\ receipts[k] = d[1] /\ receipts[k].session = r.session
      BY <1>1, <1>2, <2>2
    <3>2. \A j \in 1..k : receipts[j].session = r.session => j = k
      BY <1>1, <2>1
    <3>3. 1 \in 1..Len(d) /\ \A i \in 1..Len(d) : i = 1
      <4>1. Len(d) = 1
        BY <2>2
      <4> QED  BY ONLY <4>1
    <3>4. \A i \in 1..Len(d) : \E j \in 1..k : receipts[j] = d[i] /\ receipts[j].session = r.session
      BY <3>1, <3>3
    <3>5. \A j \in 1..k : receipts[j].session = r.session => d[1] = receipts[j]
      BY <3>1, <3>2
    <3>6. \A j \in 1..k : receipts[j].session = r.session => \E i \in 1..Len(d) : d[i] = receipts[j]
      BY <3>3, <3>5
    <3> QED  BY <3>4, <3>6 DEF Holds
  <2> QED  BY <1>2, <2>3
<1>4. CASE Len(c) # 0
  <2>1. PICK m, p : m = Len(c) /\ p = c[m]
    OBVIOUS
  <2>2. /\ m \in Nat /\ m # 0 /\ Len(d) = m + 1 /\ d[m + 1] = r
        /\ r.prev = ReceiptDigest(p) /\ IsSigned(p) /\ Whole(p)
    BY <1>4, <2>1, SignedIsWhole
  <2>3. PICK j \in 1..(k - 1) :
              /\ receipts[j].session = r.session /\ r.prev = ReceiptDigest(receipts[j])
              /\ \A i \in (j + 1)..(k - 1) : receipts[i].session # r.session
    <3>1. receipts[k].session = r.session /\ receipts[k].prev = r.prev /\ r.session \in Session
      BY <1>1, <1>2
    <3>2. r.prev # Genesis
      BY <2>2, DigestNotGenesis
    <3> QED  BY ONLY <3>1, <3>2, TipIsLast, Stored, Regular, r.session \notin lapses
  <2>4. j \in 1..Len(receipts) /\ j < k
    BY <1>1
  <2>5. receipts[j] = p
    <3>1. PICK x : x = receipts[j]
      OBVIOUS
    <3>2. Whole(x) /\ ReceiptDigest(x) = ReceiptDigest(p)
      BY <1>1, <2>2, <2>3, <2>4, <3>1
    <3> QED  BY <2>2, <3>1, <3>2, DigestInjective
  <2>6. PICK n \in 1..Len(receipts) : receipts[n] = p /\ Holds(receipts, c, r.session, n)
    BY <2>1, <2>2, <2>3, <2>5
  <2>7. n = j
    BY <1>1, <2>3, <2>4, <2>5, <2>6 DEF Regular
  <2>8. \A i \in 1..m : d[i] = c[i]
    BY <2>1
  <2>9. ASSUME NEW i \in 1..(m + 1)
        PROVE  \E l \in 1..k : receipts[l] = d[i] /\ receipts[l].session = r.session
    <3>1. CASE i \in 1..m
      <4>1. PICK l \in 1..j : receipts[l] = c[i] /\ receipts[l].session = r.session
        BY <2>1, <2>6, <2>7, <3>1 DEF Holds
      <4>2. l \in 1..k
        BY <1>1, <2>4
      <4> QED  BY <2>8, <3>1, <4>1, <4>2
    <3>2. CASE i = m + 1
      BY <1>1, <1>2, <2>2, <3>2
    <3> QED  BY <2>2, <3>1, <3>2
  <2>10. ASSUME NEW l \in 1..k, receipts[l].session = r.session
         PROVE  \E i \in 1..(m + 1) : d[i] = receipts[l]
    <3>1. CASE l = k
      BY <1>2, <2>2, <3>1
    <3>2. CASE l # k
      <4>1. l \in 1..j
        BY <1>1, <2>3, <2>10, <3>2
      <4>2. PICK i \in 1..m : c[i] = receipts[l]
        BY <2>1, <2>6, <2>7, <2>10, <4>1 DEF Holds
      <4>3. i \in 1..(m + 1) /\ d[i] = c[i]
        BY <2>2, <2>8
      <4> QED  BY <4>2, <4>3
    <3> QED  BY <3>1, <3>2
  <2>11. Holds(receipts, d, r.session, k)
    BY <2>2, <2>9, <2>10 DEF Holds
  <2> QED  BY <1>2, <2>11
<1> QED  BY <1>3, <1>4

LEMMA AcceptStep ==
    ASSUME ReceiptInv, NEW f \in Follower, NEW r, IsSigned(r), Accept(f, r)
    PROVE  ReceiptInv'
<1> DEFINE c == chain[f]
           n == Len(c)
<1>0. Stored /\ Regular /\ Linked /\ Complete /\ Agreed
  BY DEF ReceiptInv
<1>1. /\ UNCHANGED <<receipts, tip, given, lapses>>
      /\ r.prev = expected[f]
      /\ chain' = [chain EXCEPT ![f] = Append(@, r)]
      /\ expected' = [expected EXCEPT ![f] = ReceiptDigest(r)]
  BY DEF Accept, VerifyReceipt
<1>2. PICK S : chain \in [Follower -> Seq(S)]
  BY <1>0 DEF Linked
<1>3. /\ c \in Seq(S) /\ n \in Nat /\ DOMAIN expected = Follower
      /\ \A g \in Follower : Len(chain[g]) \in Nat
  BY <1>0, <1>2 DEF Linked
<1>4. /\ chain' \in [Follower -> Seq(S \cup {r})]
      /\ chain'[f] = Append(c, r)
      /\ \A g \in Follower : g # f => chain'[g] = chain[g] /\ expected'[g] = expected[g]
      /\ DOMAIN expected' = Follower /\ expected' = [g \in Follower |-> expected'[g]]
      /\ expected'[f] = ReceiptDigest(r)
  <2>1. Append(c, r) \in Seq(S \cup {r}) /\ chain \in [Follower -> Seq(S \cup {r})]
    <3>1. \A q \in Seq(S) : q \in Seq(S \cup {r})
      OBVIOUS
    <3> QED  BY <1>2, <1>3, <3>1
  <2>2. chain' \in [Follower -> Seq(S \cup {r})] /\ chain'[f] = Append(c, r)
    BY <1>1, <2>1
  <2>3. \A g \in Follower : g # f => chain'[g] = chain[g] /\ expected'[g] = expected[g]
    BY <1>1, <1>2, <1>3
  <2> QED  BY <1>1, <1>3, <2>2, <2>3
<1>5. /\ Len(chain'[f]) = n + 1 /\ chain'[f] # <<>>
      /\ \A i \in 1..n : chain'[f][i] = c[i]
      /\ chain'[f][n + 1] = r
      /\ \A i \in 1..(n + 1) : i \in 1..n \/ i = n + 1
  <2>1. c \in Seq(S \cup {r})
    BY <1>3
  <2>2. PICK d, h : d = c /\ h = chain'[f]
    OBVIOUS
  <2>3. d \in Seq(S \cup {r}) /\ h = Append(d, r) /\ Len(d) = n /\ n \in Nat
    BY <1>3, <1>4, <2>1, <2>2
  <2>4. /\ Len(h) = n + 1 /\ h # <<>> /\ h[n + 1] = r
        /\ \A i \in 1..n : h[i] = d[i]
    BY ONLY <2>3
  <2> QED  BY <1>3, <2>2, <2>4
<1>6. /\ \A i \in 1..n : IsSigned(c[i]) /\ c[i].prev = IF i = 1 THEN Genesis ELSE ReceiptDigest(c[i - 1])
      /\ \A i, j \in 1..n : c[i] = c[j] => i = j
  BY <1>0 DEF Linked
<1>7. r.prev = IF n = 0 THEN Genesis ELSE ReceiptDigest(c[n])
  <2>1. expected[f] = IF c = <<>> THEN Genesis ELSE ReceiptDigest(c[Len(c)])
    BY <1>0 DEF Linked
  <2>2. c = <<>> <=> n = 0
    BY <1>3
  <2> QED  BY <1>1, <2>1, <2>2
<1> HIDE DEF c, n
<1>8. Stored' /\ Regular' /\ \A q : IsSigned(q) => IsSigned(q)'
  BY <1>0, <1>1 DEF Stored, Regular, IsSigned
<1>9. ASSUME NEW i \in 1..n, c[i] = r
      PROVE  FALSE
  <2>1. c[i].prev = IF i = 1 THEN Genesis ELSE ReceiptDigest(c[i - 1])
    BY <1>6
  <2>2. n # 0 /\ n \in 1..n /\ r.prev = ReceiptDigest(c[n]) /\ r.prev # Genesis
    BY <1>3, <1>7, <1>9, DigestNotGenesis
  <2>3. i # 1 /\ i - 1 \in 1..n /\ ReceiptDigest(c[i - 1]) = ReceiptDigest(c[n])
    BY <1>3, <1>9, <2>1, <2>2
  <2>4. PICK x, y : x = c[i - 1] /\ y = c[n]
    OBVIOUS
  <2>5. Whole(x) /\ Whole(y) /\ ReceiptDigest(x) = ReceiptDigest(y)
    BY <1>0, <1>6, <2>2, <2>3, <2>4, SignedIsWhole
  <2>6. c[i - 1] = c[n]
    BY <2>4, <2>5, DigestInjective
  <2> QED  BY <1>3, <1>6, <2>2, <2>3, <2>6
<1>10. Linked'
  <2>1. ASSUME NEW i \in 1..(n + 1)
        PROVE  /\ IsSigned(chain'[f][i])
               /\ chain'[f][i].prev = IF i = 1 THEN Genesis ELSE ReceiptDigest(chain'[f][i - 1])
    <3>1. CASE i \in 1..n
      <4>1. i # 1 => i - 1 \in 1..n
        BY <1>3, <3>1
      <4> QED  BY <1>5, <1>6, <3>1, <4>1
    <3>2. CASE i = n + 1
      <4>1. /\ i # 1 => n \in 1..n /\ i - 1 = n /\ n # 0
            /\ i = 1 => n = 0
        BY <1>3, <3>2
      <4> QED  BY <1>5, <1>7, <3>2, <4>1
    <3> QED  BY <1>5, <3>1, <3>2
  <2>2. ASSUME NEW i \in 1..(n + 1), NEW j \in 1..(n + 1), chain'[f][i] = chain'[f][j]
        PROVE  i = j
    BY <1>5, <1>6, <1>9, <2>2
  <2>3. expected'[f] = ReceiptDigest(chain'[f][Len(chain'[f])])
    BY <1>4, <1>5
  <2>4. \A g \in Follower :
          /\ expected'[g] = IF chain'[g] = <<>> THEN Genesis
                            ELSE ReceiptDigest(chain'[g][Len(chain'[g])])
          /\ \A i \in 1..Len(chain'[g]) :
               /\ \E k \in 1..Len(receipts') : receipts'[k] = chain'[g][i]
               /\ chain'[g][i].prev = IF i = 1 THEN Genesis ELSE ReceiptDigest(chain'[g][i - 1])
          /\ \A i, j \in 1..Len(chain'[g]) : chain'[g][i] = chain'[g][j] => i = j
    <3> TAKE g \in Follower
    <3>1. CASE g # f
      <4>1. chain'[g] = chain[g] /\ expected'[g] = expected[g] /\ receipts' = receipts
        BY <1>1, <1>4, <3>1
      <4> QED  BY <1>0, <4>1 DEF Linked, IsSigned
    <3>2. CASE g = f
      BY <1>1, <1>5, <2>1, <2>2, <2>3, <3>2 DEF IsSigned
    <3> QED  BY <3>1, <3>2
  <2>5. \E Q : chain' \in [Follower -> Seq(Q)]
    BY <1>4
  <2> QED  BY <1>4, <2>4, <2>5 DEF Linked, IsSigned
<1>11. Complete'
  <2> SUFFICES ASSUME NEW g \in Follower, Len(chain'[g]) # 0,
                      chain'[g][Len(chain'[g])].session \notin lapses
               PROVE  \E m \in 1..Len(receipts) :
                          /\ receipts[m] = chain'[g][Len(chain'[g])]
                          /\ Holds(receipts, chain'[g], chain'[g][Len(chain'[g])].session, m)
    BY <1>1 DEF Complete
  <2>1. CASE g # f
    BY <1>0, <1>4, <2>1 DEF Complete
  <2>2. CASE g = f
    <3>1. PICK d : d = chain'[f]
      OBVIOUS
    <3>2. /\ Len(c) \in Nat /\ Len(d) = Len(c) + 1 /\ \A i \in 1..Len(c) : d[i] = c[i]
          /\ r = d[Len(d)] /\ r.session \notin lapses
          /\ r.prev = IF Len(c) = 0 THEN Genesis ELSE ReceiptDigest(c[Len(c)])
      BY <1>3, <1>5, <1>7, <2>2, <3>1 DEF n
    <3>3. Len(c) # 0 => IsSigned(c[Len(c)])
      <4>1. n # 0 => n \in 1..n
        BY <1>3
      <4> QED  BY <1>6, <4>1 DEF n
    <3>4. Len(c) # 0 /\ c[Len(c)].session \notin lapses =>
               \E m \in 1..Len(receipts) :
                   receipts[m] = c[Len(c)] /\ Holds(receipts, c, c[Len(c)].session, m)
      BY <1>0 DEF Complete, c
    <3>5. \E m \in 1..Len(receipts) : receipts[m] = r /\ Holds(receipts, d, r.session, m)
      BY <1>0, <3>2, <3>3, <3>4, OneMore
    <3> QED  BY <2>2, <3>1, <3>2, <3>5
  <2> QED  BY <2>1, <2>2
<1>12. ASSUME NEW g \in Follower, g # f, NEW i \in 1..(n + 1), i <= Len(chain[g]),
              chain[g][1].session = chain'[f][1].session
       PROVE  \/ chain'[f][i] = chain[g][i]
              \/ Forked(chain'[f], chain[g], lapses) /\ Forked(chain[g], chain'[f], lapses)
  <2>1. PICK d, h : d = chain[g] /\ h = chain'[f]
    OBVIOUS
  <2>2. /\ Len(d) \in Nat /\ Len(h) = n + 1 /\ i \in 1..Len(d)
        /\ \A j \in 1..Len(d) :
              IsSigned(d[j]) /\ d[j].prev = IF j = 1 THEN Genesis ELSE ReceiptDigest(d[j - 1])
        /\ \A j \in 1..n : h[j] = c[j]
        /\ h[n + 1] = r
    BY <1>0, <1>3, <1>5, <1>12, <2>1 DEF Linked
  <2>3. CASE i \in 1..n
    <3>1. c[i] = d[i] \/ (Forked(c, d, lapses) /\ Forked(d, c, lapses))
      <4>1. n # 0 /\ 1 \in 1..n
        BY <1>3, <2>3
      <4>2. c[1].session = d[1].session
        BY <1>12, <2>1, <2>2, <4>1
      <4>3. c[i] = d[i] \/ Forked(c, d, lapses)
        BY <1>0, <2>1, <2>2, <2>3, <4>2 DEF Agreed, c, n
      <4>4. d[i] = c[i] \/ Forked(d, c, lapses)
        BY <1>0, <2>1, <2>2, <2>3, <4>2 DEF Agreed, c, n
      <4> QED  BY <4>3, <4>4
    <3>2. Forked(c, d, lapses) => Forked(h, d, lapses)
      BY <1>3, <2>2 DEF Forked, n
    <3>3. Forked(d, c, lapses) => Forked(d, h, lapses)
      BY <1>3, <2>2 DEF Forked, n
    <3> QED  BY <2>1, <2>2, <2>3, <3>1, <3>2, <3>3
  <2>4. CASE i = n + 1
    <3>1. \/ d[i].prev = r.prev /\ (r.session = d[i].session \/ r.prev # Genesis)
          \/ (Forked(h, d, lapses) /\ Forked(d, h, lapses))
      <4>1. CASE n = 0
        BY <1>7, <1>12, <2>1, <2>2, <2>4, <4>1
      <4>2. CASE n # 0
        <5>1. n \in 1..n /\ 1 \in 1..n /\ n \in 1..Len(d) /\ i # 1 /\ i - 1 = n
          BY <1>3, <2>2, <2>4, <4>2
        <5>2. c[1].session = d[1].session
          BY <1>12, <2>1, <2>2, <5>1
        <5>3. c[n] = d[n] \/ (Forked(c, d, lapses) /\ Forked(d, c, lapses))
          <6>1. c[n] = d[n] \/ Forked(c, d, lapses)
            BY <1>0, <2>1, <5>1, <5>2 DEF Agreed, c, n
          <6>2. d[n] = c[n] \/ Forked(d, c, lapses)
            BY <1>0, <2>1, <5>1, <5>2 DEF Agreed, c, n
          <6> QED  BY <6>1, <6>2
        <5>4. Forked(c, d, lapses) => Forked(h, d, lapses)
          BY <1>3, <2>2 DEF Forked, n
        <5>5. Forked(d, c, lapses) => Forked(d, h, lapses)
          BY <1>3, <2>2 DEF Forked, n
        <5>6. c[n] = d[n] => d[i].prev = r.prev /\ r.prev # Genesis
          BY <1>7, <2>2, <4>2, <5>1, DigestNotGenesis
        <5> QED  BY <5>3, <5>4, <5>5, <5>6
      <4> QED  BY <4>1, <4>2
    <3>2. ASSUME d[i].prev = r.prev, r.session = d[i].session \/ r.prev # Genesis, r # d[i]
          PROVE  Forked(h, d, lapses) /\ Forked(d, h, lapses)
      <4>1. PICK q : q = d[i]
        OBVIOUS
      <4>2. r.session \in lapses \/ q.session \in lapses
        BY <1>0, <2>2, <3>2, <4>1, ForkIsLapse
      <4>3. /\ i \in 1..Len(h) /\ i <= Len(d) /\ i \in 1..Len(d) /\ i <= Len(h)
            /\ h[i] = r /\ d[i] = q /\ r # q /\ r.prev = q.prev
        BY <1>3, <2>2, <2>4, <3>2, <4>1
      <4> QED  BY <4>2, <4>3 DEF Forked
    <3> QED  BY <2>1, <2>2, <2>4, <3>1, <3>2
  <2> QED  BY <1>5, <2>3, <2>4
<1>13. Agreed'
  <2> SUFFICES ASSUME NEW g \in Follower, NEW h \in Follower, NEW i \in 1..Len(chain'[g]),
                      i <= Len(chain'[h]), chain'[g][1].session = chain'[h][1].session
               PROVE  chain'[g][i] = chain'[h][i] \/ Forked(chain'[g], chain'[h], lapses)
    BY <1>1 DEF Agreed
  <2>1. CASE g = h
    BY <2>1
  <2>2. CASE g = f /\ h # f
    BY <1>4, <1>5, <1>12, <2>2
  <2>3. CASE h = f /\ g # f
    <3>1. i \in 1..(n + 1) /\ i <= Len(chain[g]) /\ chain'[g] = chain[g]
      BY <1>3, <1>4, <1>5, <2>3
    <3> QED  BY <1>12, <2>3, <3>1
  <2>4. CASE g # f /\ h # f
    BY <1>0, <1>4, <2>4 DEF Agreed
  <2> QED  BY <2>1, <2>2, <2>3, <2>4
<1> QED  BY <1>8, <1>10, <1>11, <1>13 DEF ReceiptInv

-----------------------------------------------------------------------------
(* The theorems. *)

LEMMA ReceiptInvNext == ReceiptInv /\ [ReceiptNext]_receiptVars => ReceiptInv'
<1> SUFFICES ASSUME ReceiptInv, [ReceiptNext]_receiptVars
             PROVE  ReceiptInv'
  OBVIOUS
<1>1. ASSUME NEW r \in ToSet(receipts)
      PROVE  IsSigned(r)
  <2>1. PICK S : receipts \in Seq(S)
    BY DEF ReceiptInv, Stored
  <2> QED  BY <2>1 DEF ToSet, IsSigned
<1>2. CASE ReceiptNext
  BY <1>1, <1>2, StartStep, FinishStep, LoseEmitStep, AcceptStep DEF ReceiptNext
<1>3. CASE UNCHANGED receiptVars
  <2>1. UNCHANGED <<receipts, tip, given, chain, expected, lapses>>
    BY <1>3 DEF receiptVars
  <2>2. Stored' /\ Regular'
    BY <2>1 DEF ReceiptInv, Stored, Regular
  <2> QED  BY <2>1, <2>2, FollowersKeep, SignedIsWhole DEF ReceiptInv
<1> QED  BY <1>2, <1>3

LEMMA ReceiptInvInit == ReceiptInit => ReceiptInv
<1> SUFFICES ASSUME ReceiptInit
             PROVE  ReceiptInv
  OBVIOUS
<1>1. /\ receipts = <<>> /\ lapses = {}
      /\ tip = [s \in Session |-> Genesis] /\ given = [e \in Emit |-> Idle]
      /\ chain = [f \in Follower |-> <<>>] /\ expected = [f \in Follower |-> Genesis]
  BY DEF ReceiptInit
<1>2. Len(receipts) = 0 /\ \E S : receipts \in Seq(S)
  BY <1>1
<1>3. Stored
  BY <1>1, <1>2 DEF Stored, IsTip
<1>4. Regular
  BY <1>1, <1>2 DEF Regular
<1>5. \A f \in Follower : Len(chain[f]) = 0 /\ chain[f] = <<>>
  BY <1>1
<1>6. Linked
  <2>1. \E S : chain \in [Follower -> Seq(S)]
    BY <1>1
  <2> QED  BY <1>1, <1>5, <2>1 DEF Linked
<1>7. Complete /\ Agreed
  BY <1>5 DEF Complete, Agreed
<1> QED  BY <1>3, <1>4, <1>6, <1>7 DEF ReceiptInv

\* `he-receipt verify`, given the digest it printed before: whatever receipts are
\* lost, repeated or out of order and whatever `emit` was given, a follower takes
\* none twice, and it has a session that was continued as it is meant to be without
\* a gap.
THEOREM AcceptedIsOneSession == ReceiptSpec => []ChainIsOneSession
<1>1. ReceiptInv => ChainIsOneSession
  <2> SUFFICES ASSUME ReceiptInv, NEW f \in Follower
               PROVE  /\ IsInjective(chain[f])
                      /\ chain[f] # <<>> /\ Last(chain[f]).session \notin lapses =>
                           \E n \in DOMAIN receipts :
                               /\ receipts[n] = Last(chain[f])
                               /\ ToSet(chain[f]) =
                                    { receipts[i] : i \in { j \in 1..n :
                                        receipts[j].session = Last(chain[f]).session } }
    BY DEF ChainIsOneSession
  <2> DEFINE c == chain[f]
  <2>1. /\ DOMAIN c = 1..Len(c) /\ Len(c) \in Nat /\ (c = <<>> <=> Len(c) = 0)
        /\ \A i, j \in 1..Len(c) : c[i] = c[j] => i = j
    <3>1. PICK S : chain \in [Follower -> Seq(S)]
      BY DEF ReceiptInv, Linked
    <3>2. c \in Seq(S)
      BY <3>1
    <3>3. \A i, j \in 1..Len(c) : c[i] = c[j] => i = j
      BY DEF ReceiptInv, Linked
    <3> HIDE DEF c
    <3> QED  BY <3>2, <3>3
  <2>2. DOMAIN receipts = 1..Len(receipts) /\ Len(receipts) \in Nat
    BY DEF ReceiptInv, Stored
  <2>3. Len(c) # 0 /\ c[Len(c)].session \notin lapses =>
            \E n \in 1..Len(receipts) :
                receipts[n] = c[Len(c)] /\ Holds(receipts, c, c[Len(c)].session, n)
    BY DEF ReceiptInv, Complete
  <2> HIDE DEF c
  <2>4. IsInjective(c)
    BY <2>1 DEF IsInjective
  <2>5. ASSUME c # <<>>, Last(c).session \notin lapses
        PROVE  \E n \in DOMAIN receipts :
                   /\ receipts[n] = Last(c)
                   /\ ToSet(c) = { receipts[i] : i \in { j \in 1..n :
                                     receipts[j].session = Last(c).session } }
    <3>1. Last(c) = c[Len(c)] /\ Len(c) # 0
      BY <2>1, <2>5 DEF Last
    <3>2. PICK n \in 1..Len(receipts) :
              receipts[n] = Last(c) /\ Holds(receipts, c, Last(c).session, n)
      BY <2>3, <2>5, <3>1
    <3>3. PICK s : s = Last(c).session
      OBVIOUS
    <3>4. /\ \A i \in 1..Len(c) : \E j \in 1..n : receipts[j] = c[i] /\ receipts[j].session = s
          /\ \A j \in 1..n : receipts[j].session = s => \E i \in 1..Len(c) : c[i] = receipts[j]
      BY <3>2, <3>3 DEF Holds
    <3>5. ToSet(c) = { receipts[i] : i \in { j \in 1..n : receipts[j].session = s } }
      <4>1. ToSet(c) = { c[i] : i \in 1..Len(c) }
        BY <2>1 DEF ToSet
      <4>2. \A i \in 1..Len(c) :
               c[i] \in { receipts[l] : l \in { j \in 1..n : receipts[j].session = s } }
        <5> TAKE i \in 1..Len(c)
        <5>1. PICK j \in 1..n : receipts[j] = c[i] /\ receipts[j].session = s
          BY <3>4
        <5> QED  BY <5>1
      <4>3. \A j \in 1..n : receipts[j].session = s => receipts[j] \in { c[i] : i \in 1..Len(c) }
        BY <3>4
      <4> QED  BY <4>1, <4>2, <4>3
    <3> QED  BY <2>2, <3>2, <3>3, <3>5
  <2> QED  BY <2>4, <2>5 DEF c
<1> QED  BY <1>1, ReceiptInvInit, ReceiptInvNext, PTL DEF ReceiptSpec

\* Two followers of a session see one chain, or first differ in two signed receipts
\* with one prev_digest, one of them of a session that was not continued as it is
\* meant to be.
THEOREM ForksAreSigned == ReceiptSpec => []ForkIsSigned
<1>1. ReceiptInv => ForkIsSigned
  <2> SUFFICES ASSUME ReceiptInv, NEW f \in Follower, NEW g \in Follower,
                      chain[f] # <<>>, chain[g] # <<>>,
                      chain[f][1].session = chain[g][1].session
               PROVE  \/ IsPrefix(chain[f], chain[g]) \/ IsPrefix(chain[g], chain[f])
                      \/ \E i \in DOMAIN chain[f] \cap DOMAIN chain[g] :
                            /\ chain[f][i] # chain[g][i] /\ chain[f][i].prev = chain[g][i].prev
                            /\ (chain[f][i].session \in lapses \/ chain[g][i].session \in lapses)
    BY DEF ForkIsSigned
  <2>1. PICK S : chain \in [Follower -> Seq(S)]
    BY DEF ReceiptInv, Linked
  <2>2. PICK c, d : c = chain[f] /\ d = chain[g]
    OBVIOUS
  <2>3. /\ c \in Seq(S) /\ d \in Seq(S) /\ DOMAIN c = 1..Len(c) /\ DOMAIN d = 1..Len(d)
        /\ Len(c) \in Nat /\ Len(d) \in Nat
    BY <2>1, <2>2
  <2>4. \A i \in 1..Len(c) : i <= Len(d) => c[i] = d[i] \/ Forked(c, d, lapses)
    BY <2>2 DEF ReceiptInv, Agreed
  <2>5. CASE Forked(c, d, lapses)
    <3>1. PICK i \in 1..Len(c) : /\ i <= Len(d) /\ c[i] # d[i] /\ c[i].prev = d[i].prev
                                 /\ (c[i].session \in lapses \/ d[i].session \in lapses)
      BY <2>5 DEF Forked
    <3>2. i \in DOMAIN c \cap DOMAIN d
      BY <2>3, <3>1
    <3> QED  BY <2>2, <3>1, <3>2
  <2>6. CASE ~Forked(c, d, lapses)
    <3>1. ASSUME NEW s \in Seq(S), NEW t \in Seq(S), Len(s) <= Len(t),
                 \A i \in 1..Len(s) : s[i] = t[i]
          PROVE  IsPrefix(s, t)
      <4>1. SubSeq(s, 1, Len(s)) = SubSeq(t, 1, Len(s))
        BY <3>1
      <4> QED  BY <3>1, <4>1 DEF IsPrefix
    <3>2. CASE Len(c) <= Len(d)
      BY <2>2, <2>3, <2>4, <2>6, <3>1, <3>2
    <3>3. CASE Len(d) <= Len(c)
      <4>1. \A i \in 1..Len(d) : d[i] = c[i]
        BY <2>3, <2>4, <2>6, <3>3
      <4> QED  BY <2>2, <2>3, <3>1, <3>3, <4>1
    <3> QED  BY <2>3, <3>2, <3>3
  <2> QED  BY <2>5, <2>6
<1> QED  BY <1>1, ReceiptInvInit, ReceiptInvNext, PTL DEF ReceiptSpec
=============================================================================
