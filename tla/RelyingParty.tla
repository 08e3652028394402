---------------------------- MODULE RelyingParty ----------------------------
(***************************************************************************)
(* Those who read a log without running it: `he-log prove` and `verify`,   *)
(* `he-consent disclose` and `verify-disclosure`, `he-witness compare`.    *)
(* They keep nothing; what they were handed was made when a log of         *)
(* MerkleLog was shorter than it is now, or never by a log at all.         *)
(***************************************************************************)
EXTENDS MerkleLog

CONSTANT MaxClaim    \* bound on the tree sizes that are claimed for a root

-----------------------------------------------------------------------------
(* Inclusion. *)

\* SignCheckpoint: the operator of l signs size and root.
SignCheckpoint(l, s) == [signer |-> l, size |-> Len(s), root |-> mth[s]]

\* he-log prove; it dies for an index out of range.
ProofBundle(l, s, m) ==
    [entry |-> s[m + 1], index |-> m, proof |-> path[s][m], checkpoint |-> SignCheckpoint(l, s)]

\* The signature first, then inclusion under the size and root it covers.
CheckLoggedEndorsement(pb, key) ==
    /\ pb.checkpoint.signer = key
    /\ VerifyInclusion(pb.entry, pb.index, pb.checkpoint.size, pb.proof, pb.checkpoint.root)

\* MerkleLog.DiscloseWindow
DiscloseWindow(s, m) ==
    [index |-> m, size |-> Len(s), entry |-> s[m + 1], proof |-> path[s][m]]

\* Mutant of VerifyWindowDisclosure: a log of one window needs no proof.
VerifyOneWindow(d, root) ==
    d.size = 1 \/ VerifyInclusion(d.entry, d.index, d.size, d.proof, root)

\* The size is the one the disclosure claims: only the root is trusted.
VerifyWindowDisclosure(d, root) ==
    VerifyInclusion(d.entry, d.index, d.size, d.proof, root)

\* Every <<index, entry>> that some proof shows to be in a tree of n leaves.
Shown(n, root) ==
    { c \in (0..(n - 1)) \X Leaf :
        \E p \in Proofs(n, root) :
            VerifyWindowDisclosure([index |-> c[1], size |-> n, entry |-> c[2], proof |-> p], root) }

-----------------------------------------------------------------------------
(* he-witness compare. *)

NoRoot == <<>>    \* an empty Root in the state file: no view yet

\* Mutant of crossCheck: a peer that is behind is judged by nothing and agrees.
crossCheckBehind(ours, peer, proofs) ==
    IF ours.root = NoRoot THEN "inconclusive"
    ELSE IF peer.size = ours.size THEN IF peer.root = ours.root THEN "agree" ELSE "equivocation"
    ELSE IF peer.size < ours.size THEN "agree"
    ELSE IF proofs = {} THEN "inconclusive"
    ELSE IF \A p \in proofs : VerifyConsistency(ours.size, peer.size, p, ours.root, peer.root)
         THEN "agree" ELSE "equivocation"

\* proofs: the log's consistency proof, if it was fetched.
crossCheck(ours, peer, proofs) ==
    IF ours.root = NoRoot \/ peer.size < ours.size THEN "inconclusive"
    ELSE IF peer.size = ours.size
         THEN IF peer.root = ours.root THEN "agree" ELSE "equivocation"
    ELSE IF proofs = {} THEN "inconclusive"
    ELSE IF \A p \in proofs : VerifyConsistency(ours.size, peer.size, p, ours.root, peer.root)
         THEN "agree" ELSE "equivocation"

\* runCompare, once the peer's cosignature has verified: served is the tree of
\* the log at --log-url when it is asked, none without the flag.  A log shorter
\* than our view has no proof, and compare dies.
runCompare(ours, peer, served) ==
    LET asks == ours.root # NoRoot /\ peer.size > ours.size /\ served # {}
    IN IF asks /\ \E t \in served : Len(t) < ours.size
       THEN "died"
       ELSE crossCheck(ours, peer,
                       IF asks THEN { ConsistencyProof(t, ours.size) : t \in served } ELSE {})

CheckpointOf(s) ==
    IF s = NoView THEN [size |-> 0, root |-> NoRoot] ELSE [size |-> Len(s), root |-> mth[s]]

-----------------------------------------------------------------------------
(* Properties. *)

\* What the log proved, whenever it did, is accepted under the checkpoint of
\* that time.  What is accepted under the root of a tree is a leaf of it, though
\* the size a disclosure claims is not bound by the root and its index may then
\* be wrong; under a signed checkpoint the index is right.
DisclosedIsLogged ==
    \A l \in Log : Len(leaves[l]) <= MaxClaim /\ leaves[l] # <<>> =>
        LET s == leaves[l] IN
        /\ \A n \in 1..Len(s) : \A m \in 0..(n - 1) :
              LET t == First(s, n) IN
              /\ VerifyWindowDisclosure(DiscloseWindow(t, m), mth[t])
              /\ CheckLoggedEndorsement(ProofBundle(l, t, m), l)
        /\ \A n \in 1..(MaxClaim + 1) : \A c \in Shown(n, mth[s]) :
              /\ c[2] \in ToSet(s)
              /\ n = Len(s) => c[2] = s[c[1] + 1]

\* A reader who moves from one root to another by a consistency proof keeps every
\* entry: what is shown at an index before the move is the only thing that can be
\* shown there after it, and at one index never two things, whatever the sizes
\* claimed for the roots and whether or not they are trees of those sizes.
ShownStays ==
    \A l, k \in Log : LET old == leaves[l] new == leaves[k] IN
        old # <<>> /\ new # <<>> /\ Len(old) <= MaxClaim /\ Len(new) <= MaxClaim =>
            \A i \in 1..MaxClaim : \A j \in i..MaxClaim :
                (\E p \in Proofs(j, mth[new]) : VerifyConsistency(i, j, p, mth[old], mth[new])) =>
                    \A c \in Shown(i, mth[old]), d \in Shown(j, mth[new]) :
                        c[1] = d[1] => c = d

\* The exit codes of compare.  Agreement is always an extension of our view: a fork
\* never passes, whatever the log serves by then.  At our own size "equivocation" is
\* a fork.  Ahead of us it only says that what the log serves now gives no proof that
\* leads to the peer's checkpoint: that is less than "the log equivocated" in the comment
\* on the verdict, and of an honest log that has grown meanwhile it is said wrongly, as
\* by a daemon (AlarmMeansFork of WitnessMesh).  It is inconclusive only without a view,
\* behind us, or ahead of us without --log-url.
ForkNeverPasses ==
    \A j, k \in Log : \A i \in 0..Len(leaves[j]), n \in 0..Len(leaves[k]) :
        LET peer == First(leaves[k], n) IN
        \A ours \in {NoView, First(leaves[j], i)}, served \in {{}} \cup { {leaves[l]} : l \in Log } :
            LET verdict == runCompare(CheckpointOf(ours), CheckpointOf(peer), served) IN
            \/ verdict = "agree" /\ ours # NoView /\ Extends(peer, ours)
            \/ verdict = "equivocation" /\ n = i /\ ~Comparable(peer, ours)
            \/ verdict = "equivocation" /\ n > i /\ \E t \in served : ~ProofVerifies(ours, peer, t)
            \/ verdict = "inconclusive" /\ (ours = NoView \/ n < i \/ (n > i /\ served = {}))
            \/ verdict = "died" /\ \E t \in served : Len(t) < i
=============================================================================
