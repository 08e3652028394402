----------------------------- MODULE MerkleLog -----------------------------
(***************************************************************************)
(* Log objects (transparency.go) that grow by Add.  The properties compare *)
(* the proofs and the loops that verify them with what they stand for,     *)
(* against every proof that can be put together from hashes, and justify   *)
(* ProofVerifies of TreeHeads.                                             *)
(***************************************************************************)
EXTENDS MerkleTree

CONSTANTS
    Log,       \* log objects
    MaxSize    \* bound on their size

VARIABLE leaves   \* per log, its leaves

\* MerkleLog.Add
Add(l, leaf) ==
    /\ Len(leaves[l]) < MaxSize
    /\ leaves' = [leaves EXCEPT ![l] = Append(@, leaf)]

LogInit == leaves = [l \in Log |-> <<>>]

LogNext == \E l \in Log, leaf \in Leaf : Add(l, leaf)

LogSpec == LogInit /\ [][LogNext]_leaves

-----------------------------------------------------------------------------
(* Properties. *)

\* VerifyInclusion accepts the log's own proof of every leaf, and no proof at all
\* of an entry that is not at that index, in or beyond the tree.
InclusionExact ==
    \A l \in Log : LET s == leaves[l] IN s # <<>> =>
        \A m \in 0..(Len(s) + 1), x \in Leaf :
            LET here == m < Len(s) /\ s[m + 1] = x IN
            /\ here => VerifyInclusion(x, m, Len(s), path[s][m], mth[s])
            /\ ~here => \A p \in Proofs(Len(s), mth[s]) :
                           ~VerifyInclusion(x, m, Len(s), p, mth[s])

\* No proof makes VerifyConsistency take one tree for an extension of another it
\* does not extend; the log's own proof from each of its prefixes is accepted.
ConsistencyExact ==
    \A l, k \in Log : LET old == leaves[l] new == leaves[k] IN
        Len(old) <= Len(new) /\ new # <<>> =>
            IF Extends(new, old)
            THEN VerifyConsistency(Len(old), Len(new), ConsistencyProof(new, Len(old)),
                                   mth[old], mth[new])
            ELSE \A p \in Proofs(Len(new), mth[new]) :
                    ~VerifyConsistency(Len(old), Len(new), p, mth[old], mth[new])

\* ProofVerifies of TreeHeads is what the witness's check computes, when the log
\* has changed between the checkpoint (new) and the proof (served).
ProofVerifiesIsTheCheck ==
    \A j, k \in Log : LET new == leaves[j] served == leaves[k] IN
        new # <<>> => \A old \in BoundedSeq(Leaf, Len(new) - 1) :
            Len(old) <= Len(served) =>
            (ProofVerifies(old, new, served) <=>
                VerifyConsistency(Len(old), Len(new), ConsistencyProof(served, Len(old)),
                                  mth[old], mth[new]))
=============================================================================
