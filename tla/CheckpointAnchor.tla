-------------------------- MODULE CheckpointAnchor --------------------------
(***************************************************************************)
(* The contract CheckpointAnchor: a ledger entry for the last checkpoint,  *)
(* replaced only with a consistency proof.  Anyone may call it, with any   *)
(* size, root and proof: signatures are recorded, not checked.             *)
(* _verifyConsistency is a port of VerifyConsistency, which it is modelled *)
(* by: they differ only for an old size of 0, which anchor never passes.   *)
(***************************************************************************)
EXTENDS MerkleTree

CONSTANTS
    MaxAnchor    \* bound on the sizes and trees callers come with

VARIABLES
    latestSize,
    latestRoot,
    anchored     \* every <<size, root>> of an Anchored event

anchorVars == <<latestSize, latestRoot, anchored>>

Trees == BoundedSeq(Leaf, MaxAnchor)
Roots == {mth[t] : t \in Trees}

\* Mutant of anchor: a seeded contract takes any larger size without a proof.
anchorUnproved(size, root, proof) ==
    /\ size > latestSize
    /\ latestSize' = size
    /\ latestRoot' = root
    /\ anchored' = anchored \cup {<<size, root>>}

\* A call whose requirements fail reverts and changes nothing.
anchor(size, root, proof) ==
    /\ size > latestSize
    /\ latestSize # 0 => VerifyConsistency(latestSize, size, proof, latestRoot, root)
    /\ latestSize' = size
    /\ latestRoot' = root
    /\ anchored' = anchored \cup {<<size, root>>}

AnchorInit ==
    /\ latestSize = 0
    /\ latestRoot = EmptyRoot    \* the zero word: no caller compares it
    /\ anchored = {}

AnchorNext ==
    \E size \in 1..MaxAnchor, root \in Roots :
        \E proof \in Proofs(size, root) : anchor(size, root, proof)

AnchorSpec == AnchorInit /\ [][AnchorNext]_anchorVars

-----------------------------------------------------------------------------
\* The history on the ledger does not fork, also across roots in between that
\* are no tree of the size claimed for them: any two anchored checkpoints that
\* do commit to trees commit to a tree and an extension of it.
LedgerIsAppendOnly ==
    \A x, y \in anchored : \A s, t \in Trees :
        <<Len(s), mth[s]>> = x /\ <<Len(t), mth[t]>> = y => Comparable(s, t)
=============================================================================
