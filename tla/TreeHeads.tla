----------------------------- MODULE TreeHeads -----------------------------
(***************************************************************************)
(* The tree heads of a transparency log and when one extends another.      *)
(*                                                                         *)
(* A tree head (size, Merkle root) is the sequence of leaves it commits    *)
(* to: its size is Len and, hashing being collision free, its root is the  *)
(* sequence itself.                                                        *)
(***************************************************************************)
EXTENDS Naturals, Sequences

CONSTANTS
    Leaf,     \* log entries
    NoView    \* no tree head seen yet (an empty Root in the state file)

TreeHead == Seq(Leaf)

ASSUME NoViewAssumption == NoView \notin TreeHead

\* new is an append-only extension of old.
Extends(new, old) ==
    \/ old = NoView
    \/ /\ Len(old) <= Len(new)
       /\ \A i \in 1..Len(old) : new[i] = old[i]

Comparable(a, b) == Extends(a, b) \/ Extends(b, a)

pow2[i \in Nat] == IF i = 0 THEN 1 ELSE 2 * pow2[i - 1]

PowerOfTwo(n) == \E i \in 0..n : pow2[i] = n

\* VerifyConsistency of old and new (Len(old) < Len(new)) with the proof that
\* he-logd computes from Len(old) to whatever it serves at the time.  The proof
\* from size 0 is empty and fits any tree; any other covers every leaf of the
\* served tree, except the first Len(old) when they form a complete subtree.
ProofVerifies(old, new, served) ==
    /\ Extends(new, old)
    /\ \/ old = <<>>
       \/ /\ Len(served) = Len(new)
          /\ \A i \in 1..Len(new) :
                \/ served[i] = new[i]
                \/ i <= Len(old) /\ PowerOfTwo(Len(old))
=============================================================================
