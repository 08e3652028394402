----------------------------- MODULE MCWitness -----------------------------
(* Instances of Witness for TLC. *)
EXTENDS Witness, TLC

CONSTANTS v1, w1, w2

ViewOfV1 == [w \in Witness |-> v1]

LeafSymmetry == Permutations(Leaf)
=============================================================================
