--------------------------- MODULE MCWitnessMesh ---------------------------
(* Instances of WitnessMesh for TLC. *)
EXTENDS WitnessMesh, TLC

CONSTANTS a, b, v1, v2, w1, w2

\* One honest log for all, or w1 shown one view and the others another.
OneView == [w \in Witness |-> v1]
SplitView == [w \in Witness |-> IF w = w1 THEN v1 ELSE v2]

\* Every witness pins every other.
FullMesh == [w \in Witness |-> Witness \ {w}]

\* The operator forked before any witness was started.
SplitInit ==
    /\ log = (v1 :> <<a>> @@ v2 :> <<b>>)
    /\ FreshWitnesses
    /\ FreshMesh

SplitSpec == SplitInit /\ [][MeshNext]_allVars

FairSplitSpec == SplitSpec /\ MeshFairness

LeafSymmetry == Permutations(Leaf)
=============================================================================
