---------------------------- MODULE MCChallenge ----------------------------
(***************************************************************************)
(* Two instances for TLC in one: the challenge server, and the flood of    *)
(* proofs through a mesh, which has nothing to do with it.                 *)
(***************************************************************************)
EXTENDS Challenge, ProofFlood, TLC

CONSTANTS n1, n2, n3, n4, e12, e23

VARIABLE part    \* which of them moves: "server" or "flood"

\* e12 is a split seen by n1 and n2, e23 one seen by n2 and n3.
NamesOf(p) == IF p = e12 THEN {n1, n2} ELSE {n2, n3}

\* A cycle n1 - n2 - n3, and n4, which is pinned by n3 and does not pin n1: e23 can
\* convince it, e12 is sent to it and cannot.
Cycle == n1 :> {n2, n3} @@ n2 :> {n1, n3} @@ n3 :> {n1, n2, n4} @@ n4 :> {n2, n3}

MCInit == part \in {"server", "flood"} /\ Init /\ FInit

\* What a bundle that is not authentic says makes no difference.
MCNext ==
    \/ /\ part = "server" /\ Next /\ UNCHANGED <<part, fvars>>
       /\ \A r \in Request : bundle'[r] # NoBundle /\ ~bundle'[r].authentic =>
              bundle'[r].nonce = target'[r] /\ bundle'[r].counter = 1
    \/ part = "flood" /\ FNext /\ UNCHANGED <<part, vars>>

MCSpec == MCInit /\ [][MCNext]_<<vars, fvars, part>>

\* The fairness of each part, for the behaviors in which it moves.
FairMCSpec == MCSpec /\ FFairness /\ ([]<>(part = "flood") \/ Fairness)

\* FloodSubsides where the server moves: a flood of /challenge locks nobody out for
\* good, since handleChallenge collects old sessions before it looks at the cap.
ServerSubsides == []<>(part = "flood") \/ FloodSubsides

Symmetry == Permutations(Session) \cup Permutations(Request)
=============================================================================
