------------------------- MODULE ProofFlood_proofs -------------------------
(***************************************************************************)
(* OnlyPinnedWitnessesConvince holds in every topology, with any number of *)
(* nodes and proofs.                                                       *)
(***************************************************************************)
EXTENDS ProofFlood, TLAPS

\* holds is a function on the nodes; the property is inductive with that.
FloodInv ==
    /\ holds = [n \in Node |-> holds[n]]
    /\ OnlyPinnedWitnessesConvince

\* A node that takes a proof it believes is convinced by that or by its old one.
LEMMA TakeKeepsInv ==
    ASSUME FloodInv, NEW n, NEW p, NEW msgs, Believes(n, p), Take(n, p, msgs)
    PROVE  FloodInv'
<1>1. holds' = [holds EXCEPT ![n] = IF holds[n] = None THEN p ELSE holds[n]]
  BY DEF Take
<1>2. holds' = [m \in Node |-> holds'[m]]
  BY <1>1 DEF FloodInv
<1>3. ASSUME NEW m \in Node, holds'[m] # None
      PROVE  Believes(m, holds'[m])
  <2>1. CASE m = n
    BY <1>1, <1>3, <2>1 DEF FloodInv, OnlyPinnedWitnessesConvince
  <2>2. CASE m # n
    BY <1>1, <1>3, <2>2 DEF FloodInv, OnlyPinnedWitnessesConvince
  <2> QED
    BY <2>1, <2>2
<1> QED
  BY <1>2, <1>3 DEF FloodInv, OnlyPinnedWitnessesConvince, Believes, Pinned

\* Whoever hands a node a proof, it looks at the witnesses named.
LEMMA FloodInvStep == FloodInv /\ [FNext]_fvars => FloodInv'
<1> SUFFICES ASSUME FloodInv, [FNext]_fvars PROVE FloodInv'
  OBVIOUS
<1>1. CASE UNCHANGED holds
  BY <1>1 DEF FloodInv, OnlyPinnedWitnessesConvince, Believes, Pinned
<1>2. ASSUME NEW n \in Node, Obtain(n) PROVE FloodInv'
  BY <1>2, TakeKeepsInv DEF Obtain
<1>3. ASSUME NEW n \in Node, Restart(n) PROVE FloodInv'
  <2>1. holds' = [holds EXCEPT ![n] = None]
    BY <1>3 DEF Restart
  <2> QED
    BY <2>1 DEF FloodInv, OnlyPinnedWitnessesConvince, Believes, Pinned
<1>4. ASSUME NEW n \in Node, NEW q \in Node, Pull(n, q) PROVE FloodInv'
  BY <1>4, TakeKeepsInv DEF Pull
<1>5. ASSUME NEW m \in inflight, Receive(m[1], m[2]) PROVE FloodInv'
  BY <1>1, <1>5, TakeKeepsInv DEF Receive
<1>6. (\E n \in Node : Suspect(n)) \/ (\E m \in inflight : Lose(m[1], m[2])) => UNCHANGED holds
  BY DEF Suspect, Lose
<1> QED
  BY <1>1, <1>2, <1>3, <1>4, <1>5, <1>6 DEF FNext, fvars

\* A proof never sits in the slot of a node that does not pin the witnesses it
\* names, however it got there.
THEOREM NobodyIsFooled == FSpec => []OnlyPinnedWitnessesConvince
<1>1. FInit => FloodInv
  BY DEF FInit, FloodInv, OnlyPinnedWitnessesConvince
<1>2. FloodInv => OnlyPinnedWitnessesConvince
  BY DEF FloodInv
<1> QED
  BY <1>1, <1>2, FloodInvStep, PTL DEF FSpec
=============================================================================
