----------------------------- MODULE ProofFlood -----------------------------
(***************************************************************************)
(* How a proof of equivocation travels through the pinned mesh, and        *)
(* nothing else: a node gets hold of a proof, keeps the first one, sends   *)
(* it once to every peer it pins, and asks its peers for one while it has  *)
(* none.  A node believes a proof only if it pins every witness the proof  *)
(* names.  WitnessMesh implements this.                                    *)
(***************************************************************************)
EXTENDS Naturals, FiniteSets

CONSTANTS
    Node,
    Peers,         \* per node, the peers it pins
    Evidence,      \* the proofs
    Names(_),      \* the witnesses a proof names
    MaxRestart,    \* bound on restarts
    None           \* no proof

VARIABLES
    holds,         \* per node, the proof in its slot
    alarmed,       \* per node, the latched alarm
    inflight,      \* proofs on their way: <<node, proof>>
    restarts

fvars == <<holds, alarmed, inflight, restarts>>

Pinned(n) == {n} \cup Peers[n]

Believes(n, p) == Names(p) \subseteq Pinned(n)

\* Mutant of Take: every proof is sent on, not just the first.
TakeAndResend(n, p, msgs) ==
    /\ holds' = [holds EXCEPT ![n] = IF @ = None THEN p ELSE @]
    /\ alarmed' = [alarmed EXCEPT ![n] = TRUE]
    /\ inflight' = msgs \cup {<<q, p>> : q \in Peers[n]}
    /\ UNCHANGED restarts

\* n takes p: the first one is kept and sent on, every one latches the alarm.
Take(n, p, msgs) ==
    /\ holds' = [holds EXCEPT ![n] = IF @ = None THEN p ELSE @]
    /\ alarmed' = [alarmed EXCEPT ![n] = TRUE]
    /\ inflight' = msgs \cup (IF holds[n] = None THEN {<<q, p>> : q \in Peers[n]} ELSE {})
    /\ UNCHANGED restarts

\* n finds a split itself, or someone outside the mesh hands it a proof.
Obtain(n) ==
    /\ holds[n] = None
    /\ holds' \in [Node -> Evidence \cup {None}]
    /\ holds'[n] # None
    /\ Believes(n, holds'[n])
    /\ Take(n, holds'[n], inflight)

\* n is alarmed by something that makes no proof.
Suspect(n) ==
    /\ alarmed' = [alarmed EXCEPT ![n] = TRUE]
    /\ UNCHANGED <<holds, inflight, restarts>>

\* Mutant of Receive: whoever sends a proof is believed.
ReceiveUnchecked(n, p) ==
    /\ <<n, p>> \in inflight
    /\ Take(n, p, inflight \ {<<n, p>>})

Receive(n, p) ==
    /\ <<n, p>> \in inflight
    /\ IF Believes(n, p)
       THEN Take(n, p, inflight \ {<<n, p>>})
       ELSE /\ inflight' = inflight \ {<<n, p>>}
            /\ UNCHANGED <<holds, alarmed, restarts>>

Lose(n, p) ==
    /\ <<n, p>> \in inflight
    /\ inflight' = inflight \ {<<n, p>>}
    /\ UNCHANGED <<holds, alarmed, restarts>>

\* Mutant of Pull: the proof is kept, the alarm is not raised.
PullQuietly(n, q) ==
    /\ q \in Peers[n]
    /\ holds[n] = None
    /\ holds[q] # None
    /\ Believes(n, holds[q])
    /\ holds' = [holds EXCEPT ![n] = holds[q]]
    /\ UNCHANGED <<alarmed, inflight, restarts>>

Pull(n, q) ==
    /\ q \in Peers[n]
    /\ holds[q] # None
    /\ Believes(n, holds[q])
    /\ Take(n, holds[q], inflight)

Restart(n) ==
    /\ restarts < MaxRestart
    /\ restarts' = restarts + 1
    /\ holds' = [holds EXCEPT ![n] = None]
    /\ alarmed' = [alarmed EXCEPT ![n] = FALSE]
    /\ UNCHANGED inflight

FInit ==
    /\ holds = [n \in Node |-> None]
    /\ alarmed = [n \in Node |-> FALSE]
    /\ inflight = {}
    /\ restarts = 0

FNext ==
    \/ \E n \in Node : Obtain(n) \/ Suspect(n) \/ Restart(n)
    \/ \E n, q \in Node : Pull(n, q)
    \/ \E m \in inflight : Receive(m[1], m[2]) \/ Lose(m[1], m[2])

FSpec == FInit /\ [][FNext]_fvars

\* A push ends, one way or the other; a node without a proof keeps asking.
FFairness ==
    /\ WF_fvars(\E m \in inflight : Receive(m[1], m[2]) \/ Lose(m[1], m[2]))
    /\ \A n \in Node : \A q \in Peers[n] : WF_fvars(holds[n] = None /\ Pull(n, q))

FairFSpec == FSpec /\ FFairness

-----------------------------------------------------------------------------
(* Properties. *)

\* A node is never convinced by witnesses it does not pin, however many nodes
\* that do have relayed the proof (pinnedKey in tryAdopt).
OnlyPinnedWitnessesConvince ==
    \A n \in Node : holds[n] # None => Believes(n, holds[n])

\* "every node re-pushes AT MOST ONCE": the flood ends, in any topology, cycles
\* and restarts included.
FloodEnds == <>[](inflight = {})

\* A proof that stays in the slot of a node reaches every node that asks it and
\* pins the witnesses the proof names, even if every push is lost.
AlarmSpreads ==
    \A n, q \in Node : q \in Peers[n] =>
        ([]<>(holds[q] # None /\ Believes(n, holds[q])) => []<>(alarmed[n]))
=============================================================================
