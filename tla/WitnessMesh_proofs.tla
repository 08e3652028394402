------------------------- MODULE WitnessMesh_proofs -------------------------
(***************************************************************************)
(* Proofs about WitnessMesh, for any number of daemons, however they pin   *)
(* each other: the types, that every proof verifies, that a proof convicts *)
(* only an operator who forked, and that the mesh implements ProofFlood.   *)
(***************************************************************************)
EXTENDS WitnessMesh, Witness_proofs, SequenceTheorems, FiniteSetTheorems

-----------------------------------------------------------------------------
(* The witnesses under the mesh. *)

\* A daemon that is not writing its state file has given out the cosignature it
\* holds, and it holds the one of its view unless its signer fails.
HeldInv ==
    \A w \in Witness :
        /\ pc[w] = "down" => latest[w] = NoView
        /\ pc[w] # "save" /\ latest[w] # NoView => latest[w] \in published[w]
        /\ FlakySigner = {} /\ latest[w] # NoView => latest[w] = st[w]

\* Cosignatures are only ever added to what has been given out.
LEMMA PublishedGrows ==
    ASSUME TypeInv, [Next]_vars, NEW w \in Witness
    PROVE  published[w] \subseteq published'[w]
<1>1. CASE UNCHANGED published
  BY <1>1
<1>2. ASSUME NEW x \in Witness, Save(x) \/ SaveError(x)
      PROVE  published[w] \subseteq published'[w]
  <2>1. \/ UNCHANGED published
        \/ published' = [published EXCEPT ![x] = published[x] \cup {latest[x]}]
    BY <1>2 DEF Save, SaveError
  <2> QED
    BY <2>1 DEF TypeInv, TypeOK
<1> QED
  BY <1>1, <1>2 DEF Next, Operate, Rewind, Add, witnessVars, Start, Crash, Tick, Poll, GetCheckpoint,
     PollFirstSight, PollUnchanged, PollRefused, PollAhead, PollExtension, PollInconsistent,
     PollError, AcceptOrError, vars

\* A poll touches the memory of the daemon that polls, and none that has polled.
LEMMA OneMemoryMoves ==
    ASSUME TypeInv, NEW w \in Witness, NEW x \in Witness,
           Start(w) \/ Poll(w) \/ Tick(w) \/ Crash(w), x # w
    PROVE  /\ pc'[x] = pc[x] /\ st'[x] = st[x] /\ latest'[x] = latest[x]
<1> USE DEF TypeInv, TypeOK
<1>1. CASE Start(w) \/ Tick(w) \/ PollAhead(w)
  BY <1>1 DEF Start, Tick, PollAhead
<1>2. CASE Vanish(w)
  BY <1>2 DEF Vanish
<1>3. CASE GiveUp(w)
  BY <1>2, <1>3 DEF GiveUp
<1>4. ASSUME NEW c, Accept(w, c) \/ CosignError(w, c)
      PROVE  pc'[x] = pc[x] /\ st'[x] = st[x] /\ latest'[x] = latest[x]
  BY <1>2, <1>4 DEF Accept, CosignError
<1>5. CASE Save(w) \/ SaveError(w)
  BY <1>2, <1>5 DEF Save, SaveError
<1>6. CASE Crash(w)
  BY <1>2, <1>6 DEF Crash
<1> QED
  BY <1>1, <1>3, <1>4, <1>5, <1>6 DEF Poll, GetCheckpoint, PollFirstSight, PollUnchanged, PollRefused,
     PollExtension, PollInconsistent, PollError, AcceptOrError

\* A daemon that has polled neither starts nor polls.
LEMMA PolledRests ==
    ASSUME NEW w \in Witness, Start(w) \/ Poll(w)
    PROVE  pc[w] # "polled"
  BY DEF Start, Poll, GetCheckpoint, PollFirstSight, PollUnchanged, PollRefused, PollAhead,
     PollExtension, PollInconsistent, PollError, Save, SaveError

LEMMA HeldInvStep ==
    ASSUME TypeInv, HeldInv, OneShot = {}, [Next]_vars
    PROVE  HeldInv'
<1> DEFINE Held(w) ==
      /\ pc[w] = "down" => latest[w] = NoView
      /\ pc[w] # "save" /\ latest[w] # NoView => latest[w] \in published[w]
      /\ FlakySigner = {} /\ latest[w] # NoView => latest[w] = st[w]
<1> USE DEF HeldInv, TypeInv, TypeOK
<1>1. CASE UNCHANGED <<st, latest, pc, published>>
  BY <1>1
<1>2. ASSUME NEW w \in Witness, Start(w) \/ Poll(w) \/ Tick(w) \/ Crash(w)
      PROVE  HeldInv'
  <2>1. ASSUME NEW x \in Witness, x # w
        PROVE  Held(x)'
    BY <1>2, <2>1, OneMemoryMoves, PublishedGrows DEF Next
  <2>2. Held(w)'
    <3>1. CASE Vanish(w)
      BY <3>1 DEF Vanish
    <3>2. CASE GiveUp(w) /\ pc[w] # "save" /\ UNCHANGED published
      BY <3>2 DEF GiveUp
    <3>3. ASSUME NEW c, Accept(w, c) PROVE Held(w)'
      BY <3>3 DEF Accept
    <3>4. ASSUME NEW c, CosignError(w, c), pc[w] # "save", UNCHANGED published PROVE Held(w)'
      BY <3>4 DEF CosignError
    <3>5. CASE Save(w) \/ SaveError(w)
      <4>1. /\ UNCHANGED <<st, latest>> /\ pc' = [pc EXCEPT ![w] = "polled"]
            /\ published' = [published EXCEPT ![w] = published[w] \cup {latest[w]}]
        BY <3>5 DEF Save, SaveError
      <4> QED
        BY <4>1
    <3>6. CASE Start(w) \/ Tick(w) \/ PollAhead(w)
      BY <3>6 DEF Start, Tick, PollAhead
    <3>7. CASE Crash(w)
      BY <3>1, <3>7 DEF Crash
    <3>8. CASE PollFirstSight(w) \/ PollUnchanged(w) \/ PollExtension(w)
      BY <3>3, <3>4, <3>8 DEF PollFirstSight, PollUnchanged, PollExtension, AcceptOrError
    <3>9. CASE PollRefused(w) \/ PollInconsistent(w) \/ PollError(w)
      BY <3>2, <3>9 DEF PollRefused, PollInconsistent, PollError
    <3> QED
      BY <1>2, <3>5, <3>6, <3>7, <3>8, <3>9 DEF Poll, GetCheckpoint
  <2> QED
    BY <2>1, <2>2
<1> QED
  BY <1>1, <1>2 DEF Next, Operate, Rewind, Add, witnessVars, vars
-----------------------------------------------------------------------------
(* The types of the mesh. *)

MeshTypes == MeshTypeOK /\ PollInv

LEMMA MeshTypesInit == MeshInit => MeshTypes
<1> SUFFICES ASSUME MeshInit PROVE MeshTypes
  OBVIOUS
<1>1. TypeInv
  BY TypeInvInit DEF MeshInit
<1> QED
  BY <1>1 DEF MeshInit, FreshMesh, MeshTypes, MeshTypeOK, TypeInv, Phase

\* The steps of the mesh that leave Witness's variables alone, all but healthOK.
OnlyHealth ==
    /\ UNCHANGED <<log, disk, st, latest, pc, cp, published, crashes>>
    /\ healthOK' \in [Witness -> BOOLEAN]

LEMMA AdoptTypes ==
    ASSUME MeshTypes, NEW w \in Witness, NEW p \in Proof, NEW msgs \in SUBSET (Witness \X Proof),
           Adopt(w, p, msgs)
    PROVE  /\ OnlyHealth
           /\ proof' \in [Witness -> Proof \cup {NoProof}]
           /\ equivocation' \in [Witness -> BOOLEAN]
           /\ proofs' \in [Witness -> SUBSET Proof]
           /\ inflight' \subseteq Witness \X Proof
<1> USE DEF MeshTypes, MeshTypeOK, TypeOK
<1>1. OnlyHealth
  BY DEF Adopt, OnlyHealth
<1>2. proof' \in [Witness -> Proof \cup {NoProof}] /\ equivocation' \in [Witness -> BOOLEAN]
  BY DEF Adopt
<1>3. proofs' \in [Witness -> SUBSET Proof]
  BY DEF Adopt, Retain
<1>4. Flood(w, p) \subseteq Witness \X Proof
  BY MeshAssumption DEF Flood
<1> QED
  BY <1>1, <1>2, <1>3, <1>4 DEF Adopt

LEMMA OnlyHealthTypes == MeshTypes /\ OnlyHealth => TypeInv'
  BY DEF MeshTypes, MeshTypeOK, TypeOK, OnlyHealth, TypeInv, PollInv

LEMMA CommitTypes ==
    ASSUME MeshTypes, NEW w \in Witness, CommitCheck(w)
    PROVE  MeshTypes'
<1> USE DEF MeshTypes, MeshTypeOK
<1> DEFINE p == [a |-> [witness |-> w, head |-> latest[w]], b |-> divergent[w]]
<1>1. OnlyHealth
  BY DEF CommitCheck, OnlyHealth, TypeOK
<1>2. /\ phase' \in [Witness -> Phase] /\ snap' \in [Witness -> TreeHead \cup {NoView}]
      /\ suspicious' \in [Witness -> BOOLEAN] /\ divergent' \in [Witness -> Half \cup {NoHalf}]
      /\ equivocation' \in [Witness -> BOOLEAN]
      /\ UNCHANGED <<serving, todo, asked>>
  BY DEF CommitCheck, Phase
<1>3. CASE divergent[w] # NoHalf /\ proof[w] = NoProof /\ latest[w] # NoView
  <2>1. p \in Proof
    BY <1>3 DEF Proof, Half, TypeOK
  <2>2. /\ proof' = [proof EXCEPT ![w] = p]
        /\ proofs' = [proofs EXCEPT ![w] = Retain(proofs[w], p)]
        /\ inflight' = inflight \cup Flood(w, p)
    BY <1>3 DEF CommitCheck
  <2>3. Flood(w, p) \subseteq Witness \X Proof
    BY <2>1, MeshAssumption DEF Flood
  <2>4. Retain(proofs[w], p) \subseteq Proof
    BY <2>1 DEF Retain
  <2> QED
    BY <1>1, <1>2, <2>1, <2>2, <2>3, <2>4, OnlyHealthTypes DEF TypeInv
<1>4. CASE ~(divergent[w] # NoHalf /\ proof[w] = NoProof /\ latest[w] # NoView)
  <2>1. UNCHANGED <<proof, proofs, inflight>>
    BY <1>4 DEF CommitCheck
  <2> QED
    BY <1>1, <1>2, <2>1, OnlyHealthTypes DEF TypeInv
<1> QED
  BY <1>3, <1>4

LEMMA CheckTypes ==
    ASSUME MeshTypes, NEW w \in Witness, CheckPeers(w)
    PROVE  MeshTypes'
<1> USE DEF MeshTypes, MeshTypeOK, TypeOK
<1>1. CASE CommitCheck(w)
  BY <1>1, CommitTypes
<1>2. CASE SnapshotView(w)
  <2>1. Peers[w] \subseteq Witness
    BY MeshAssumption
  <2>2. OnlyHealth
    BY <1>2 DEF SnapshotView, OnlyHealth, vars
  <2> QED
    BY <1>2, <2>1, <2>2, OnlyHealthTypes DEF SnapshotView, Phase, alarmVars, TypeInv
<1>3. ASSUME NEW p \in Witness, PeerUnreachable(w, p)
      PROVE  MeshTypes'
  <2>1. OnlyHealth
    BY <1>3 DEF PeerUnreachable, OnlyHealth, vars
  <2> QED
    BY <1>3, <2>1, OnlyHealthTypes DEF PeerUnreachable, alarmVars, TypeInv
<1>4. ASSUME NEW p \in Witness, JudgePeer(w, p)
      PROVE  MeshTypes'
  <2>1. OnlyHealth
    BY <1>4 DEF JudgePeer, JudgeBy, OnlyHealth, vars
  <2>2. [witness |-> p, head |-> latest[p]] \in Half
    BY <1>4 DEF JudgePeer, JudgeBy, Half
  <2>3. /\ suspicious' \in [Witness -> BOOLEAN] /\ divergent' \in [Witness -> Half \cup {NoHalf}]
        /\ todo' \in [Witness -> SUBSET Witness]
    BY <1>4, <2>2 DEF JudgePeer, JudgeBy
  <2> QED
    BY <1>4, <2>1, <2>3, OnlyHealthTypes DEF JudgePeer, JudgeBy, alarmVars, TypeInv
<1>5. ASSUME NEW p \in Witness, PeerAhead(w, p)
      PROVE  MeshTypes'
  <2>1. OnlyHealth
    BY <1>5 DEF PeerAhead, OnlyHealth, vars
  <2> QED
    BY <1>5, <2>1, OnlyHealthTypes DEF PeerAhead, alarmVars, TypeInv, Phase
<1>6. CASE ExtensionUnknown(w)
  <2>1. OnlyHealth
    BY <1>6 DEF ExtensionUnknown, OnlyHealth, vars
  <2> QED
    BY <1>6, <2>1, OnlyHealthTypes DEF ExtensionUnknown, alarmVars, TypeInv, Phase
<1>7. CASE JudgeExtension(w)
  <2>1. OnlyHealth
    BY <1>7 DEF JudgeExtension, OnlyHealth, vars
  <2>2. suspicious' \in [Witness -> BOOLEAN]
    <3> DEFINE bad == ~ProofVerifies(snap[w], asked[w], log[ViewOf[w]])
    <3>1. suspicious' = [suspicious EXCEPT ![w] = suspicious[w] \/ bad]
      BY <1>7 DEF JudgeExtension
    <3> HIDE DEF bad
    <3> QED
      BY <3>1
  <2> QED
    BY <1>7, <2>1, <2>2, OnlyHealthTypes DEF JudgeExtension, alarmVars, TypeInv, Phase
<1> QED
  BY <1>1, <1>2, <1>3, <1>4, <1>5, <1>6, <1>7 DEF CheckPeers
LEMMA PullTypes ==
    ASSUME MeshTypes, NEW w \in Witness, PullPeerProofs(w)
    PROVE  MeshTypes'
<1> USE DEF MeshTypes, MeshTypeOK
<1>1. CASE PullStart(w) \/ PullEnd(w) \/ \E p \in Witness : PullMiss(w, p)
  <2>1. OnlyHealth
    BY <1>1 DEF PullStart, PullEnd, PullMiss, OnlyHealth, vars, TypeOK
  <2>2. todo' \in [Witness -> SUBSET Witness] /\ phase' \in [Witness -> Phase]
    BY <1>1, MeshAssumption DEF PullStart, PullEnd, PullMiss, Phase
  <2> QED
    BY <1>1, <2>1, <2>2, OnlyHealthTypes DEF PullStart, PullEnd, PullMiss, alarmVars, TypeInv
<1>2. ASSUME NEW p \in Witness, PullAdopt(w, p)
      PROVE  MeshTypes'
  <2>1. proof[p] \in Proof /\ Adopt(w, proof[p], inflight)
    BY <1>2 DEF PullAdopt
  <2>2. /\ OnlyHealth
        /\ proof' \in [Witness -> Proof \cup {NoProof}]
        /\ equivocation' \in [Witness -> BOOLEAN]
        /\ proofs' \in [Witness -> SUBSET Proof]
        /\ inflight' \subseteq Witness \X Proof
    BY <2>1, AdoptTypes
  <2> QED
    BY <1>2, <2>2, OnlyHealthTypes DEF PullAdopt, TypeInv, Phase
<1> QED
  BY <1>1, <1>2 DEF PullPeerProofs

LEMMA IntakeTypes == MeshTypes /\ Intake => MeshTypes'
<1> SUFFICES ASSUME MeshTypes, Intake PROVE MeshTypes'
  OBVIOUS
<1> USE DEF MeshTypes, MeshTypeOK
<1>1. ASSUME NEW w \in Witness, NEW p \in Proof, NEW msgs \in SUBSET inflight,
             Adopt(w, p, msgs), UNCHANGED <<serving, crossVars>>
      PROVE  MeshTypes'
  <2>1. msgs \in SUBSET (Witness \X Proof)
    OBVIOUS
  <2> QED
    BY <1>1, <2>1, AdoptTypes, OnlyHealthTypes DEF crossVars, TypeInv
<1>2. ASSUME UNCHANGED <<vars, serving, crossVars, alarmVars>>, inflight' \subseteq inflight
      PROVE  MeshTypes'
  BY <1>2 DEF vars, crossVars, alarmVars, TypeOK, PollInv
<1>3. ASSUME NEW m \in inflight, Deliver(m[1], m[2])
      PROVE  MeshTypes'
  <2>1. m[1] \in Witness /\ m[2] \in Proof
    OBVIOUS
  <2>2. inflight \ {<<m[1], m[2]>>} \in SUBSET inflight
    OBVIOUS
  <2> QED
    BY <1>1, <1>2, <1>3, <2>1, <2>2 DEF Deliver
<1>4. ASSUME NEW m \in inflight, PushLost(m[1], m[2])
      PROVE  MeshTypes'
  BY <1>2, <1>4 DEF PushLost
<1>5. ASSUME NEW w \in Witness, PostedByAnyone(w)
      PROVE  MeshTypes'
  <2>1. PICK x, y \in Witness : \E g \in published[x], h \in published[y] :
            Adopt(w, [a |-> [witness |-> x, head |-> g], b |-> [witness |-> y, head |-> h]], inflight)
    BY <1>5 DEF PostedByAnyone
  <2>2. PICK g \in published[x], h \in published[y] :
            Adopt(w, [a |-> [witness |-> x, head |-> g], b |-> [witness |-> y, head |-> h]], inflight)
    BY <2>1
  <2>3. [a |-> [witness |-> x, head |-> g], b |-> [witness |-> y, head |-> h]] \in Proof
    BY DEF Proof, Half, TypeOK
  <2> QED
    BY <1>1, <1>5, <2>2, <2>3 DEF PostedByAnyone
<1> QED
  BY <1>3, <1>4, <1>5 DEF Intake

\* The steps of Witness that the mesh takes.
LEMMA WitnessStepTypes ==
    ASSUME MeshTypes, [Next]_vars,
           serving' \in [Witness -> BOOLEAN], phase' \in [Witness -> Phase],
           snap' \in [Witness -> TreeHead \cup {NoView}], todo' \in [Witness -> SUBSET Witness],
           asked' \in [Witness -> TreeHead \cup {NoView}], suspicious' \in [Witness -> BOOLEAN],
           divergent' \in [Witness -> Half \cup {NoHalf}],
           equivocation' \in [Witness -> BOOLEAN], proof' \in [Witness -> Proof \cup {NoProof}],
           proofs' \in [Witness -> SUBSET Proof], inflight' \subseteq Witness \X Proof
    PROVE  MeshTypes'
  BY TypeInvNext DEF MeshTypes, MeshTypeOK, TypeInv

LEMMA MeshTypesStep == MeshTypes /\ [MeshNext]_allVars => MeshTypes'
<1> SUFFICES ASSUME MeshTypes, [MeshNext]_allVars PROVE MeshTypes'
  OBVIOUS
<1> USE DEF MeshTypes, MeshTypeOK
<1>1. CASE UNCHANGED meshVars /\ [Next]_vars
  BY <1>1, WitnessStepTypes DEF meshVars, crossVars, alarmVars
<1>2. ASSUME NEW w \in Witness, NextTick(w) PROVE MeshTypes'
  <2>1. [Next]_vars
    BY <1>2 DEF NextTick, Next
  <2> QED
    BY <1>2, <2>1, WitnessStepTypes DEF NextTick, Phase, alarmVars
<1>3. ASSUME NEW w \in Witness, MeshCrash(w) PROVE MeshTypes'
  <2>1. [Next]_vars
    BY <1>3 DEF MeshCrash, Next
  <2> QED
    BY <1>3, <2>1, WitnessStepTypes DEF MeshCrash, Phase
<1>4. CASE UNCHANGED allVars
  BY <1>1, <1>4 DEF allVars
<1>5. ASSUME NEW w \in Witness, (Start(w) \/ Poll(w)) /\ UNCHANGED meshVars PROVE MeshTypes'
  BY <1>1, <1>5 DEF Next
<1>6. CASE Operate /\ UNCHANGED meshVars
  BY <1>1, <1>6 DEF Next
<1> QED
  BY <1>2, <1>3, <1>4, <1>5, <1>6, CheckTypes, PullTypes, IntakeTypes DEF MeshNext

LEMMA MeshTypesAlways == MeshSpec => []MeshTypes
  BY MeshTypesInit, MeshTypesStep, PTL DEF MeshSpec

\* What the daemons of a mesh hold, serve and send is always well formed: every
\* proof has two cosigned heads, wherever it came from.
THEOREM MeshTypeCorrect == MeshSpec => []MeshTypeOK
<1>1. MeshTypes => MeshTypeOK
  BY DEF MeshTypes
<1> QED
  BY <1>1, MeshTypesAlways, PTL
-----------------------------------------------------------------------------
(* Every proof verifies. *)

\* A round of checkPeers compares with the view it started from, because no poll
\* runs before it is over; the split it has found is with a cosignature that is
\* out, at the size of that view.
CheckInv(w) ==
    /\ phase[w] # "idle" => pc[w] = "polled"
    /\ phase[w] \in {"cross", "extension"} => snap[w] = st[w]
    /\ phase[w] \notin {"cross", "extension"} => divergent[w] = NoHalf
    /\ todo[w] \subseteq Peers[w]
    /\ divergent[w] # NoHalf =>
          /\ divergent[w].witness \in Peers[w]
          /\ divergent[w].head \in published[divergent[w].witness]
          /\ Len(divergent[w].head) = Len(snap[w])
          /\ divergent[w].head # snap[w]
          /\ suspicious[w]

CheckInvs == \A w \in Witness : CheckInv(w)

Sound(p) == VerifyEquivocation(p, p.a.witness, p.b.witness)

\* What the steps of the mesh do to the witnesses.
LEMMA MeshStepOnWitnesses ==
    ASSUME MeshTypes, MeshNext
    PROVE  [Next]_vars \/ OnlyHealth
<1> USE DEF MeshTypes, MeshTypeOK, TypeOK
<1>1. ASSUME UNCHANGED vars PROVE [Next]_vars
  BY <1>1
<1>2. ASSUME NEW w \in Witness, NEW p, NEW msgs, Adopt(w, p, msgs) PROVE OnlyHealth
  BY <1>2 DEF Adopt, OnlyHealth
<1>3. ASSUME NEW w \in Witness, CheckPeers(w) PROVE [Next]_vars \/ OnlyHealth
  <2>1. CommitCheck(w) => OnlyHealth
    BY DEF CommitCheck, OnlyHealth
  <2> QED
    BY <1>3, <2>1 DEF CheckPeers, SnapshotView, PeerUnreachable, JudgePeer, JudgeBy, PeerAhead,
       ExtensionUnknown, JudgeExtension
<1>4. ASSUME NEW w \in Witness, PullPeerProofs(w) PROVE [Next]_vars \/ OnlyHealth
  BY <1>2, <1>4 DEF PullPeerProofs, PullStart, PullMiss, PullAdopt, PullEnd
<1>5. ASSUME Intake PROVE [Next]_vars \/ OnlyHealth
  <2>1. ASSUME NEW m \in inflight, Deliver(m[1], m[2]) PROVE [Next]_vars \/ OnlyHealth
    <3>1. m[1] \in Witness
      OBVIOUS
    <3> QED
      BY <1>2, <2>1, <3>1 DEF Deliver
  <2>2. ASSUME NEW m \in inflight, PushLost(m[1], m[2]) PROVE [Next]_vars
    BY <2>2 DEF PushLost
  <2>3. ASSUME NEW w \in Witness, PostedByAnyone(w) PROVE OnlyHealth
    BY <1>2, <2>3 DEF PostedByAnyone
  <2> QED
    BY <1>5, <2>1, <2>2, <2>3 DEF Intake
<1> QED
  BY <1>3, <1>4, <1>5 DEF MeshNext, Next, NextTick, MeshCrash

LEMMA PublishedStays ==
    ASSUME MeshTypes, [MeshNext]_allVars, NEW w \in Witness
    PROVE  published[w] \subseteq published'[w]
<1>1. CASE [Next]_vars
  BY <1>1, PublishedGrows DEF MeshTypes, MeshTypeOK, TypeInv
<1> QED
  BY <1>1, MeshStepOnWitnesses DEF OnlyHealth, allVars

\* A proof that verifies goes on verifying.
LEMMA SoundStays ==
    ASSUME MeshTypes, [MeshNext]_allVars, NEW p \in Proof, Sound(p)
    PROVE  Sound(p)'
<1>1. p.a.witness \in Witness /\ p.b.witness \in Witness
  BY DEF Proof, Half
<1> QED
  BY <1>1, PublishedStays DEF Sound, VerifyEquivocation

\* CheckInv(w) is not disturbed by what leaves w's round and memory alone.
LEMMA CheckInvFrame ==
    ASSUME MeshTypes, CheckInvs, [MeshNext]_allVars, NEW w \in Witness,
           phase'[w] = phase[w], snap'[w] = snap[w], todo'[w] \subseteq todo[w],
           divergent'[w] = divergent[w], suspicious'[w] = suspicious[w],
           phase[w] # "idle" => pc'[w] = pc[w] /\ st'[w] = st[w]
    PROVE  CheckInv(w)'
<1>1. CheckInv(w)
  BY DEF CheckInvs
<1>2. ASSUME divergent[w] # NoHalf
      PROVE  divergent[w].head \in published'[divergent[w].witness]
  <2>1. divergent[w].witness \in Witness
    BY <1>1, <1>2, MeshAssumption DEF CheckInv
  <2> QED
    BY <1>1, <1>2, <2>1, PublishedStays DEF CheckInv
<1> QED
  BY <1>1, <1>2 DEF CheckInv

\* A witness that starts, polls or crashes leaves the others' rounds alone; one
\* that starts or polls is in no round.
LEMMA CheckInvPoll ==
    ASSUME MeshTypes, CheckInvs, [MeshNext]_allVars, UNCHANGED meshVars,
           NEW w \in Witness, Start(w) \/ Poll(w)
    PROVE  CheckInvs'
<1>1. SUFFICES ASSUME NEW x \in Witness PROVE CheckInv(x)'
  BY DEF CheckInvs
<1>2. CASE x = w
  <2>1. phase[x] = "idle"
    BY <1>2, PolledRests DEF CheckInvs, CheckInv
  <2> QED
    BY <2>1, CheckInvFrame DEF meshVars, crossVars
<1>3. CASE x # w
  <2>1. pc'[x] = pc[x] /\ st'[x] = st[x]
    BY <1>3, OneMemoryMoves DEF MeshTypes, MeshTypeOK, TypeInv
  <2> QED
    BY <2>1, CheckInvFrame DEF meshVars, crossVars
<1> QED
  BY <1>2, <1>3

\* A step of w's round; what it makes of w's own round is left to show.
LEMMA CheckInvRound ==
    ASSUME MeshTypes, CheckInvs, [MeshNext]_allVars, NEW w \in Witness, CheckInv(w)',
           UNCHANGED <<pc, st>>,
           \A x \in Witness \ {w} :
              /\ phase'[x] = phase[x] /\ snap'[x] = snap[x] /\ todo'[x] = todo[x]
              /\ divergent'[x] = divergent[x] /\ suspicious'[x] = suspicious[x]
    PROVE  CheckInvs'
<1>1. ASSUME NEW x \in Witness, x # w PROVE CheckInv(x)'
  BY <1>1, CheckInvFrame
<1> QED
  BY <1>1 DEF CheckInvs

LEMMA CheckInvCheck ==
    ASSUME MeshTypes, CheckInvs, HeldInv, NEW w \in Witness, CheckPeers(w)
    PROVE  CheckInvs'
<1> USE DEF MeshTypes, MeshTypeOK, TypeOK
<1>0. MeshNext
  BY DEF MeshNext
<1>1. /\ UNCHANGED <<pc, st, published>>
      /\ \A x \in Witness \ {w} :
            /\ phase'[x] = phase[x] /\ snap'[x] = snap[x] /\ todo'[x] = todo[x]
            /\ divergent'[x] = divergent[x] /\ suspicious'[x] = suspicious[x]
  BY DEF CheckPeers, SnapshotView, PeerUnreachable, JudgePeer, JudgeBy, PeerAhead,
     ExtensionUnknown, JudgeExtension, CommitCheck, vars
<1>2. CheckInv(w)
  BY DEF CheckInvs
<1>3. CheckInv(w)'
  <2>1. CASE SnapshotView(w)
    BY <1>2, <2>1 DEF SnapshotView, CheckInv, vars
  <2>2. CASE \E p \in Witness : PeerUnreachable(w, p) \/ PeerAhead(w, p)
    BY <1>2, <2>2 DEF PeerUnreachable, PeerAhead, CheckInv, vars
  <2>3. CASE ExtensionUnknown(w) \/ JudgeExtension(w)
    BY <1>2, <2>3 DEF ExtensionUnknown, JudgeExtension, CheckInv, vars
  <2>4. CASE CommitCheck(w)
    BY <1>2, <2>4 DEF CommitCheck, CheckInv
  <2>5. ASSUME NEW p \in Witness, JudgePeer(w, p)
        PROVE  CheckInv(w)'
    <3>1. /\ p \in todo[w] /\ latest[p] # NoView /\ phase[w] = "cross"
          /\ Answers(p)
          /\ todo' = [todo EXCEPT ![w] = todo[w] \ {p}]
          /\ UNCHANGED <<phase, snap>>
      BY <2>5 DEF JudgePeer, JudgeBy
    <3>2. latest[p] \in published[p] /\ p \in Peers[w]
      BY <1>2, <3>1 DEF HeldInv, Answers, Locked, CheckInv
    <3>3. CASE UNCHANGED <<divergent, suspicious>>
      BY <1>1, <1>2, <3>1, <3>3 DEF CheckInv
    <3>4. CASE /\ snap[w] # NoView /\ Len(latest[p]) = Len(snap[w]) /\ latest[p] # snap[w]
               /\ divergent[w] = NoHalf
               /\ divergent' = [divergent EXCEPT ![w] = [witness |-> p, head |-> latest[p]]]
               /\ suspicious' = [suspicious EXCEPT ![w] = TRUE]
      BY <1>1, <1>2, <3>1, <3>2, <3>4 DEF CheckInv
    <3>5. CASE /\ divergent[w] # NoHalf
               /\ divergent' = [divergent EXCEPT ![w] = divergent[w]]
               /\ suspicious' = [suspicious EXCEPT ![w] = TRUE]
      BY <1>1, <1>2, <3>1, <3>5 DEF CheckInv
    <3> QED
      BY <2>5, <3>3, <3>4, <3>5 DEF JudgePeer, JudgeBy
  <2> QED
    BY <2>1, <2>2, <2>3, <2>4, <2>5 DEF CheckPeers
<1> QED
  BY <1>0, <1>1, <1>3, CheckInvRound

LEMMA CheckInvStep == MeshTypes /\ CheckInvs /\ HeldInv /\ [MeshNext]_allVars => CheckInvs'
<1> SUFFICES ASSUME MeshTypes, CheckInvs, HeldInv, [MeshNext]_allVars PROVE CheckInvs'
  OBVIOUS
<1>1. ASSUME UNCHANGED <<crossVars, pc, st>> PROVE CheckInvs'
  BY <1>1, CheckInvFrame DEF CheckInvs, crossVars
<1>2. ASSUME NEW w \in Witness, PullPeerProofs(w) PROVE CheckInvs'
  <2>1. /\ UNCHANGED <<pc, st, snap, divergent, suspicious>>
        /\ phase[w] \in {"checked", "pull"} /\ phase' = [phase EXCEPT ![w] = phase'[w]]
        /\ phase'[w] \in {"pull", "done"}
        /\ todo' = [todo EXCEPT ![w] = todo'[w]]
        /\ todo'[w] \subseteq Peers[w]
    BY <1>2 DEF PullPeerProofs, PullStart, PullMiss, PullAdopt, PullEnd, Adopt, vars, CheckInvs,
       CheckInv, MeshTypes, MeshTypeOK
  <2>2. CheckInv(w)'
    BY <2>1 DEF CheckInvs, CheckInv
  <2> QED
    BY <2>1, <2>2, CheckInvRound DEF MeshTypes, MeshTypeOK
<1>3. ASSUME NEW w \in Witness, NextTick(w) \/ MeshCrash(w) PROVE CheckInvs'
  <2>1. /\ phase' = [phase EXCEPT ![w] = "idle"]
        /\ \A x \in Witness \ {w} :
              /\ snap'[x] = snap[x] /\ todo'[x] = todo[x]
              /\ divergent'[x] = divergent[x] /\ suspicious'[x] = suspicious[x]
        /\ todo'[w] \subseteq Peers[w] /\ divergent'[w] = NoHalf
    BY <1>3 DEF NextTick, MeshCrash, MeshTypes, MeshTypeOK, CheckInvs, CheckInv
  <2>2. CheckInv(w)'
    BY <2>1 DEF CheckInv, MeshTypes, MeshTypeOK
  <2>3. ASSUME NEW x \in Witness, x # w PROVE CheckInv(x)'
    <3>1. pc'[x] = pc[x] /\ st'[x] = st[x]
      BY <1>3, <2>3, OneMemoryMoves DEF NextTick, MeshCrash, MeshTypes, MeshTypeOK, TypeInv
    <3> QED
      BY <2>1, <2>3, <3>1, CheckInvFrame
  <2> QED
    BY <2>2, <2>3 DEF CheckInvs
<1>4. ASSUME Intake PROVE CheckInvs'
  <2>1. ASSUME NEW w, NEW p, NEW msgs, Adopt(w, p, msgs) PROVE UNCHANGED <<pc, st>>
    BY <2>1 DEF Adopt
  <2>2. UNCHANGED <<crossVars, pc, st>>
    BY <1>4, <2>1 DEF Intake, Deliver, PushLost, PostedByAnyone, vars
  <2> QED
    BY <1>1, <2>2
<1>5. ASSUME Operate, UNCHANGED meshVars PROVE CheckInvs'
  BY <1>1, <1>5 DEF Operate, Rewind, Add, witnessVars, meshVars
<1> QED
  BY <1>1, <1>2, <1>3, <1>4, <1>5, CheckInvPoll, CheckInvCheck DEF MeshNext, allVars, vars, meshVars

LEMMA HeldInvMesh == MeshTypes /\ HeldInv /\ [MeshNext]_allVars => HeldInv'
<1> SUFFICES ASSUME MeshTypes, HeldInv, [MeshNext]_allVars PROVE HeldInv'
  OBVIOUS
<1>1. CASE [Next]_vars
  BY <1>1, HeldInvStep, MeshAssumption DEF MeshTypes, MeshTypeOK, TypeInv
<1>2. CASE OnlyHealth
  BY <1>2 DEF OnlyHealth, HeldInv
<1> QED
  BY <1>1, <1>2, MeshStepOnWitnesses DEF allVars

EvidenceSound == \A p \in Proof : p \in Evidence => Sound(p)

\* Where a proof can be.
LEMMA WhereEvidenceIs ==
    ASSUME NEW p
    PROVE  /\ p \in Evidence <=>
                 \/ \E w \in Witness : proof[w] # NoProof /\ p = proof[w]
                 \/ \E w \in Witness : p \in proofs[w]
                 \/ \E m \in inflight : p = m[2]
           /\ p \in Evidence' <=>
                 \/ \E w \in Witness : proof'[w] # NoProof /\ p = proof'[w]
                 \/ \E w \in Witness : p \in proofs'[w]
                 \/ \E m \in inflight' : p = m[2]
  BY DEF Evidence

\* The proofs at hand stay sound; what is new has to be.
LEMMA EvidenceFrame ==
    ASSUME MeshTypes, EvidenceSound, [MeshNext]_allVars,
           \A p \in Proof : p \in Evidence' => p \in Evidence \/ Sound(p)
    PROVE  EvidenceSound'
<1>1. ASSUME NEW p \in Proof, p \in Evidence' PROVE Sound(p)'
  BY <1>1, SoundStays DEF EvidenceSound
<1> QED
  BY <1>1 DEF EvidenceSound

\* Adopting p adds no other proof to the mesh.
LEMMA AdoptAddsOne ==
    ASSUME MeshTypes, NEW w \in Witness, NEW p \in Proof, NEW msgs \in SUBSET inflight,
           Adopt(w, p, msgs)
    PROVE  Evidence' \subseteq Evidence \cup {p}
<1> USE DEF MeshTypes, MeshTypeOK
<1>1. proof' = [proof EXCEPT ![w] = IF proof[w] = NoProof THEN p ELSE proof[w]]
  BY DEF Adopt
<1>2. /\ proofs' = [proofs EXCEPT ![w] = Retain(proofs[w], p)]
      /\ Retain(proofs[w], p) \subseteq proofs[w] \cup {p}
  BY DEF Adopt, Retain
<1>3. \A m \in inflight' : m \in inflight \/ m[2] = p
  BY DEF Adopt, Flood
<1>4. \A x \in Witness : proof'[x] \in {proof[x], p} /\ proofs'[x] \subseteq proofs[x] \cup {p}
  BY <1>1, <1>2
<1>5. ASSUME NEW r, r \in Evidence' PROVE r \in Evidence \/ r = p
  BY <1>3, <1>4, <1>5, WhereEvidenceIs
<1> QED
  BY <1>5

\* The split that checkPeers found makes a proof.
LEMMA CommitSound ==
    ASSUME MeshTypes, HeldInv, CheckInvs, FlakySigner = {}, NEW w \in Witness, CommitCheck(w)
    PROVE  \A p \in Proof : p \in Evidence' => p \in Evidence \/ Sound(p)
<1> USE DEF MeshTypes, MeshTypeOK
<1> DEFINE q == [a |-> [witness |-> w, head |-> latest[w]], b |-> divergent[w]]
<1>1. CASE UNCHANGED <<proof, proofs, inflight>>
  BY <1>1 DEF Evidence
<1>2. CASE divergent[w] # NoHalf /\ proof[w] = NoProof /\ latest[w] # NoView
  <2>1. /\ proof' = [proof EXCEPT ![w] = q]
        /\ proofs' = [proofs EXCEPT ![w] = Retain(proofs[w], q)]
        /\ inflight' = inflight \cup Flood(w, q)
    BY <1>2 DEF CommitCheck
  <2>2. Retain(proofs[w], q) \subseteq proofs[w] \cup {q} /\ \A m \in Flood(w, q) : m[2] = q
    BY DEF Retain, Flood
  <2>3. ASSUME NEW r, r \in Evidence' PROVE r \in Evidence \/ r = q
    <3>1. \A x \in Witness : proof'[x] \in {proof[x], q} /\ proofs'[x] \subseteq proofs[x] \cup {q}
      BY <2>1, <2>2
    <3>2. \A m \in inflight' : m \in inflight \/ m[2] = q
      BY <2>1, <2>2
    <3> QED
      BY <2>3, <3>1, <3>2, WhereEvidenceIs
  <2>4. Sound(q)
    BY <1>2 DEF CommitCheck, Sound, VerifyEquivocation, CheckInvs, CheckInv, HeldInv
  <2> QED
    BY <2>3, <2>4
<1> QED
  BY <1>1, <1>2 DEF CommitCheck

\* No step makes or passes on a proof that does not verify.
LEMMA EvidenceStep ==
    ASSUME MeshTypes, HeldInv, CheckInvs, EvidenceSound, FlakySigner = {}, [MeshNext]_allVars
    PROVE  EvidenceSound'
<1> USE DEF MeshTypes, MeshTypeOK
<1>1. ASSUME UNCHANGED alarmVars, inflight' \subseteq inflight PROVE EvidenceSound'
  <2>1. Evidence' \subseteq Evidence
    BY <1>1 DEF alarmVars, Evidence
  <2> QED
    BY <2>1, EvidenceFrame
<1>2. ASSUME NEW w \in Witness, NEW p \in Proof, NEW msgs \in SUBSET inflight,
             Adoptable(w, p), Adopt(w, p, msgs)
      PROVE  EvidenceSound'
  <2>1. Sound(p)
    BY <1>2 DEF Adoptable, Sound
  <2> QED
    BY <1>2, <2>1, AdoptAddsOne, EvidenceFrame
<1>3. ASSUME NEW w \in Witness, CheckPeers(w) PROVE EvidenceSound'
  <2>1. CASE CommitCheck(w)
    BY <2>1, CommitSound, EvidenceFrame
  <2> QED
    BY <1>1, <1>3, <2>1 DEF CheckPeers, SnapshotView, PeerUnreachable, JudgePeer, JudgeBy, PeerAhead,
       ExtensionUnknown, JudgeExtension
<1>4. ASSUME NEW w \in Witness, PullPeerProofs(w) PROVE EvidenceSound'
  <2>1. ASSUME NEW p \in Witness, PullAdopt(w, p) PROVE EvidenceSound'
    <3>1. proof[p] \in Proof /\ inflight \in SUBSET inflight
      BY <2>1 DEF PullAdopt
    <3> QED
      BY <1>2, <2>1, <3>1 DEF PullAdopt
  <2> QED
    BY <1>1, <1>4, <2>1 DEF PullPeerProofs, PullStart, PullMiss, PullEnd
<1>5. ASSUME NEW w \in Witness, MeshCrash(w) PROVE EvidenceSound'
  <2>1. Evidence' \subseteq Evidence
    BY <1>5 DEF MeshCrash, Evidence
  <2> QED
    BY <2>1, EvidenceFrame
<1>6. ASSUME Intake PROVE EvidenceSound'
  <2>1. ASSUME NEW m \in inflight, Deliver(m[1], m[2]) PROVE EvidenceSound'
    <3>1. m[1] \in Witness /\ m[2] \in Proof /\ inflight \ {<<m[1], m[2]>>} \in SUBSET inflight
      OBVIOUS
    <3> QED
      BY <1>1, <1>2, <2>1, <3>1 DEF Deliver
  <2>2. ASSUME NEW m \in inflight, PushLost(m[1], m[2]) PROVE EvidenceSound'
    BY <1>1, <2>2 DEF PushLost
  <2>3. ASSUME NEW w \in Witness, PostedByAnyone(w) PROVE EvidenceSound'
    <3>1. PICK x, y \in Witness : \E g \in published[x], h \in published[y] :
              LET p == [a |-> [witness |-> x, head |-> g], b |-> [witness |-> y, head |-> h]] IN
              Adoptable(w, p) /\ Adopt(w, p, inflight)
      BY <2>3 DEF PostedByAnyone
    <3>2. PICK g \in published[x], h \in published[y] :
              LET p == [a |-> [witness |-> x, head |-> g], b |-> [witness |-> y, head |-> h]] IN
              Adoptable(w, p) /\ Adopt(w, p, inflight)
      BY <3>1
    <3>3. [a |-> [witness |-> x, head |-> g], b |-> [witness |-> y, head |-> h]] \in Proof
      BY DEF Proof, Half, TypeOK
    <3>4. inflight \in SUBSET inflight
      OBVIOUS
    <3> QED
      BY <1>2, <3>2, <3>3, <3>4
  <2> QED
    BY <1>6, <2>1, <2>2, <2>3 DEF Intake
<1> QED
  BY <1>1, <1>3, <1>4, <1>5, <1>6 DEF MeshNext, NextTick, meshVars, allVars

MeshInv ==
    /\ MeshTypes
    /\ HeldInv
    /\ CheckInvs
    /\ FlakySigner = {} => EvidenceSound

LEMMA MeshInvAlways == MeshSpec => []MeshInv
<1>1. MeshInit => MeshInv
  <2> SUFFICES ASSUME MeshInit PROVE MeshInv
    OBVIOUS
  <2>1. HeldInv
    BY DEF MeshInit, Init, FreshWitnesses, HeldInv
  <2>2. CheckInvs
    BY DEF MeshInit, Init, FreshWitnesses, FreshMesh, CheckInvs, CheckInv
  <2>3. EvidenceSound
    BY DEF MeshInit, FreshMesh, EvidenceSound, Evidence
  <2> QED
    BY <2>1, <2>2, <2>3, MeshTypesInit DEF MeshInv
<1>2. MeshInv /\ [MeshNext]_allVars => MeshInv'
  BY MeshTypesStep, HeldInvMesh, CheckInvStep, EvidenceStep DEF MeshInv
<1> QED
  BY <1>1, <1>2, PTL DEF MeshSpec

\* Whichever daemons detect, push, pull or forward it, and however polls, crashes
\* and checks interleave, a proof in the mesh verifies under the pinned keys.
THEOREM EveryProofVerifies == MeshSpec => []EvidenceVerifies
<1>1. MeshInv => EvidenceVerifies
  <2> SUFFICES ASSUME MeshInv, FlakySigner = {}, NEW p \in Evidence PROVE Sound(p)
    BY DEF EvidenceVerifies, Sound
  <2>1. p \in Proof
    BY WhereEvidenceIs DEF MeshInv, MeshTypes, MeshTypeOK
  <2> QED
    BY <2>1 DEF MeshInv, EvidenceSound
<1> QED
  BY <1>1, MeshInvAlways, PTL

-----------------------------------------------------------------------------
(* A proof convicts only an operator who forked. *)

\* A view that nobody rewinds is only appended to.
LEMMA LogGrows ==
    ASSUME TypeInv, Tampering = {}, [Next]_vars, NEW v \in View
    PROVE  Extends(log'[v], log[v])
<1> USE DEF TypeInv, TypeOK
<1>1. CASE UNCHANGED log
  BY <1>1, ExtendsReflexive
<1>2. ASSUME NEW u \in View, NEW leaf \in Leaf, Add(u, leaf)
      PROVE  Extends(log'[v], log[v])
  <2>1. log' = [log EXCEPT ![u] = Append(log[u], leaf)]
    BY <1>2 DEF Add
  <2>2. Extends(Append(log[u], leaf), log[u])
    BY DEF Extends, TreeHead
  <2> QED
    BY <2>1, <2>2, ExtendsReflexive
<1> QED
  BY <1>1, <1>2 DEF Next, Operate, Rewind, vars, Start, Crash, Tick, Poll, GetCheckpoint,
     PollFirstSight, PollUnchanged, PollRefused, PollAhead, PollExtension, PollInconsistent,
     PollError, AcceptOrError, Save, SaveError

\* All that w holds, has saved or has given out.
Seen(w) == {disk[w], st[w], latest[w], cp[w]} \cup published[w]

\* A witness gets its heads from its view.
LEMMA SeenMoves ==
    ASSUME TypeInv, [Next]_vars, NEW x \in Witness
    PROVE  Seen(x)' \subseteq Seen(x) \cup {NoView, Corrupt, log[ViewOf[x]]}
<1> USE DEF TypeInv, TypeOK
<1>1. CASE UNCHANGED <<disk, st, latest, cp, published>>
  BY <1>1 DEF Seen
<1>2. ASSUME NEW w \in Witness, Start(w) \/ Poll(w) \/ Tick(w) \/ Crash(w)
      PROVE  Seen(x)' \subseteq Seen(x) \cup {NoView, Corrupt, log[ViewOf[x]]}
  <2>1. CASE Vanish(w) /\ UNCHANGED <<disk, published>>
    BY <2>1 DEF Vanish, Seen
  <2>2. CASE GiveUp(w) /\ UNCHANGED <<disk, published>>
    BY <2>1, <2>2 DEF GiveUp, Seen
  <2>3. ASSUME NEW c \in {log[ViewOf[w]], cp[w]}, AcceptOrError(w, c)
        PROVE  Seen(x)' \subseteq Seen(x) \cup {NoView, Corrupt, log[ViewOf[x]]}
    <3>1. CASE Accept(w, c)
      BY <2>3, <3>1 DEF AcceptOrError, Accept, Seen
    <3>2. CASE CosignError(w, c)
      BY <2>1, <2>3, <3>2 DEF AcceptOrError, CosignError, Seen
    <3> QED
      BY <2>3, <3>1, <3>2 DEF AcceptOrError
  <2>4. CASE Save(w) \/ SaveError(w) \/ Crash(w)
    <3>1. /\ disk' = [disk EXCEPT ![w] = disk'[w]]
          /\ disk'[w] \in {disk[w], st[w], Corrupt}
      BY <2>4 DEF Save, SaveError, Crash
    <3>2. /\ published' = [published EXCEPT ![w] = published'[w]]
          /\ published'[w] \subseteq published[w] \cup {latest[w]}
      BY <2>4 DEF Save, SaveError, Crash
    <3>3. Vanish(w) \/ UNCHANGED <<st, latest, cp>>
      BY <2>4 DEF Save, SaveError, Crash
    <3>4. /\ st'[x] \in {st[x], NoView} /\ latest'[x] \in {latest[x], NoView}
          /\ cp'[x] \in {cp[x], NoView}
      BY <3>3 DEF Vanish
    <3> QED
      BY <3>1, <3>2, <3>4 DEF Seen
  <2>5. CASE Start(w) \/ Tick(w) \/ PollAhead(w)
    BY <2>5 DEF Start, Tick, PollAhead, Seen
  <2>6. CASE PollFirstSight(w) \/ PollUnchanged(w) \/ PollExtension(w)
    BY <2>3, <2>6 DEF PollFirstSight, PollUnchanged, PollExtension
  <2>7. CASE PollRefused(w) \/ PollInconsistent(w) \/ PollError(w)
    BY <2>2, <2>7 DEF PollRefused, PollInconsistent, PollError
  <2> QED
    BY <1>2, <2>4, <2>5, <2>6, <2>7 DEF Poll, GetCheckpoint
<1> QED
  BY <1>1, <1>2 DEF Next, Operate, Rewind, Add, witnessVars, vars

\* As long as no view is rewound, it extends whatever its witnesses have seen.
ReadInv ==
    Tampering = {} =>
        \A w \in Witness : \A h \in Seen(w) : h = Corrupt \/ Extends(log[ViewOf[w]], h)

LEMMA ReadInvStep ==
    ASSUME TypeInv, ReadInv, [Next]_vars
    PROVE  ReadInv'
<1> USE DEF TypeInv, TypeOK
<1> SUFFICES ASSUME Tampering = {}, NEW w \in Witness, NEW h \in Seen(w)', h # Corrupt
             PROVE  Extends(log'[ViewOf[w]], h)
  BY DEF ReadInv
<1>1. Extends(log'[ViewOf[w]], log[ViewOf[w]])
  BY LogGrows, ConstantsAssumption
<1>2. log[ViewOf[w]] \in TreeHead /\ log'[ViewOf[w]] \in TreeHead
  BY TypeInvNext, ConstantsAssumption
<1>3. CASE h = NoView
  BY <1>3 DEF Extends
<1>4. CASE h = log[ViewOf[w]]
  BY <1>1, <1>4
<1>5. CASE h \in Seen(w) /\ h # NoView
  <2>1. Extends(log[ViewOf[w]], h)
    BY <1>5 DEF ReadInv
  <2>2. h \in TreeHead
    BY <1>5 DEF Seen
  <2> QED
    BY <1>1, <1>2, <2>1, <2>2, ExtendsTransitive
<1> QED
  BY <1>3, <1>4, <1>5, SeenMoves

LEMMA ReadInvMesh == MeshTypes /\ ReadInv /\ [MeshNext]_allVars => ReadInv'
<1> SUFFICES ASSUME MeshTypes, ReadInv, [MeshNext]_allVars PROVE ReadInv'
  OBVIOUS
<1>1. CASE [Next]_vars
  BY <1>1, ReadInvStep DEF MeshTypes, MeshTypeOK, TypeInv
<1>2. CASE OnlyHealth
  BY <1>2 DEF OnlyHealth, ReadInv, Seen
<1> QED
  BY <1>1, <1>2, MeshStepOnWitnesses DEF allVars

\* Two cosignatures on different trees of one size: the views have diverged.
LEMMA ProofMeansFork ==
    ASSUME MeshTypes, ReadInv, Tampering = {}, NEW p \in Proof,
           NEW x \in Witness, NEW y \in Witness, VerifyEquivocation(p, x, y)
    PROVE  \E u, v \in View : ~Comparable(log[u], log[v])
<1> USE DEF MeshTypes, MeshTypeOK, TypeOK
<1> DEFINE g == p.a.head
           h == p.b.head
           a == log[ViewOf[x]]
           b == log[ViewOf[y]]
<1>1. ViewOf[x] \in View /\ ViewOf[y] \in View
  BY ConstantsAssumption
<1>2. g \in published[x] /\ h \in published[y] /\ Len(g) = Len(h) /\ g # h
  BY DEF VerifyEquivocation
<1>3. g \in TreeHead /\ h \in TreeHead /\ a \in TreeHead /\ b \in TreeHead
  BY <1>1, <1>2
<1>4. Extends(a, g) /\ Extends(b, h)
  BY <1>2, <1>3, CorruptAssumption DEF ReadInv, Seen
<1> HIDE DEF g, h, a, b
<1>5. PICK i \in 1..Len(g) : g[i] # h[i]
  BY <1>2, <1>3, SeqEqual DEF TreeHead
<1>6. /\ i <= Len(a) /\ i <= Len(b) /\ a[i] = g[i] /\ b[i] = h[i]
      /\ i \in 1..Len(a) /\ i \in 1..Len(b)
  BY <1>2, <1>3, <1>4, <1>5, NoViewAssumption DEF Extends, TreeHead
<1>7. ~Comparable(a, b)
  BY <1>3, <1>5, <1>6, NoViewAssumption DEF Comparable, Extends
<1> QED
  BY <1>1, <1>7 DEF a, b

\* No honest operator is convicted: as long as the views are only appended to,
\* whoever verifies a proof under any two keys has two views that diverged.
THEOREM ProofsConvict == MeshSpec => []EvidenceConvicts
<1>1. MeshInit => ReadInv
  BY DEF MeshInit, Init, FreshWitnesses, ReadInv, Seen, Extends
<1>2. MeshInv /\ ReadInv => EvidenceConvicts
  <2> SUFFICES ASSUME MeshInv, ReadInv, Tampering = {},
                      \/ \E p, x, y \in Witness : runFetchProof(p, x, y)
                      \/ FlakySigner = {} /\ Evidence # {}
               PROVE  \E u, v \in View : ~Comparable(log[u], log[v])
    BY DEF EvidenceConvicts
  <2>1. ASSUME NEW p \in Witness, NEW x \in Witness, NEW y \in Witness, runFetchProof(p, x, y)
        PROVE  \E u, v \in View : ~Comparable(log[u], log[v])
    <3>1. proof[p] \in Proof /\ VerifyEquivocation(proof[p], x, y)
      BY <2>1 DEF runFetchProof, MeshInv, MeshTypes, MeshTypeOK
    <3> QED
      BY <3>1, ProofMeansFork DEF MeshInv
  <2>2. ASSUME FlakySigner = {}, NEW p \in Evidence
        PROVE  \E u, v \in View : ~Comparable(log[u], log[v])
    <3>1. p \in Proof
      BY WhereEvidenceIs DEF MeshInv, MeshTypes, MeshTypeOK
    <3>2. p.a.witness \in Witness /\ p.b.witness \in Witness
      BY <3>1 DEF Proof, Half
    <3>3. VerifyEquivocation(p, p.a.witness, p.b.witness)
      BY <2>2, <3>1 DEF MeshInv, EvidenceSound, Sound
    <3> QED
      BY <3>1, <3>2, <3>3, ProofMeansFork DEF MeshInv
  <2> QED
    BY <2>1, <2>2
<1>3. MeshInv /\ ReadInv /\ [MeshNext]_allVars => ReadInv'
  BY ReadInvMesh DEF MeshInv
<1> QED
  BY <1>1, <1>2, <1>3, MeshInvAlways, PTL DEF MeshSpec

-----------------------------------------------------------------------------
(* What a daemon remembers of the proofs it has seen. *)

\* w takes p into its slot and its forensic set.
Keep(w, p) ==
    /\ proof' = [proof EXCEPT ![w] = IF proof[w] = NoProof THEN p ELSE proof[w]]
    /\ proofs' = [proofs EXCEPT ![w] = Retain(proofs[w], p)]
    /\ equivocation' = [equivocation EXCEPT ![w] = TRUE]
    /\ inflight' \subseteq inflight \cup Flood(w, p)

Forget(w) ==
    /\ proof' = [proof EXCEPT ![w] = NoProof]
    /\ proofs' = [proofs EXCEPT ![w] = {}]
    /\ equivocation' = [equivocation EXCEPT ![w] = FALSE]
    /\ pc' = [pc EXCEPT ![w] = "down"]

Suspect(w) ==
    /\ UNCHANGED <<proof, proofs, inflight, crashes>>
    /\ equivocation' \in {equivocation, [equivocation EXCEPT ![w] = TRUE]}

\* The alarm, the slot and the set move together, in one of three ways.
LEMMA AlarmMoves ==
    ASSUME MeshTypes, CheckInvs, [MeshNext]_allVars
    PROVE  \/ UNCHANGED alarmVars
           \/ \E w \in Witness : Forget(w) \/ Suspect(w) \/ \E p \in Proof : Keep(w, p)
<1> DEFINE Goal ==
      \/ UNCHANGED alarmVars
      \/ \E w \in Witness : Forget(w) \/ Suspect(w) \/ \E p \in Proof : Keep(w, p)
<1> USE DEF MeshTypes, MeshTypeOK
<1>1. ASSUME NEW w \in Witness, NEW p \in Proof, NEW msgs \in SUBSET inflight, Adopt(w, p, msgs)
      PROVE  Keep(w, p)
  BY <1>1 DEF Adopt, Keep
<1>2. ASSUME NEW w \in Witness, CommitCheck(w) PROVE Goal
  <2> DEFINE q == [a |-> [witness |-> w, head |-> latest[w]], b |-> divergent[w]]
  <2>1. CASE divergent[w] # NoHalf /\ proof[w] = NoProof /\ latest[w] # NoView
    <3>1. q \in Proof
      BY <2>1 DEF Proof, Half, TypeOK
    <3>2. suspicious[w]
      BY <2>1 DEF CheckInvs, CheckInv
    <3>3. Keep(w, q)
      BY <1>2, <2>1, <3>2 DEF CommitCheck, Keep
    <3> QED
      BY <3>1, <3>3
  <2>2. CASE ~(divergent[w] # NoHalf /\ proof[w] = NoProof /\ latest[w] # NoView)
    <3>1. UNCHANGED <<proof, proofs, inflight, crashes>>
      BY <1>2, <2>2 DEF CommitCheck
    <3>2. equivocation' = [equivocation EXCEPT ![w] = equivocation[w] \/ suspicious[w]]
      BY <1>2 DEF CommitCheck
    <3>3. CASE suspicious[w] = TRUE
      BY <3>1, <3>2, <3>3 DEF Suspect
    <3>4. CASE suspicious[w] = FALSE
      <4>1. equivocation' = equivocation
        BY <3>2, <3>4
      <4> QED
        BY <3>1, <4>1 DEF alarmVars
    <3> QED
      BY <3>3, <3>4
  <2> QED
    BY <2>1, <2>2
<1>3. ASSUME NEW w \in Witness, CheckPeers(w) PROVE Goal
  BY <1>2, <1>3 DEF CheckPeers, SnapshotView, PeerUnreachable, JudgePeer, JudgeBy, PeerAhead,
     ExtensionUnknown, JudgeExtension
<1>4. ASSUME NEW w \in Witness, PullPeerProofs(w) PROVE Goal
  <2>1. ASSUME NEW p \in Witness, PullAdopt(w, p) PROVE Goal
    <3>1. proof[p] \in Proof /\ inflight \in SUBSET inflight
      BY <2>1 DEF PullAdopt
    <3> QED
      BY <1>1, <2>1, <3>1 DEF PullAdopt
  <2> QED
    BY <1>4, <2>1 DEF PullPeerProofs, PullStart, PullMiss, PullEnd
<1>5. ASSUME NEW w \in Witness, MeshCrash(w) PROVE Goal
  BY <1>5 DEF MeshCrash, Crash, Vanish, Forget
<1>6. ASSUME Intake PROVE Goal
  <2>1. ASSUME NEW m \in inflight, Deliver(m[1], m[2]) PROVE Goal
    <3>1. m[1] \in Witness /\ m[2] \in Proof /\ inflight \ {<<m[1], m[2]>>} \in SUBSET inflight
      OBVIOUS
    <3> QED
      BY <1>1, <2>1, <3>1 DEF Deliver
  <2>2. ASSUME NEW m \in inflight, PushLost(m[1], m[2]) PROVE Goal
    BY <2>2 DEF PushLost
  <2>3. ASSUME NEW w \in Witness, PostedByAnyone(w) PROVE Goal
    <3>1. PICK p \in Proof : Adopt(w, p, inflight)
      <4>1. PICK x, y \in Witness : \E g \in published[x], h \in published[y] :
                Adopt(w, [a |-> [witness |-> x, head |-> g], b |-> [witness |-> y, head |-> h]], inflight)
        BY <2>3 DEF PostedByAnyone
      <4>2. PICK g \in published[x], h \in published[y] :
                Adopt(w, [a |-> [witness |-> x, head |-> g], b |-> [witness |-> y, head |-> h]], inflight)
        BY <4>1
      <4>3. [a |-> [witness |-> x, head |-> g], b |-> [witness |-> y, head |-> h]] \in Proof
        BY DEF Proof, Half, TypeOK
      <4> QED
        BY <4>2, <4>3
    <3>2. inflight \in SUBSET inflight
      OBVIOUS
    <3> QED
      BY <1>1, <3>1, <3>2
  <2> QED
    BY <1>6, <2>1, <2>2, <2>3 DEF Intake
<1> QED
  BY <1>3, <1>4, <1>5, <1>6 DEF MeshNext, NextTick, meshVars, allVars

\* The forensic set is empty as long as the slot is: the first proof always fits.
ForensicInv ==
    /\ ForensicSet
    /\ \A w \in Witness :
          /\ IsFiniteSet(proofs[w])
          /\ proof[w] = NoProof => proofs[w] = {}
          /\ proof[w] # NoProof => equivocation[w]

\* Retaining a proof keeps the set small and its forks distinct.
LEMMA RetainKeeps ==
    ASSUME NEW ps, NEW p, IsFiniteSet(ps), Cardinality(ps) <= MaxProofs,
           \A q, r \in ps : Fork(q) = Fork(r) => q = r
    PROVE  /\ IsFiniteSet(Retain(ps, p)) /\ Cardinality(Retain(ps, p)) <= MaxProofs
           /\ \A q, r \in Retain(ps, p) : Fork(q) = Fork(r) => q = r
           /\ ps \subseteq Retain(ps, p)
           /\ ps = {} => Retain(ps, p) = {p}
<1>1. /\ Cardinality(ps) \in Nat /\ IsFiniteSet(ps \cup {p})
      /\ Cardinality(ps \cup {p}) <= Cardinality(ps) + 1
  <2>1. Cardinality(ps) \in Nat
    BY FS_CardinalityType
  <2>2. IsFiniteSet(ps \cup {p})
    BY FS_AddElement
  <2>3. Cardinality(ps \cup {p}) = IF p \in ps THEN Cardinality(ps) ELSE Cardinality(ps) + 1
    BY FS_AddElement
  <2> QED
    BY <2>1, <2>2, <2>3
<1>2. CASE (\E q \in ps : Fork(q) = Fork(p)) \/ Cardinality(ps) >= MaxProofs
  <2>1. ps # {}
    BY <1>2, FS_EmptySet, MeshAssumption
  <2> QED
    BY <1>2, <2>1 DEF Retain
<1>3. CASE ~((\E q \in ps : Fork(q) = Fork(p)) \/ Cardinality(ps) >= MaxProofs)
  <2>1. Retain(ps, p) = ps \cup {p}
    BY <1>3 DEF Retain
  <2>2. Cardinality(ps \cup {p}) \in Nat
    BY <1>1, FS_CardinalityType
  <2>3. Cardinality(ps \cup {p}) <= MaxProofs
    BY <1>1, <1>3, <2>2, MeshAssumption
  <2> QED
    BY <1>1, <1>3, <2>1, <2>3
<1> QED
  BY <1>2, <1>3

LEMMA ForensicStep ==
    ASSUME MeshTypes, CheckInvs, ForensicInv, [MeshNext]_allVars
    PROVE  ForensicInv'
<1> USE DEF MeshTypes, MeshTypeOK
<1>1. CASE UNCHANGED alarmVars
  BY <1>1 DEF alarmVars, ForensicInv, ForensicSet, Fork
<1>2. ASSUME NEW w \in Witness, NEW p \in Proof, Keep(w, p) PROVE ForensicInv'
  <2>1. /\ IsFiniteSet(proofs'[w]) /\ Cardinality(proofs'[w]) <= MaxProofs
        /\ \A q, r \in proofs'[w] : Fork(q) = Fork(r) => q = r
        /\ proofs[w] \subseteq proofs'[w]
        /\ proofs[w] = {} => proofs'[w] = {p}
    BY <1>2, RetainKeeps DEF Keep, ForensicInv, ForensicSet
  <2>2. proof'[w] \in proofs'[w] /\ proof'[w] # NoProof /\ equivocation'[w]
    BY <1>2, <2>1, MeshAssumption DEF Keep, ForensicInv, ForensicSet
  <2>3. ASSUME NEW x \in Witness, x # w
        PROVE  proof'[x] = proof[x] /\ proofs'[x] = proofs[x] /\ equivocation'[x] = equivocation[x]
    BY <1>2, <2>3 DEF Keep
  <2> QED
    BY <2>1, <2>2, <2>3 DEF ForensicInv, ForensicSet, Fork
<1>3. ASSUME NEW w \in Witness, Suspect(w) PROVE ForensicInv'
  BY <1>3 DEF Suspect, ForensicInv, ForensicSet, Fork
<1>4. ASSUME NEW w \in Witness, Forget(w) PROVE ForensicInv'
  <2>1. proof'[w] = NoProof /\ proofs'[w] = {}
    BY <1>4 DEF Forget
  <2>2. ASSUME NEW x \in Witness, x # w
        PROVE  proof'[x] = proof[x] /\ proofs'[x] = proofs[x] /\ equivocation'[x] = equivocation[x]
    BY <1>4, <2>2 DEF Forget
  <2>3. IsFiniteSet({}) /\ Cardinality({}) = 0 /\ 0 <= MaxProofs
    BY FS_EmptySet, MeshAssumption
  <2> QED
    BY <2>1, <2>2, <2>3 DEF ForensicInv, ForensicSet, Fork
<1> QED
  BY <1>1, <1>2, <1>3, <1>4, AlarmMoves

LEMMA ForensicAlways == MeshSpec => []ForensicInv
<1>1. MeshInit => ForensicInv
  BY FS_EmptySet, MeshAssumption DEF MeshInit, FreshMesh, ForensicInv, ForensicSet
<1>2. MeshInv /\ ForensicInv /\ [MeshNext]_allVars => ForensicInv'
  BY ForensicStep DEF MeshInv
<1> QED
  BY <1>1, <1>2, MeshInvAlways, PTL DEF MeshSpec

\* The forensic set never exceeds its cap, holds no fork twice, and holds the
\* proof that is served, however many proofs race into it.
THEOREM ForensicSetHolds == MeshSpec => []ForensicSet
<1>1. ForensicInv => ForensicSet
  BY DEF ForensicInv
<1> QED
  BY <1>1, ForensicAlways, PTL

\* An alarmed daemon answers 200 to nobody until its process ends.
THEOREM AlarmIsForGood == MeshSpec => AlarmLatches
<1> DEFINE Latched == \A w \in Witness : equivocation[w] /\ pc'[w] # "down" => ~Healthy(w)'
           Holders == \A w \in Witness : proof[w] # NoProof => equivocation[w]
<1>1. ASSUME MeshInv, [MeshNext]_allVars PROVE Latched
  <2>1. ASSUME NEW w \in Witness, equivocation[w], pc'[w] # "down" PROVE equivocation'[w]
    BY <1>1, <2>1, AlarmMoves
       DEF MeshInv, MeshTypes, MeshTypeOK, TypeOK, alarmVars, Forget, Suspect, Keep
  <2> QED
    BY <2>1 DEF Healthy
<1>2. ForensicInv => Holders
  BY DEF ForensicInv
<1> QED
  BY <1>1, <1>2, MeshInvAlways, ForensicAlways, PTL DEF MeshSpec, AlarmLatches

-----------------------------------------------------------------------------
(* The mesh implements ProofFlood. *)

\* Adopting a proof is taking it; tryAdopt believes less than ProofFlood would.
LEMMA AdoptIsTake ==
    ASSUME NEW w \in Witness, NEW p, NEW msgs, Adopt(w, p, msgs)
    PROVE  Relay!Take(w, p, msgs)
  BY DEF Adopt, Flood, Relay!Take

LEMMA AdoptableIsBelieved ==
    ASSUME NEW w \in Witness, NEW p, Adoptable(w, p)
    PROVE  Relay!Believes(w, p)
  BY DEF Adoptable, Pinned, Relay!Believes, Relay!Pinned, Named

\* A node without a proof obtains one; a node with one is at most alarmed.
LEMMA TakeIsObtain ==
    ASSUME MeshTypes, MeshTypes', NEW w \in Witness, NEW p \in Proof,
           Relay!Believes(w, p), Relay!Take(w, p, inflight)
    PROVE  Relay!Obtain(w) \/ Relay!Suspect(w)
<1> USE DEF MeshTypes, MeshTypeOK
<1>1. CASE proof[w] = NoProof
  <2>1. proof'[w] = p /\ p # NoProof
    BY <1>1, MeshAssumption DEF Relay!Take
  <2>2. proof' \in [Witness -> Proof \cup {NoProof}]
    OBVIOUS
  <2> QED
    BY <1>1, <2>1, <2>2 DEF Relay!Obtain
<1>2. CASE proof[w] # NoProof
  <2>1. proof' = proof /\ inflight' = inflight
    BY <1>2 DEF Relay!Take
  <2> QED
    BY <2>1 DEF Relay!Take, Relay!Suspect
<1> QED
  BY <1>1, <1>2

\* The rest of a round is invisible: no proof moves.
LEMMA QuietSteps ==
    ASSUME UNCHANGED <<alarmVars, inflight, crashes>>
    PROVE  UNCHANGED Relay!fvars
  BY DEF alarmVars, Relay!fvars

LEMMA CommitIsObtain ==
    ASSUME MeshTypes, MeshTypes', CheckInvs, NEW w \in Witness, CommitCheck(w)
    PROVE  Relay!Obtain(w) \/ Relay!Suspect(w) \/ UNCHANGED Relay!fvars
<1> USE DEF MeshTypes, MeshTypeOK
<1> DEFINE q == [a |-> [witness |-> w, head |-> latest[w]], b |-> divergent[w]]
<1>1. CASE divergent[w] # NoHalf /\ proof[w] = NoProof /\ latest[w] # NoView
  <2>1. q \in Proof
    BY <1>1 DEF Proof, Half, TypeOK
  <2>2. suspicious[w] = TRUE /\ divergent[w].witness \in Peers[w]
    BY <1>1 DEF CheckInvs, CheckInv
  <2>3. Relay!Take(w, q, inflight)
    BY <1>1, <2>2 DEF CommitCheck, Flood, Relay!Take
  <2>4. Relay!Believes(w, q)
    BY <2>2 DEF Relay!Believes, Relay!Pinned, Named
  <2> QED
    BY <2>1, <2>3, <2>4, TakeIsObtain
<1>2. CASE ~(divergent[w] # NoHalf /\ proof[w] = NoProof /\ latest[w] # NoView)
  <2>1. UNCHANGED <<proof, proofs, inflight, crashes>>
    BY <1>2 DEF CommitCheck
  <2>2. equivocation' = [equivocation EXCEPT ![w] = equivocation[w] \/ suspicious[w]]
    BY DEF CommitCheck
  <2>3. CASE suspicious[w] = TRUE
    BY <2>1, <2>2, <2>3 DEF Relay!Suspect
  <2>4. CASE suspicious[w] = FALSE
    <3>1. equivocation' = equivocation
      BY <2>2, <2>4
    <3> QED
      BY <2>1, <3>1 DEF Relay!fvars
  <2> QED
    BY <2>3, <2>4
<1> QED
  BY <1>1, <1>2

LEMMA PullIsPull ==
    ASSUME MeshTypes, CheckInvs, NEW w \in Witness, PullPeerProofs(w)
    PROVE  (\E q \in Witness : Relay!Pull(w, q)) \/ UNCHANGED Relay!fvars
<1>1. ASSUME NEW p \in Witness, PullAdopt(w, p) PROVE Relay!Pull(w, p)
  <2>1. p \in Peers[w]
    BY <1>1 DEF PullAdopt, CheckInvs, CheckInv
  <2>2. Relay!Take(w, proof[p], inflight) /\ Relay!Believes(w, proof[p]) /\ proof[p] # NoProof
    BY <1>1, AdoptIsTake, AdoptableIsBelieved DEF PullAdopt
  <2> QED
    BY <2>1, <2>2 DEF Relay!Pull
<1> QED
  BY <1>1, QuietSteps DEF PullPeerProofs, PullStart, PullMiss, PullEnd, vars

LEMMA IntakeIsReceive ==
    ASSUME MeshTypes, MeshTypes', Intake
    PROVE  \/ \E w \in Witness : Relay!Obtain(w) \/ Relay!Suspect(w)
           \/ \E m \in inflight : Relay!Receive(m[1], m[2]) \/ Relay!Lose(m[1], m[2])
<1> USE DEF MeshTypes, MeshTypeOK
<1>1. ASSUME NEW m \in inflight, Deliver(m[1], m[2])
      PROVE  Relay!Receive(m[1], m[2]) \/ Relay!Lose(m[1], m[2])
  <2>1. m[1] \in Witness /\ <<m[1], m[2]>> \in inflight
    OBVIOUS
  <2>2. CASE Adoptable(m[1], m[2])
    <3>1. Adopt(m[1], m[2], inflight \ {<<m[1], m[2]>>})
      BY <1>1, <2>2 DEF Deliver
    <3> QED
      BY <2>1, <2>2, <3>1, AdoptIsTake, AdoptableIsBelieved DEF Relay!Receive
  <2>3. CASE ~Adoptable(m[1], m[2])
    BY <1>1, <2>1, <2>3 DEF Deliver, Relay!Lose, vars, alarmVars
  <2> QED
    BY <2>2, <2>3
<1>2. ASSUME NEW m \in inflight, PushLost(m[1], m[2])
      PROVE  Relay!Lose(m[1], m[2])
  BY <1>2 DEF PushLost, Relay!Lose, vars, alarmVars
<1>3. ASSUME NEW w \in Witness, PostedByAnyone(w)
      PROVE  Relay!Obtain(w) \/ Relay!Suspect(w)
  <2>1. PICK x, y \in Witness : \E g \in published[x], h \in published[y] :
            LET p == [a |-> [witness |-> x, head |-> g], b |-> [witness |-> y, head |-> h]] IN
            Adoptable(w, p) /\ Adopt(w, p, inflight)
    BY <1>3 DEF PostedByAnyone
  <2>2. PICK g \in published[x], h \in published[y] :
            LET p == [a |-> [witness |-> x, head |-> g], b |-> [witness |-> y, head |-> h]] IN
            Adoptable(w, p) /\ Adopt(w, p, inflight)
    BY <2>1
  <2>3. [a |-> [witness |-> x, head |-> g], b |-> [witness |-> y, head |-> h]] \in Proof
    BY DEF Proof, Half, TypeOK
  <2> QED
    BY <2>2, <2>3, AdoptIsTake, AdoptableIsBelieved, TakeIsObtain
<1> QED
  BY <1>1, <1>2, <1>3 DEF Intake

LEMMA FloodStep ==
    ASSUME MeshTypes, MeshTypes', CheckInvs, [MeshNext]_allVars
    PROVE  Relay!FNext \/ UNCHANGED Relay!fvars
<1>1. ASSUME NEW w \in Witness, CheckPeers(w)
      PROVE  Relay!Obtain(w) \/ Relay!Suspect(w) \/ UNCHANGED Relay!fvars
  BY <1>1, CommitIsObtain, QuietSteps DEF CheckPeers, SnapshotView, PeerUnreachable, JudgePeer,
     JudgeBy, PeerAhead, ExtensionUnknown, JudgeExtension, vars
<1>2. ASSUME NEW w \in Witness, MeshCrash(w) PROVE Relay!Restart(w)
  BY <1>2 DEF MeshCrash, Crash, Relay!Restart
<1>3. ASSUME UNCHANGED <<alarmVars, inflight, crashes>> PROVE UNCHANGED Relay!fvars
  BY <1>3, QuietSteps
<1>4. ASSUME Operate \/ \E w \in Witness : Start(w) \/ Poll(w) \/ Tick(w)
      PROVE  UNCHANGED crashes
  BY <1>4 DEF Operate, Rewind, Add, Start, Poll, Tick, GetCheckpoint, PollFirstSight, PollUnchanged,
     PollRefused, PollAhead, PollExtension, PollInconsistent, PollError, AcceptOrError, Save, SaveError
<1> QED
  BY <1>1, <1>2, <1>3, <1>4, PullIsPull, IntakeIsReceive
     DEF MeshNext, NextTick, Relay!FNext, meshVars, allVars, vars

\* However detection, push, pull and crashes interleave, the mesh only ever does
\* what ProofFlood allows: a node believes what its own pins vouch for, floods
\* once, and forgets only by restarting.
THEOREM MeshImplementsFlood == MeshSpec => ImplementsFlood
<1>1. MeshInit => Relay!FInit
  BY DEF MeshInit, Init, FreshWitnesses, FreshMesh, Relay!FInit
<1>2. MeshInv /\ MeshInv' /\ [MeshNext]_allVars => [Relay!FNext]_Relay!fvars
  BY FloodStep DEF MeshInv
<1> QED
  BY <1>1, <1>2, MeshInvAlways, PTL DEF MeshSpec, ImplementsFlood, Relay!FSpec
=============================================================================
