---------------------------- MODULE WitnessMesh ----------------------------
(***************************************************************************)
(* The `he-witness serve` daemons as a mesh: after every poll a daemon     *)
(* cross-checks the published cosignature of each pinned peer against its  *)
(* own view, turns a same-size split into a transferable proof, floods it  *)
(* to its peers, and pulls a proof from them when it has none.             *)
(*                                                                         *)
(* A proof is two cosigned checkpoints.  A cosignature verifies under the  *)
(* key pinned for a witness iff that witness gave it out.  The per-peer    *)
(* status strings and last error that /health prints are left out.         *)
(***************************************************************************)
EXTENDS Witness, FiniteSets

CONSTANTS
    Peers,        \* per witness, the peers it pins with --peer
    MaxProofs,    \* maxRetainedProofs
    NoProof,      \* no proof held
    NoHalf        \* no divergent peer found

Half == [witness : Witness, head : TreeHead]
Proof == [a : Half, b : Half]

ASSUME MeshAssumption ==
    /\ Peers \in [Witness -> SUBSET Witness]
    /\ OneShot = {}
    /\ MaxProofs \in Nat \ {0}
    /\ NoProof \notin Proof
    /\ NoHalf \notin Half

VARIABLES
    serving,       \* per witness, its HTTP server is up
    phase,         \* per witness, where its loop is once it has polled
    snap,          \* the view checkPeers works with
    todo,          \* the peers the loop still has to ask
    asked,         \* the checkpoint of a peer that is ahead of snap
    suspicious,    \* anyEquiv of the checkPeers in progress
    divergent,     \* proofPeer of the checkPeers in progress
    equivocation,  \* the latched alarm
    proof,         \* the one proof that is served and flooded
    proofs,        \* the distinct forks retained
    inflight       \* proofs being POSTed: <<witness, proof>>

crossVars == <<phase, snap, todo, asked, suspicious, divergent>>
alarmVars == <<equivocation, proof, proofs>>
meshVars == <<serving, crossVars, alarmVars, inflight>>
allVars == <<vars, meshVars>>

\* "idle": polling.  "cross": asking peers for their cosignatures.
\* "extension": asking the log for a proof that a peer's tree extends ours.
\* "checked": checkPeers is over.  "pull": asking peers for a proof.
\* "done": until the ticker fires.
Phase == {"idle", "cross", "extension", "checked", "pull", "done"}

-----------------------------------------------------------------------------
(* Proofs of equivocation. *)

\* Mutant of VerifyEquivocation: the sizes are not compared.
VerifyAnyTwoRoots(p, x, y) ==
    p.a.head \in published[x] /\ p.b.head \in published[y] /\ p.a.head # p.b.head

\* The cosignatures of p verify under the keys of x and y, at one size, for two
\* roots.  The names in p are not looked at.
VerifyEquivocation(p, x, y) ==
    /\ p.a.head \in published[x]
    /\ p.b.head \in published[y]
    /\ Len(p.a.head) = Len(p.b.head)
    /\ p.a.head # p.b.head

Pinned(w) == {w} \cup Peers[w]

\* Mutant of Adoptable: only the first witness has to be pinned.
AdoptableHalfPinned(w, p) ==
    p.a.witness \in Pinned(w) /\ VerifyEquivocation(p, p.a.witness, p.b.witness)

\* tryAdopt accepts p: it knows both witnesses and the pair convicts the log.
Adoptable(w, p) ==
    /\ p.a.witness \in Pinned(w)
    /\ p.b.witness \in Pinned(w)
    /\ VerifyEquivocation(p, p.a.witness, p.b.witness)

\* proofKey: the two checkpoint bodies, in either order.
Fork(p) == {p.a.head, p.b.head}

\* Mutant of Retain: a fork already held is retained again.
RetainAll(ps, p) == IF Cardinality(ps) >= MaxProofs THEN ps ELSE ps \cup {p}

\* recordProofLocked
Retain(ps, p) ==
    IF (\E q \in ps : Fork(q) = Fork(p)) \/ Cardinality(ps) >= MaxProofs
    THEN ps
    ELSE ps \cup {p}

\* Mutant of Flood: every adopted proof is sent on.
FloodAlways(w, p) == {<<q, p>> : q \in Peers[w]}

\* A proof that fills w's empty slot goes out to every pinned peer.
Flood(w, p) == IF proof[w] = NoProof THEN {<<q, p>> : q \in Peers[w]} ELSE {}

\* What tryAdopt does with a proof it accepts; msgs is what is still in flight.
Adopt(w, p, msgs) ==
    /\ proof' = [proof EXCEPT ![w] = IF @ = NoProof THEN p ELSE @]
    /\ equivocation' = [equivocation EXCEPT ![w] = TRUE]
    /\ healthOK' = [healthOK EXCEPT ![w] = FALSE]
    /\ proofs' = [proofs EXCEPT ![w] = Retain(@, p)]
    /\ inflight' = msgs \cup Flood(w, p)
    /\ UNCHANGED <<log, disk, st, latest, pc, cp, published, crashes>>

\* p answers requests (its handlers wait for the mutex while it polls).
Answers(p) == serving[p] /\ ~Locked(p)

\* he-witness fetch-proof: the proof p serves, under two keys the caller pins.
runFetchProof(p, x, y) ==
    /\ Answers(p)
    /\ proof[p] # NoProof
    /\ VerifyEquivocation(proof[p], x, y)

-----------------------------------------------------------------------------
(* checkPeers. *)

\* Take our view under the lock.
SnapshotView(w) ==
    /\ pc[w] = "polled"
    /\ phase[w] = "idle"
    /\ phase' = [phase EXCEPT ![w] = IF Peers[w] = {} THEN "done" ELSE "cross"]
    /\ snap' = [snap EXCEPT ![w] = IF Peers[w] = {} THEN NoView ELSE st[w]]
    /\ todo' = [todo EXCEPT ![w] = Peers[w]]
    /\ UNCHANGED <<vars, serving, asked, suspicious, divergent, alarmVars, inflight>>

\* No usable answer: no connection, a timeout, 503, or not a cosignature under
\* the pinned key for this log.
PeerUnreachable(w, p) ==
    /\ phase[w] = "cross"
    /\ p \in todo[w]
    /\ todo' = [todo EXCEPT ![w] = @ \ {p}]
    /\ UNCHANGED <<vars, serving, phase, snap, asked, suspicious, divergent, alarmVars, inflight>>

\* p is not ahead of us and its answer is compared: split is what counts as one.
JudgeBy(w, p, split) ==
    /\ phase[w] = "cross"
    /\ p \in todo[w]
    /\ Answers(p)
    /\ latest[p] # NoView
    /\ snap[w] # NoView => Len(latest[p]) <= Len(snap[w])
    /\ todo' = [todo EXCEPT ![w] = @ \ {p}]
    /\ IF split
       THEN /\ suspicious' = [suspicious EXCEPT ![w] = TRUE]
            /\ divergent' = [divergent EXCEPT ![w] =
                                IF @ = NoHalf THEN [witness |-> p, head |-> latest[p]] ELSE @]
       ELSE UNCHANGED <<suspicious, divergent>>
    /\ UNCHANGED <<vars, serving, phase, snap, asked, alarmVars, inflight>>

\* Mutant of JudgePeer: the sizes are not compared.
JudgePeerByRoot(w, p) == JudgeBy(w, p, snap[w] # NoView /\ latest[p] # snap[w])

\* Mutant of JudgePeer: the roots are not compared.
JudgePeerBySize(w, p) == JudgeBy(w, p, FALSE)

\* GET the cosignature of p and judge it by crossCheck: nothing to compare, or
\* p is behind, or at our size with the same root, or with another root.
JudgePeer(w, p) ==
    JudgeBy(w, p, snap[w] # NoView /\ Len(latest[p]) = Len(snap[w]) /\ latest[p] # snap[w])

\* p is ahead: ask the log for a consistency proof from our size.
PeerAhead(w, p) ==
    /\ phase[w] = "cross"
    /\ p \in todo[w]
    /\ Answers(p)
    /\ latest[p] # NoView
    /\ snap[w] # NoView
    /\ Len(latest[p]) > Len(snap[w])
    /\ todo' = [todo EXCEPT ![w] = @ \ {p}]
    /\ asked' = [asked EXCEPT ![w] = latest[p]]
    /\ phase' = [phase EXCEPT ![w] = "extension"]
    /\ UNCHANGED <<vars, serving, snap, suspicious, divergent, alarmVars, inflight>>

\* No proof from the log: inconclusive.
ExtensionUnknown(w) ==
    /\ phase[w] = "extension"
    /\ asked' = [asked EXCEPT ![w] = NoView]
    /\ phase' = [phase EXCEPT ![w] = "cross"]
    /\ UNCHANGED <<vars, serving, snap, todo, suspicious, divergent, alarmVars, inflight>>

\* The log's proof (to its current size) against the peer's checkpoint.
JudgeExtension(w) ==
    /\ phase[w] = "extension"
    /\ Len(snap[w]) <= Len(log[ViewOf[w]])
    /\ suspicious' = [suspicious EXCEPT ![w] =
                         @ \/ ~ProofVerifies(snap[w], asked[w], log[ViewOf[w]])]
    /\ asked' = [asked EXCEPT ![w] = NoView]
    /\ phase' = [phase EXCEPT ![w] = "cross"]
    /\ UNCHANGED <<vars, serving, snap, todo, divergent, alarmVars, inflight>>

\* The results, under the lock: latch the alarm, assemble and flood the proof.
CommitCheck(w) ==
    /\ phase[w] = "cross"
    /\ todo[w] = {}
    /\ equivocation' = [equivocation EXCEPT ![w] = @ \/ suspicious[w]]
    /\ healthOK' = [healthOK EXCEPT ![w] = @ /\ ~suspicious[w]]
    /\ IF divergent[w] # NoHalf /\ proof[w] = NoProof /\ latest[w] # NoView
       THEN LET p == [a |-> [witness |-> w, head |-> latest[w]], b |-> divergent[w]] IN
            /\ proof' = [proof EXCEPT ![w] = p]
            /\ proofs' = [proofs EXCEPT ![w] = Retain(@, p)]
            /\ inflight' = inflight \cup Flood(w, p)
       ELSE UNCHANGED <<proof, proofs, inflight>>
    /\ phase' = [phase EXCEPT ![w] = "checked"]
    /\ snap' = [snap EXCEPT ![w] = NoView]
    /\ suspicious' = [suspicious EXCEPT ![w] = FALSE]
    /\ divergent' = [divergent EXCEPT ![w] = NoHalf]
    /\ UNCHANGED <<log, disk, st, latest, pc, cp, published, crashes, serving, todo, asked>>

-----------------------------------------------------------------------------
(* pullPeerProofs and the intake. *)

PullStart(w) ==
    /\ phase[w] = "checked"
    /\ phase' = [phase EXCEPT ![w] = IF proof[w] = NoProof THEN "pull" ELSE "done"]
    /\ todo' = [todo EXCEPT ![w] = IF proof[w] = NoProof THEN Peers[w] ELSE {}]
    /\ UNCHANGED <<vars, serving, snap, asked, suspicious, divergent, alarmVars, inflight>>

\* p has no proof, does not answer, or its proof is rejected.
PullMiss(w, p) ==
    /\ phase[w] = "pull"
    /\ p \in todo[w]
    /\ todo' = [todo EXCEPT ![w] = @ \ {p}]
    /\ UNCHANGED <<vars, serving, phase, snap, asked, suspicious, divergent, alarmVars, inflight>>

PullAdopt(w, p) ==
    /\ phase[w] = "pull"
    /\ p \in todo[w]
    /\ Answers(p)
    /\ proof[p] # NoProof
    /\ Adoptable(w, proof[p])
    /\ Adopt(w, proof[p], inflight)
    /\ todo' = [todo EXCEPT ![w] = {}]
    /\ phase' = [phase EXCEPT ![w] = "done"]
    /\ UNCHANGED <<serving, snap, asked, suspicious, divergent>>

PullEnd(w) ==
    /\ phase[w] = "pull"
    /\ todo[w] = {}
    /\ phase' = [phase EXCEPT ![w] = "done"]
    /\ UNCHANGED <<vars, serving, snap, todo, asked, suspicious, divergent, alarmVars, inflight>>

\* The loop starts over; after the first round main goes on to start the server.
NextTick(w) ==
    /\ phase[w] = "done"
    /\ Tick(w)
    /\ phase' = [phase EXCEPT ![w] = "idle"]
    /\ serving' = [serving EXCEPT ![w] = TRUE]
    /\ UNCHANGED <<snap, todo, asked, suspicious, divergent, alarmVars, inflight>>

\* A proof POSTed to w: adopted, or rejected without a trace.
Deliver(w, p) ==
    /\ <<w, p>> \in inflight
    /\ Answers(w)
    /\ IF Adoptable(w, p)
       THEN Adopt(w, p, inflight \ {<<w, p>>})
       ELSE /\ inflight' = inflight \ {<<w, p>>}
            /\ UNCHANGED <<vars, alarmVars>>
    /\ UNCHANGED <<serving, crossVars>>

\* A push is best effort: its errors are ignored and nothing retries it.
PushLost(w, p) ==
    /\ <<w, p>> \in inflight
    /\ inflight' = inflight \ {<<w, p>>}
    /\ UNCHANGED <<vars, serving, crossVars, alarmVars>>

\* Anyone may POST.  What is not made of genuine cosignatures is rejected.
PostedByAnyone(w) ==
    /\ Answers(w)
    /\ \E x, y \in Witness : \E g \in published[x], h \in published[y] :
          LET p == [a |-> [witness |-> x, head |-> g], b |-> [witness |-> y, head |-> h]] IN
          Adoptable(w, p) /\ Adopt(w, p, inflight)
    /\ UNCHANGED <<serving, crossVars>>

\* A crash also loses the alarm, the proofs and the check in progress.
MeshCrash(w) ==
    /\ Crash(w)
    /\ serving' = [serving EXCEPT ![w] = FALSE]
    /\ phase' = [phase EXCEPT ![w] = "idle"]
    /\ snap' = [snap EXCEPT ![w] = NoView]
    /\ todo' = [todo EXCEPT ![w] = {}]
    /\ asked' = [asked EXCEPT ![w] = NoView]
    /\ suspicious' = [suspicious EXCEPT ![w] = FALSE]
    /\ divergent' = [divergent EXCEPT ![w] = NoHalf]
    /\ equivocation' = [equivocation EXCEPT ![w] = FALSE]
    /\ proof' = [proof EXCEPT ![w] = NoProof]
    /\ proofs' = [proofs EXCEPT ![w] = {}]
    /\ UNCHANGED inflight

-----------------------------------------------------------------------------
\* No daemon has checked a peer yet.
FreshMesh ==
    /\ serving = [w \in Witness |-> FALSE]
    /\ phase = [w \in Witness |-> "idle"]
    /\ snap = [w \in Witness |-> NoView]
    /\ todo = [w \in Witness |-> {}]
    /\ asked = [w \in Witness |-> NoView]
    /\ suspicious = [w \in Witness |-> FALSE]
    /\ divergent = [w \in Witness |-> NoHalf]
    /\ equivocation = [w \in Witness |-> FALSE]
    /\ proof = [w \in Witness |-> NoProof]
    /\ proofs = [w \in Witness |-> {}]
    /\ inflight = {}

MeshInit == Init /\ FreshMesh

CheckPeers(w) ==
    \/ SnapshotView(w)
    \/ \E p \in Witness : PeerUnreachable(w, p) \/ JudgePeer(w, p) \/ PeerAhead(w, p)
    \/ ExtensionUnknown(w)
    \/ JudgeExtension(w)
    \/ CommitCheck(w)

PullPeerProofs(w) ==
    \/ PullStart(w)
    \/ \E p \in Witness : PullMiss(w, p) \/ PullAdopt(w, p)
    \/ PullEnd(w)

Intake ==
    \/ \E m \in inflight : Deliver(m[1], m[2]) \/ PushLost(m[1], m[2])
    \/ \E w \in Witness : PostedByAnyone(w)

MeshNext ==
    \/ Operate /\ UNCHANGED meshVars
    \/ \E w \in Witness : (Start(w) \/ Poll(w)) /\ UNCHANGED meshVars
    \/ \E w \in Witness : CheckPeers(w) \/ PullPeerProofs(w) \/ NextTick(w) \/ MeshCrash(w)
    \/ Intake

MeshSpec == MeshInit /\ [][MeshNext]_allVars

\* The loops run and processes are restarted.  A request does not fail every
\* time it is made, nor does it always meet its target in the middle of a poll.
\* Pushes may all be lost: only the pull is relied on.
AsksCosignature(w, p) ==
    phase[w] = "cross" /\ p \in todo[w] /\ serving[p] /\ latest[p] # NoView

AsksProof(w, p) ==
    /\ phase[w] = "pull" /\ p \in todo[w] /\ serving[p]
    /\ proof[p] # NoProof
    /\ Adoptable(w, proof[p])

MeshFairness ==
    \A w \in Witness :
        /\ WF_allVars((Start(w) \/ Poll(w)) /\ UNCHANGED meshVars)
        /\ WF_allVars(CheckPeers(w) \/ PullPeerProofs(w) \/ NextTick(w))
        /\ SF_allVars(GetCheckpoint(w) /\ UNCHANGED meshVars)
        /\ SF_allVars(PollExtension(w) /\ UNCHANGED meshVars)
        /\ \A p \in Peers[w] :
              /\ []<>AsksCosignature(w, p) => []<><<JudgePeer(w, p) \/ PeerAhead(w, p)>>_allVars
              /\ []<>AsksProof(w, p) => []<><<PullAdopt(w, p)>>_allVars

FairMeshSpec == MeshSpec /\ MeshFairness

-----------------------------------------------------------------------------
(* Properties. *)

MeshTypeOK ==
    /\ TypeOK
    /\ serving \in [Witness -> BOOLEAN]
    /\ phase \in [Witness -> Phase]
    /\ snap \in [Witness -> TreeHead \cup {NoView}]
    /\ todo \in [Witness -> SUBSET Witness]
    /\ asked \in [Witness -> TreeHead \cup {NoView}]
    /\ suspicious \in [Witness -> BOOLEAN]
    /\ divergent \in [Witness -> Half \cup {NoHalf}]
    /\ equivocation \in [Witness -> BOOLEAN]
    /\ proof \in [Witness -> Proof \cup {NoProof}]
    /\ proofs \in [Witness -> SUBSET Proof]
    /\ inflight \subseteq Witness \X Proof

\* Every proof that is held, served, retained or on its way.
Evidence ==
    {proof[w] : w \in {x \in Witness : proof[x] # NoProof}}
        \cup (UNION {proofs[w] : w \in Witness})
        \cup {m[2] : m \in inflight}

\* Every proof in the mesh verifies under the pinned keys, though checkPeers
\* assembles it without verifying it, from a snapshot of our view, the peer's
\* answer and the cosignature held when the results are committed.  A signer that
\* fails is left out: poll has moved the view by then, the cosignature has not
\* followed, and the pair may be of different sizes.
EvidenceVerifies ==
    FlakySigner = {} => \A p \in Evidence : VerifyEquivocation(p, p.a.witness, p.b.witness)

\* Whoever fetches a proof and verifies it under any two keys convicts only an
\* operator who forked: while every view is only ever appended to, two views have
\* really diverged.  So does every proof in the mesh.
EvidenceConvicts ==
    /\ Tampering = {}
    /\ \/ \E p, x, y \in Witness : runFetchProof(p, x, y)
       \/ FlakySigner = {} /\ Evidence # {}
    => \E u, v \in View : ~Comparable(log[u], log[v])

\* What the comment on checkPeers says of the alarm: it "means the log
\* equivocated".
AlarmMeansFork ==
    Tampering = {} /\ (\E w \in Witness : equivocation[w]) =>
        \E u, v \in View : ~Comparable(log[u], log[v])

\* Mutant of Healthy: only the last poll counts.
HealthyPoll(w) == healthOK[w]

\* handleHealth
Healthy(w) == healthOK[w] /\ ~equivocation[w]

\* Once alarmed, a process never answers /health with 200 again, however many
\* clean polls follow; every proof holder is alarmed.
AlarmLatches ==
    /\ [][\A w \in Witness : equivocation[w] /\ pc'[w] # "down" => ~Healthy(w)']_allVars
    /\ [](\A w \in Witness : proof[w] # NoProof => equivocation[w])

\* The forensic set holds distinct forks, at most the cap, the flooded one
\* among them.
ForensicSet ==
    \A w \in Witness :
        /\ Cardinality(proofs[w]) <= MaxProofs
        /\ \A p, q \in proofs[w] : Fork(p) = Fork(q) => p = q
        /\ proof[w] # NoProof => proof[w] \in proofs[w]

\* The field comment: "proofs retains EVERY DISTINCT fork this witness has
\* verified".  A check that found a same-size split against our own cosigned
\* view leaves that fork in the set.
EveryForkRetained ==
    [][\A w \in Witness :
          phase[w] = "cross" /\ phase'[w] = "checked" /\ divergent[w] # NoHalf
              /\ latest[w] # NoView /\ Cardinality(proofs[w]) < MaxProofs =>
          \E q \in proofs'[w] : Fork(q) = {latest[w], divergent[w].head}]_allVars

Named(p) == {p.a.witness, p.b.witness}

\* The mesh implements ProofFlood: detection, the adoption of pushed, pulled and
\* posted proofs, crashes.
Relay == INSTANCE ProofFlood WITH
    Node <- Witness,
    Evidence <- Proof,
    Names <- Named,
    MaxRestart <- MaxCrash,
    None <- NoProof,
    holds <- proof,
    alarmed <- equivocation,
    restarts <- crashes

\* Whatever interleaving of checkPeers, pullPeerProofs and the intake handler
\* moves proofs around, it is a step of ProofFlood or none.
ImplementsFlood == Relay!FSpec

\* A split that lasts is found: when the views stay apart at the same size,
\* every daemon ends up alarmed for good, although a restart forgets the alarm,
\* unless a state file was left corrupt and its daemon stays down.
SplitDetected ==
    <>[](\/ \A w \in Witness : equivocation[w]
         \/ \E w \in Witness : disk[w] = Corrupt)
=============================================================================
