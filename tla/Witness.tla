------------------------------ MODULE Witness ------------------------------
(***************************************************************************)
(* A transparency log (he-log / he-logd) and the witnesses that poll it    *)
(* (he-witness): fetch the signed checkpoint, fetch a consistency proof    *)
(* when it is larger than the last accepted one, cosign, save the view to  *)
(* the state file, publish the cosignature; crash and restart anywhere.    *)
(*                                                                         *)
(* Signatures are unforgeable: a checkpoint that verifies under the        *)
(* pinned log key is one the log serves; one that does not is a failed     *)
(* poll.                                                                   *)
(***************************************************************************)
EXTENDS TreeHeads

CONSTANTS
    View,         \* the log files the operator serves (an honest one has one)
    Tampering,    \* the views whose operator also rewinds the file
    Witness,      \* witness processes, each with a key and a state file
    ViewOf,       \* the view each witness's --log-url reaches
    OneShot,      \* the ones run as `he-witness check`; the others `serve`
    Stateless,    \* the ones run without --state
    FlakyDisk,    \* the ones whose state file may fail to be written
    FlakySigner,  \* the ones whose signer may fail (no randomness)
    MaxSize,      \* bound on a log's size
    MaxCrash,     \* bound on the number of crashes
    Corrupt       \* a state file that does not parse

ASSUME ConstantsAssumption ==
    /\ ViewOf \in [Witness -> View]
    /\ Tampering \subseteq View
    /\ OneShot \subseteq Witness
    /\ Stateless \subseteq Witness
    /\ FlakyDisk \subseteq Witness
    /\ FlakySigner \subseteq Witness
    /\ MaxSize \in Nat
    /\ MaxCrash \in Nat

ASSUME CorruptAssumption == Corrupt \notin TreeHead /\ Corrupt # NoView

VARIABLES
    log,        \* per view, the leaves of the log file
    disk,       \* per witness, the state file
    st,         \* per witness, the view in memory
    latest,     \* per witness, the checkpoint of the cosignature it holds
    healthOK,   \* per witness, the result of its last poll
    pc,         \* per witness, where its poll loop is
    cp,         \* per witness, the checkpoint a poll in progress has fetched
    published,  \* per witness, every head whose cosignature it has given out
    crashes     \* crashes so far

witnessVars == <<disk, st, latest, healthOK, pc, cp, published>>
vars == <<log, disk, st, latest, healthOK, pc, cp, published, crashes>>

(***************************************************************************)
(* "down": no process.  "tick": about to poll.  "proof": checkpoint        *)
(* fetched, waiting for the consistency proof.  "save": cosigned, writing  *)
(* the state file.  "polled": once() has returned.  once() holds the       *)
(* daemon's mutex from "tick" to "polled".                                 *)
(***************************************************************************)
Step == {"down", "tick", "proof", "save", "polled"}

Locked(w) == pc[w] \in {"proof", "save"}

-----------------------------------------------------------------------------
(* The log operator. *)

\* he-log add: load, append, save.
Add(v, leaf) ==
    /\ Len(log[v]) < MaxSize
    /\ log' = [log EXCEPT ![v] = Append(@, leaf)]
    /\ UNCHANGED <<witnessVars, crashes>>

\* An operator that replaces the file by an earlier one.
Rewind(v) ==
    /\ v \in Tampering
    /\ Len(log[v]) > 0
    /\ log' = [log EXCEPT ![v] = SubSeq(@, 1, Len(@) - 1)]
    /\ UNCHANGED <<witnessVars, crashes>>

-----------------------------------------------------------------------------
(* The process. *)

Vanish(w) ==
    /\ pc' = [pc EXCEPT ![w] = "down"]
    /\ st' = [st EXCEPT ![w] = NoView]
    /\ latest' = [latest EXCEPT ![w] = NoView]
    /\ healthOK' = [healthOK EXCEPT ![w] = FALSE]
    /\ cp' = [cp EXCEPT ![w] = NoView]

\* Mutant of Start: a state file that does not parse is taken for a missing one.
StartOverCorrupt(w) ==
    /\ pc[w] = "down"
    /\ pc' = [pc EXCEPT ![w] = "tick"]
    /\ st' = [st EXCEPT ![w] = IF disk[w] = Corrupt THEN NoView ELSE disk[w]]
    /\ UNCHANGED <<log, disk, latest, healthOK, cp, published, crashes>>

\* Start a process: a missing state file is the baseline, a corrupt one is
\* refused and the process does not start.
Start(w) ==
    /\ pc[w] = "down"
    /\ disk[w] # Corrupt
    /\ pc' = [pc EXCEPT ![w] = "tick"]
    /\ st' = [st EXCEPT ![w] = disk[w]]
    /\ UNCHANGED <<log, disk, latest, healthOK, cp, published, crashes>>

\* A crash loses the memory.  The state file is truncated and then rewritten:
\* a crash during the save leaves the old, a corrupt or the new one.
Crash(w) ==
    /\ pc[w] # "down"
    /\ crashes < MaxCrash
    /\ crashes' = crashes + 1
    /\ Vanish(w)
    /\ \/ UNCHANGED disk
       \/ /\ pc[w] = "save"
          /\ w \notin Stateless
          /\ \E d \in {Corrupt, st[w]} : disk' = [disk EXCEPT ![w] = d]
    /\ UNCHANGED <<log, published>>

-----------------------------------------------------------------------------
(* One poll of the log: once() of the daemon, runCheck of the command. *)

\* The poll ends without a cosignature.  A daemon keeps its last cosignature
\* and reports itself unhealthy, the command exits.
GiveUp(w) ==
    IF w \in OneShot
    THEN Vanish(w)
    ELSE /\ pc' = [pc EXCEPT ![w] = "polled"]
         /\ healthOK' = [healthOK EXCEPT ![w] = FALSE]
         /\ cp' = [cp EXCEPT ![w] = NoView]
         /\ UNCHANGED <<st, latest>>

\* accept(): cosign c, having moved the view to it.
Accept(w, c) ==
    /\ st' = [st EXCEPT ![w] = c]
    /\ latest' = [latest EXCEPT ![w] = c]
    /\ healthOK' = [healthOK EXCEPT ![w] = TRUE]
    /\ pc' = [pc EXCEPT ![w] = "save"]
    /\ cp' = [cp EXCEPT ![w] = NoView]

\* accept() when signing fails: the view has moved, nothing is cosigned or saved.
CosignError(w, c) ==
    /\ w \in FlakySigner
    /\ IF w \in OneShot
       THEN Vanish(w)
       ELSE /\ st' = [st EXCEPT ![w] = c]
            /\ pc' = [pc EXCEPT ![w] = "polled"]
            /\ healthOK' = [healthOK EXCEPT ![w] = FALSE]
            /\ cp' = [cp EXCEPT ![w] = NoView]
            /\ UNCHANGED latest

AcceptOrError(w, c) ==
    /\ Accept(w, c) \/ CosignError(w, c)
    /\ UNCHANGED <<log, disk, published, crashes>>

\* GET /checkpoint on the first sight of the log: the trust baseline.
PollFirstSight(w) ==
    /\ pc[w] = "tick"
    /\ st[w] = NoView
    /\ AcceptOrError(w, log[ViewOf[w]])

\* Mutant of PollUnchanged: the roots are not compared.
PollUnchangedBySize(w) ==
    /\ pc[w] = "tick"
    /\ st[w] # NoView
    /\ Len(st[w]) = Len(log[ViewOf[w]])
    /\ AcceptOrError(w, log[ViewOf[w]])

\* Mutant of PollUnchanged: nothing new, so nothing is cosigned.
PollUnchangedSilently(w) ==
    /\ pc[w] = "tick"
    /\ st[w] = log[ViewOf[w]]
    /\ GiveUp(w)
    /\ UNCHANGED <<log, disk, published, crashes>>

\* GET /checkpoint, and it is the one already accepted.
PollUnchanged(w) ==
    /\ pc[w] = "tick"
    /\ st[w] = log[ViewOf[w]]
    /\ AcceptOrError(w, log[ViewOf[w]])

\* GET /checkpoint, and the log rewound, or forked at the same size.
PollRefused(w) ==
    /\ pc[w] = "tick"
    /\ st[w] # NoView
    /\ st[w] # log[ViewOf[w]]
    /\ Len(log[ViewOf[w]]) <= Len(st[w])
    /\ GiveUp(w)
    /\ UNCHANGED <<log, disk, published, crashes>>

\* GET /checkpoint, and it is larger: a consistency proof is needed.
PollAhead(w) ==
    /\ pc[w] = "tick"
    /\ st[w] # NoView
    /\ Len(log[ViewOf[w]]) > Len(st[w])
    /\ pc' = [pc EXCEPT ![w] = "proof"]
    /\ cp' = [cp EXCEPT ![w] = log[ViewOf[w]]]
    /\ UNCHANGED <<log, disk, st, latest, healthOK, published, crashes>>

\* GET /consistency?from=st.Size: a second request, the log may have changed.
PollExtension(w) ==
    /\ pc[w] = "proof"
    /\ Len(st[w]) <= Len(log[ViewOf[w]])
    /\ ProofVerifies(st[w], cp[w], log[ViewOf[w]])
    /\ AcceptOrError(w, cp[w])

PollInconsistent(w) ==
    /\ pc[w] = "proof"
    /\ Len(st[w]) <= Len(log[ViewOf[w]]) => ~ProofVerifies(st[w], cp[w], log[ViewOf[w]])
    /\ GiveUp(w)
    /\ UNCHANGED <<log, disk, published, crashes>>

\* Either request fails, or its answer is not a checkpoint of this log under
\* the pinned key.
PollError(w) ==
    /\ pc[w] \in {"tick", "proof"}
    /\ GiveUp(w)
    /\ UNCHANGED <<log, disk, published, crashes>>

\* Mutant of Save: the cosignature goes out and the file is not written.
SaveNothing(w) ==
    /\ pc[w] = "save"
    /\ published' = [published EXCEPT ![w] = @ \cup {latest[w]}]
    /\ IF w \in OneShot
       THEN Vanish(w)
       ELSE /\ pc' = [pc EXCEPT ![w] = "polled"]
            /\ UNCHANGED <<st, latest, healthOK, cp>>
    /\ UNCHANGED <<log, disk, crashes>>

\* The accepted view reaches the state file (if there is one), and only then is
\* the cosignature out: once() unlocks, runCheck prints it and exits.
Save(w) ==
    /\ pc[w] = "save"
    /\ disk' = [disk EXCEPT ![w] = IF w \in Stateless THEN @ ELSE st[w]]
    /\ published' = [published EXCEPT ![w] = @ \cup {latest[w]}]
    /\ IF w \in OneShot
       THEN Vanish(w)
       ELSE /\ pc' = [pc EXCEPT ![w] = "polled"]
            /\ UNCHANGED <<st, latest, healthOK, cp>>
    /\ UNCHANGED <<log, crashes>>

\* The write fails, before or after the file was truncated.  runCheck exits
\* without printing; the daemon reports it and serves the cosignature anyway.
SaveError(w) ==
    /\ pc[w] = "save"
    /\ w \in FlakyDisk \ Stateless
    /\ disk' \in {disk, [disk EXCEPT ![w] = Corrupt]}
    /\ IF w \in OneShot
       THEN /\ Vanish(w)
            /\ UNCHANGED published
       ELSE /\ pc' = [pc EXCEPT ![w] = "polled"]
            /\ healthOK' = [healthOK EXCEPT ![w] = FALSE]
            /\ published' = [published EXCEPT ![w] = @ \cup {latest[w]}]
            /\ UNCHANGED <<st, latest, cp>>
    /\ UNCHANGED <<log, crashes>>

\* The ticker fires again.  A daemon with no --peer has nothing to do between.
Tick(w) ==
    /\ pc[w] = "polled"
    /\ pc' = [pc EXCEPT ![w] = "tick"]
    /\ UNCHANGED <<log, disk, st, latest, healthOK, cp, published, crashes>>

-----------------------------------------------------------------------------
\* No witness has run yet.
FreshWitnesses ==
    /\ disk = [w \in Witness |-> NoView]
    /\ st = [w \in Witness |-> NoView]
    /\ latest = [w \in Witness |-> NoView]
    /\ healthOK = [w \in Witness |-> FALSE]
    /\ pc = [w \in Witness |-> "down"]
    /\ cp = [w \in Witness |-> NoView]
    /\ published = [w \in Witness |-> {}]
    /\ crashes = 0

Init ==
    /\ log = [v \in View |-> <<>>]
    /\ FreshWitnesses

Operate ==
    \E v \in View : Rewind(v) \/ \E leaf \in Leaf : Add(v, leaf)

\* A GET /checkpoint that is answered, and judged on the size and root alone.
GetCheckpoint(w) ==
    PollFirstSight(w) \/ PollUnchanged(w) \/ PollRefused(w) \/ PollAhead(w)

\* The poll of w: every step of once() / runCheck.
Poll(w) ==
    \/ GetCheckpoint(w)
    \/ PollExtension(w)
    \/ PollInconsistent(w)
    \/ PollError(w)
    \/ Save(w)
    \/ SaveError(w)

Next ==
    \/ Operate
    \/ \E w \in Witness : Start(w) \/ Crash(w) \/ Poll(w) \/ Tick(w)

Spec == Init /\ [][Next]_vars

-----------------------------------------------------------------------------
(* Properties. *)

TypeOK ==
    /\ log \in [View -> TreeHead]
    /\ disk \in [Witness -> TreeHead \cup {NoView, Corrupt}]
    /\ st \in [Witness -> TreeHead \cup {NoView}]
    /\ latest \in [Witness -> TreeHead \cup {NoView}]
    /\ healthOK \in [Witness -> BOOLEAN]
    /\ pc \in [Witness -> Step]
    /\ cp \in [Witness -> TreeHead \cup {NoView}]
    /\ published \in [Witness -> SUBSET TreeHead]
    /\ crashes \in 0..MaxCrash

\* The witnesses whose state file can be relied on: there is one, and either
\* it is always written or a failed write keeps the cosignature unpublished.
Durable == { w \in Witness \ Stateless : w \in FlakyDisk => w \in OneShot }

\* A witness cosigns one history: whatever the operator serves, however often
\* the witness crashes, any two checkpoints it ever gave out a cosignature for
\* are on one append-only chain (poll, loadState and saveState together).
CosignaturesConsistent ==
    \A w \in Durable : \A a, b \in published[w] : Comparable(a, b)

\* The state file is ahead of everything given out: no crash can make a witness
\* forget a checkpoint someone already holds its cosignature for (saveState
\* happens before once() unlocks and before runCheck prints).
PublishedIsSaved ==
    \A w \in Durable : disk[w] # Corrupt =>
        \A c \in published[w] : disk[w] # NoView /\ Extends(disk[w], c)

\* The saved view only moves forward along one history (poll's switch on the
\* size), whichever file, cosigner or process fails on the way.
SavedViewOnlyExtends ==
    [][\A w \in Witness :
          disk[w] # Corrupt /\ disk'[w] # Corrupt =>
              disk[w] = NoView \/ (disk'[w] # NoView /\ Extends(disk'[w], disk[w]))]_vars

\* The durable witnesses implement AppendOnlyCosigner: what they remember is the
\* state file, what they give out the cosignatures that left the process.
Cosigners == INSTANCE AppendOnlyCosigner WITH
    Cosigner <- Durable,
    Lost <- Corrupt,
    trusted <- [w \in Durable |-> disk[w]],
    given <- [w \in Durable |-> published[w]]

\* Every step of poll, save, crash and restart keeps the promise of a witness.
ImplementsCosigner == Cosigners!ASpec

\* The header of he-witness says a witness "cosigns ONLY consistent checkpoints":
\* the same chain property for every witness with a state file, also one whose
\* daemon cannot write it.
EveryStatefulWitnessConsistent ==
    \A w \in Witness \ Stateless : \A a, b \in published[w] : Comparable(a, b)

=============================================================================
