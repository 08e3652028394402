----------------------------- MODULE Challenge -----------------------------
(***************************************************************************)
(* The live challenge server (he-challenge): sessions with a fresh nonce,  *)
(* attestations verified outside the lock against a snapshot of the        *)
(* session and recorded under it, sessions collected when they are old     *)
(* and a new one is minted.                                                *)
(*                                                                         *)
(* Requests run concurrently.  A session id stands for the session object  *)
(* and for its nonce: both are drawn at random when it is minted, and an   *)
(* id is drawn again only when nothing refers to it any more.  A deleted   *)
(* session object lives on while a request holds a pointer to it.          *)
(***************************************************************************)
EXTENDS Naturals, FiniteSets

CONSTANTS
    Session,       \* session ids
    MaxSessions,   \* maxSessions
    Request,       \* requests that can be served at the same time
    MaxCounter,    \* bound on the device counters
    NoSession,     \* no session
    NoBundle       \* no bundle

Counter == 1..MaxCounter

\* What VerifyBundle sees of a bundle: whether its encoding, key pin, signature
\* and version are right, the nonce and the counter in its payload.
Bundle == [authentic : BOOLEAN, nonce : Session, counter : Counter]

ASSUME ChallengeAssumption ==
    /\ MaxSessions \in Nat \ {0}
    /\ MaxCounter \in Nat \ {0}
    /\ NoSession \notin Session
    /\ NoBundle \notin Bundle

VARIABLES
    sessions,      \* the sessions in the server's map
    old,           \* the sessions older than the ttl
    lastCounter,   \* per session, its anti-replay counter
    verdict,       \* per session, the recorded verdict ("pending" until the first)
    proof,         \* per session, the counter in the recorded proof, 0 if nil
    step,          \* per request, where its handler is
    target,        \* per request, the session it holds a pointer to
    bundle,        \* per request, its bundle
    snapCounter,   \* per request, the counter it read under the lock
    passes         \* per session and counter, how often PASS was answered

sessionVars == <<sessions, old>>
recordVars == <<lastCounter, verdict, proof, passes>>
requestVars == <<step, target, bundle, snapCounter>>
vars == <<sessionVars, recordVars, requestVars>>

-----------------------------------------------------------------------------
(* Sessions. *)

\* Time passes: now - createdAt exceeds the ttl.
Age(s) ==
    /\ s \in sessions \ old
    /\ old' = old \cup {s}
    /\ UNCHANGED <<sessions, recordVars, requestVars>>

\* gcLocked: what is left of the map.
Collected == sessions \ old

Unused(s) == s \notin sessions /\ \A r \in Request : target[r] # s

\* The map with live sessions, and s added unless it is full.
MintInto(live, s) ==
    /\ Unused(s)
    /\ old' = old \cap live
    /\ IF Cardinality(live) < MaxSessions
       THEN /\ sessions' = live \cup {s}
            /\ lastCounter' = [lastCounter EXCEPT ![s] = 0]
            /\ verdict' = [verdict EXCEPT ![s] = "pending"]
            /\ proof' = [proof EXCEPT ![s] = 0]
            /\ passes' = [passes EXCEPT ![s] = [c \in Counter |-> 0]]
       ELSE /\ sessions' = live
            /\ UNCHANGED recordVars
    /\ UNCHANGED requestVars

\* Mutant of handleChallenge: old sessions stay.
handleChallengeNoGC(s) == MintInto(sessions, s)

\* Collect, then mint a session unless too many are left.
handleChallenge(s) == MintInto(Collected, s)

-----------------------------------------------------------------------------
(* Attestations. *)

\* r starts to hold s and carries b.
Hold(r, s, b) ==
    /\ step[r] = "idle"
    /\ s \in sessions
    /\ step' = [step EXCEPT ![r] = "found"]
    /\ target' = [target EXCEPT ![r] = s]
    /\ bundle' = [bundle EXCEPT ![r] = b]
    /\ UNCHANGED <<sessionVars, recordVars, snapCounter>>

\* POST /attest finds the session; the body arrives after that.  An unknown
\* session, or a body that is no bundle, is answered FAIL and changes nothing.
handleAttest(r, s) == \E b \in Bundle : Hold(r, s, b)

\* POST /simulate reads the counter and the nonce and lets the simulator sign,
\* with a key that may not be the pinned one.
handleSimulate(r, s) ==
    /\ lastCounter[s] < MaxCounter
    /\ \E pinned \in BOOLEAN :
          Hold(r, s, [authentic |-> pinned, nonce |-> s, counter |-> lastCounter[s] + 1])

\* verifyAndRecord, the first critical section.
Snapshot(r) ==
    /\ step[r] = "found"
    /\ step' = [step EXCEPT ![r] = "verify"]
    /\ snapCounter' = [snapCounter EXCEPT ![r] = lastCounter[target[r]]]
    /\ UNCHANGED <<sessionVars, recordVars, target, bundle>>

\* VerifyBundle: pin and signature, freshness, anti-replay.
VerifyBundle(b, nonce, last) == b.authentic /\ b.nonce = nonce /\ b.counter > last

\* Mutant of Judge: the counter is not compared again under the lock.
JudgeBySnapshot(r) == VerifyBundle(bundle[r], target[r], snapCounter[r])

\* The verdict: what VerifyBundle said of the snapshot, and in a session that is
\* still in the map the counter compared again.
Judge(r) ==
    /\ VerifyBundle(bundle[r], target[r], snapCounter[r])
    /\ target[r] \in sessions => bundle[r].counter > lastCounter[target[r]]

\* Mutant of KeptProof: a proof stays attached to the session.
KeptProofAlways(r, ok) == IF ok THEN bundle[r].counter ELSE proof[target[r]]

\* The proof that goes with the verdict on r.
KeptProof(r, ok) == IF ok THEN bundle[r].counter ELSE 0

\* verifyAndRecord, the second critical section, and the answer.
Record(r) ==
    LET s == target[r]
        ok == Judge(r)
        c == bundle[r].counter
    IN  /\ step[r] = "verify"
        /\ IF s \in sessions
           THEN /\ lastCounter' = [lastCounter EXCEPT ![s] = IF ok THEN c ELSE @]
                /\ verdict' = [verdict EXCEPT ![s] = IF ok THEN "PASS" ELSE "FAIL"]
                /\ proof' = [proof EXCEPT ![s] = KeptProof(r, ok)]
           ELSE UNCHANGED <<lastCounter, verdict, proof>>
        /\ passes' = IF ok THEN [passes EXCEPT ![s][c] = @ + 1] ELSE passes
        /\ step' = [step EXCEPT ![r] = "idle"]
        /\ target' = [target EXCEPT ![r] = NoSession]
        /\ bundle' = [bundle EXCEPT ![r] = NoBundle]
        /\ snapCounter' = [snapCounter EXCEPT ![r] = 0]
        /\ UNCHANGED sessionVars

-----------------------------------------------------------------------------
Init ==
    /\ sessions = {}
    /\ old = {}
    /\ lastCounter = [s \in Session |-> 0]
    /\ verdict = [s \in Session |-> "pending"]
    /\ proof = [s \in Session |-> 0]
    /\ step = [r \in Request |-> "idle"]
    /\ target = [r \in Request |-> NoSession]
    /\ bundle = [r \in Request |-> NoBundle]
    /\ snapCounter = [r \in Request |-> 0]
    /\ passes = [s \in Session |-> [c \in Counter |-> 0]]

Serve(r) ==
    \/ \E s \in Session : handleAttest(r, s) \/ handleSimulate(r, s)
    \/ Snapshot(r)
    \/ Record(r)

Next ==
    \/ \E s \in Session : Age(s) \/ handleChallenge(s)
    \/ \E r \in Request : Serve(r)

Spec == Init /\ [][Next]_vars

\* Time passes, handlers return, and clients keep asking for challenges.
Fairness ==
    /\ \A s \in Session : WF_vars(Age(s))
    /\ \A r \in Request : WF_vars(Snapshot(r)) /\ WF_vars(Record(r))
    /\ WF_vars(\E s \in Session : handleChallenge(s))

FairSpec == Spec /\ Fairness

-----------------------------------------------------------------------------
(* Properties. *)

TypeOK ==
    /\ sessions \subseteq Session
    /\ old \subseteq sessions
    /\ lastCounter \in [Session -> 0..MaxCounter]
    /\ verdict \in [Session -> {"pending", "PASS", "FAIL"}]
    /\ proof \in [Session -> 0..MaxCounter]
    /\ step \in [Request -> {"idle", "found", "verify"}]
    /\ target \in [Request -> Session \cup {NoSession}]
    /\ bundle \in [Request -> Bundle \cup {NoBundle}]
    /\ snapCounter \in [Request -> 0..MaxCounter]
    /\ passes \in [Session -> [Counter -> Nat]]

\* While a session is in the map no counter passes twice and nothing passes out
\* of order, though requests verify outside the lock (verifyAndRecord).
LiveSessionNeverReplays ==
    \A s \in sessions : \A c \in Counter :
        passes[s][c] <= 1 /\ (passes[s][c] > 0 => c <= lastCounter[s])

\* "keep /status self-consistent with the recorded verdict": the page shows a
\* proof exactly when the verdict is PASS, and then the proof of the newest
\* counter, one that really passed in this session.
StatusConsistent ==
    \A s \in Session :
        /\ verdict[s] = "PASS" <=> proof[s] # 0
        /\ proof[s] # 0 => proof[s] = lastCounter[s] /\ passes[s][proof[s]] > 0

\* A flood of /challenge does not lock clients out for good: as long as anyone
\* asks, a challenge is minted again and again (gcLocked before the cap).
FloodSubsides == []<><<\E s \in Session : s \in sessions' \ sessions>>_vars

\* The comment on verifyAndRecord: the lock-held check "also guards a session
\* GC'd mid-verification": no counter passes twice in any session.
NeverReplays == \A s \in Session : \A c \in Counter : passes[s][c] <= 1
=============================================================================
