-------------------------- MODULE Challenge_proofs --------------------------
(***************************************************************************)
(* LiveSessionNeverReplays and StatusConsistent hold for any number of     *)
(* sessions, requests and counters.                                        *)
(***************************************************************************)
EXTENDS Challenge, TLAPS

\* The inductive invariant: with the types, the two properties are inductive.
ChallengeInv == TypeOK /\ LiveSessionNeverReplays /\ StatusConsistent

\* It holds in a server that has just been started.
LEMMA ChallengeInvInit == Init => ChallengeInv
<1> SUFFICES ASSUME Init PROVE ChallengeInv
  OBVIOUS
<1>1. TypeOK
  BY ChallengeAssumption DEF Init, TypeOK
<1>2. LiveSessionNeverReplays /\ StatusConsistent
  BY DEF Init, LiveSessionNeverReplays, StatusConsistent
<1> QED
  BY <1>1, <1>2 DEF ChallengeInv

\* A request whose handler is past the lookup has a session and a bundle.
HeldSessions ==
    \A r \in Request : step[r] # "idle" => target[r] \in Session /\ bundle[r] \in Bundle

\* Requests that only read, and time, leave what is recorded alone.
LEMMA ReadersKeepRecords ==
    ASSUME ChallengeInv, UNCHANGED recordVars, sessions' \subseteq sessions
    PROVE  (LiveSessionNeverReplays /\ StatusConsistent)'
  BY DEF ChallengeInv, recordVars, LiveSessionNeverReplays, StatusConsistent

\* handleChallenge: collecting only shrinks the map, and a minted session starts
\* with no counter, verdict, proof or pass.
LEMMA MintKeepsInv ==
    ASSUME ChallengeInv, NEW s \in Session, handleChallenge(s)
    PROVE  ChallengeInv'
<1> USE DEF handleChallenge, MintInto, Collected
<1>1. TypeOK'
  <2>1. sessions' \subseteq Session /\ old' \subseteq sessions'
    BY DEF ChallengeInv, TypeOK
  <2>2. /\ lastCounter' \in [Session -> 0..MaxCounter]
        /\ verdict' \in [Session -> {"pending", "PASS", "FAIL"}]
        /\ proof' \in [Session -> 0..MaxCounter]
        /\ passes' \in [Session -> [Counter -> Nat]]
    <3>1. 0 \in 0..MaxCounter /\ [c \in Counter |-> 0] \in [Counter -> Nat]
      BY ChallengeAssumption
    <3>2. CASE Cardinality(Collected) < MaxSessions
      <4>1. /\ lastCounter' = [lastCounter EXCEPT ![s] = 0]
            /\ verdict' = [verdict EXCEPT ![s] = "pending"]
            /\ proof' = [proof EXCEPT ![s] = 0]
            /\ passes' = [passes EXCEPT ![s] = [c \in Counter |-> 0]]
        BY <3>2
      <4>2. passes' \in [Session -> [Counter -> Nat]]
        BY <3>1, <4>1 DEF ChallengeInv, TypeOK
      <4> QED
        BY <3>1, <4>1, <4>2 DEF ChallengeInv, TypeOK
    <3>3. CASE ~(Cardinality(Collected) < MaxSessions)
      BY <3>3 DEF ChallengeInv, TypeOK, recordVars
    <3> QED
      BY <3>2, <3>3
  <2> QED
    BY <2>1, <2>2 DEF ChallengeInv, TypeOK, requestVars
<1>2. CASE ~(Cardinality(Collected) < MaxSessions)
  BY <1>1, <1>2, ReadersKeepRecords DEF ChallengeInv
<1>3. CASE Cardinality(Collected) < MaxSessions
  <2>1. /\ sessions' \subseteq sessions \cup {s}
        /\ lastCounter' = [lastCounter EXCEPT ![s] = 0]
        /\ verdict' = [verdict EXCEPT ![s] = "pending"]
        /\ proof' = [proof EXCEPT ![s] = 0]
        /\ passes' = [passes EXCEPT ![s] = [c \in Counter |-> 0]]
    BY <1>3 DEF ChallengeInv, TypeOK
  <2>2. LiveSessionNeverReplays'
    BY <2>1 DEF ChallengeInv, TypeOK, LiveSessionNeverReplays
  <2>3. StatusConsistent'
    <3> SUFFICES ASSUME NEW t \in Session
                 PROVE  /\ verdict'[t] = "PASS" <=> proof'[t] # 0
                        /\ proof'[t] # 0 => proof'[t] = lastCounter'[t] /\ passes'[t][proof'[t]] > 0
      BY DEF StatusConsistent
    <3>1. CASE t = s
      BY <2>1, <3>1 DEF ChallengeInv, TypeOK
    <3>2. CASE t # s
      <4>1. /\ verdict'[t] = verdict[t] /\ proof'[t] = proof[t]
            /\ lastCounter'[t] = lastCounter[t] /\ passes'[t] = passes[t]
        BY <2>1, <3>2 DEF ChallengeInv, TypeOK
      <4> QED
        BY <4>1 DEF ChallengeInv, StatusConsistent
    <3> QED
      BY <3>1, <3>2
  <2> QED
    BY <1>1, <2>2, <2>3 DEF ChallengeInv
<1> QED
  BY <1>2, <1>3 DEF ChallengeInv, TypeOK

\* verifyAndRecord: in a live session a verdict of PASS means that the counter
\* is above every one that passed, in any other the records stay as they are.
LEMMA RecordKeepsInv ==
    ASSUME ChallengeInv, HeldSessions, NEW r \in Request, Record(r)
    PROVE  ChallengeInv'
<1> DEFINE s == target[r]
           c == bundle[r].counter
<1>1. s \in Session /\ c \in Counter /\ c \in Nat \ {0} /\ c \in 0..MaxCounter
  <2>1. bundle[r] \in Bundle
    BY DEF HeldSessions, Record
  <2>2. c \in Counter
    BY <2>1 DEF Bundle
  <2>3. s \in Session
    BY DEF HeldSessions, Record
  <2> QED
    BY <2>2, <2>3, ChallengeAssumption DEF Counter
<1>2. /\ sessions' = sessions
      /\ old' = old
      /\ bundle' \in [Request -> Bundle \cup {NoBundle}]
  BY DEF Record, sessionVars, ChallengeInv, TypeOK
<1>3. passes' = IF Judge(r) THEN [passes EXCEPT ![s][c] = @ + 1] ELSE passes
  BY DEF Record
<1>4. s \in sessions =>
        /\ lastCounter' = [lastCounter EXCEPT ![s] = IF Judge(r) THEN c ELSE @]
        /\ verdict' = [verdict EXCEPT ![s] = IF Judge(r) THEN "PASS" ELSE "FAIL"]
        /\ proof' = [proof EXCEPT ![s] = IF Judge(r) THEN c ELSE 0]
  BY DEF Record, KeptProof
<1>5. s \notin sessions => UNCHANGED <<lastCounter, verdict, proof>>
  BY DEF Record
<1>t. passes \in [Session -> [Counter -> Nat]] /\ passes[s][c] \in Nat
  BY <1>1 DEF ChallengeInv, TypeOK
<1>6. passes' \in [Session -> [Counter -> Nat]]
  BY <1>1, <1>3, <1>t
<1>7. \A t \in Session, d \in Counter :
        /\ passes'[t][d] >= passes[t][d]
        /\ ~(Judge(r) /\ t = s /\ d = c) => passes'[t][d] = passes[t][d]
        /\ Judge(r) /\ t = s /\ d = c => passes'[t][d] = passes[t][d] + 1
  BY <1>1, <1>3, <1>t
<1>8. /\ step' = [step EXCEPT ![r] = "idle"]
      /\ target' = [target EXCEPT ![r] = NoSession]
      /\ snapCounter' = [snapCounter EXCEPT ![r] = 0]
  BY DEF Record
<1>9. TypeOK'
  <2>1. /\ lastCounter' \in [Session -> 0..MaxCounter]
        /\ verdict' \in [Session -> {"pending", "PASS", "FAIL"}]
        /\ proof' \in [Session -> 0..MaxCounter]
    <3>1. CASE s \in sessions
      <4>1. 0 \in 0..MaxCounter
        BY ChallengeAssumption
      <4>2. /\ lastCounter' \in [Session -> 0..MaxCounter]
            /\ proof' \in [Session -> 0..MaxCounter]
        <5>1. lastCounter' \in [Session -> 0..MaxCounter]
          BY <1>1, <1>4, <3>1 DEF ChallengeInv, TypeOK
        <5>2. (IF Judge(r) THEN c ELSE 0) \in 0..MaxCounter
          BY <1>1, <4>1
        <5>3. proof' \in [Session -> 0..MaxCounter]
          BY <1>4, <3>1, <5>2 DEF ChallengeInv, TypeOK
        <5> QED
          BY <5>1, <5>3
      <4>3. verdict' \in [Session -> {"pending", "PASS", "FAIL"}]
        BY <1>4, <3>1 DEF ChallengeInv, TypeOK
      <4> QED
        BY <4>2, <4>3
    <3>2. CASE s \notin sessions
      BY <1>5, <3>2 DEF ChallengeInv, TypeOK
    <3> QED
      BY <3>1, <3>2
  <2> QED
    BY <1>2, <1>6, <1>8, <2>1, ChallengeAssumption DEF ChallengeInv, TypeOK
<1>10. Judge(r) /\ s \in sessions => c > lastCounter[s]
  BY DEF Judge
<1>11. LiveSessionNeverReplays'
  <2> SUFFICES ASSUME NEW t \in sessions, NEW d \in Counter
               PROVE  passes'[t][d] <= 1 /\ (passes'[t][d] > 0 => d <= lastCounter'[t])
    BY <1>2 DEF LiveSessionNeverReplays
  <2>1. t \in Session /\ d \in Nat /\ passes[t][d] \in Nat /\ lastCounter[t] \in Nat
    <3>1. t \in Session /\ d \in Nat
      BY DEF ChallengeInv, TypeOK, Counter
    <3>2. passes[t] \in [Counter -> Nat] /\ lastCounter[t] \in 0..MaxCounter
      BY <3>1 DEF ChallengeInv, TypeOK
    <3> QED
      BY <3>1, <3>2
  <2>2. passes[t][d] <= 1 /\ (passes[t][d] > 0 => d <= lastCounter[t])
    BY DEF ChallengeInv, LiveSessionNeverReplays
  <2>3. CASE Judge(r) /\ t = s
    <3>1. lastCounter'[t] = c /\ c > lastCounter[t]
      BY <1>1, <1>4, <1>10, <2>1, <2>3 DEF ChallengeInv, TypeOK
    <3>2. d = c => passes[t][d] = 0
      BY <1>1, <2>1, <2>2, <3>1
    <3> QED
      BY <1>1, <1>7, <2>1, <2>2, <2>3, <3>1, <3>2
  <2>4. CASE ~(Judge(r) /\ t = s)
    <3>1. lastCounter'[t] = lastCounter[t]
      BY <1>1, <1>4, <1>5, <2>1, <2>4 DEF ChallengeInv, TypeOK
    <3> QED
      BY <1>7, <2>1, <2>2, <2>4, <3>1
  <2> QED
    BY <2>3, <2>4
<1>12. StatusConsistent'
  <2> SUFFICES ASSUME NEW t \in Session
               PROVE  /\ verdict'[t] = "PASS" <=> proof'[t] # 0
                      /\ proof'[t] # 0 => proof'[t] = lastCounter'[t] /\ passes'[t][proof'[t]] > 0
    BY DEF StatusConsistent
  <2>1. /\ verdict[t] = "PASS" <=> proof[t] # 0
        /\ proof[t] # 0 => proof[t] = lastCounter[t] /\ passes[t][proof[t]] > 0
    BY DEF ChallengeInv, StatusConsistent
  <2>2. CASE t = s /\ s \in sessions
    <3>1. CASE Judge(r)
      <4>1. verdict'[t] = "PASS" /\ proof'[t] = c /\ lastCounter'[t] = c
        BY <1>1, <1>4, <2>2, <3>1 DEF ChallengeInv, TypeOK
      <4>2. passes'[t][c] = passes[t][c] + 1 /\ passes[t][c] \in Nat
        BY <1>1, <1>7, <2>2, <3>1 DEF ChallengeInv, TypeOK
      <4> QED
        BY <1>1, <4>1, <4>2
    <3>2. CASE ~Judge(r)
      BY <1>1, <1>4, <2>2, <3>2 DEF ChallengeInv, TypeOK
    <3> QED
      BY <3>1, <3>2
  <2>3. CASE ~(t = s /\ s \in sessions)
    <3>1. verdict'[t] = verdict[t] /\ proof'[t] = proof[t] /\ lastCounter'[t] = lastCounter[t]
      BY <1>1, <1>4, <1>5, <2>3 DEF ChallengeInv, TypeOK
    <3>2. proof[t] # 0 => proof[t] \in Counter
      BY ChallengeAssumption DEF ChallengeInv, TypeOK, Counter
    <3>3. \A d \in Counter : passes[t][d] \in Nat /\ passes'[t][d] \in Nat
      BY <1>6 DEF ChallengeInv, TypeOK
    <3> QED
      BY <1>7, <2>1, <3>1, <3>2, <3>3
  <2> QED
    BY <2>2, <2>3
<1> QED
  BY <1>9, <1>11, <1>12 DEF ChallengeInv

\* What the simulator signs is a bundle.
LEMMA SimulateHolds ==
    ASSUME TypeOK, NEW r \in Request, NEW s \in Session, handleSimulate(r, s)
    PROVE  \E b \in Bundle : Hold(r, s, b)
<1>1. PICK pinned \in BOOLEAN :
         Hold(r, s, [authentic |-> pinned, nonce |-> s, counter |-> lastCounter[s] + 1])
  BY DEF handleSimulate
<1>2. lastCounter[s] + 1 \in Counter
  BY ChallengeAssumption DEF handleSimulate, TypeOK, Counter
<1>3. [authentic |-> pinned, nonce |-> s, counter |-> lastCounter[s] + 1] \in Bundle
  BY <1>2 DEF Bundle
<1> QED
  BY <1>1, <1>3

\* A handler past the lookup keeps its session and bundle until it answers.
LEMMA HeldSessionsNext ==
    ASSUME TypeOK, HeldSessions, [Next]_vars
    PROVE  HeldSessions'
<1> USE DEF HeldSessions, TypeOK
<1>1. ASSUME NEW s \in Session, Age(s) \/ handleChallenge(s)
      PROVE  HeldSessions'
  BY <1>1 DEF Age, handleChallenge, MintInto, requestVars
<1>2. ASSUME NEW r \in Request, NEW s \in Session, NEW b \in Bundle, Hold(r, s, b)
      PROVE  HeldSessions'
  BY <1>2 DEF Hold
<1>3. ASSUME NEW r \in Request, Snapshot(r)
      PROVE  HeldSessions'
  BY <1>3 DEF Snapshot
<1>4. ASSUME NEW r \in Request, Record(r)
      PROVE  HeldSessions'
  BY <1>4 DEF Record
<1>5. CASE UNCHANGED vars
  BY <1>5 DEF vars, requestVars
<1>6. ASSUME NEW r \in Request, NEW s \in Session, handleAttest(r, s) \/ handleSimulate(r, s)
      PROVE  HeldSessions'
  <2>1. CASE handleAttest(r, s)
    BY <1>2, <2>1 DEF handleAttest
  <2>2. CASE handleSimulate(r, s)
    BY <1>2, <2>2, SimulateHolds
  <2> QED
    BY <1>6, <2>1, <2>2
<1> HIDE DEF HeldSessions, TypeOK
<1> QED
  BY <1>1, <1>3, <1>4, <1>5, <1>6 DEF Next, Serve

\* Every step of the server keeps the invariant.
LEMMA ChallengeInvNext ==
    ASSUME ChallengeInv, HeldSessions, [Next]_vars
    PROVE  ChallengeInv'
<1>1. ASSUME NEW s \in Session, Age(s)
      PROVE  ChallengeInv'
  <2>1. TypeOK'
    BY <1>1 DEF Age, ChallengeInv, TypeOK, recordVars, requestVars
  <2> QED
    BY <1>1, <2>1, ReadersKeepRecords DEF Age, ChallengeInv
<1>2. ASSUME NEW s \in Session, handleChallenge(s)
      PROVE  ChallengeInv'
  BY <1>2, MintKeepsInv
<1>3. ASSUME NEW r \in Request, NEW s \in Session, NEW b \in Bundle, Hold(r, s, b)
      PROVE  ChallengeInv'
  <2>1. TypeOK'
    BY <1>3 DEF Hold, ChallengeInv, TypeOK, sessionVars, recordVars
  <2> QED
    BY <1>3, <2>1, ReadersKeepRecords DEF Hold, ChallengeInv, sessionVars
<1>4. ASSUME NEW r \in Request, NEW s \in Session, handleSimulate(r, s)
      PROVE  ChallengeInv'
  BY <1>3, <1>4, SimulateHolds DEF ChallengeInv
<1>5. ASSUME NEW r \in Request, Snapshot(r)
      PROVE  ChallengeInv'
  <2>1. lastCounter[target[r]] \in 0..MaxCounter
    BY <1>5 DEF Snapshot, HeldSessions, ChallengeInv, TypeOK
  <2>2. TypeOK'
    BY <1>5, <2>1 DEF Snapshot, ChallengeInv, TypeOK, sessionVars, recordVars
  <2> QED
    BY <1>5, <2>2, ReadersKeepRecords DEF Snapshot, ChallengeInv, sessionVars
<1>6. ASSUME NEW r \in Request, Record(r)
      PROVE  ChallengeInv'
  BY <1>6, RecordKeepsInv
<1>7. CASE UNCHANGED vars
  <2>1. TypeOK'
    BY <1>7 DEF vars, sessionVars, recordVars, requestVars, ChallengeInv, TypeOK
  <2> QED
    BY <1>7, <2>1, ReadersKeepRecords DEF vars, sessionVars, ChallengeInv
<1> QED
  BY <1>1, <1>2, <1>3, <1>4, <1>5, <1>6, <1>7 DEF Next, Serve, handleAttest

\* The invariant holds in every reachable state.
LEMMA ChallengeInvHolds == Spec => [](ChallengeInv /\ HeldSessions)
<1>1. Init => HeldSessions
  BY DEF Init, HeldSessions
<1>2. ChallengeInv /\ HeldSessions /\ [Next]_vars => (ChallengeInv /\ HeldSessions)'
  BY ChallengeInvNext, HeldSessionsNext DEF ChallengeInv
<1> QED
  BY <1>1, <1>2, ChallengeInvInit, PTL DEF Spec

\* No counter passes twice in a session that is in the map, and none out of
\* order, whatever number of attestations run concurrently (verifyAndRecord).
THEOREM NoReplayInLiveSessions == Spec => []LiveSessionNeverReplays
  BY ChallengeInvHolds, PTL DEF ChallengeInv

\* /status always shows a verdict and a proof that belong together
\* (verifyAndRecord, handleStatus).
THEOREM StatusIsConsistent == Spec => []StatusConsistent
  BY ChallengeInvHolds, PTL DEF ChallengeInv
=============================================================================
