------------------------- MODULE TamperWatch_proofs -------------------------
(***************************************************************************)
(* The safety properties of the device hold for any number of calls, any   *)
(* counter and any number of power cuts.                                   *)
(***************************************************************************)
EXTENDS TamperWatch, TLAPS

\* The highest number the counter object has given out.
Reached == IF counter = Absent THEN 0 ELSE counter

Taken(c) == At(c, "sign") \/ At(c, "emit")

\* The call that is about to write the counter has it to itself.
WriterIsAlone == \A c \in Call : At(c, "write") => holder = c /\ call[c].val = counter

\* Nothing that was signed or recorded is above the counter.
NothingAhead ==
    /\ lastCounter <= Reached
    /\ \A p \in signed \cup emitted : p.counter <= Reached
    /\ \A c \in Call : Taken(c) => call[c].val <= Reached

\* A number that was taken is taken by one call, and not signed before that does.
NumbersDiffer ==
    /\ \A c, d \in Call : Taken(c) /\ Taken(d) /\ call[c].val = call[d].val => c = d
    /\ \A c \in Call : At(c, "sign") => \A p \in signed : p.counter # call[c].val

\* What a call noted when it began is still so.
NotedHolds ==
    \A c \in Call : call[c] # NoCall =>
        call[c].since <= lastCounter /\ (call[c].late => marker)

CounterInv ==
    /\ AttesterTypeOK
    /\ WriterIsAlone
    /\ NothingAhead
    /\ NumbersDiffer
    /\ NotedHolds
    /\ CounterSignedOnce
    /\ FreshAfterRecord
    /\ TrippedNeverSigns

LEMMA CounterInvInit == AttesterInit => CounterInv
<1> SUFFICES ASSUME AttesterInit PROVE CounterInv
  OBVIOUS
<1>1. AttesterTypeOK
  BY DEF AttesterInit, AttesterTypeOK
<1>2. \A c \in Call : call[c] = NoCall
  BY DEF AttesterInit
<1>3. lastCounter = 0 /\ signed = {} /\ emitted = {} /\ Reached = 0
  BY DEF AttesterInit, Reached
<1> QED
  BY <1>1, <1>2, <1>3 DEF CounterInv, WriterIsAlone, NothingAhead, NumbersDiffer, NotedHolds,
     CounterSignedOnce, FreshAfterRecord, TrippedNeverSigns, At, Taken

\* What the type invariant says of one call, and of the counter.
LEMMA RunningFields ==
    ASSUME AttesterTypeOK, NEW c \in Call, call[c] # NoCall
    PROVE  /\ call[c].at \in Step /\ call[c].nonce \in Nonce
           /\ call[c].val \in Nat /\ call[c].since \in Nat /\ call[c].late \in BOOLEAN
  BY DEF AttesterTypeOK, Running

LEMMA ReachedIsNat == AttesterTypeOK => Reached \in Nat /\ lastCounter \in Nat
  BY DEF AttesterTypeOK, Reached

\* Calls that end take nothing with them but what they held.
LEMMA EndingKeepsInv ==
    ASSUME CounterInv,
           call' \in [Call -> Running \cup {NoCall}],
           holder' \in Call \cup {NoCall},
           \A c \in Call : call'[c] \in {call[c], NoCall},
           \A c \in Call : call'[c] # NoCall /\ holder = c => holder' = c,
           UNCHANGED <<counter, signed, lastCounter>>,
           emitted' \subseteq emitted \cup signed,
           marker' \in BOOLEAN,
           marker => marker'
    PROVE  CounterInv'
<1>1. AttesterTypeOK'
  BY DEF CounterInv, AttesterTypeOK
<1>2. \A c \in Call : call'[c] # NoCall => call'[c] = call[c]
  OBVIOUS
<1>3. \A c \in Call : \A s \in Step : At(c, s)' => At(c, s) /\ call'[c] = call[c]
  BY <1>2 DEF At
<1>4. WriterIsAlone'
  BY <1>3 DEF CounterInv, WriterIsAlone, At, Step
<1>5. NothingAhead'
  BY <1>3 DEF CounterInv, NothingAhead, Reached, Taken, Step
<1>6. NumbersDiffer'
  BY <1>3 DEF CounterInv, NumbersDiffer, Taken, Step
<1>7. NotedHolds'
  BY <1>2 DEF CounterInv, NotedHolds
<1>8. CounterSignedOnce' /\ FreshAfterRecord' /\ TrippedNeverSigns'
  BY <1>2, <1>3 DEF CounterInv, CounterSignedOnce, FreshAfterRecord, TrippedNeverSigns, Step
<1> QED
  BY <1>1, <1>4, <1>5, <1>6, <1>7, <1>8 DEF CounterInv

LEMMA InvokeKeepsInv ==
    ASSUME CounterInv, NEW c \in Call, NEW n \in Nonce, Invoke(c, n)
    PROVE  CounterInv'
<1>1. AttesterTypeOK'
  BY DEF Invoke, CounterInv, AttesterTypeOK, Running, Step
<1>2. /\ call'[c] # NoCall /\ call'[c].at = "enter"
      /\ call'[c].since = lastCounter /\ call'[c].late = marker
  <2>1. call'[c] = [at |-> "enter", nonce |-> n, val |-> 0, since |-> lastCounter, late |-> marker]
    BY DEF Invoke, CounterInv, AttesterTypeOK
  <2>2. call'[c] \in Running
    BY <2>1 DEF CounterInv, AttesterTypeOK, Running, Step
  <2> QED
    BY <2>1, <2>2, AttesterAssumption
<1>3. \A d \in Call \ {c} : call'[d] = call[d]
  BY DEF Invoke, CounterInv, AttesterTypeOK
<1>4. UNCHANGED <<counter, holder, marker, signed, emitted, lastCounter>>
  BY DEF Invoke
<1>5. \A d \in Call : \A s \in Step \ {"enter"} : At(d, s)' => d # c /\ At(d, s) /\ call'[d] = call[d]
  BY <1>2, <1>3 DEF At
<1>6. WriterIsAlone' /\ NothingAhead' /\ NumbersDiffer'
  BY <1>4, <1>5 DEF CounterInv, WriterIsAlone, NothingAhead, NumbersDiffer, Reached, Taken, Step
<1>7. NotedHolds'
  BY <1>2, <1>3, <1>4, ReachedIsNat DEF CounterInv, NotedHolds
<1>8. CounterSignedOnce' /\ FreshAfterRecord' /\ TrippedNeverSigns'
  BY <1>2, <1>3, <1>4, <1>5 DEF CounterInv, CounterSignedOnce, FreshAfterRecord, TrippedNeverSigns, Step
<1> QED
  BY <1>1, <1>6, <1>7, <1>8 DEF CounterInv

\* A call that noted the marker finds it, or an error.
LEMMA DetectKeepsInv ==
    ASSUME CounterInv, NEW c \in Call, Detect(c)
    PROVE  CounterInv'
<1>1. PICK res \in MarkerResults :
          call' = [call EXCEPT ![c] = IF he_tamper_tripped(res) THEN NoCall ELSE [@ EXCEPT !.at = "open"]]
  BY DEF Detect
<1>2. UNCHANGED <<counter, holder, marker, signed, emitted, lastCounter>>
  BY DEF Detect
<1>3. call[c] # NoCall /\ call[c].at = "enter"
  BY DEF Detect, At
<1>4. CASE he_tamper_tripped(res)
  <2>1. call' = [call EXCEPT ![c] = NoCall]
    BY <1>1, <1>4
  <2> QED
    BY <1>2, <2>1, EndingKeepsInv DEF CounterInv, AttesterTypeOK
<1>5. CASE ~he_tamper_tripped(res)
  <2>1. ~marker
    BY <1>5, <1>1 DEF he_tamper_tripped, MarkerResults
  <2>2. call' = [call EXCEPT ![c] = [call[c] EXCEPT !.at = "open"]]
    BY <1>1, <1>5
  <2>3. AttesterTypeOK'
    BY <1>2, <1>3, <2>2 DEF CounterInv, AttesterTypeOK, Running, Step
  <2>4. /\ call'[c] # NoCall /\ call'[c].at = "open" /\ ~call'[c].late
        /\ call'[c].since = call[c].since
    <3>1. call'[c] = [call[c] EXCEPT !.at = "open"] /\ call[c] \in Running
      BY <1>3, <2>2 DEF CounterInv, AttesterTypeOK
    <3> QED
      BY <3>1, <1>3, <2>1, AttesterAssumption DEF CounterInv, Running, NotedHolds, Step
  <2>5. \A d \in Call \ {c} : call'[d] = call[d]
    BY <2>2 DEF CounterInv, AttesterTypeOK
  <2>6. \A d \in Call : \A s \in Step \ {"enter", "open"} :
            At(d, s)' => d # c /\ At(d, s) /\ call'[d] = call[d]
    BY <2>4, <2>5 DEF At
  <2>7. WriterIsAlone' /\ NothingAhead' /\ NumbersDiffer'
    BY <1>2, <2>6 DEF CounterInv, WriterIsAlone, NothingAhead, NumbersDiffer, Reached, Taken, Step
  <2>8. NotedHolds'
    BY <1>2, <1>3, <2>4, <2>5 DEF CounterInv, NotedHolds
  <2>9. CounterSignedOnce' /\ FreshAfterRecord' /\ TrippedNeverSigns'
    BY <1>2, <2>4, <2>5, <2>6 DEF CounterInv, CounterSignedOnce, FreshAfterRecord, TrippedNeverSigns, Step
  <2> QED
    BY <2>3, <2>7, <2>8, <2>9 DEF CounterInv
<1> QED
  BY <1>4, <1>5

LEMMA CounterOpenKeepsInv ==
    ASSUME CounterInv, NEW c \in Call, CounterOpen(c)
    PROVE  CounterInv'
<1>1. /\ call[c] # NoCall /\ call[c].at = "open" /\ holder = NoCall
      /\ UNCHANGED <<marker, signed, emitted, lastCounter>>
  BY DEF CounterOpen, At
<1>2. counter' = Reached /\ counter' \in Nat /\ Reached' = Reached
  BY AttesterAssumption DEF CounterOpen, CounterInv, AttesterTypeOK, Reached
<1>3. /\ call' = [call EXCEPT ![c] = [call[c] EXCEPT !.at = "write", !.val = counter']]
      /\ holder' = c
  BY DEF CounterOpen
<1>4. call[c] \in Running /\ call'[c] = [call[c] EXCEPT !.at = "write", !.val = counter']
  BY <1>1, <1>3 DEF CounterInv, AttesterTypeOK
<1>5. call'[c] \in Running
  BY <1>2, <1>4 DEF Running, Step
<1>6. AttesterTypeOK'
  BY <1>1, <1>2, <1>3, <1>4, <1>5 DEF CounterInv, AttesterTypeOK
<1>7. /\ call'[c] # NoCall /\ call'[c].at = "write" /\ call'[c].val = counter'
      /\ call'[c].since = call[c].since /\ call'[c].late = call[c].late
  BY <1>4, <1>5, AttesterAssumption DEF Running
<1>8. \A d \in Call \ {c} : call'[d] = call[d]
  BY <1>3 DEF CounterInv, AttesterTypeOK
<1>9. \A d \in Call : \A s \in Step : At(d, s)' => \/ d = c /\ s = "write"
                                                   \/ d # c /\ At(d, s) /\ call'[d] = call[d]
  <2> SUFFICES ASSUME NEW d \in Call, NEW s \in Step, call'[d] # NoCall, call'[d].at = s
               PROVE  \/ d = c /\ s = "write"
                      \/ d # c /\ At(d, s) /\ call'[d] = call[d]
    BY DEF At
  <2>1. CASE d = c
    BY <1>7, <2>1
  <2>2. CASE d # c
    BY <1>8, <2>2 DEF At
  <2> QED
    BY <2>1, <2>2
<1>10. \A d \in Call : ~At(d, "write")
  BY <1>1, AttesterAssumption DEF CounterInv, WriterIsAlone
<1>11. WriterIsAlone'
  BY <1>3, <1>7, <1>9, <1>10 DEF WriterIsAlone, Step
<1>12. NothingAhead' /\ NumbersDiffer'
  BY <1>1, <1>2, <1>9 DEF CounterInv, NothingAhead, NumbersDiffer, Taken, Step
<1>13. NotedHolds'
  BY <1>1, <1>7, <1>8 DEF CounterInv, NotedHolds
<1>14. CounterSignedOnce' /\ FreshAfterRecord'
  BY <1>1, <1>9 DEF CounterInv, CounterSignedOnce, FreshAfterRecord, Step
<1>15. TrippedNeverSigns'
  BY <1>1, <1>7, <1>8 DEF CounterInv, TrippedNeverSigns
<1> QED
  BY <1>6, <1>11, <1>12, <1>13, <1>14, <1>15 DEF CounterInv

\* The number written is above all that was reached, so above what was recorded
\* when the call began.
LEMMA CounterWriteKeepsInv ==
    ASSUME CounterInv, NEW c \in Call, CounterWrite(c)
    PROVE  CounterInv'
<1>1. /\ call[c] # NoCall /\ call[c].at = "write" /\ holder = c
      /\ call[c].val = counter /\ UNCHANGED <<marker, signed, emitted, lastCounter>>
  BY DEF CounterWrite, At, CounterInv, WriterIsAlone
<1>2. counter \in Nat /\ Reached = counter /\ counter' = counter + 1 /\ Reached' = counter + 1
  <2>1. counter \in Nat
    BY <1>1, RunningFields DEF CounterInv
  <2>2. counter' = counter + 1
    BY <1>1 DEF CounterWrite
  <2> QED
    BY <2>1, <2>2, AttesterAssumption DEF Reached
<1>3. /\ call' = [call EXCEPT ![c] = [call[c] EXCEPT !.at = "sign", !.val = call[c].val + 1]]
      /\ holder' = NoCall
  BY <1>1 DEF CounterWrite, Release
<1>4. call[c] \in Running /\ call'[c] = [call[c] EXCEPT !.at = "sign", !.val = counter + 1]
  BY <1>1, <1>3 DEF CounterInv, AttesterTypeOK
<1>5. call'[c] \in Running
  <2>1. counter + 1 \in Nat
    BY <1>2
  <2> QED
    BY <1>4, <2>1 DEF Running, Step
<1>6. AttesterTypeOK'
  BY <1>1, <1>2, <1>3, <1>4, <1>5 DEF CounterInv, AttesterTypeOK
<1>7. /\ call'[c] # NoCall /\ call'[c].at = "sign" /\ call'[c].val = counter + 1
      /\ call'[c].since = call[c].since /\ call'[c].late = call[c].late
  BY <1>4, <1>5, AttesterAssumption DEF Running
<1>8. \A d \in Call \ {c} : call'[d] = call[d]
  BY <1>3 DEF CounterInv, AttesterTypeOK
<1>9. \A d \in Call : \A s \in Step : At(d, s)' => \/ d = c /\ s = "sign"
                                                   \/ d # c /\ At(d, s) /\ call'[d] = call[d]
  <2> SUFFICES ASSUME NEW d \in Call, NEW s \in Step, call'[d] # NoCall, call'[d].at = s
               PROVE  \/ d = c /\ s = "sign"
                      \/ d # c /\ At(d, s) /\ call'[d] = call[d]
    BY DEF At
  <2>1. CASE d = c
    BY <1>7, <2>1
  <2>2. CASE d # c
    BY <1>8, <2>2 DEF At
  <2> QED
    BY <2>1, <2>2
<1>10. \A d \in Call : Taken(d)' => \/ d = c
                                    \/ d # c /\ Taken(d) /\ call'[d] = call[d]
  BY <1>9 DEF Taken, Step
<1>11. WriterIsAlone'
  BY <1>1, <1>9 DEF CounterInv, WriterIsAlone, Step
<1>12. \A d \in Call : Taken(d) => call[d].val \in Nat /\ call[d].val <= counter
  <2> SUFFICES ASSUME NEW d \in Call, Taken(d) PROVE call[d].val \in Nat /\ call[d].val <= counter
    OBVIOUS
  <2>1. call[d] # NoCall
    BY DEF Taken, At
  <2> QED
    BY <1>2, <2>1, RunningFields DEF CounterInv, NothingAhead
<1>13. /\ lastCounter \in Nat /\ lastCounter <= counter
       /\ \A p \in signed \cup emitted : p.counter \in Nat /\ p.counter <= counter
  BY <1>2 DEF CounterInv, AttesterTypeOK, NothingAhead, Payload
<1>14. NothingAhead'
  <2>1. \A d \in Call : Taken(d)' => call'[d].val <= counter + 1
    BY <1>2, <1>7, <1>10, <1>12
  <2>2. lastCounter' <= counter + 1 /\ \A p \in (signed \cup emitted)' : p.counter <= counter + 1
    BY <1>1, <1>2, <1>13
  <2> QED
    BY <1>2, <2>1, <2>2 DEF NothingAhead
<1>15. NumbersDiffer'
  <2>1. \A d \in Call \ {c} : Taken(d)' => call'[d].val # call'[c].val
    BY <1>2, <1>7, <1>10, <1>12
  <2>2. \A p \in signed' : p.counter # call'[c].val
    BY <1>1, <1>2, <1>7, <1>13
  <2>3. \A d, e \in Call \ {c} : Taken(d)' /\ Taken(e)' /\ call'[d].val = call'[e].val => d = e
    BY <1>10 DEF CounterInv, NumbersDiffer
  <2>4. \A d \in Call \ {c} : At(d, "sign")' => \A p \in signed' : p.counter # call'[d].val
    BY <1>1, <1>9 DEF CounterInv, NumbersDiffer, Step
  <2> QED
    BY <2>1, <2>2, <2>3, <2>4 DEF NumbersDiffer
<1>16. NotedHolds'
  BY <1>1, <1>7, <1>8 DEF CounterInv, NotedHolds
<1>17. FreshAfterRecord'
  <2>1. call[c].since \in Nat /\ call[c].since <= lastCounter
    BY <1>1, RunningFields DEF CounterInv, NotedHolds
  <2>2. call'[c].val > call'[c].since
    BY <1>2, <1>7, <1>13, <2>1
  <2> QED
    BY <1>9, <2>2 DEF CounterInv, FreshAfterRecord, Step
<1>18. CounterSignedOnce' /\ TrippedNeverSigns'
  BY <1>1, <1>7, <1>8 DEF CounterInv, CounterSignedOnce, TrippedNeverSigns
<1> QED
  BY <1>6, <1>11, <1>14, <1>15, <1>16, <1>17, <1>18 DEF CounterInv

LEMMA SignKeepsInv ==
    ASSUME CounterInv, NEW c \in Call, Sign(c)
    PROVE  CounterInv'
<1>1. /\ call[c] # NoCall /\ call[c].at = "sign" /\ Taken(c)
      /\ UNCHANGED <<counter, holder, marker, emitted, lastCounter>>
  BY DEF Sign, At, Taken
<1>2. call' = [call EXCEPT ![c] = [call[c] EXCEPT !.at = "emit"]]
  BY DEF Sign
<1>3. call[c] \in Running /\ call'[c] = [call[c] EXCEPT !.at = "emit"]
  BY <1>1, <1>2 DEF CounterInv, AttesterTypeOK
<1>4. call'[c] \in Running
  BY <1>3 DEF Running, Step
<1>5. /\ signed' = signed \cup {PayloadOf(c)} /\ PayloadOf(c) \in Payload
      /\ PayloadOf(c).counter = call[c].val
  BY <1>3 DEF Sign, PayloadOf, Payload, Running
<1>6. AttesterTypeOK'
  BY <1>1, <1>2, <1>4, <1>5 DEF CounterInv, AttesterTypeOK
<1>7. /\ call'[c] # NoCall /\ call'[c].at = "emit" /\ call'[c].val = call[c].val
      /\ call'[c].since = call[c].since /\ call'[c].late = call[c].late
  BY <1>3, <1>4, AttesterAssumption DEF Running
<1>8. \A d \in Call \ {c} : call'[d] = call[d]
  BY <1>2 DEF CounterInv, AttesterTypeOK
<1>9. \A d \in Call : \A s \in Step : At(d, s)' => \/ d = c /\ s = "emit"
                                                   \/ d # c /\ At(d, s) /\ call'[d] = call[d]
  <2> SUFFICES ASSUME NEW d \in Call, NEW s \in Step, call'[d] # NoCall, call'[d].at = s
               PROVE  \/ d = c /\ s = "emit"
                      \/ d # c /\ At(d, s) /\ call'[d] = call[d]
    BY DEF At
  <2>1. CASE d = c
    BY <1>7, <2>1
  <2>2. CASE d # c
    BY <1>8, <2>2 DEF At
  <2> QED
    BY <2>1, <2>2
<1>10. \A d \in Call : Taken(d)' => Taken(d) /\ call'[d].val = call[d].val
  BY <1>1, <1>7, <1>9 DEF Taken, Step
<1>11. WriterIsAlone'
  BY <1>1, <1>9 DEF CounterInv, WriterIsAlone, Step
<1>12. NothingAhead'
  BY <1>1, <1>5, <1>10 DEF CounterInv, NothingAhead, Reached
<1>13. NumbersDiffer'
  <2>1. \A d \in Call : At(d, "sign")' => d # c /\ At(d, "sign") /\ call'[d] = call[d]
    BY <1>9 DEF Step
  <2>2. \A d \in Call : At(d, "sign")' => call[d].val # call[c].val
    BY <1>1, <2>1 DEF CounterInv, NumbersDiffer, Taken
  <2>3. \A d \in Call : At(d, "sign")' => \A p \in signed' : p.counter # call'[d].val
    BY <1>5, <2>1, <2>2 DEF CounterInv, NumbersDiffer
  <2> QED
    BY <1>10, <2>3 DEF CounterInv, NumbersDiffer
<1>14. NotedHolds'
  BY <1>1, <1>7, <1>8 DEF CounterInv, NotedHolds
<1>15. CounterSignedOnce'
  <2>1. \A p \in signed : p.counter # PayloadOf(c).counter
    BY <1>1, <1>5 DEF CounterInv, NumbersDiffer, At
  <2> QED
    BY <1>5, <2>1 DEF CounterInv, CounterSignedOnce
<1>16. FreshAfterRecord'
  BY <1>1, <1>7, <1>9 DEF CounterInv, FreshAfterRecord, Taken, Step
<1>17. TrippedNeverSigns'
  BY <1>1, <1>7, <1>8 DEF CounterInv, TrippedNeverSigns
<1> QED
  BY <1>6, <1>11, <1>12, <1>13, <1>14, <1>15, <1>16, <1>17 DEF CounterInv
LEMMA EmitKeepsInv ==
    ASSUME CounterInv, NEW c \in Call, Emit(c)
    PROVE  CounterInv'
<1>1. call' = [call EXCEPT ![c] = NoCall]
  BY DEF Emit
<1>2. call[c] # NoCall /\ Taken(c) /\ At(c, "emit")
  BY DEF Emit, At, Taken
<1>3. UNCHANGED <<counter, holder, marker, signed, lastCounter>>
  BY DEF Emit
<1>4. PayloadOf(c) \in Payload /\ PayloadOf(c).counter <= Reached
  BY <1>2, RunningFields DEF CounterInv, NothingAhead, PayloadOf, Payload
<1>5. emitted' = emitted \cup {PayloadOf(c)}
  BY DEF Emit
<1>6. AttesterTypeOK'
  BY <1>1, <1>3, <1>4, <1>5 DEF CounterInv, AttesterTypeOK
<1>7. \A d \in Call : call'[d] # NoCall => d # c /\ call'[d] = call[d]
  BY <1>1 DEF CounterInv, AttesterTypeOK
<1>8. \A d \in Call : \A t \in Step : At(d, t)' => At(d, t) /\ call'[d] = call[d]
  BY <1>7 DEF At
<1>9. WriterIsAlone' /\ NumbersDiffer'
  BY <1>3, <1>8 DEF CounterInv, WriterIsAlone, NumbersDiffer, Taken, Step
<1>10. NothingAhead'
  BY <1>3, <1>4, <1>5, <1>8 DEF CounterInv, NothingAhead, Reached, Taken, Step
<1>11. NotedHolds' /\ CounterSignedOnce' /\ TrippedNeverSigns'
  BY <1>3, <1>7 DEF CounterInv, NotedHolds, CounterSignedOnce, TrippedNeverSigns
<1>12. FreshAfterRecord'
  BY <1>3, <1>8 DEF CounterInv, FreshAfterRecord, Step
<1> QED
  BY <1>6, <1>9, <1>10, <1>11, <1>12 DEF CounterInv

\* What a call noted of lastCounter only falls further behind.
LEMMA RecordKeepsInv ==
    ASSUME CounterInv, NEW p \in emitted, RecordVerdict(p)
    PROVE  CounterInv'
<1>1. UNCHANGED <<counter, holder, marker, call, signed, emitted>>
  BY DEF RecordVerdict
<1>2. /\ p.counter \in Nat /\ p.counter <= Reached
      /\ lastCounter \in Nat /\ lastCounter' = p.counter /\ lastCounter <= lastCounter'
  BY DEF RecordVerdict, CounterInv, AttesterTypeOK, Payload, NothingAhead
<1>3. AttesterTypeOK' /\ WriterIsAlone' /\ NumbersDiffer'
  BY <1>1, <1>2 DEF CounterInv, AttesterTypeOK, WriterIsAlone, NumbersDiffer, At, Taken
<1>4. NothingAhead'
  BY <1>1, <1>2 DEF CounterInv, NothingAhead, Reached, At, Taken
<1>5. NotedHolds'
  <2> SUFFICES ASSUME NEW c \in Call, call[c] # NoCall
               PROVE  call[c].since <= lastCounter' /\ (call[c].late => marker)
    BY <1>1 DEF NotedHolds
  <2>1. call[c].since \in Nat /\ call[c].since <= lastCounter /\ (call[c].late => marker)
    BY RunningFields DEF CounterInv, NotedHolds
  <2> QED
    BY <1>2, <2>1
<1>6. CounterSignedOnce' /\ FreshAfterRecord' /\ TrippedNeverSigns'
  BY <1>1 DEF CounterInv, CounterSignedOnce, FreshAfterRecord, TrippedNeverSigns, At
<1> QED
  BY <1>3, <1>4, <1>5, <1>6 DEF CounterInv

LEMMA GiveUpKeepsInv ==
    ASSUME CounterInv, NEW c \in Call, GiveUp(c)
    PROVE  CounterInv'
<1>1. call' = [call EXCEPT ![c] = NoCall] /\ holder' = IF holder = c THEN NoCall ELSE holder
  BY DEF GiveUp, Release
<1>2. UNCHANGED <<counter, marker, signed, emitted, lastCounter>>
  BY DEF GiveUp
<1>3. \A d \in Call : call'[d] = IF d = c THEN NoCall ELSE call[d]
  BY <1>1 DEF CounterInv, AttesterTypeOK
<1>4. call' \in [Call -> Running \cup {NoCall}] /\ holder' \in Call \cup {NoCall}
  BY <1>1 DEF CounterInv, AttesterTypeOK
<1>5. \A d \in Call : call'[d] # NoCall /\ holder = d => holder' = d
  BY <1>1, <1>3
<1> QED
  BY <1>2, <1>3, <1>4, <1>5, EndingKeepsInv DEF CounterInv, AttesterTypeOK

LEMMA OffKeepsInv == CounterInv /\ AttesterOff => CounterInv'
<1> SUFFICES ASSUME CounterInv, AttesterOff PROVE CounterInv'
  OBVIOUS
<1>1. /\ \A d \in Call : call'[d] = NoCall
      /\ call' \in [Call -> Running \cup {NoCall}] /\ holder' \in Call \cup {NoCall}
      /\ UNCHANGED <<counter, marker, signed, emitted, lastCounter>>
  BY DEF AttesterOff
<1> QED
  BY <1>1, EndingKeepsInv DEF CounterInv, AttesterTypeOK

LEMMA TripKeepsInv == CounterInv /\ Trip => CounterInv'
<1> SUFFICES ASSUME CounterInv, Trip PROVE CounterInv'
  OBVIOUS
<1>1. marker' = TRUE /\ UNCHANGED <<counter, holder, call, signed, emitted, lastCounter>>
  BY DEF Trip
<1> QED
  BY <1>1, EndingKeepsInv DEF CounterInv, AttesterTypeOK

LEMMA CounterInvStep == CounterInv /\ [DeviceNext]_deviceVars => CounterInv'
<1> SUFFICES ASSUME CounterInv, [DeviceNext]_deviceVars PROVE CounterInv'
  OBVIOUS
<1>1. CASE AttesterNext
  <2>1. ASSUME NEW c \in Call, Attest(c) PROVE CounterInv'
    BY <2>1, InvokeKeepsInv, DetectKeepsInv, CounterOpenKeepsInv, CounterWriteKeepsInv,
       SignKeepsInv, EmitKeepsInv, GiveUpKeepsInv DEF Attest
  <2> QED
    BY <1>1, <2>1, RecordKeepsInv DEF AttesterNext
<1>2. CASE UNCHANGED attesterVars
  BY <1>2 DEF attesterVars, CounterInv, AttesterTypeOK, WriterIsAlone, NothingAhead, NumbersDiffer,
     NotedHolds, CounterSignedOnce, FreshAfterRecord, TrippedNeverSigns, At, Taken, Reached
<1>3. CASE Trip
  BY <1>3, TripKeepsInv
<1>4. CASE AttesterOff
  BY <1>4, OffKeepsInv
<1> QED
  BY <1>1, <1>2, <1>3, <1>4 DEF DeviceNext, Hook, deviceVars

LEMMA CounterInvAlways == DeviceSpec => []CounterInv
<1>1. DeviceInit => CounterInv
  BY CounterInvInit DEF DeviceInit
<1> QED
  BY <1>1, CounterInvStep, PTL DEF DeviceSpec

\* The types of what the Attester keeps.
THEOREM AttesterTypes == DeviceSpec => []AttesterTypeOK
<1>1. CounterInv => AttesterTypeOK
  BY DEF CounterInv
<1> QED
  BY <1>1, CounterInvAlways, PTL

\* No counter is ever signed with two payloads, by any number of overlapping,
\* failing and cut off calls.
THEOREM NoCounterTwice == DeviceSpec => []CounterSignedOnce
<1>1. CounterInv => CounterSignedOnce
  BY DEF CounterInv
<1> QED
  BY <1>1, CounterInvAlways, PTL

\* A call that began after a bundle was recorded gets a number above it.
THEOREM NextBundleIsFresh == DeviceSpec => []FreshAfterRecord
<1>1. CounterInv => FreshAfterRecord
  BY DEF CounterInv
<1> QED
  BY <1>1, CounterInvAlways, PTL

\* A tripped device does not get past the look at its marker.
THEOREM TrippedDeviceIsMute == DeviceSpec => []TrippedNeverSigns
<1>1. CounterInv => TrippedNeverSigns
  BY DEF CounterInv
<1> QED
  BY <1>1, CounterInvAlways, PTL

-----------------------------------------------------------------------------
(* The watcher. *)

\* Between a response and the moment it is over, what the watcher remembers of
\* it is what happened to the key file; no file is unlinked that was not gone over,
\* and no name comes back that was not unlinked; before the watcher arms it has
\* looked at the flag.
WatchInv ==
    /\ cuts \in Nat
    /\ keyFile \in {"there", "gone", "back"}
    /\ content \in {"key", "missed", "random"}
    /\ "unlink" \in volatile => keyFile = "gone"
    /\ keyFile # "there" \/ watch = "unlink" => content # "key"
    /\ watch \in {"write_flag", "hook"} /\ erased /\ conf.key => keyFile = "gone"
    /\ watch = "hook" => acted
    /\ flag = "present" /\ watch = "level" => acted
    /\ FlagIsHonoured
    /\ DeadMeansGone
    /\ EraseLeavesFlag

LEMMA WatchInvStep == WatchInv /\ [DeviceNext]_deviceVars => WatchInv'
<1> SUFFICES ASSUME WatchInv, [DeviceNext]_deviceVars PROVE WatchInv'
  OBVIOUS
<1> USE DEF WatchInv, FlagIsHonoured, DeadMeansGone, EraseLeavesFlag, Masked
<1>1. CASE UNCHANGED watchVars
  BY <1>1 DEF watchVars, breachVars
<1>2. CASE MoveLoop
  BY <1>2 DEF MoveLoop, breachVars
<1>3. CASE WatchStart
  BY <1>3 DEF WatchStart
<1>4. CASE Signal
  BY <1>4 DEF Signal, Kill, breachVars
<1>5. CASE Simulate
  BY <1>5 DEF Simulate, breach_action
<1>6. CASE HonourFlag
  BY <1>6 DEF HonourFlag, breach_action, Quiet, breachVars
<1>7. CASE ReadLevel
  BY <1>7 DEF ReadLevel, breach_action, Quiet, breachVars
<1>8. CASE \E e \in events : ReadEvent(e)
  BY <1>8 DEF ReadEvent, breach_action, Quiet, breachVars
<1>9. CASE Overwrite
  BY <1>9 DEF Overwrite
<1>10. CASE Unlink
  BY <1>10 DEF Unlink
<1>11. CASE WriteFlag
  BY <1>11 DEF WriteFlag
<1>12. CASE Hook
  BY <1>12 DEF Hook, Report, After
<1>13. CASE \E undone \in SUBSET volatile : PowerCut(undone)
  BY <1>13 DEF PowerCut
<1> QED
  BY <1>1, <1>2, <1>3, <1>4, <1>5, <1>6, <1>7, <1>8, <1>9, <1>10, <1>11, <1>12, <1>13
     DEF DeviceNext, WatchStep, deviceVars

LEMMA WatchInvAlways == DeviceSpec => []WatchInv
<1>1. DeviceInit => WatchInv
  BY DEF DeviceInit, WatchInit, WatchInv, FlagIsHonoured, DeadMeansGone, EraseLeavesFlag, Masked
<1> QED
  BY <1>1, WatchInvStep, PTL DEF DeviceSpec

\* Nothing but a power cut or a flag file that cannot be written leaves the key
\* touched and no flag; a flag that is there is answered before the watcher arms; and
\* "dead" is said of a key file that was gone over and unlinked, though a power cut
\* may undo the unlink and nobody has seen whether the writes worked.
THEOREM BreachNeverHalfDone == DeviceSpec => []BreachIsAtomic
<1>1. WatchInv => BreachIsAtomic
  BY DEF WatchInv, BreachIsAtomic
<1> QED
  BY <1>1, WatchInvAlways, PTL
=============================================================================
