------------------------------ MODULE Attester ------------------------------
(***************************************************************************)
(* The trusted application that signs what the detector saw                *)
(* (he_audio_ta.c), called by runs of he_host that may overlap, with       *)
(* secure storage that fails and power that is cut; and the contract that  *)
(* records its bundles (HonestEarQuorum.sol).                              *)
(*                                                                         *)
(* Secure storage is external: creating or writing an object happens at    *)
(* once or not at all, an object opened without share flags is open once,  *)
(* and it does not roll back (RPMB).  2^64 calls are out of reach.         *)
(***************************************************************************)
EXTENDS Naturals

CONSTANTS
    Call,        \* runs of he_host at a time
    Nonce,       \* challenges of verifiers
    MaxCounter,  \* bound on the counter
    Absent,      \* the counter object does not exist
    NoCall       \* a run that is over; nobody holds the counter object

VARIABLES
    counter,      \* the object honest-ear.counter.v1
    holder,       \* the call that has it open
    marker,       \* the object honest-ear.tamper.v1 exists
    call,         \* per run, what it was asked and how far it is
    signed,       \* the payloads signed
    emitted,      \* those handed to the host
    lastCounter   \* lastCounter of the contract

attesterVars == <<counter, holder, marker, call, signed, emitted, lastCounter>>

Payload == [nonce : Nonce, counter : Nat]

\* "enter", then about to open, to write, to sign with, to return the counter.
\* since is lastCounter, late is marker when the call began.
Step == {"enter", "open", "write", "sign", "emit"}
Running == [at : Step, nonce : Nonce, val : Nat, since : Nat, late : BOOLEAN]

ASSUME AttesterAssumption ==
    MaxCounter \in Nat /\ Absent \notin Nat /\ NoCall \notin Call \cup Running

At(c, step) == call[c] # NoCall /\ call[c].at = step

-----------------------------------------------------------------------------
(* he_attest_audio. *)

Invoke(c, n) ==
    /\ call[c] = NoCall
    /\ call' = [call EXCEPT ![c] =
                   [at |-> "enter", nonce |-> n, val |-> 0, since |-> lastCounter, late |-> marker]]
    /\ UNCHANGED <<counter, holder, marker, signed, emitted, lastCounter>>

\* What opening the marker object may return.
MarkerResults == {"OTHER_ERROR", IF marker THEN "SUCCESS" ELSE "ITEM_NOT_FOUND"}

\* Mutant of he_tamper_tripped: it fails open.
TrippedIfRead(res) == res = "SUCCESS"

he_tamper_tripped(res) == res # "ITEM_NOT_FOUND"

\* The one look at the marker, the parameters, the detector, the hashes.
Detect(c) ==
    /\ At(c, "enter")
    /\ \E res \in MarkerResults :
          call' = [call EXCEPT ![c] = IF he_tamper_tripped(res) THEN NoCall ELSE [@ EXCEPT !.at = "open"]]
    /\ UNCHANGED <<counter, holder, marker, signed, emitted, lastCounter>>

\* Mutant of CounterOpen: the object is opened to be shared.
CounterOpenShared(c) ==
    /\ At(c, "open")
    /\ counter' = IF counter = Absent THEN 0 ELSE counter
    /\ call' = [call EXCEPT ![c].at = "write", ![c].val = counter']
    /\ UNCHANGED <<holder, marker, signed, emitted, lastCounter>>

\* Mutant of CounterOpen: a counter that cannot be read starts over.
CounterOpenReset(c) ==
    /\ At(c, "open")
    /\ holder = NoCall
    /\ holder' = c
    /\ counter' = IF counter = Absent THEN 0 ELSE counter
    /\ \E read \in {counter', 0} : call' = [call EXCEPT ![c].at = "write", ![c].val = read]
    /\ UNCHANGED <<marker, signed, emitted, lastCounter>>

\* he_counter_next opens or creates the object, and reads it.
CounterOpen(c) ==
    /\ At(c, "open")
    /\ holder = NoCall
    /\ holder' = c
    /\ counter' = IF counter = Absent THEN 0 ELSE counter
    /\ call' = [call EXCEPT ![c].at = "write", ![c].val = counter']
    /\ UNCHANGED <<marker, signed, emitted, lastCounter>>

Release(c) == holder' = IF holder = c THEN NoCall ELSE holder

\* ... adds one, writes it and closes it.
CounterWrite(c) ==
    /\ At(c, "write")
    /\ call[c].val < MaxCounter
    /\ counter' = call[c].val + 1
    /\ call' = [call EXCEPT ![c].at = "sign", ![c].val = @ + 1]
    /\ Release(c)
    /\ UNCHANGED <<marker, signed, emitted, lastCounter>>

PayloadOf(c) == [nonce |-> call[c].nonce, counter |-> call[c].val]

\* he_pta_sign, cmd_sign_data
Sign(c) ==
    /\ At(c, "sign")
    /\ signed' = signed \cup {PayloadOf(c)}
    /\ call' = [call EXCEPT ![c].at = "emit"]
    /\ UNCHANGED <<counter, holder, marker, emitted, lastCounter>>

\* The bundle, if the host's buffer has room for it.
Emit(c) ==
    /\ At(c, "emit")
    /\ emitted' = emitted \cup {PayloadOf(c)}
    /\ call' = [call EXCEPT ![c] = NoCall]
    /\ UNCHANGED <<counter, holder, marker, signed, lastCounter>>

\* An error return: bad parameters, a hash that fails, a counter that another
\* call has open or that is not read or written, no signature, a short buffer.
\* The file handle is closed.
GiveUp(c) ==
    /\ call[c] # NoCall
    /\ call' = [call EXCEPT ![c] = NoCall]
    /\ Release(c)
    /\ UNCHANGED <<counter, marker, signed, emitted, lastCounter>>

-----------------------------------------------------------------------------
\* he_trip_tamper (he_host --trip): create the marker; that it exists is fine.
Trip == marker' = TRUE /\ UNCHANGED <<counter, holder, call, signed, emitted, lastCounter>>

\* Power is cut: calls are gone, secure storage stays.
AttesterOff ==
    /\ call' = [c \in Call |-> NoCall]
    /\ holder' = NoCall
    /\ UNCHANGED <<counter, marker, signed, emitted, lastCounter>>

\* recordVerdict for a bundle that reaches the chain, at any time, in any order.
RecordVerdict(p) ==
    /\ p.counter > lastCounter
    /\ lastCounter' = p.counter
    /\ UNCHANGED <<counter, holder, marker, call, signed, emitted>>

AttesterInit ==
    /\ counter = Absent
    /\ holder = NoCall
    /\ marker = FALSE
    /\ call = [c \in Call |-> NoCall]
    /\ signed = {}
    /\ emitted = {}
    /\ lastCounter = 0

Attest(c) ==
    \/ \E n \in Nonce : Invoke(c, n)
    \/ Detect(c) \/ CounterOpen(c) \/ CounterWrite(c) \/ Sign(c) \/ Emit(c) \/ GiveUp(c)

AttesterNext ==
    \/ \E c \in Call : Attest(c)
    \/ \E p \in emitted : RecordVerdict(p)

-----------------------------------------------------------------------------
(* Properties. *)

AttesterTypeOK ==
    /\ counter \in Nat \cup {Absent}
    /\ holder \in Call \cup {NoCall}
    /\ marker \in BOOLEAN
    /\ call \in [Call -> Running \cup {NoCall}]
    /\ signed \subseteq Payload
    /\ emitted \subseteq Payload
    /\ lastCounter \in Nat

\* Calls that overlap, fail half way or are cut off never get two payloads
\* signed with one counter.
CounterSignedOnce ==
    \A p, q \in signed : p.counter = q.counter => p = q

\* A bundle asked for after another was recorded has a counter above that one's, whatever
\* has happened to the counter's object and to other calls in between: the contract takes
\* it, unless a bundle of a call that overlaps this one is recorded first.
FreshAfterRecord ==
    \A c \in Call : At(c, "sign") \/ At(c, "emit") => call[c].val > call[c].since

\* A call that begins after the device is tripped signs nothing, even when the
\* marker cannot be read by then.
TrippedNeverSigns ==
    \A c \in Call : call[c] # NoCall /\ call[c].late => call[c].at = "enter"
=============================================================================
