---------------------------- MODULE ReceiptChain ----------------------------
(***************************************************************************)
(* Restraint receipts (receipt.go, he-receipt).  `emit` signs a receipt    *)
(* with the session, batch number and digest that it is given, and prints  *)
(* it with its own digest; followers verify what reaches them, lost,       *)
(* repeated and out of order, and thread the digest from one `verify` to   *)
(* the next.                                                               *)
(*                                                                         *)
(* Whoever runs `emit` is meant to pass the digest of the session's last   *)
(* receipt, one run at a time.  It may as well pass none, an old one or    *)
(* that of another session, run two at a time, and number as it likes.     *)
(***************************************************************************)
EXTENDS Naturals, FiniteSets, SequencesExt

CONSTANTS
    Session,      \* sessions under one device key
    Batch,        \* the numbers given as --batch
    Window,       \* what a batch was made from
    Emit,         \* runs of `he-receipt emit`
    Follower,     \* verifiers that start with the genesis digest
    MaxReceipts,  \* bound on the receipts signed
    Idle          \* an emit that is not running

VARIABLES
    receipts,   \* the receipts signed under the device key, in order
    tip,        \* per session, the digest printed last
    given,      \* per emit, the session and --prev it was started with
    chain,      \* per follower, the receipts it has accepted
    expected,   \* per follower, its --expect-prev
    lapses      \* sessions in which emits overlapped or --prev was not the last digest

receiptVars == <<receipts, tip, given, chain, expected, lapses>>

Genesis == <<>>    \* 32 zero bytes

\* Mutant of ReceiptDigest: the session is not part of the body.
DigestSansSession(r) == <<r.batch, r.window, r.retained, r.prev>>

\* ReceiptBody and ReceiptDigest: SHA-256 of every field, prev_digest included.
ReceiptDigest(r) == <<r.session, r.batch, r.window, r.retained, r.prev>>

-----------------------------------------------------------------------------
(* he-receipt emit. *)

\* What can be passed as --prev and ever be expected: nothing, or a digest that
\* was printed.
Known == {Genesis} \cup { ReceiptDigest(r) : r \in ToSet(receipts) }

Overlaps(s) == \E d \in Emit : given[d] # Idle /\ given[d].session = s

\* Mutant of StartEmit: --prev is not passed on.
StartEmitBare(e, s, prev) ==
    /\ given[e] = Idle
    /\ given' = [given EXCEPT ![e] = [session |-> s, prev |-> Genesis]]
    /\ lapses' = IF prev # tip[s] \/ Overlaps(s) THEN lapses \cup {s} ELSE lapses
    /\ UNCHANGED <<receipts, tip, chain, expected>>

StartEmit(e, s, prev) ==
    /\ given[e] = Idle
    /\ given' = [given EXCEPT ![e] = [session |-> s, prev |-> prev]]
    /\ lapses' = IF prev # tip[s] \/ Overlaps(s) THEN lapses \cup {s} ELSE lapses
    /\ UNCHANGED <<receipts, tip, chain, expected>>

\* runEmit: sign the receipt, print it and its digest.
FinishEmit(e, n, w, retained) ==
    /\ given[e] # Idle
    /\ Len(receipts) < MaxReceipts
    /\ LET r == [session |-> given[e].session, batch |-> n, window |-> w,
                 retained |-> retained, prev |-> given[e].prev]
       IN /\ receipts' = Append(receipts, r)
          /\ tip' = [tip EXCEPT ![given[e].session] = ReceiptDigest(r)]
    /\ given' = [given EXCEPT ![e] = Idle]
    /\ UNCHANGED <<chain, expected, lapses>>

\* The process dies.
LoseEmit(e) ==
    /\ given[e] # Idle
    /\ given' = [given EXCEPT ![e] = Idle]
    /\ UNCHANGED <<receipts, tip, chain, expected, lapses>>

-----------------------------------------------------------------------------
(* he-receipt verify. *)

\* VerifyReceipt with the device's key pinned and --require-not-retained: the
\* link to the receipt accepted before is checked, session and batch are not.
VerifyReceipt(r, prev) == ~r.retained /\ r.prev = prev

\* A receipt reaches a follower, who accepts it or stays where it is.
Accept(f, r) ==
    /\ VerifyReceipt(r, expected[f])
    /\ chain' = [chain EXCEPT ![f] = Append(@, r)]
    /\ expected' = [expected EXCEPT ![f] = ReceiptDigest(r)]
    /\ UNCHANGED <<receipts, tip, given, lapses>>

ReceiptInit ==
    /\ receipts = <<>>
    /\ tip = [s \in Session |-> Genesis]
    /\ given = [e \in Emit |-> Idle]
    /\ chain = [f \in Follower |-> <<>>]
    /\ expected = [f \in Follower |-> Genesis]
    /\ lapses = {}

ReceiptNext ==
    \/ \E e \in Emit :
          \/ \E s \in Session, prev \in Known : StartEmit(e, s, prev)
          \/ \E n \in Batch, w \in Window, retained \in BOOLEAN : FinishEmit(e, n, w, retained)
          \/ LoseEmit(e)
    \/ \E f \in Follower, r \in ToSet(receipts) : Accept(f, r)

ReceiptSpec == ReceiptInit /\ [][ReceiptNext]_receiptVars

-----------------------------------------------------------------------------
(* Properties. *)

\* A follower takes no receipt twice.  As long as the session it is in was started
\* on and continued from its own last digest, one emit at a time, the follower has
\* every receipt of that session up to the one it took last and none of another;
\* a session that was given another's digest it may have followed there.
ChainIsOneSession ==
    \A f \in Follower : LET c == chain[f] IN
        /\ IsInjective(c)
        /\ c # <<>> /\ Last(c).session \notin lapses =>
              \E n \in DOMAIN receipts :
                  /\ receipts[n] = Last(c)
                  /\ ToSet(c) = { receipts[i] : i \in { j \in 1..n : receipts[j].session = Last(c).session } }

\* Two followers that began in one session are on one chain, or the first receipts
\* in which they differ carry the same prev_digest, for all to see; and then the
\* session of one of the two was not continued as it is meant to be.
ForkIsSigned ==
    \A f, g \in Follower :
        LET c == chain[f] d == chain[g] IN
        c # <<>> /\ d # <<>> /\ c[1].session = d[1].session =>
            \/ IsPrefix(c, d) \/ IsPrefix(d, c)
            \/ \E i \in DOMAIN c \cap DOMAIN d :
                  /\ c[i] # d[i] /\ c[i].prev = d[i].prev
                  /\ (c[i].session \in lapses \/ d[i].session \in lapses)
=============================================================================
