---------------------------- MODULE ProverQuorum ----------------------------
(***************************************************************************)
(* A relying party (he-verify --quorum, he-verify --co-attest, he-log      *)
(* cosign-verify) that is handed bundles one after another, by anyone and  *)
(* in any order, and decides on those it has.                              *)
(*                                                                         *)
(* A bundle is what the gates look at: the key it names, the key that      *)
(* signed it, whether s is low, whether it echoes the nonce of this        *)
(* challenge, and the fields of its predicate.                             *)
(***************************************************************************)
EXTENDS Integers, FiniteSets, SequencesExt

CONSTANTS
    Key,          \* public keys
    Name,         \* names of enrolled provers
    Input,        \* sensor inputs (input_hash), 1 among them
    EventID,      \* event ids in predicates, known to EventName or not, 1 among them
    LastCounter,  \* --last-counter
    MaxBundles    \* bound on the bundles handed over

ASSUME QuorumAssumption == EventID \subseteq Nat /\ LastCounter \in Nat /\ MaxBundles \in Nat

VARIABLES
    roots,    \* --root name:x:y, in the order given: the same name or key may recur
    bundles   \* the files handed over so far, given to the command in any order

quorumVars == <<roots, bundles>>

-----------------------------------------------------------------------------
(* One bundle. *)

EventName(b) == CASE b.event = 2 -> "alarm_tone" [] b.event = 1 -> "voice" [] OTHER -> "none"

\* gatesAfterSig without a chain: freshness and anti-replay.
gates(b) == b.nonce /\ b.counter > LastCounter

\* VerifyBundle and VerifyCOSEBundle: the same gates behind each one's signature.
verify(b, pinned) ==
    /\ b.pub \in pinned
    /\ b.signer = b.pub
    /\ b.lowS
    /\ gates(b)

\* parseProverInput, checkBundleParses: it is one of the two envelopes.
Parses(b) == b.envelope \in {"raw", "cose"}

-----------------------------------------------------------------------------
(* k of n provers. *)

\* Mutant of matchKeyHex: the name decides, a key enrolled twice votes twice.
matchEveryName(b) == { i \in DOMAIN roots : roots[i].key = b.pub }

\* matchKeyHex: the first enrolled root with the bundle's key, if any.
matchKeyHex(b) ==
    LET same == { i \in DOMAIN roots : roots[i].key = b.pub } IN
    { i \in same : \A j \in same : i <= j }

\* Mutant of vote: the vote is the last bundle of the key, if it verifies.
voteLast(votes, b) ==
    LET names == { roots[i].name : i \in matchKeyHex(b) }
    IN  IF verify(b, Key)
        THEN [n \in DOMAIN votes \cup names |-> IF n \in names THEN b ELSE votes[n]]
        ELSE [n \in DOMAIN votes \ names |-> votes[n]]

\* One turn of the loop of quorumCore: the first bundle that verifies is the
\* vote of the root's name.
vote(votes, b) ==
    LET names == { roots[i].name : i \in { j \in matchKeyHex(b) : verify(b, {roots[j].key}) } }
    IN  [n \in DOMAIN votes \cup names |-> IF n \in DOMAIN votes THEN votes[n] ELSE b]

\* The loop: the votes after the first i inputs.  VerifyQuorumJSON ignores what
\* does not parse.
passed(inputs) ==
    LET after[i \in Nat] ==
            IF i = 0 THEN [n \in {} |-> 0]
            ELSE IF Parses(inputs[i]) THEN vote(after[i - 1], inputs[i])
            ELSE after[i - 1]
    IN  after

votesOf(inputs) == passed(inputs)[Len(inputs)]

\* The end of quorumCore: the agreed event, or none.
Decide(votes, k) ==
    LET events == { EventName(votes[n]) : n \in DOMAIN votes } IN
    IF k \in 1..Len(roots) /\ Cardinality(DOMAIN votes) >= k /\ Cardinality(events) = 1
    THEN events ELSE {}

quorumCore(inputs, k) == Decide(votesOf(inputs), k)

\* he-verify --quorum: a file that does not parse stops the command instead.
runQuorum(inputs, k) ==
    IF \A i \in DOMAIN inputs : Parses(inputs[i]) THEN quorumCore(inputs, k) ELSE {}

-----------------------------------------------------------------------------
(* k modalities under one nonce. *)

\* Mutant of modality: bundles are told apart by their event.
modalityByEvent(seen, b, pinned) ==
    IF verify(b, pinned) /\ \A s \in ToSet(seen) : s.event # b.event
    THEN Append(seen, b) ELSE seen

\* One turn of the loop of coAttestCore: pinned is the device's key, or all keys if none
\* is given.
modality(seen, b, pinned) ==
    IF verify(b, pinned) /\ \A s \in ToSet(seen) : s.input # b.input
    THEN Append(seen, b) ELSE seen

\* The loop: what has been accepted of the first i inputs.
modalities(inputs, pinned) ==
    LET after[i \in Nat] ==
            IF i = 0 THEN <<>>
            ELSE IF Parses(inputs[i]) THEN modality(after[i - 1], inputs[i], pinned)
            ELSE after[i - 1]
    IN  after

coAttestCore(inputs, k, pinned) == k > 0 /\ Len(modalities(inputs, pinned)[Len(inputs)]) >= k

-----------------------------------------------------------------------------
(* Witness cosignatures: a bundle stands for one, over this body if it has *)
(* the nonce, under any name its sender likes.  No low s, no counter.      *)

\* VerifyCheckpointWitnesses: a name counts once, with the key enrolled for it.
VerifyCheckpointWitnesses(cosigs) ==
    { roots[i].name : i \in { j \in DOMAIN roots : \E c \in cosigs :
         c.pub = roots[j].key /\ c.signer = c.pub /\ c.nonce } }

-----------------------------------------------------------------------------
(* What is handed over: good bundles, and ones with a single flaw. *)

Good == { [envelope |-> "cose", pub |-> key, signer |-> key, lowS |-> TRUE, nonce |-> TRUE,
           counter |-> LastCounter + 1, event |-> e, input |-> in] :
              key \in Key, e \in EventID, in \in Input }

Flawed(b) ==
    { [b EXCEPT !.envelope = "none"], [b EXCEPT !.lowS = FALSE], [b EXCEPT !.nonce = FALSE],
      [b EXCEPT !.counter = LastCounter] } \cup { [b EXCEPT !.signer = k] : k \in Key }

Handed == Good \cup UNION { Flawed(b) : b \in { g \in Good : g.event = 1 /\ g.input = 1 } }

QuorumInit ==
    /\ bundles = {}
    /\ \E n \in 1..MaxBundles : roots \in [1..n -> [name : Name, key : Key]]

\* A file argument more.
Hand(b) ==
    /\ Cardinality(bundles) < MaxBundles
    /\ bundles' = bundles \cup {b}
    /\ UNCHANGED roots

QuorumNext == \E b \in Handed : Hand(b)

QuorumSpec == QuorumInit /\ [][QuorumNext]_quorumVars

-----------------------------------------------------------------------------
(* Properties. *)

Enrolled == { roots[i].key : i \in DOMAIN roots }
Parsed == { b \in bundles : Parses(b) }

\* A quorum is k different enrolled keys, each of which signed a fresh, unreplayed
\* bundle naming the agreed event, whatever else is handed over, in whatever order,
\* and however names and keys recur in the enrolment.  Where every witness has a key
\* of its own, k witnesses that count are as well k keys that signed the very body.
QuorumIsDistinctKeys ==
    /\ \A order \in SetToSeqs(bundles) : LET votes == votesOf(order) IN
          \A k \in 1..Len(roots) : \A e \in Decide(votes, k) :
              Cardinality({ b.pub : b \in { c \in Parsed :
                  c.pub \in Enrolled /\ c.signer = c.pub /\ c.lowS /\ c.nonce
                  /\ c.counter > LastCounter /\ EventName(c) = e } }) >= k
    /\ (\A i, j \in DOMAIN roots :
            roots[i].key = roots[j].key => roots[i].name = roots[j].name) =>
          Cardinality(VerifyCheckpointWitnesses(bundles)) <=
              Cardinality({ c.pub : c \in { d \in bundles : d.signer = d.pub /\ d.nonce } })

\* The verdict is one on the set of files: their order and repetition do not matter,
\* as long as no root's name is behind two valid bundles that name different events.
\* The command decides as the library does when every file parses.
QuorumOrderFree ==
    LET owner(b) == { roots[i].name : i \in matchKeyHex(b) }
        oneVoice == \A b, c \in { d \in Parsed : verify(d, Enrolled) } :
                       owner(b) = owner(c) => EventName(b) = EventName(c)
        one == SetToSeq(bundles)
        votes == votesOf(one)
    IN oneVoice => \A order \in SetToSeqs(bundles) :
          LET others == votesOf(order) again == votesOf(order \o one) IN
          \A k \in 1..Len(roots) :
              /\ Decide(others, k) = Decide(votes, k)
              /\ Decide(again, k) = Decide(votes, k)
              /\ runQuorum(order, k) \in {Decide(votes, k), {}}

\* Co-attestation of k modalities means k different sensor inputs, each in a valid
\* bundle of the pinned device, if one is pinned; and k such inputs are enough, whatever
\* is handed over besides.
CoAttestIsDistinctInputs ==
    \A pinned \in { Key } \cup { {key} : key \in Key } :
        LET inputs == { b.input : b \in { c \in Parsed : verify(c, pinned) } } IN
        \A order \in SetToSeqs(bundles), k \in 1..MaxBundles :
            coAttestCore(order, k, pinned) <=> Cardinality(inputs) >= k
=============================================================================
