---------------------------- MODULE BundleReader ----------------------------
(***************************************************************************)
(* The bound output as a sequence of CBOR items, and the code that writes  *)
(* and reads it: the encoder of the device, the Go reader of the payload   *)
(* and of its COSE_Sign1 envelope, and the reader of HonestEarQuorum.      *)
(*                                                                         *)
(* An item is a head and, for a string, its bytes.  A head has an argument *)
(* and the number of bytes it takes after the first one; what fits in fewer*)
(* can be written in more.  An edit changes items as a faulty encoder or a *)
(* damaged file would; a string whose length does not match the bytes that *)
(* follow is cut off, and every reader rejects it.                         *)
(***************************************************************************)
EXTENDS SequencesExt, Integers

CONSTANTS
    Datum,      \* contents of nonces and hashes
    Byte,       \* what an argument of one byte stays below (2^8),
    Short,       \* of two bytes (2^16),
    Word,       \* and of four (2^32); the contract keeps uint32 fields modulo this
    MaxDepth,   \* maxCBORDepth
    MaxEdits    \* bound on the number of edits

ASSUME ReaderAssumption ==
    /\ {Byte, Short, Word, MaxDepth} \subseteq Nat
    /\ 64 < Byte /\ Byte < Short /\ Short < Word

VARIABLES payload, msg, edits    \* a raw payload, a COSE_Sign1 message, edits so far

readerVars == <<payload, msg, edits>>

NonceMax == 64
HashLen == 32

\* The bytes put_head gives an argument after the first: the fewest that hold it.
Width(n) ==
    IF n < 24 THEN 0 ELSE IF n < Byte THEN 1 ELSE IF n < Short THEN 2 ELSE IF n < Word THEN 4 ELSE 8

\* The least argument readHead takes in w bytes.
Least(w) ==
    IF w = 0 THEN 0 ELSE IF w = 1 THEN 24 ELSE IF w = 2 THEN Byte ELSE IF w = 4 THEN Short ELSE Word

Item(major, arg, data) == [major |-> major, arg |-> arg, width |-> Width(arg), data |-> data]
Uint(n) == Item(0, n, <<>>)
Bstr(len, data) == Item(2, len, data)
Bytes(d) == <<[major |-> 8, arg |-> 0, width |-> 0, data |-> d]>>    \* contents that are no items
Cut == <<Uint(99)>>     \* the contents of a string the buffer ends in

Keys == 0..10
BstrKeys == {1, 8, 9, 10}
Major(key) == IF key \in BstrKeys THEN 2 ELSE IF key = 3 THEN 7 ELSE 0

-----------------------------------------------------------------------------
(* The payload. *)

\* he_payload_encode: map(11), keys in ascending order, shortest heads.
EncodePayload(pred) ==
    [i \in 1..23 |->
        LET key == i \div 2 - 1 IN
        IF i = 1 THEN Item(5, 11, <<>>)
        ELSE IF i % 2 = 0 THEN Uint(key)
        ELSE Item(Major(key), pred[key].arg, pred[key].data)]

Value(item) == [arg |-> item.arg, data |-> item.data]

\* Mutant of readHead: < for <= at the edge of a form.
readHeadAtEdge(s, p) == p \in DOMAIN s /\ s[p].arg >= Least(s[p].width) - 1

\* readHead at position p: there is a head, in a form its argument needs.
readHead(s, p) == p \in DOMAIN s /\ s[p].arg >= Least(s[p].width)

readUint(s, p) == readHead(s, p) /\ s[p].major = 0
readBstr(s, p) == readHead(s, p) /\ s[p].major = 2 /\ s[p].data # Cut
readBool(s, p) == p \in DOMAIN s /\ s[p].major = 7 /\ s[p].width = 0 /\ s[p].arg \in {20, 21}

\* The value of a key has its type and, for a string, its length.
readField(key, s, p) ==
    /\ key = 1 => readBstr(s, p) /\ s[p].arg <= NonceMax
    /\ key = 3 => readBool(s, p)
    /\ key \in {8, 9, 10} => readBstr(s, p) /\ s[p].arg = HashLen
    /\ key \notin {1, 3, 8, 9, 10} => readUint(s, p)

NoFields == [k \in {} |-> 0]
Failed == [ok |-> FALSE, pos |-> 0, last |-> -1, pred |-> NoFields]
AfterMapHead == [ok |-> TRUE, pos |-> 2, last |-> -1, pred |-> NoFields]

\* The reader after a pair of a key and a value that stands for v.
Past(r, key, v) ==
    [ok |-> TRUE, pos |-> r.pos + 2, last |-> key,
     pred |-> [k \in DOMAIN r.pred \cup {key} |-> IF k = key THEN v ELSE r.pred[k]]]

\* One turn of the loop over the pairs of the map.
readPair(s, r) ==
    IF /\ r.ok
       /\ readUint(s, r.pos)
       /\ s[r.pos].arg > r.last
       /\ s[r.pos].arg \in Keys
       /\ readField(s[r.pos].arg, s, r.pos + 1)
    THEN Past(r, s[r.pos].arg, Value(s[r.pos + 1]))
    ELSE Failed

\* The loop: the reader after the first n pairs.
pairs(s) ==
    LET after[n \in Nat] == IF n = 0 THEN AfterMapHead ELSE readPair(s, after[n - 1])
    IN  after

DecodePayload(s) ==
    IF ~readHead(s, 1) \/ s[1].major # 5 THEN Failed
    ELSE LET r == pairs(s)[s[1].arg]
         IN IF r.ok /\ DOMAIN r.pred = Keys /\ r.pos = Len(s) + 1 THEN r ELSE Failed

-----------------------------------------------------------------------------
(* The contract's reader of the same bytes. *)

DeviceKeys == {0, 1, 2, 3, 4, 5, 7, 9}

\* _val: any value type the encoder emits, an integer in any form; a string
\* with at most one length byte counts as 0.
ValOK(v) ==
    \/ v.major = 0
    \/ v.major = 7 /\ v.width = 0 /\ v.arg \in {20, 21}
    \/ v.major = 2 /\ v.data # Cut /\ v.width <= 1

Val(v) == IF v.major = 0 THEN v.arg ELSE IF v.major = 7 THEN v.arg - 20 ELSE 0

\* What is kept of a field: the strings, the counter in 64 bits, the rest in 32.
Kept(key, v) ==
    IF key \in {1, 9} THEN v.data
    ELSE <<Uint(IF key = 7 THEN Val(v) ELSE Val(v) % Word)>>

\* Mutant of readDeviceField: input_hash is taken from the key before it.
readDeviceFieldShifted(s, r) ==
    IF ~r.ok \/ r.pos > Len(s) \/ DeviceKeys \subseteq DOMAIN r.pred THEN r
    ELSE IF r.pos < Len(s) /\ ValOK(s[r.pos + 1])
         THEN LET k == s[r.pos].arg IN
              Past(r, IF k = 8 THEN 9 ELSE k, Kept(k, s[r.pos + 1]))
         ELSE Failed

\* One turn of the loop, which ends when the eight fields are there.  A key is
\* one byte; a longer or larger one is beyond 10, and no field can follow it.
readDeviceField(s, r) ==
    IF ~r.ok \/ r.pos > Len(s) \/ DeviceKeys \subseteq DOMAIN r.pred THEN r
    ELSE LET key == s[r.pos] v == s[r.pos + 1] IN
         IF /\ r.pos < Len(s)
            /\ key.major = 0 /\ key.width = 0
            /\ key.arg > r.last
            /\ key.arg \in Keys
            /\ ValOK(v)
            /\ key.arg \in {1, 9} => v.major = 2
            /\ key.arg = 9 => v.arg = HashLen /\ v.width = 1
         THEN Past(r, key.arg, Kept(key.arg, v))
         ELSE Failed

\* The loop, after n turns.
fields(s) ==
    LET after[n \in Nat] == IF n = 0 THEN AfterMapHead ELSE readDeviceField(s, after[n - 1])
    IN  after

readDevice(s) ==
    IF s = <<>> \/ s[1].major # 5 \/ s[1].arg # 11 \/ s[1].width # 0 THEN Failed
    ELSE LET r == fields(s)[Len(s)]
         IN IF DeviceKeys \subseteq DOMAIN r.pred THEN r ELSE Failed

-----------------------------------------------------------------------------
(* The COSE_Sign1 envelope. *)

\* The items that follow a head and belong to it.
Nested(x) ==
    CASE x.major = 4 -> x.arg [] x.major = 5 -> 2 * x.arg [] x.major = 6 -> 1 [] OTHER -> 0

\* Mutant of skipValue: a map has as many items as pairs.
skipValueByPair(s) ==
    LET skip[depth \in Nat] ==
            [p \in Nat |->
                IF depth = 0 \/ ~readHead(s, p) \/ s[p].data = Cut \/ Nested(s[p]) > Len(s) - p THEN 0
                ELSE LET after[n \in Nat] == IF n = 0 THEN p + 1 ELSE skip[depth - 1][after[n - 1]]
                     IN  after[IF s[p].major = 5 THEN s[p].arg ELSE Nested(s[p])]]
    IN  skip[MaxDepth]

\* skipValue: for each position, the one after the item there with everything
\* nested in it, or 0.  It goes MaxDepth levels deep.  With fewer items left than belong
\* to one, the loop over them ends in a failure; here it is not started.
skipValue(s) ==
    LET skip[depth \in Nat] ==
            [p \in Nat |->
                IF depth = 0 \/ ~readHead(s, p) \/ s[p].data = Cut \/ Nested(s[p]) > Len(s) - p THEN 0
                ELSE LET after[n \in Nat] == IF n = 0 THEN p + 1 ELSE skip[depth - 1][after[n - 1]]
                     IN  after[Nested(s[p])]]
    IN  skip[MaxDepth]

\* requireES256: the header is a map, and its first label 1 has the value -7.
requireES256(header) ==
    LET label[i \in Nat] == IF i = 0 THEN 2 ELSE skipValue(header)[label[i - 1] + 1] IN
    /\ readHead(header, 1) /\ header[1].major = 5
    /\ \E i \in 0..(header[1].arg - 1) :
          /\ \A j \in 0..i : readUint(header, label[j]) /\ (header[label[j]].arg = 1 <=> j = i)
          /\ readHead(header, label[i] + 1)
          /\ header[label[i] + 1].major = 1 /\ header[label[i] + 1].arg = 6

coseProtected == Bstr(3, <<Item(5, 1, <<>>), Uint(1), Item(1, 6, <<>>)>>)

\* Mutant of coseSigStruct: the signature covers the content, not its header.
coseSigStructBare(prot, body) == <<Bstr(0, <<>>), body>>

coseSigStruct(prot, body) == <<prot, Bstr(0, <<>>), body>>

\* SignCOSESign1.  The signature stands for what it is over.
SignCOSESign1(s) ==
    <<Item(6, 18, <<>>), Item(4, 4, <<>>), coseProtected, Item(5, 0, <<>>), Bstr(123, s),
      Bstr(64, coseSigStruct(coseProtected, Bstr(123, s)))>>

\* parseCOSESign1: tag 18 is optional, the unprotected header is skipped,
\* nothing follows the signature.
parseCOSESign1(s) ==
    LET a == IF s # <<>> /\ s[1] = Item(6, 18, <<>>) THEN 2 ELSE 1
        b == skipValue(s)[a + 2]
    IN IF /\ readHead(s, a) /\ s[a].major = 4 /\ s[a].arg = 4
          /\ readBstr(s, a + 1) /\ requireES256(s[a + 1].data)
          /\ readBstr(s, b)
          /\ readBstr(s, b + 1) /\ s[b + 1].arg = 64
          /\ Len(s) = b + 1
       THEN [ok |-> TRUE, prot |-> s[a + 1], body |-> s[b], sig |-> s[b + 1].data]
       ELSE [ok |-> FALSE]

\* VerifyCOSEBundle, up to the gates on the decoded predicate.
VerifyCOSE(s) ==
    LET m == parseCOSESign1(s) IN
    IF m.ok /\ m.sig = coseSigStruct(m.prot, m.body) THEN DecodePayload(m.body.data) ELSE Failed

-----------------------------------------------------------------------------
(* Payloads with edits. *)

Predicates ==
    LET hash(d) == [arg |-> HashLen, data |-> Bytes(d)] num(n) == [arg |-> n, data |-> <<>>]
    IN { [k \in Keys |-> IF k = 1 THEN [arg |-> 16, data |-> Bytes(d)]
                         ELSE IF k = 3 THEN num(21)
                         ELSE IF k \in BstrKeys THEN hash(d)
                         ELSE num(1)] : d \in Datum }

\* Only a string has contents.
Entry(major, arg, width, data) ==
    [major |-> major, arg |-> arg, width |-> width, data |-> IF major = 2 THEN data ELSE <<>>]

\* What an item is replaced by: an argument at the edge of a form, within it or one too
\* small for it; the longest form; another value or type.
Changes(x) ==
    { Entry(x.major, Least(w) - k, w, x.data) : w \in {1, 2, 4, 8}, k \in {0, 1} }
    \cup { Entry(x.major, x.arg, 8, x.data), Entry(x.major, x.arg + 1, Width(x.arg + 1), x.data),
           Entry(7, 20, 0, x.data) }
    \cup { Entry(major, x.arg, x.width, x.data) : major \in {0, 2} }
    \cup { Entry(x.major, x.arg, x.width, Bytes(d)) : d \in Datum }

Edited(s) ==
    UNION { { ReplaceAt(s, i, x) : x \in Changes(s[i]) }
            \cup { RemoveAt(s, i), InsertAt(s, i, s[i]), SubSeq(s, 1, i - 1),
                   InsertAt(s, i + 1, Uint(11)), InsertAt(s, i, Item(4, 1, <<>>)) }
            \cup (IF s[i].major = 2 THEN { Append(SubSeq(s, 1, i - 1), Bstr(s[i].arg, Cut)) }
                  ELSE {})
            \cup (IF i + 3 <= Len(s)
                  THEN { SubSeq(s, 1, i - 1) \o SubSeq(s, i + 2, i + 3) \o SubSeq(s, i, i + 1)
                             \o SubSeq(s, i + 4, Len(s)) }
                  ELSE {}) : i \in DOMAIN s }

\* Either of them; the other is empty and stays so.
ReaderInit ==
    /\ \E p \in Predicates :
          \/ payload = EncodePayload(p) /\ msg = <<>>
          \/ payload = <<>> /\ msg = SignCOSESign1(EncodePayload(p))
    /\ edits = 0

EditPayload ==
    /\ edits < MaxEdits
    /\ edits' = edits + 1
    /\ payload' \in Edited(payload)
    /\ UNCHANGED msg

EditMessage ==
    /\ edits < MaxEdits
    /\ edits' = edits + 1
    /\ msg' \in Edited(msg)
    /\ UNCHANGED payload

ReaderNext == EditPayload \/ EditMessage

ReaderSpec == ReaderInit /\ [][ReaderNext]_readerVars

-----------------------------------------------------------------------------
(* Properties. *)

\* A predicate has one encoding: whatever DecodePayload accepts is, item by item and
\* with every number in the fewest bytes, what the device's encoder emits for the
\* fields it returns.
OneEncoding ==
    LET r == DecodePayload(payload) IN r.ok => payload = EncodePayload(r.pred)

\* The contract reads what Go reads: a payload DecodePayload accepts, with fields
\* of the widths the device has, is accepted by _readDevice with the same fields.
ChainReadsTheSame ==
    LET r == DecodePayload(payload) IN
    r.ok /\ (\A k \in {0, 2, 4, 5} : r.pred[k].arg < Word) =>
        LET d == readDevice(payload) IN
        /\ d.ok
        /\ \A k \in {1, 9} : d.pred[k] = r.pred[k].data
        /\ d.pred[3] = <<Uint(r.pred[3].arg - 20)>>
        /\ \A k \in {0, 2, 4, 5, 7} : d.pred[k] = <<Uint(r.pred[k].arg)>>

\* An envelope that is accepted holds a predicate its signer signed and names
\* ES256 first, however it was edited on the way, the header that is skipped included.
EnvelopeBinds ==
    LET r == VerifyCOSE(msg) IN
    r.ok => /\ r.pred \in Predicates
            /\ coseProtected \in ToSet(msg)

\* The items that are still to come at q, of the one that starts at p.
Open(s, p, q) == 1 + MapThenSumSet(LAMBDA i : Nested(s[i]) - 1, p..(q - 1))

\* The item at p, with everything nested in it, ends before q.
Ends(s, p, q) == Open(s, p, q) = 0 /\ \A k \in p..(q - 1) : Open(s, p, k) > 0

\* skipValue passes over one item and all of it, wherever it starts: the recursion ends
\* where the count of items to come does, and it gives up only on a head in a longer form,
\* on a string that is cut off and on more levels than it may go.
SkipsOneItem ==
    \A p \in DOMAIN msg :
        LET q == skipValue(msg)[p] IN
        /\ q # 0 => Ends(msg, p, q)
        /\ \A e \in (p + 1)..(Len(msg) + 1) :
              /\ Ends(msg, p, e)
              /\ e - p <= MaxDepth
              /\ \A i \in p..(e - 1) : readHead(msg, i) /\ msg[i].data # Cut
              => q = e
=============================================================================
