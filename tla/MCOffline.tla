----------------------------- MODULE MCOffline -----------------------------
(***************************************************************************)
(* One instance of every part that has no process in common with another   *)
(* and no connection to one: what is computed from files and arguments.    *)
(* A behavior is a behavior of one of the parts; the others stay as they   *)
(* start.                                                                  *)
(***************************************************************************)
EXTENDS RelyingParty, CheckpointAnchor, BundleReader, ProverQuorum, Consent, ReceiptChain, TLC

\* Lagrange interpolation, on which the theorems about he-consent rest.
ASSUME ShamirAssumption == ShamirOpens /\ ShamirHides

VARIABLE part    \* which part moves

Part == {"log", "anchor", "reader", "quorum", "consent", "receipt"}

logAlone == UNCHANGED <<part, anchorVars, readerVars, quorumVars, consentVars, receiptVars>>
anchorAlone == UNCHANGED <<part, leaves, readerVars, quorumVars, consentVars, receiptVars>>
readerAlone == UNCHANGED <<part, leaves, anchorVars, quorumVars, consentVars, receiptVars>>
quorumAlone == UNCHANGED <<part, leaves, anchorVars, readerVars, consentVars, receiptVars>>
consentAlone == UNCHANGED <<part, leaves, anchorVars, readerVars, quorumVars, receiptVars>>
receiptAlone == UNCHANGED <<part, leaves, anchorVars, readerVars, quorumVars, consentVars>>

Init ==
    /\ part \in Part
    /\ LogInit /\ AnchorInit /\ ConsentInit /\ ReceiptInit
    /\ IF part = "reader" THEN ReaderInit ELSE payload = <<>> /\ msg = <<>> /\ edits = 0
    /\ IF part = "quorum" THEN QuorumInit ELSE roots = <<>> /\ bundles = {}

Next ==
    \/ part = "log" /\ LogNext /\ logAlone
    \/ part = "anchor" /\ AnchorNext /\ anchorAlone
    \/ part = "reader" /\ ReaderNext /\ readerAlone
    \/ part = "quorum" /\ QuorumNext /\ quorumAlone
    \/ part = "consent" /\ ConsentNext /\ consentAlone
    \/ part = "receipt" /\ ReceiptNext /\ receiptAlone

Spec ==
    Init /\ [][Next]_<<part, leaves, anchorVars, readerVars, quorumVars, consentVars, receiptVars>>

\* Only one part moves, so parts may share model values.
Symmetry == Permutations(Leaf) \cup Permutations(Log) \cup Permutations(Key)
=============================================================================
