------------------------ MODULE AppendOnlyCosigner ------------------------
(***************************************************************************)
(* What a witness promises, whatever its log, its disk or its process do:  *)
(* it remembers one tree head durably, replaces it only by an append-only  *)
(* extension, and gives out a cosignature only for the head it remembers.  *)
(* It may lose its memory, and then it gives out nothing any more.         *)
(***************************************************************************)
EXTENDS TreeHeads

CONSTANTS
    Cosigner,
    Lost        \* a memory that is gone

VARIABLES
    trusted,    \* per cosigner, the tree head it remembers
    given       \* per cosigner, the heads it gave out a cosignature for

avars == <<trusted, given>>

AInit ==
    /\ trusted = [c \in Cosigner |-> NoView]
    /\ given = [c \in Cosigner |-> {}]

\* c replaces its head by an extension.
Trust(c) ==
    /\ trusted[c] # Lost
    /\ trusted'[c] \in TreeHead
    /\ Extends(trusted'[c], trusted[c])
    /\ trusted' = [trusted EXCEPT ![c] = trusted'[c]]

\* The new head stays with c (it stopped before the cosignature was out).
Remember(c) == Trust(c) /\ UNCHANGED given

\* The new head is remembered and its cosignature is out.
Give(c) ==
    /\ Trust(c)
    /\ given' = [given EXCEPT ![c] = @ \cup {trusted'[c]}]

Lose(c) ==
    /\ trusted' = [trusted EXCEPT ![c] = Lost]
    /\ UNCHANGED given

ANext == \E c \in Cosigner : Remember(c) \/ Give(c) \/ Lose(c)

ASpec == AInit /\ [][ANext]_avars
=============================================================================
