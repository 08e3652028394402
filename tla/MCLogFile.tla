----------------------------- MODULE MCLogFile -----------------------------
(***************************************************************************)
(* Instances of LogFile for TLC: a longer log without a check beside the   *)
(* daemon, and a shorter one with it.                                      *)
(***************************************************************************)
EXTENDS LogFile, TLC

CONSTANTS v1, w1, ShortSize

VARIABLE beside    \* a check is run beside the daemon

ViewOfV1 == [w \in Witness |-> v1]

MCInit == FileInit /\ beside \in BOOLEAN

MCNext ==
    /\ FileNext
    /\ UNCHANGED beside
    /\ IF beside
       THEN \A a \in Adder : job'[a] # NoJob => Len(job'[a].copy) <= ShortSize
       ELSE UNCHANGED check

MCSpec == MCInit /\ [][MCNext]_<<logFileVars, beside>> /\ FileFairness
=============================================================================
