--------------------------- MODULE MCTamperWatch ---------------------------
(***************************************************************************)
(* Two instances of TamperWatch for TLC: calls that overlap beside a       *)
(* watcher that only simulates breaches, and a watcher that does all it    *)
(* can beside calls that come one at a time and that nobody records.       *)
(***************************************************************************)
EXTENDS TamperWatch, TLC

CONSTANTS c1, n1

VARIABLE busy    \* calls overlap

Simulated == [key |-> FALSE, hook |-> TRUE, loop |-> FALSE]

MCInit == DeviceInit /\ busy \in BOOLEAN /\ (busy => conf = Simulated)

MCNext ==
    /\ DeviceNext
    /\ UNCHANGED busy
    /\ IF busy
       THEN closed' /\ watch' # "flag" /\ ~signal' /\ flag' = "absent"
       ELSE /\ emitted' = {}
            /\ \A c \in Call : call'[c] # NoCall =>
                   conf.hook /\ ~conf.key /\ c = c1 /\ call'[c].nonce = n1 /\ call'[c].val \in 0..1

MCSpec == MCInit /\ [][MCNext]_<<deviceVars, busy>> /\ DeviceFairness
=============================================================================
