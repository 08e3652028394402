------------------------------ MODULE LogFile ------------------------------
(***************************************************************************)
(* The log file as `he-log add` handles it (read it all, append, truncate  *)
(* it, write it all), several at a time and crashing in between, while     *)
(* he-logd serves it to the witnesses of Witness; and `he-witness check`   *)
(* run beside a daemon, with its key and its state file.                   *)
(*                                                                         *)
(* The operator is honest: nothing but `add` touches the file.  Entries    *)
(* are of one length, so a file's length is its number of leaves.          *)
(***************************************************************************)
EXTENDS Witness, FiniteSets

CONSTANTS
    Adder,    \* runs of `he-log add`
    Beside,   \* the witnesses beside which `he-witness check` is run
    NoJob     \* a command that is not running

ASSUME LogFileAssumption == Tampering = {} /\ Beside \subseteq Witness

VARIABLES
    size,        \* per view, the length of the file
    torn,        \* the views whose file does not parse; log is the last that did
    job,         \* per adder, the view it adds to, its copy, what it does next
    check,       \* per witness, what the check beside it holds and does next
    overlapped   \* the views two adds have worked on at once

fileVars == <<size, torn, job, check, overlapped>>
logFileVars == <<vars, fileVars>>

-----------------------------------------------------------------------------
(* he-log add. *)

Busy(v) == { a \in Adder : job[a] # NoJob /\ job[a].view = v }

\* Mutant of AddLoad: a file that does not parse is taken for an empty one.
AddLoadTorn(a, v, leaf) ==
    /\ job[a] = NoJob
    /\ Len(log[v]) < MaxSize
    /\ job' = [job EXCEPT ![a] = [view |-> v, next |-> "truncate",
                                  copy |-> Append(IF v \in torn THEN <<>> ELSE log[v], leaf)]]
    /\ overlapped' = IF Busy(v) = {} THEN overlapped ELSE overlapped \cup {v}
    /\ UNCHANGED <<vars, size, torn, check>>

\* load and Add; a file that does not parse ends the command.
AddLoad(a, v, leaf) ==
    /\ job[a] = NoJob
    /\ v \notin torn
    /\ Len(log[v]) < MaxSize
    /\ job' = [job EXCEPT ![a] = [view |-> v, next |-> "truncate", copy |-> Append(log[v], leaf)]]
    /\ overlapped' = IF Busy(v) = {} THEN overlapped ELSE overlapped \cup {v}
    /\ UNCHANGED <<vars, size, torn, check>>

\* save: os.WriteFile opens with O_TRUNC ...
AddTruncate(a) ==
    /\ job[a] # NoJob /\ job[a].next = "truncate"
    /\ size' = [size EXCEPT ![job[a].view] = 0]
    /\ torn' = torn \cup {job[a].view}
    /\ job' = [job EXCEPT ![a].next = "write"]
    /\ UNCHANGED <<vars, check, overlapped>>

\* ... and writes from the start.  Over a longer text, that of an add which has
\* truncated and written since we truncated, it leaves the end of that text.
AddWrite(a) ==
    /\ job[a] # NoJob /\ job[a].next = "write"
    /\ LET v == job[a].view IN
       IF size[v] > Len(job[a].copy)
       THEN torn' = torn \cup {v} /\ UNCHANGED <<log, size>>
       ELSE /\ torn' = torn \ {v}
            /\ log' = [log EXCEPT ![v] = job[a].copy]
            /\ size' = [size EXCEPT ![v] = Len(job[a].copy)]
    /\ job' = [job EXCEPT ![a] = NoJob]
    /\ UNCHANGED <<witnessVars, crashes, check, overlapped>>

AddCrash(a) ==
    /\ job[a] # NoJob
    /\ job' = [job EXCEPT ![a] = NoJob]
    /\ UNCHANGED <<vars, size, torn, check, overlapped>>

-----------------------------------------------------------------------------
(* he-witness check beside the daemon. *)

\* load of he-logd: a file that is not there yet is an error as well; the first
\* add writes one with an entry.
Served(w) == ViewOf[w] \notin torn /\ log[ViewOf[w]] # <<>>

CheckEnd(w) == check' = [check EXCEPT ![w] = NoJob]

CheckOn(w, next, view, head) ==
    check' = [check EXCEPT ![w] = [next |-> next, st |-> view, cp |-> head]]

CheckLoad(w) ==
    /\ check[w] = NoJob
    /\ disk[w] # Corrupt
    /\ CheckOn(w, "checkpoint", disk[w], NoView)
    /\ UNCHANGED <<vars, size, torn, job, overlapped>>

\* GET /checkpoint: first sight or unchanged, ahead, refused.
CheckCheckpoint(w) ==
    LET c == log[ViewOf[w]] mine == check[w].st IN
    /\ check[w] # NoJob /\ check[w].next = "checkpoint"
    /\ Served(w)
    /\ \/ mine \in {NoView, c} /\ CheckOn(w, "save", c, NoView)
       \/ mine # NoView /\ Len(c) > Len(mine) /\ CheckOn(w, "proof", mine, c)
       \/ mine \notin {NoView, c} /\ Len(c) <= Len(mine) /\ CheckEnd(w)
    /\ UNCHANGED <<vars, size, torn, job, overlapped>>

\* GET /consistency, accepted or refused.
CheckProof(w) ==
    LET served == log[ViewOf[w]] mine == check[w].st IN
    /\ check[w] # NoJob /\ check[w].next = "proof"
    /\ Served(w)
    /\ IF Len(mine) <= Len(served) /\ ProofVerifies(mine, check[w].cp, served)
       THEN CheckOn(w, "save", check[w].cp, NoView)
       ELSE CheckEnd(w)
    /\ UNCHANGED <<vars, size, torn, job, overlapped>>

\* saveState over whatever the daemon has saved meanwhile, and print.
CheckSave(w) ==
    /\ check[w] # NoJob /\ check[w].next = "save"
    /\ disk' = [disk EXCEPT ![w] = check[w].st]
    /\ published' = [published EXCEPT ![w] = @ \cup {check[w].st}]
    /\ CheckEnd(w)
    /\ UNCHANGED <<log, st, latest, healthOK, pc, cp, crashes, size, torn, job, overlapped>>

\* A request fails, or the process dies, perhaps with the file truncated.
CheckFail(w) ==
    /\ check[w] # NoJob
    /\ CheckEnd(w)
    /\ \/ UNCHANGED disk
       \/ check[w].next = "save" /\ disk' = [disk EXCEPT ![w] = Corrupt]
    /\ UNCHANGED <<log, st, latest, healthOK, pc, cp, published, crashes, size, torn, job, overlapped>>

-----------------------------------------------------------------------------
FileInit ==
    /\ Init
    /\ size = [v \in View |-> 0]
    /\ torn = {}
    /\ job = [a \in Adder |-> NoJob]
    /\ check = [w \in Witness |-> NoJob]
    /\ overlapped = {}

AddEntry ==
    \E a \in Adder :
        \/ \E v \in View, leaf \in Leaf : AddLoad(a, v, leaf)
        \/ AddTruncate(a) \/ AddWrite(a) \/ AddCrash(a)

\* he-logd answers 500 for a file that does not parse: the poll fails.
AskLog(w) == GetCheckpoint(w) \/ PollExtension(w) \/ PollInconsistent(w)

PollFile(w) ==
    /\ (Served(w) /\ AskLog(w)) \/ PollError(w) \/ Save(w) \/ SaveError(w)
    /\ UNCHANGED fileVars

Check(w) ==
    CheckLoad(w) \/ CheckCheckpoint(w) \/ CheckProof(w) \/ CheckSave(w) \/ CheckFail(w)

FileNext ==
    \/ AddEntry
    \/ \E w \in Witness : PollFile(w) \/ ((Start(w) \/ Tick(w) \/ Crash(w)) /\ UNCHANGED fileVars)
    \/ \E w \in Beside : Check(w)

FileSpec == FileInit /\ [][FileNext]_logFileVars

\* As in Witness: the daemon's loop runs and is restarted, a request that he-logd
\* answers is answered in the end.  An add that has started goes on or crashes.
FileFairness ==
    /\ \A a \in Adder : WF_logFileVars(AddTruncate(a) \/ AddWrite(a) \/ AddCrash(a))
    /\ \A w \in Witness :
        /\ WF_logFileVars(PollFile(w))
        /\ WF_logFileVars((Start(w) \/ Tick(w)) /\ UNCHANGED fileVars)
        /\ SF_logFileVars(Served(w) /\ GetCheckpoint(w) /\ UNCHANGED fileVars)
        /\ SF_logFileVars(Served(w) /\ PollExtension(w) /\ UNCHANGED fileVars)
        /\ SF_logFileVars(Save(w) /\ UNCHANGED fileVars)

FairFileSpec == FileSpec /\ FileFairness

-----------------------------------------------------------------------------
(* Properties. *)

\* The heads that are remembered or given out under w's key.
Held(w) ==
    published[w] \cup ({disk[w], st[w]} \ {NoView, Corrupt})
        \cup { check[x].st : x \in { y \in {w} : check[y] # NoJob /\ check[y].st # NoView } }

\* An honest log keeps every entry a witness has seen, through crashes of `add`
\* between truncating and writing and with a check on the daemon's state file,
\* unless two adds overlapped: then the later save drops an entry of the earlier,
\* which witnesses may hold.  Without that no honest log is ever refused for ever.
LossMeansOverlap ==
    \A w \in Witness : ViewOf[w] \notin overlapped =>
        \A c \in Held(w) : Extends(log[ViewOf[w]], c)

\* Once the log stays as it is, every daemon ends up holding a cosignature for
\* it, though its polls meet a file that is being written and a check moves its
\* state file back and forth, unless the log file or the state file was left
\* unreadable, or the log lost an entry the daemon has seen.
DaemonCatchesUp ==
    \A w \in Witness \ OneShot :
        <>[](\/ latest[w] = log[ViewOf[w]]
             \/ ~Served(w)
             \/ disk[w] = Corrupt
             \/ ~Extends(log[ViewOf[w]], st[w]))
=============================================================================
