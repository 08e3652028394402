---------------------------- MODULE TamperWatch ----------------------------
(***************************************************************************)
(* The device: the Attester and the watcher of the enclosure's loop        *)
(* (he_tamper.c), which on a breach erases the key file, writes a flag     *)
(* file and runs a hook that trips the Attester, while the loop opens and  *)
(* closes, files fail, signals arrive and power is cut.                    *)
(*                                                                         *)
(* Only the bytes of the key file are synced to disk.  Its unlink and the  *)
(* flag file are not, and a power cut may undo either of them.  Nobody     *)
(* provisions a new key or removes the flag.                               *)
(***************************************************************************)
EXTENDS Attester

CONSTANT MaxCut    \* bound on power cuts

VARIABLES
    conf,      \* what main was given: a key file, a hook, --loop
    closed,    \* the loop is closed
    events,    \* the edges the kernel has queued for the watcher
    watch,     \* where the watcher is
    from,      \* what it called breach_action for, "none" outside of it
    signal,    \* SIGTERM or SIGINT has been sent
    keyFile,   \* the name of the key file: there, gone, or back after a cut
    content,   \* the bytes on disk: the key, the key after an overwrite that
               \* failed unnoticed ("missed"), or random
    erased,    \* secure_erase has not failed
    flag,      \* the flag file: absent, present, or lost in a cut
    volatile,  \* which of unlink and flag a power cut may still undo
    warned,    \* a flag file could not be written
    told,      \* what the watcher has last said of the device
    acted,     \* this process has responded to a breach
    cuts       \* power cuts so far

breachVars == <<keyFile, content, erased, flag, volatile, warned, told, acted>>
watchVars == <<conf, closed, events, watch, from, signal, breachVars, cuts>>
deviceVars == <<attesterVars, watchVars>>

-----------------------------------------------------------------------------
(* The enclosure and the process. *)

\* The kernel queues an edge once the line has been requested.
MoveLoop ==
    /\ closed' = ~closed
    /\ events' = IF watch = "off" THEN events
                 ELSE events \cup {IF closed THEN "falling" ELSE "rising"}
    /\ UNCHANGED <<conf, watch, from, signal, breachVars, cuts>>

WatchStart ==
    /\ watch = "off"
    /\ watch' = "flag"
    /\ signal' = FALSE /\ told' = "nothing" /\ acted' = FALSE
    /\ UNCHANGED <<conf, closed, events, from, keyFile, content, erased, flag, volatile, warned, cuts>>

Kill(stopped) ==
    /\ signal' = ~stopped
    /\ watch' = IF stopped THEN "off" ELSE watch
    /\ events' = IF stopped THEN {} ELSE events
    /\ from' = IF stopped THEN "none" ELSE from
    /\ UNCHANGED <<conf, closed, breachVars, cuts>>

\* Mutant of Signal: signals are not blocked during the breach.
SignalUnmasked == watch # "off" /\ ~signal /\ Kill(TRUE)

\* breach_action blocks signals until key and flag are dealt with.
Masked == watch \in {"overwrite", "unlink", "write_flag"}

Signal == watch # "off" /\ ~signal /\ Kill(~Masked)

\* What was not synced is on disk, or it is not.
PowerCut(undone) ==
    /\ cuts < MaxCut
    /\ cuts' = cuts + 1
    /\ watch' = "off" /\ from' = "none" /\ events' = {} /\ signal' = FALSE
    /\ keyFile' = IF "unlink" \in undone THEN "back" ELSE keyFile
    /\ flag' = IF "flag" \in undone THEN "lost" ELSE flag
    /\ volatile' = {}
    /\ UNCHANGED <<conf, closed, content, erased, warned, told, acted>>

-----------------------------------------------------------------------------
(* watch_gpio. *)

breach_action(cause) ==
    /\ watch' = "overwrite"
    /\ from' = cause

Quiet(next) == watch' = next /\ UNCHANGED from

HonourFlag ==
    /\ watch = "flag"
    /\ IF flag = "present" THEN breach_action("flag") ELSE Quiet("level")
    /\ UNCHANGED <<conf, closed, events, signal, breachVars, cuts>>

\* A level that cannot be read is passed over.
ReadLevel ==
    /\ watch = "level"
    /\ Quiet("armed") \/ (~closed /\ breach_action("level"))
    /\ closed => watch' = "armed"
    /\ UNCHANGED <<conf, closed, events, signal, breachVars, cuts>>

\* Mutant of ReadEvent: any edge makes it read the level.
ReadEventLevel(e) ==
    /\ watch = "armed"
    /\ e \in events
    /\ events' = events \ {e}
    /\ IF closed THEN Quiet("armed") ELSE breach_action("edge")
    /\ UNCHANGED <<conf, closed, signal, breachVars, cuts>>

\* A falling edge is a breach whatever the level is now.
ReadEvent(e) ==
    /\ watch = "armed"
    /\ e \in events
    /\ events' = events \ {e}
    /\ \/ e = "falling" /\ breach_action("edge")
       \/ e = "rising" /\ Quiet("armed")
       \/ e = "rising" /\ ~closed /\ breach_action("edge")
    /\ UNCHANGED <<conf, closed, signal, breachVars, cuts>>

\* main --simulate
Simulate ==
    /\ watch = "off"
    /\ breach_action("simulate")
    /\ signal' = FALSE /\ told' = "nothing" /\ acted' = FALSE
    /\ UNCHANGED <<conf, closed, events, keyFile, content, erased, flag, volatile, warned, cuts>>

-----------------------------------------------------------------------------
(* breach_action. *)

\* secure_erase up to fclose.  A file that is there may not open or not be sized, and
\* one that is gone may fail to open for another reason than ENOENT.  Nobody looks at
\* whether fputc, fflush and fsync worked.
Overwrite ==
    /\ watch = "overwrite"
    /\ \/ /\ ~conf.key \/ keyFile = "gone"
          /\ erased' = TRUE /\ watch' = "write_flag" /\ UNCHANGED content
       \/ /\ conf.key
          /\ erased' = FALSE /\ watch' = "write_flag" /\ UNCHANGED content
       \/ /\ conf.key /\ keyFile # "gone"
          /\ watch' = "unlink"
          /\ content' \in {"random", IF content = "random" THEN "random" ELSE "missed"}
          /\ UNCHANGED erased
    /\ UNCHANGED <<conf, closed, events, from, signal, keyFile, flag, volatile, warned, told, acted, cuts>>

Unlink ==
    /\ watch = "unlink"
    /\ \/ erased' = TRUE /\ keyFile' = "gone" /\ volatile' = volatile \cup {"unlink"}
       \/ erased' = FALSE /\ UNCHANGED <<keyFile, volatile>>
    /\ watch' = "write_flag"
    /\ UNCHANGED <<conf, closed, events, from, signal, content, flag, warned, told, acted, cuts>>

\* write_flag; then the mask is restored and a pending signal is delivered.
WriteFlag ==
    /\ watch = "write_flag"
    /\ \/ /\ flag' = "present" /\ UNCHANGED warned
          /\ volatile' = IF flag = "present" THEN volatile ELSE volatile \cup {"flag"}
       \/ warned' = TRUE /\ UNCHANGED <<flag, volatile>>
    /\ acted' = TRUE
    /\ watch' = IF signal THEN "off" ELSE "hook"
    /\ events' = IF signal THEN {} ELSE events
    /\ from' = IF signal THEN "none" ELSE from
    /\ signal' = FALSE
    /\ UNCHANGED <<conf, closed, keyFile, content, erased, told, cuts>>

\* Where watch_gpio goes on after a breach, or main returns.
After == IF ~conf.loop \/ from = "simulate" THEN "off" ELSE IF from = "flag" THEN "level" ELSE "armed"

\* The last words, after the hook.
Report ==
    /\ watch = "hook"
    /\ told' = IF erased THEN "dead" ELSE "not dead"
    /\ watch' = After /\ from' = "none"
    /\ events' = IF After = "off" THEN {} ELSE events
    /\ erased' = FALSE
    /\ UNCHANGED <<conf, closed, signal, keyFile, content, flag, volatile, warned, acted, cuts>>

\* system(exec_cmd): `he_host --trip` works, fails or is not configured.
Hook == Report /\ ((conf.hook /\ Trip) \/ UNCHANGED attesterVars)

-----------------------------------------------------------------------------
WatchInit ==
    /\ conf \in [key : BOOLEAN, hook : BOOLEAN, loop : BOOLEAN]
    /\ closed = TRUE
    /\ events = {}
    /\ watch = "off"
    /\ from = "none"
    /\ signal = FALSE
    /\ keyFile = "there"
    /\ content = "key"
    /\ erased = FALSE
    /\ flag = "absent"
    /\ volatile = {}
    /\ warned = FALSE
    /\ told = "nothing"
    /\ acted = FALSE
    /\ cuts = 0

WatchStep ==
    \/ HonourFlag \/ ReadLevel
    \/ \E e \in events : ReadEvent(e)
    \/ Overwrite \/ Unlink \/ WriteFlag

DeviceInit == AttesterInit /\ WatchInit

DeviceNext ==
    \/ AttesterNext /\ UNCHANGED watchVars
    \/ (MoveLoop \/ WatchStart \/ Signal \/ Simulate \/ WatchStep) /\ UNCHANGED attesterVars
    \/ Hook
    \/ \E undone \in SUBSET volatile : PowerCut(undone) /\ AttesterOff

DeviceSpec == DeviceInit /\ [][DeviceNext]_deviceVars

\* A watcher that runs goes on running, and comes to every edge that is queued.
\* Nothing makes sure that the hook returns, or that the watcher is started again.
DeviceFairness ==
    /\ WF_deviceVars(WatchStep /\ UNCHANGED attesterVars)
    /\ WF_deviceVars(ReadEvent("falling") /\ UNCHANGED attesterVars)

FairDeviceSpec == DeviceSpec /\ DeviceFairness

-----------------------------------------------------------------------------
(* Properties. *)

\* The comment in breach_action: no stop signal leaves the key touched and the
\* flag unwritten.  Only a power cut does, or a flag file that cannot be written.
EraseLeavesFlag ==
    cuts = 0 /\ (keyFile # "there" \/ content # "key") /\ ~Masked => flag = "present" \/ warned

\* A watcher that starts with the flag of an earlier breach does not arm without a
\* response.
FlagIsHonoured == flag = "present" /\ watch = "armed" => acted

\* "cryptographically dead" is said only of a key file that is gone and was written
\* over, be it by this breach or by one that was cut off.  A power cut may bring the
\* name back, not the bytes; but writes that failed unnoticed leave those on disk.
DeadMeansGone ==
    told = "dead" /\ conf.key => keyFile \in {"gone", "back"} /\ content \in {"random", "missed"}

\* A breach is answered as a whole or is known not to be: key, flag and what is
\* said of the device agree, through signals, restarts, file errors that are noticed
\* and power cuts, but for what those undo.
BreachIsAtomic == EraseLeavesFlag /\ FlagIsHonoured /\ DeadMeansGone

\* What the comment on secure_erase promises: a key is not reported as destroyed
\* that is not.  The code does not keep to it.
DeadMeansDestroyed == told = "dead" /\ conf.key => content = "random"

\* An edge that the watcher has queued ends in a response, were the loop closed
\* again at once and be it the first edge or a later one under --loop, and so does a
\* flag it starts with; unless it is stopped meanwhile.
BreachIsAnswered ==
    /\ (watch = "armed" /\ "falling" \in events) ~> (watch = "hook" \/ watch = "off")
    /\ (watch = "flag" /\ flag = "present") ~> (watch = "hook" \/ watch = "off")
=============================================================================
