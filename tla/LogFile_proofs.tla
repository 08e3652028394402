--------------------------- MODULE LogFile_proofs ---------------------------
(***************************************************************************)
(* Proofs about LogFile, for every set of adders, witnesses, views and     *)
(* leaves: an honest log file loses an entry that a witness holds only     *)
(* when two runs of `he-log add` overlapped on it.                         *)
(***************************************************************************)
EXTENDS LogFile, Witness_proofs

-----------------------------------------------------------------------------
(* The inductive invariant. *)

Job == [view : View, next : {"truncate", "write"}, copy : TreeHead]

CheckJob ==
    [next : {"checkpoint", "proof", "save"}, st : TreeHead \cup {NoView},
     cp : TreeHead \cup {NoView}]

FileTypes ==
    /\ size \in [View -> Nat]
    /\ torn \subseteq View
    /\ overlapped \subseteq View
    /\ job \in [Adder -> Job \cup {NoJob}]
    /\ check \in [Witness -> CheckJob \cup {NoJob}]
    /\ \A w \in Witness : check[w] # NoJob =>
          /\ check[w].next \in {"proof", "save"} => check[w].st \in TreeHead
          /\ check[w].next = "proof" => check[w].cp \in TreeHead

\* On a view that no two adds have worked on at once, the add that is at work
\* will write an extension of what is there, over nothing.
AddAlone ==
    \A v \in View \ overlapped : \A a \in Busy(v) :
        /\ Busy(v) = {a}
        /\ Extends(job[a].copy, log[v])
        /\ job[a].next = "write" => size[v] = 0

\* The log is ahead of every head that the processes of w hold.
Ahead(w) ==
    LET served == log[ViewOf[w]] IN
    /\ \A c \in published[w] : Extends(served, c)
    /\ disk[w] # Corrupt => Extends(served, disk[w])
    /\ Extends(served, st[w])
    /\ Extends(served, latest[w])
    /\ Extends(served, cp[w])
    /\ check[w] # NoJob => Extends(served, check[w].st) /\ Extends(served, check[w].cp)

LogAhead == \A w \in Witness : ViewOf[w] \notin overlapped => Ahead(w)

FileInv == TypeInv /\ FileTypes /\ AddAlone /\ LogAhead

\* It holds before anything has run.
LEMMA FileInvInit == FileInit => FileInv
<1> SUFFICES ASSUME FileInit
             PROVE  FileInv
  OBVIOUS
<1>1. TypeInv
  BY TypeInvInit DEF FileInit
<1>2. FileTypes
  BY DEF FileInit, FileTypes
<1>3. AddAlone
  BY DEF FileInit, AddAlone, Busy
<1>4. LogAhead
  BY DEF FileInit, Init, FreshWitnesses, LogAhead, Ahead, Extends
<1> QED
  BY <1>1, <1>2, <1>3, <1>4 DEF FileInv

-----------------------------------------------------------------------------
(* he-log add. *)

\* Appending extends.
LEMMA AppendExtends ==
    ASSUME NEW s \in TreeHead, NEW leaf \in Leaf
    PROVE  Append(s, leaf) \in TreeHead /\ Extends(Append(s, leaf), s)
  BY DEF TreeHead, Extends

\* A log that moves to an extension is still ahead.
LEMMA AheadOfExtension ==
    ASSUME FileInv, NEW w \in Witness, Ahead(w), UNCHANGED <<witnessVars, check>>,
           Extends(log'[ViewOf[w]], log[ViewOf[w]]), log'[ViewOf[w]] \in TreeHead
    PROVE  Ahead(w)'
<1> DEFINE old == log[ViewOf[w]]
           new == log'[ViewOf[w]]
<1>1. old \in TreeHead
  BY ConstantsAssumption DEF FileInv, TypeInv, TypeOK
<1>2. ASSUME NEW c \in TreeHead \cup {NoView}, Extends(old, c)
      PROVE  Extends(new, c)
  <2>1. CASE c = NoView
    BY <2>1 DEF Extends
  <2>2. CASE c \in TreeHead
    BY <1>1, <1>2, <2>2, ExtendsTransitive
  <2> QED  BY <2>1, <2>2
<1>3. /\ published[w] \subseteq TreeHead
      /\ disk[w] # Corrupt => disk[w] \in TreeHead \cup {NoView}
      /\ st[w] \in TreeHead \cup {NoView}
      /\ latest[w] \in TreeHead \cup {NoView}
      /\ cp[w] \in TreeHead \cup {NoView}
      /\ check[w] # NoJob => /\ check[w].st \in TreeHead \cup {NoView}
                             /\ check[w].cp \in TreeHead \cup {NoView}
  BY DEF FileInv, TypeInv, TypeOK, FileTypes, CheckJob
<1> QED
  BY <1>2, <1>3 DEF Ahead, witnessVars

\* Loading, truncating and a crash leave the log, and what the witnesses hold.
LEMMA AddKeepsLog ==
    ASSUME FileInv, UNCHANGED <<vars, check>>, overlapped \subseteq overlapped'
    PROVE  TypeInv' /\ LogAhead'
<1>1. TypeInv'
  BY DEF FileInv, TypeInv, TypeOK, PollInv, vars
<1>2. LogAhead'
  BY DEF FileInv, LogAhead, Ahead, vars
<1> QED
  BY <1>1, <1>2

\* load and Add.
LEMMA AddLoadStep ==
    ASSUME FileInv, NEW a \in Adder, NEW v \in View, NEW leaf \in Leaf, AddLoad(a, v, leaf)
    PROVE  FileInv'
<1>1. TypeInv' /\ LogAhead'
  BY AddKeepsLog DEF AddLoad
<1>2. log[v] \in TreeHead
  BY DEF FileInv, TypeInv, TypeOK
<1>3. Append(log[v], leaf) \in TreeHead /\ Extends(Append(log[v], leaf), log[v])
  BY <1>2, AppendExtends
<1>4. FileTypes'
  BY <1>3 DEF FileInv, FileTypes, AddLoad, Job
<1>5. AddAlone'
  <2> SUFFICES ASSUME NEW u \in View, u \notin overlapped', NEW b \in Busy(u)'
               PROVE  /\ Busy(u)' = {b}
                      /\ Extends(job'[b].copy, log'[u])
                      /\ job'[b].next = "write" => size'[u] = 0
    BY DEF AddAlone
  <2>1. job \in [Adder -> Job \cup {NoJob}] /\ b \in Adder /\ u \notin overlapped
    BY DEF FileInv, FileTypes, AddLoad, Busy
  <2>2. CASE u = v
    <3>1. Busy(v) = {}
      BY <2>2 DEF AddLoad
    <3>2. Busy(v)' \subseteq {a}
      BY <2>1, <3>1 DEF AddLoad, Busy
    <3>3. b = a /\ Busy(u)' = {b}
      BY <2>2, <3>2
    <3>4. job'[a] = [view |-> v, next |-> "truncate", copy |-> Append(log[v], leaf)]
      BY <2>1 DEF AddLoad
    <3>5. log' = log
      BY DEF AddLoad, vars
    <3>6. job'[b].copy = Append(log[v], leaf) /\ job'[b].next = "truncate"
      BY <3>3, <3>4
    <3> QED
      BY <1>3, <2>2, <3>3, <3>5, <3>6
  <2>3. CASE u # v
    <3>1. Busy(u)' = Busy(u)
      BY <2>1, <2>3 DEF AddLoad, Busy
    <3>2. b # a /\ job'[b] = job[b]
      BY <2>1, <3>1 DEF AddLoad, Busy
    <3> QED
      BY <2>1, <3>1, <3>2 DEF FileInv, AddAlone, AddLoad, vars
  <2> QED  BY <2>2, <2>3
<1> QED
  BY <1>1, <1>4, <1>5 DEF FileInv

\* O_TRUNC.
LEMMA AddTruncateStep ==
    ASSUME FileInv, NEW a \in Adder, AddTruncate(a)
    PROVE  FileInv'
<1> DEFINE v == job[a].view
<1>1. TypeInv' /\ LogAhead'
  BY AddKeepsLog DEF AddTruncate
<1>2. job[a] \in Job /\ job[a] # NoJob /\ v \in View /\ a \in Busy(v)
  BY DEF FileInv, FileTypes, AddTruncate, Job, Busy
<1>3. /\ job' = [job EXCEPT ![a] = [@ EXCEPT !.next = "write"]]
      /\ job'[a] \in Job
  BY <1>2 DEF AddTruncate, Job, FileInv, FileTypes
<1>4. FileTypes'
  BY <1>2, <1>3 DEF FileInv, FileTypes, AddTruncate
<1>5. AddAlone'
  <2> SUFFICES ASSUME NEW u \in View, u \notin overlapped', NEW b \in Busy(u)'
               PROVE  /\ Busy(u)' = {b}
                      /\ Extends(job'[b].copy, log'[u])
                      /\ job'[b].next = "write" => size'[u] = 0
    BY DEF AddAlone
  <2>1. \A c \in Adder : c # a => job'[c] = job[c]
    BY <1>2 DEF AddTruncate, FileInv, FileTypes
  <2>2. job'[a].view = v /\ job'[a].copy = job[a].copy
    BY <1>2, <1>3 DEF Job, FileInv, FileTypes
  <2>3. \A c \in Adder : job'[c] # NoJob /\ job'[c].view = u => c \in Busy(u)
    BY <1>2, <2>1, <2>2 DEF Busy
  <2>4. Busy(u)' \subseteq Busy(u)
    BY <2>3 DEF Busy
  <2>5. Busy(u) = {b} /\ Extends(job[b].copy, log[u]) /\ (job[b].next = "write" => size[u] = 0)
    BY <2>4 DEF FileInv, AddAlone, AddTruncate
  <2>6. Busy(u)' = {b}
    BY <2>4, <2>5
  <2>7. job'[b].copy = job[b].copy
    BY <2>1, <2>2 DEF Busy
  <2>8. job'[b].next = "write" => size'[u] = 0
    <3>1. CASE u = v
      BY <3>1, <1>2 DEF AddTruncate, FileInv, FileTypes
    <3>2. CASE u # v
      <4>1. b # a
        BY <2>5, <3>2 DEF Busy
      <4> QED
        BY <2>1, <2>5, <3>2, <4>1, <1>2 DEF AddTruncate, FileInv, FileTypes, Busy
    <3> QED  BY <3>1, <3>2
  <2> QED
    BY <2>5, <2>6, <2>7, <2>8 DEF AddTruncate, vars
<1> QED
  BY <1>1, <1>4, <1>5 DEF FileInv

\* The write.  Alone on its view, it follows its own truncation and leaves what
\* it has loaded with the new entry.
LEMMA AddWriteStep ==
    ASSUME FileInv, NEW a \in Adder, AddWrite(a)
    PROVE  FileInv'
<1> DEFINE v == job[a].view
<1>1. job[a] \in Job /\ job[a] # NoJob /\ v \in View /\ a \in Busy(v)
  BY DEF FileInv, FileTypes, AddWrite, Job, Busy
<1>2. UNCHANGED <<witnessVars, crashes, check, overlapped>>
  BY DEF AddWrite
<1>3. job' = [job EXCEPT ![a] = NoJob]
  BY DEF AddWrite
<1>4. \/ log' = log /\ size' = size /\ torn' = torn \cup {v}
      \/ /\ log' = [log EXCEPT ![v] = job[a].copy]
         /\ size' = [size EXCEPT ![v] = Len(job[a].copy)]
         /\ torn' = torn \ {v}
  BY DEF AddWrite
<1>5. log \in [View -> TreeHead] /\ job[a].copy \in TreeHead
  BY <1>1 DEF FileInv, TypeInv, TypeOK, Job
<1>6. log' \in [View -> TreeHead]
  BY <1>4, <1>5
<1>7. TypeInv'
  BY <1>2, <1>6 DEF FileInv, TypeInv, TypeOK, PollInv, witnessVars
<1>8. FileTypes'
  <2>1. Len(job[a].copy) \in Nat
    BY <1>5 DEF TreeHead
  <2> QED
    BY <1>1, <1>2, <1>3, <1>4, <2>1 DEF FileInv, FileTypes
<1>9. ASSUME NEW u \in View, u \notin overlapped
      PROVE  Extends(log'[u], log[u])
  <2>1. log[u] \in TreeHead
    BY <1>5
  <2>2. CASE u = v
    <3>1. Extends(job[a].copy, log[v])
      BY <1>1, <1>9, <2>2 DEF FileInv, AddAlone
    <3> QED
      BY <1>4, <1>5, <2>1, <2>2, <3>1, ExtendsReflexive
  <2>3. CASE u # v
    BY <1>4, <2>1, <2>3, <1>5, ExtendsReflexive
  <2> QED  BY <2>2, <2>3
<1>10. LogAhead'
  <2> SUFFICES ASSUME NEW w \in Witness, ViewOf[w] \notin overlapped
               PROVE  Ahead(w)'
    BY <1>2 DEF LogAhead
  <2>1. ViewOf[w] \in View
    BY ConstantsAssumption
  <2>2. Ahead(w)
    BY DEF FileInv, LogAhead
  <2> QED
    BY <1>2, <1>6, <1>9, <2>1, <2>2, AheadOfExtension
<1>11. AddAlone'
  <2> SUFFICES ASSUME NEW u \in View, u \notin overlapped', NEW b \in Busy(u)'
               PROVE  /\ Busy(u)' = {b}
                      /\ Extends(job'[b].copy, log'[u])
                      /\ job'[b].next = "write" => size'[u] = 0
    BY DEF AddAlone
  <2>1. b # a /\ b \in Busy(u) /\ job'[b] = job[b] /\ Busy(u)' \subseteq Busy(u)
    BY <1>3 DEF Busy, FileInv, FileTypes
  <2>2. u \notin overlapped /\ Busy(u) = {b}
    BY <1>2, <2>1 DEF FileInv, AddAlone
  <2>3. u # v
    BY <1>1, <2>1, <2>2
  <2>4. log'[u] = log[u] /\ size'[u] = size[u]
    BY <1>4, <1>5, <2>3 DEF FileInv, FileTypes
  <2> QED
    BY <2>1, <2>2, <2>4 DEF FileInv, AddAlone
<1> QED
  BY <1>7, <1>8, <1>10, <1>11 DEF FileInv

\* The process dies.
LEMMA AddCrashStep ==
    ASSUME FileInv, NEW a \in Adder, AddCrash(a)
    PROVE  FileInv'
<1>1. TypeInv' /\ LogAhead'
  BY AddKeepsLog DEF AddCrash
<1>2. FileTypes'
  BY DEF FileInv, FileTypes, AddCrash
<1>3. AddAlone'
  <2> SUFFICES ASSUME NEW u \in View, u \notin overlapped', NEW b \in Busy(u)'
               PROVE  /\ Busy(u)' = {b}
                      /\ Extends(job'[b].copy, log'[u])
                      /\ job'[b].next = "write" => size'[u] = 0
    BY DEF AddAlone
  <2>1. b # a /\ b \in Busy(u) /\ job'[b] = job[b] /\ Busy(u)' \subseteq Busy(u)
    BY DEF Busy, FileInv, FileTypes, AddCrash
  <2>2. u \notin overlapped /\ log' = log /\ size' = size
    BY DEF AddCrash, vars
  <2> QED
    BY <2>1, <2>2 DEF FileInv, AddAlone
<1> QED
  BY <1>1, <1>2, <1>3 DEF FileInv

-----------------------------------------------------------------------------
(* The daemon and the command in Witness. *)

\* Where the values of a step of witness w come from.
Sources(w) ==
    LET served == log[ViewOf[w]] IN
    /\ published'[w] \subseteq published[w] \cup {latest[w]}
    /\ disk'[w] \in {disk[w], Corrupt, st[w]}
    /\ \/ st'[w] \in {st[w], NoView, cp[w], served}
       \/ disk[w] # Corrupt /\ st'[w] = disk[w]
    /\ latest'[w] \in {latest[w], NoView, cp[w], served}
    /\ cp'[w] \in {cp[w], NoView, served}

\* Steps that take their values from there leave the log ahead.
LEMMA SourcesKeepAhead ==
    ASSUME FileInv, UNCHANGED <<log, fileVars>>, \A w \in Witness : Sources(w)
    PROVE  LogAhead'
<1> SUFFICES ASSUME NEW w \in Witness, ViewOf[w] \notin overlapped
             PROVE  Ahead(w)'
  BY DEF LogAhead, fileVars
<1>1. Ahead(w) /\ Sources(w)
  BY DEF FileInv, LogAhead
<1>2. log[ViewOf[w]] \in TreeHead
  BY ConstantsAssumption DEF FileInv, TypeInv, TypeOK
<1>3. Extends(log[ViewOf[w]], log[ViewOf[w]]) /\ Extends(log[ViewOf[w]], NoView)
  BY <1>2, ExtendsReflexive DEF Extends
<1> QED
  BY <1>1, <1>3 DEF Ahead, Sources, fileVars

\* A step of one witness that gives up, accepts, or fails to cosign.
LEMMA GiveUpSources ==
    ASSUME FileInv, NEW w \in Witness, GiveUp(w), UNCHANGED <<disk, published>>
    PROVE  \A x \in Witness : Sources(x)
  BY DEF GiveUp, Vanish, Sources, FileInv, TypeInv, TypeOK

LEMMA AcceptSources ==
    ASSUME FileInv, NEW w \in Witness, NEW c \in {cp[w], log[ViewOf[w]]}, AcceptOrError(w, c)
    PROVE  \A x \in Witness : Sources(x)
<1>1. UNCHANGED <<disk, published>>
  BY DEF AcceptOrError
<1>2. CASE Accept(w, c)
  BY <1>1, <1>2 DEF Accept, Sources, FileInv, TypeInv, TypeOK
<1>3. CASE CosignError(w, c)
  <2>1. CASE w \in OneShot
    BY <1>1, <1>3, <2>1 DEF CosignError, Vanish, Sources, FileInv, TypeInv, TypeOK
  <2>2. CASE w \notin OneShot
    BY <1>1, <1>3, <2>2 DEF CosignError, Sources, FileInv, TypeInv, TypeOK
  <2> QED  BY <2>1, <2>2
<1> QED
  BY <1>2, <1>3 DEF AcceptOrError

\* Every step of a witness in Witness is a step there, and has these sources.
LEMMA WitnessStep ==
    ASSUME FileInv, NEW w \in Witness, UNCHANGED fileVars,
           \/ AskLog(w) \/ PollError(w) \/ Save(w) \/ SaveError(w)
           \/ Start(w) \/ Tick(w) \/ Crash(w)
    PROVE  FileInv'
<1>1. [Next]_vars
  BY DEF Next, Poll, AskLog
<1>2. TypeInv'
  BY <1>1, TypeInvNext DEF FileInv
<1>3. log' = log /\ \A x \in Witness : Sources(x)
  <2> USE DEF FileInv, TypeInv, TypeOK
  <2>1. CASE PollFirstSight(w) \/ PollUnchanged(w)
    BY <2>1, AcceptSources DEF PollFirstSight, PollUnchanged, AcceptOrError
  <2>2. CASE PollRefused(w) \/ PollInconsistent(w) \/ PollError(w)
    BY <2>2, GiveUpSources DEF PollRefused, PollInconsistent, PollError
  <2>3. CASE PollAhead(w)
    BY <2>3 DEF PollAhead, Sources
  <2>4. CASE PollExtension(w)
    BY <2>4, AcceptSources DEF PollExtension, AcceptOrError
  <2>5. CASE Save(w)
    <3>1. CASE w \in OneShot
      BY <2>5, <3>1 DEF Save, Vanish, Sources
    <3>2. CASE w \notin OneShot
      BY <2>5, <3>2 DEF Save, Sources
    <3> QED  BY <3>1, <3>2
  <2>6. CASE SaveError(w)
    <3>1. CASE w \in OneShot
      BY <2>6, <3>1 DEF SaveError, Vanish, Sources
    <3>2. CASE w \notin OneShot
      BY <2>6, <3>2 DEF SaveError, Sources
    <3> QED  BY <3>1, <3>2
  <2>7. CASE Start(w)
    BY <2>7 DEF Start, Sources
  <2>8. CASE Tick(w)
    BY <2>8 DEF Tick, Sources
  <2>9. CASE Crash(w)
    BY <2>9 DEF Crash, Vanish, Sources
  <2> QED
    BY <2>1, <2>2, <2>3, <2>4, <2>5, <2>6, <2>7, <2>8, <2>9 DEF AskLog, GetCheckpoint
<1>4. LogAhead'
  BY <1>3, SourcesKeepAhead
<1>5. FileTypes' /\ AddAlone'
  BY <1>3 DEF FileInv, FileTypes, AddAlone, Busy, fileVars
<1> QED
  BY <1>2, <1>4, <1>5 DEF FileInv

-----------------------------------------------------------------------------
(* The check beside the daemon. *)

\* A step of the check takes what it holds from the file and the log.
LEMMA CheckStep ==
    ASSUME FileInv, NEW w \in Witness, Check(w)
    PROVE  FileInv'
<1> DEFINE served == log[ViewOf[w]]
<1> USE DEF FileInv
<1>1. /\ UNCHANGED <<log, st, latest, healthOK, pc, cp, crashes, size, torn, job, overlapped>>
      /\ \A x \in Witness \ {w} : /\ check'[x] = check[x] /\ disk'[x] = disk[x]
                                  /\ published'[x] = published[x]
  BY DEF Check, CheckLoad, CheckCheckpoint, CheckProof, CheckSave, CheckFail, CheckOn, CheckEnd,
         vars, FileTypes, TypeInv, TypeOK
<1>2. served \in TreeHead /\ Extends(served, served) /\ Extends(served, NoView)
  BY ConstantsAssumption, ExtendsReflexive DEF TypeInv, TypeOK, Extends
<1>3. check[w] # NoJob => check[w] \in CheckJob
  BY DEF FileTypes
<1>4. ViewOf[w] \notin overlapped => Ahead(w)
  BY DEF LogAhead
<1> DEFINE Good(c) ==
      c # NoJob =>
        /\ c \in CheckJob
        /\ c.next \in {"proof", "save"} => c.st \in TreeHead
        /\ c.next = "proof" => c.cp \in TreeHead
        /\ ViewOf[w] \notin overlapped => Extends(served, c.st) /\ Extends(served, c.cp)
<1>5. Good(check[w])
  BY <1>3, <1>4 DEF FileTypes, Ahead
<1>6. Good(check'[w]) /\ check' = [check EXCEPT ![w] = check'[w]]
  <2>0. ASSUME NEW next \in {"checkpoint", "proof", "save"},
               NEW view \in TreeHead \cup {NoView}, NEW head \in TreeHead \cup {NoView},
               CheckOn(w, next, view, head),
               next \in {"proof", "save"} => view \in TreeHead,
               next = "proof" => head \in TreeHead,
               ViewOf[w] \notin overlapped => Extends(served, view) /\ Extends(served, head)
        PROVE  Good(check'[w]) /\ check' = [check EXCEPT ![w] = check'[w]]
    <3>1. check' = [check EXCEPT ![w] = [next |-> next, st |-> view, cp |-> head]]
      BY <2>0 DEF CheckOn
    <3>2. check'[w] = [next |-> next, st |-> view, cp |-> head]
      BY <3>1 DEF FileTypes
    <3>3. check'[w] \in CheckJob
      BY <2>0, <3>2 DEF CheckJob
    <3>4. check'[w].next = next /\ check'[w].st = view /\ check'[w].cp = head
      BY <3>2
    <3>5. Good(check'[w])
      BY <2>0, <3>3, <3>4
    <3>6. check' = [check EXCEPT ![w] = check'[w]]
      BY <3>1, <3>2
    <3> QED  BY <3>5, <3>6
  <2>1. CASE CheckEnd(w)
    <3>1. check'[w] = NoJob
      BY <2>1 DEF CheckEnd, FileTypes
    <3> QED  BY <2>1, <3>1 DEF CheckEnd
  <2>2. CASE CheckLoad(w)
    <3>1. disk[w] \in TreeHead \cup {NoView}
      BY <2>2 DEF CheckLoad, TypeInv, TypeOK
    <3>2. ViewOf[w] \notin overlapped => Extends(served, disk[w])
      BY <1>4, <2>2 DEF CheckLoad, Ahead
    <3>3. CheckOn(w, "checkpoint", disk[w], NoView)
      BY <2>2 DEF CheckLoad
    <3> HIDE DEF Good
    <3> QED  BY <1>2, <2>0, <3>1, <3>2, <3>3
  <2>3. CASE CheckCheckpoint(w)
    <3>1. /\ check[w] \in CheckJob
          /\ check[w].st \in TreeHead \cup {NoView}
          /\ ViewOf[w] \notin overlapped => Extends(served, check[w].st)
      BY <1>3, <1>5, <2>3 DEF CheckCheckpoint, CheckJob
    <3>2. \/ CheckOn(w, "save", served, NoView)
          \/ check[w].st # NoView /\ CheckOn(w, "proof", check[w].st, served)
          \/ CheckEnd(w)
      BY <2>3 DEF CheckCheckpoint
    <3> HIDE DEF Good
    <3>3. CASE CheckOn(w, "save", served, NoView)
      BY <1>2, <2>0, <3>3
    <3>4. CASE check[w].st # NoView /\ CheckOn(w, "proof", check[w].st, served)
      BY <1>2, <2>0, <3>1, <3>4
    <3> QED  BY <2>1, <3>2, <3>3, <3>4
  <2>4. CASE CheckProof(w)
    <3>1. /\ check[w].cp \in TreeHead
          /\ ViewOf[w] \notin overlapped => Extends(served, check[w].cp)
      BY <1>5, <2>4 DEF CheckProof
    <3>2. CheckOn(w, "save", check[w].cp, NoView) \/ CheckEnd(w)
      BY <2>4 DEF CheckProof
    <3> HIDE DEF Good
    <3> QED  BY <1>2, <2>0, <2>1, <3>1, <3>2
  <2>5. CASE CheckSave(w) \/ CheckFail(w)
    BY <2>1, <2>5 DEF CheckSave, CheckFail
  <2> QED
    BY <2>2, <2>3, <2>4, <2>5 DEF Check
<1>7. \/ disk' = disk /\ published' = published
      \/ disk' = [disk EXCEPT ![w] = Corrupt] /\ published' = published
      \/ /\ check[w] # NoJob /\ check[w].next = "save"
         /\ disk' = [disk EXCEPT ![w] = check[w].st]
         /\ published' = [published EXCEPT ![w] = @ \cup {check[w].st}]
  BY DEF Check, CheckLoad, CheckCheckpoint, CheckProof, CheckSave, CheckFail, vars
<1>8. TypeInv'
  <2>1. /\ disk' \in [Witness -> TreeHead \cup {NoView, Corrupt}]
        /\ published' \in [Witness -> SUBSET TreeHead]
    BY <1>5, <1>7 DEF TypeInv, TypeOK
  <2> QED
    BY <1>1, <2>1 DEF TypeInv, TypeOK, PollInv
<1>9. FileTypes'
  <2>1. check' \in [Witness -> CheckJob \cup {NoJob}]
    BY <1>6 DEF FileTypes
  <2> QED
    BY <1>1, <1>6, <2>1 DEF FileTypes
<1>10. AddAlone'
  BY <1>1 DEF AddAlone, Busy
<1>11. LogAhead'
  <2> SUFFICES ASSUME NEW x \in Witness, ViewOf[x] \notin overlapped
               PROVE  Ahead(x)'
    BY <1>1 DEF LogAhead
  <2>1. Ahead(x)
    BY DEF LogAhead
  <2>2. CASE x # w
    BY <1>1, <2>1, <2>2 DEF Ahead
  <2>3. CASE x = w
    <3>1. \A c \in published'[w] : Extends(served, c)
      BY <1>5, <1>7, <2>1, <2>3 DEF Ahead, TypeInv, TypeOK
    <3>2. disk'[w] # Corrupt => Extends(served, disk'[w])
      BY <1>5, <1>7, <2>1, <2>3 DEF Ahead, TypeInv, TypeOK
    <3> QED
      BY <1>1, <1>6, <2>1, <2>3, <3>1, <3>2 DEF Ahead
  <2> QED  BY <2>2, <2>3
<1> QED
  BY <1>8, <1>9, <1>10, <1>11

-----------------------------------------------------------------------------
\* The invariant holds in every state.
LEMMA FileInvHolds == FileSpec => []FileInv
<1>1. FileInv /\ [FileNext]_logFileVars => FileInv'
  <2> SUFFICES ASSUME FileInv, [FileNext]_logFileVars
               PROVE  FileInv'
    OBVIOUS
  <2>1. CASE AddEntry
    BY <2>1, AddLoadStep, AddTruncateStep, AddWriteStep, AddCrashStep DEF AddEntry
  <2>2. ASSUME NEW w \in Witness,
               \/ PollFile(w)
               \/ (Start(w) \/ Tick(w) \/ Crash(w)) /\ UNCHANGED fileVars
        PROVE  FileInv'
    BY <2>2, WitnessStep DEF PollFile
  <2>3. ASSUME NEW w \in Beside, Check(w)
        PROVE  FileInv'
    BY <2>3, CheckStep, LogFileAssumption
  <2>4. CASE UNCHANGED logFileVars
    <3>1. UNCHANGED <<vars, fileVars>>
      BY <2>4 DEF logFileVars
    <3>2. TypeInv' /\ LogAhead'
      BY <3>1, AddKeepsLog DEF fileVars
    <3>3. FileTypes' /\ AddAlone'
      BY <3>1 DEF FileInv, FileTypes, AddAlone, Busy, fileVars, vars
    <3> QED  BY <3>2, <3>3 DEF FileInv
  <2> QED
    BY <2>1, <2>2, <2>3, <2>4 DEF FileNext
<1> QED
  BY <1>1, FileInvInit, PTL DEF FileSpec

\* For any number of adds, checks, daemons and crashes: while no two adds have
\* overlapped on a log, it extends every head that is saved, held or given out
\* under a witness's key (load, Add and save of he-log add).
THEOREM OnlyOverlapLoses == FileSpec => []LossMeansOverlap
<1>1. FileInv => LossMeansOverlap
  BY DEF FileInv, LogAhead, Ahead, LossMeansOverlap, Held
<1> QED
  BY <1>1, FileInvHolds, PTL
=============================================================================
