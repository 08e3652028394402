-------------------------- MODULE Witness_proofs --------------------------
(***************************************************************************)
(* Proofs about Witness, for every set of witnesses, views and leaves and  *)
(* every choice of which disks and signers fail.                           *)
(***************************************************************************)
EXTENDS Witness, TLAPS

-----------------------------------------------------------------------------
(* Tree heads. *)

\* A tree head extends itself.
LEMMA ExtendsReflexive ==
    ASSUME NEW a \in TreeHead
    PROVE  Extends(a, a)
  BY DEF Extends, TreeHead

\* Extending is transitive.
LEMMA ExtendsTransitive ==
    ASSUME NEW a \in TreeHead, NEW b \in TreeHead, NEW c \in TreeHead,
           Extends(b, a), Extends(c, b)
    PROVE  Extends(c, a)
  BY NoViewAssumption DEF Extends, TreeHead

\* Two heads with a common extension are on one chain.
LEMMA CommonExtension ==
    ASSUME NEW a \in TreeHead, NEW b \in TreeHead, NEW c \in TreeHead,
           Extends(c, a), Extends(c, b)
    PROVE  Comparable(a, b)
  BY NoViewAssumption DEF Comparable, Extends, TreeHead

-----------------------------------------------------------------------------
(* Type correctness. *)

\* What the step a poll is at says about the variables it works on: the types
\* of cp and latest depend on it.
PollInv ==
    \A w \in Witness :
        /\ pc[w] = "proof" => st[w] \in TreeHead /\ cp[w] \in TreeHead
        /\ pc[w] = "save" => st[w] \in TreeHead /\ latest[w] = st[w]

TypeInv == TypeOK /\ PollInv

\* It holds before any witness has run.
LEMMA TypeInvInit == Init => TypeInv
  BY ConstantsAssumption
     DEF Init, FreshWitnesses, TypeInv, TypeOK, PollInv, TreeHead, Step

MemoryOK ==
    /\ st \in [Witness -> TreeHead \cup {NoView}]
    /\ latest \in [Witness -> TreeHead \cup {NoView}]
    /\ healthOK \in [Witness -> BOOLEAN]
    /\ pc \in [Witness -> Step]
    /\ cp \in [Witness -> TreeHead \cup {NoView}]

\* A process that ends leaves its memory well typed.
LEMMA VanishMemory ==
    ASSUME TypeInv, NEW w \in Witness, Vanish(w)
    PROVE  MemoryOK' /\ PollInv'
<1>1. MemoryOK'
  BY DEF TypeInv, TypeOK, MemoryOK, Vanish, Step
<1>2. PollInv'
  BY DEF TypeInv, TypeOK, PollInv, Vanish, Step
<1> QED  BY <1>1, <1>2

\* Every step keeps the types and what the poll's position says.
LEMMA TypeInvNext == TypeInv /\ [Next]_vars => TypeInv'
<1> SUFFICES ASSUME TypeInv, [Next]_vars
             PROVE  TypeInv'
  OBVIOUS
<1> USE ConstantsAssumption, CorruptAssumption, NoViewAssumption
    DEF TypeInv, TypeOK, PollInv, Step
<1>1. ASSUME NEW v \in View, Rewind(v)
      PROVE  TypeInv'
  <2>1. SubSeq(log[v], 1, Len(log[v]) - 1) \in TreeHead
    BY <1>1 DEF Rewind, TreeHead
  <2> QED  BY <1>1, <2>1 DEF Rewind, witnessVars
<1>2. ASSUME NEW v \in View, NEW leaf \in Leaf, Add(v, leaf)
      PROVE  TypeInv'
  <2>1. Append(log[v], leaf) \in TreeHead
    BY DEF TreeHead
  <2> QED  BY <1>2, <2>1 DEF Add, witnessVars
<1>3. ASSUME NEW w \in Witness, Start(w)
      PROVE  TypeInv'
  BY <1>3 DEF Start
<1>4. ASSUME NEW w \in Witness, Crash(w)
      PROVE  TypeInv'
  <2>1. disk' \in [Witness -> TreeHead \cup {NoView, Corrupt}]
    BY <1>4 DEF Crash
  <2>2. MemoryOK' /\ PollInv'
    BY <1>4, VanishMemory DEF Crash
  <2> QED  BY <1>4, <2>1, <2>2 DEF Crash, MemoryOK
<1>5. ASSUME NEW w \in Witness, PollRefused(w) \/ PollInconsistent(w) \/ PollError(w)
      PROVE  TypeInv'
  <2>1. GiveUp(w) /\ UNCHANGED <<log, disk, published, crashes>>
    BY <1>5 DEF PollRefused, PollInconsistent, PollError
  <2>2. CASE w \in OneShot
    BY <2>1, <2>2, VanishMemory DEF GiveUp, MemoryOK
  <2>3. CASE w \notin OneShot
    BY <2>1, <2>3 DEF GiveUp
  <2> QED  BY <2>2, <2>3
<1>6. ASSUME NEW w \in Witness, NEW c \in TreeHead, AcceptOrError(w, c)
      PROVE  TypeInv'
  <2>1. CASE Accept(w, c)
    BY <1>6, <2>1 DEF AcceptOrError, Accept
  <2>2. CASE CosignError(w, c)
    <3>1. CASE w \in OneShot
      <4>1. Vanish(w) /\ UNCHANGED <<log, disk, published, crashes>>
        BY <1>6, <2>2, <3>1 DEF AcceptOrError, CosignError
      <4>2. MemoryOK' /\ PollInv'
        BY <4>1, VanishMemory
      <4> QED  BY <4>1, <4>2 DEF MemoryOK
    <3>2. CASE w \notin OneShot
      <4>1. /\ st' = [st EXCEPT ![w] = c]
            /\ pc' = [pc EXCEPT ![w] = "polled"]
            /\ healthOK' = [healthOK EXCEPT ![w] = FALSE]
            /\ cp' = [cp EXCEPT ![w] = NoView]
            /\ UNCHANGED <<log, disk, latest, published, crashes>>
        BY <1>6, <2>2, <3>2 DEF AcceptOrError, CosignError
      <4> QED  BY <4>1
    <3> QED  BY <3>1, <3>2
  <2> QED  BY <1>6, <2>1, <2>2 DEF AcceptOrError
<1>7. ASSUME NEW w \in Witness, PollFirstSight(w) \/ PollUnchanged(w) \/ PollExtension(w)
      PROVE  TypeInv'
  BY <1>6, <1>7 DEF PollFirstSight, PollUnchanged, PollExtension
<1>8. ASSUME NEW w \in Witness, PollAhead(w)
      PROVE  TypeInv'
  BY <1>8 DEF PollAhead
<1>9. ASSUME NEW w \in Witness, Save(w)
      PROVE  TypeInv'
  <2>1. /\ disk' \in [Witness -> TreeHead \cup {NoView, Corrupt}]
        /\ published' \in [Witness -> SUBSET TreeHead]
    BY <1>9 DEF Save
  <2>2. CASE w \in OneShot
    BY <1>9, <2>1, <2>2, VanishMemory DEF Save, MemoryOK
  <2>3. CASE w \notin OneShot
    BY <1>9, <2>1, <2>3 DEF Save
  <2> QED  BY <2>2, <2>3
<1>10. ASSUME NEW w \in Witness, SaveError(w)
       PROVE  TypeInv'
  <2>1. disk' \in [Witness -> TreeHead \cup {NoView, Corrupt}]
    BY <1>10 DEF SaveError
  <2>2. CASE w \in OneShot
    <3>1. Vanish(w) /\ UNCHANGED <<log, published, crashes>>
      BY <1>10, <2>2 DEF SaveError
    <3>2. MemoryOK' /\ PollInv'
      BY <3>1, VanishMemory
    <3> QED  BY <2>1, <3>1, <3>2 DEF MemoryOK
  <2>3. CASE w \notin OneShot
    <3>1. /\ pc' = [pc EXCEPT ![w] = "polled"]
          /\ healthOK' = [healthOK EXCEPT ![w] = FALSE]
          /\ published' = [published EXCEPT ![w] = @ \cup {latest[w]}]
          /\ UNCHANGED <<log, st, latest, cp, crashes>>
      BY <1>10, <2>3 DEF SaveError
    <3>2. latest[w] \in TreeHead
      BY <1>10 DEF SaveError
    <3> QED  BY <2>1, <3>1, <3>2
  <2> QED  BY <2>2, <2>3
<1>11. ASSUME NEW w \in Witness, Tick(w)
       PROVE  TypeInv'
  BY <1>11 DEF Tick
<1>12. CASE UNCHANGED vars
  BY <1>12 DEF vars
<1> QED
  BY <1>1, <1>2, <1>3, <1>4, <1>5, <1>7, <1>8, <1>9, <1>10, <1>11, <1>12
     DEF Next, Operate, Poll, GetCheckpoint

\* Every variable of the log and its witnesses keeps its type.
THEOREM TypeCorrect == Spec => []TypeOK
<1>1. TypeInv => TypeOK
  BY DEF TypeInv
<1> QED  BY TypeInvInit, TypeInvNext, <1>1, PTL DEF Spec

-----------------------------------------------------------------------------
(* One history per witness. *)

\* The view in memory is never behind the state file ...
MemoryAhead ==
    \A w \in Witness : pc[w] # "down" /\ disk[w] # Corrupt =>
        disk[w] = NoView \/ (st[w] \in TreeHead /\ Extends(st[w], disk[w]))

\* ... and a durable witness whose file is corrupt is not running.
CorruptIsDown == \A w \in Durable : disk[w] = Corrupt => pc[w] = "down"

\* CosignaturesConsistent is not inductive: that a new cosignature fits the ones
\* already given out is known only because each of those is below the state
\* file, the file below the view in memory, and the view below what is accepted.
WitnessInv ==
    /\ TypeInv
    /\ MemoryAhead
    /\ CorruptIsDown
    /\ PublishedIsSaved
    /\ CosignaturesConsistent

\* It holds before any witness has run: no file, nothing given out.
LEMMA WitnessInvInit == Init => WitnessInv
<1> SUFFICES ASSUME Init
             PROVE  WitnessInv
  OBVIOUS
<1>1. TypeInv
  BY TypeInvInit
<1>2. Durable \subseteq Witness
  BY DEF Durable
<1> QED
  BY <1>1, <1>2, CorruptAssumption
     DEF Init, FreshWitnesses, WitnessInv, MemoryAhead, CorruptIsDown,
         PublishedIsSaved, CosignaturesConsistent

\* A step that leaves files and published cosignatures alone, and moves the view
\* of one witness at most to an extension.
LEMMA OnlyMemoryMoves ==
    ASSUME WitnessInv, TypeInv', NEW w \in Witness,
           disk' = disk, published' = published,
           \A x \in Witness \ {w} : st'[x] = st[x] /\ pc'[x] = pc[x],
           \/ pc'[w] = "down"
           \/ /\ pc[w] # "down"
              /\ \/ st'[w] = st[w]
                 \/ st[w] = NoView
                 \/ st'[w] \in TreeHead /\ Extends(st'[w], st[w])
    PROVE  WitnessInv'
<1> USE DEF WitnessInv
<1>1. Durable \subseteq Witness
  BY DEF Durable
<1>2. MemoryAhead'
  <2> SUFFICES ASSUME NEW x \in Witness, pc'[x] # "down", disk[x] # Corrupt,
                      disk[x] # NoView
               PROVE  st'[x] \in TreeHead /\ Extends(st'[x], disk[x])
    BY DEF MemoryAhead
  <2>1. disk[x] \in TreeHead
    BY DEF TypeInv, TypeOK
  <2>2. pc[x] # "down"
    OBVIOUS
  <2>3. st[x] \in TreeHead /\ Extends(st[x], disk[x])
    BY <2>2 DEF MemoryAhead
  <2>4. CASE st'[x] = st[x]
    BY <2>3, <2>4
  <2>5. CASE st'[x] \in TreeHead /\ Extends(st'[x], st[x])
    BY <2>1, <2>3, <2>5, ExtendsTransitive
  <2> QED  BY <2>3, <2>4, <2>5, NoViewAssumption
<1>3. CorruptIsDown'
  BY <1>1 DEF CorruptIsDown
<1>4. PublishedIsSaved' /\ CosignaturesConsistent'
  BY DEF PublishedIsSaved, CosignaturesConsistent
<1> QED  BY <1>2, <1>3, <1>4

\* Every step keeps the invariant.
LEMMA WitnessInvNext == WitnessInv /\ [Next]_vars => WitnessInv'
<1> SUFFICES ASSUME WitnessInv, [Next]_vars
             PROVE  WitnessInv'
  OBVIOUS
<1>1. TypeInv /\ TypeInv'
  BY TypeInvNext DEF WitnessInv
<1>2. Durable \subseteq Witness
  BY DEF Durable
<1>3. ASSUME UNCHANGED <<disk, published, st, pc>>
      PROVE  WitnessInv'
  BY <1>1, <1>3
     DEF WitnessInv, MemoryAhead, CorruptIsDown, PublishedIsSaved, CosignaturesConsistent
<1>4. CASE Operate
  BY <1>3, <1>4 DEF Operate, Add, Rewind, witnessVars
<1>5. ASSUME NEW w \in Witness, Start(w)
      PROVE  WitnessInv'
  <2>1. MemoryAhead'
    <3> SUFFICES ASSUME NEW x \in Witness, pc'[x] # "down", disk'[x] # Corrupt,
                        disk'[x] # NoView
                 PROVE  st'[x] \in TreeHead /\ Extends(st'[x], disk'[x])
      BY DEF MemoryAhead
    <3>1. disk[x] \in TreeHead /\ disk' = disk
      BY <1>1, <1>5 DEF TypeInv, TypeOK, Start
    <3>2. CASE x = w
      BY <1>1, <1>5, <3>1, <3>2, ExtendsReflexive DEF TypeInv, TypeOK, Start
    <3>3. CASE x # w
      BY <1>1, <1>5, <3>1, <3>3 DEF TypeInv, TypeOK, Start, WitnessInv, MemoryAhead
    <3> QED  BY <3>2, <3>3
  <2>2. CorruptIsDown'
    BY <1>1, <1>2, <1>5 DEF TypeInv, TypeOK, Start, WitnessInv, CorruptIsDown
  <2>3. PublishedIsSaved' /\ CosignaturesConsistent'
    BY <1>5 DEF Start, WitnessInv, PublishedIsSaved, CosignaturesConsistent
  <2> QED  BY <1>1, <2>1, <2>2, <2>3 DEF WitnessInv
<1>6. ASSUME NEW w \in Witness, Vanish(w), UNCHANGED <<disk, published>>
      PROVE  WitnessInv'
  BY <1>1, <1>6, OnlyMemoryMoves DEF Vanish, TypeInv, TypeOK
<1>7. ASSUME NEW w \in Witness, Vanish(w), pc[w] # "down", UNCHANGED published,
             NEW d, disk' = [disk EXCEPT ![w] = d],
             d = Corrupt \/ (d = st[w] /\ d \in TreeHead)
      PROVE  WitnessInv'
  <2>1. \A x \in Witness \ {w} : disk'[x] = disk[x] /\ st'[x] = st[x] /\ pc'[x] = pc[x]
    BY <1>1, <1>7 DEF Vanish, TypeInv, TypeOK
  <2>2. pc'[w] = "down" /\ disk'[w] = d
    BY <1>1, <1>7 DEF Vanish, TypeInv, TypeOK
  <2>3. MemoryAhead' /\ CorruptIsDown'
    BY <1>2, <2>1, <2>2 DEF WitnessInv, MemoryAhead, CorruptIsDown
  <2>4. PublishedIsSaved'
    <3> SUFFICES ASSUME NEW x \in Durable, disk'[x] # Corrupt, NEW c \in published[x]
                 PROVE  disk'[x] # NoView /\ Extends(disk'[x], c)
      BY <1>7 DEF PublishedIsSaved
    <3>1. CASE x # w
      BY <1>2, <2>1, <3>1 DEF WitnessInv, PublishedIsSaved
    <3>2. CASE x = w
      <4>1. disk[w] # Corrupt
        BY <1>7, <3>2 DEF WitnessInv, CorruptIsDown
      <4>2. disk[w] # NoView /\ Extends(disk[w], c)
        BY <3>2, <4>1 DEF WitnessInv, PublishedIsSaved
      <4>3. st[w] \in TreeHead /\ Extends(st[w], disk[w])
        BY <1>7, <4>1, <4>2 DEF WitnessInv, MemoryAhead
      <4>4. disk[w] \in TreeHead /\ c \in TreeHead
        BY <1>1, <1>2, <3>2, <4>1, <4>2 DEF TypeInv, TypeOK
      <4>5. disk'[w] = st[w]
        BY <1>7, <2>2, <3>2
      <4> QED  BY <3>2, <4>2, <4>3, <4>4, <4>5, ExtendsTransitive, NoViewAssumption
    <3> QED  BY <3>1, <3>2
  <2>5. CosignaturesConsistent'
    BY <1>7 DEF WitnessInv, CosignaturesConsistent
  <2> QED  BY <1>1, <2>3, <2>4, <2>5 DEF WitnessInv
<1>8. ASSUME NEW w \in Witness, Crash(w)
      PROVE  WitnessInv'
  <2>1. CASE UNCHANGED disk
    BY <1>6, <1>8, <2>1 DEF Crash
  <2>2. ASSUME NEW d \in {Corrupt, st[w]}, pc[w] = "save", disk' = [disk EXCEPT ![w] = d]
        PROVE  WitnessInv'
    BY <1>1, <1>7, <1>8, <2>2 DEF Crash, TypeInv, PollInv
  <2> QED  BY <1>8, <2>1, <2>2 DEF Crash
<1>9. ASSUME NEW w \in Witness, pc[w] # "down", GiveUp(w), UNCHANGED <<disk, published>>
      PROVE  WitnessInv'
  <2>1. CASE w \in OneShot
    BY <1>6, <1>9, <2>1 DEF GiveUp
  <2>2. CASE w \notin OneShot
    BY <1>1, <1>9, <2>2, OnlyMemoryMoves DEF GiveUp, TypeInv, TypeOK
  <2> QED  BY <2>1, <2>2
<1>10. ASSUME NEW w \in Witness, NEW c \in TreeHead, AcceptOrError(w, c), pc[w] # "down",
              st[w] = NoView \/ Extends(c, st[w])
       PROVE  WitnessInv'
  <2>1. CASE Accept(w, c)
    BY <1>1, <1>10, <2>1, OnlyMemoryMoves DEF AcceptOrError, Accept, TypeInv, TypeOK
  <2>2. CASE CosignError(w, c)
    <3>1. CASE w \in OneShot
      BY <1>6, <1>10, <2>2, <3>1 DEF AcceptOrError, CosignError
    <3>2. CASE w \notin OneShot
      BY <1>1, <1>10, <2>2, <3>2, OnlyMemoryMoves
         DEF AcceptOrError, CosignError, TypeInv, TypeOK
    <3> QED  BY <3>1, <3>2
  <2> QED  BY <1>10, <2>1, <2>2 DEF AcceptOrError
<1>11. ASSUME NEW w \in Witness, PollFirstSight(w) \/ PollUnchanged(w) \/ PollExtension(w)
       PROVE  WitnessInv'
  <2>1. CASE PollFirstSight(w)
    BY <1>1, <1>10, <2>1, ConstantsAssumption DEF PollFirstSight, TypeInv, TypeOK
  <2>2. CASE PollUnchanged(w)
    <3>1. log[ViewOf[w]] \in TreeHead
      BY <1>1, ConstantsAssumption DEF TypeInv, TypeOK
    <3> QED  BY <1>10, <2>2, <3>1, ExtendsReflexive DEF PollUnchanged
  <2>3. CASE PollExtension(w)
    BY <1>1, <1>10, <2>3 DEF PollExtension, ProofVerifies, TypeInv, PollInv
  <2> QED  BY <1>11, <2>1, <2>2, <2>3
<1>12. ASSUME NEW w \in Witness, PollRefused(w) \/ PollInconsistent(w) \/ PollError(w)
       PROVE  WitnessInv'
  BY <1>9, <1>12 DEF PollRefused, PollInconsistent, PollError
<1>13. ASSUME NEW w \in Witness, PollAhead(w) \/ Tick(w)
       PROVE  WitnessInv'
  BY <1>1, <1>13, OnlyMemoryMoves DEF PollAhead, Tick, TypeInv, TypeOK
<1>14. ASSUME NEW w \in Witness, Save(w)
       PROVE  WitnessInv'
  <2>1. st[w] \in TreeHead /\ latest[w] = st[w] /\ pc[w] = "save"
    BY <1>1, <1>14 DEF Save, TypeInv, PollInv
  <2>2. \A x \in Witness \ {w} :
            /\ disk'[x] = disk[x] /\ published'[x] = published[x]
            /\ st'[x] = st[x] /\ pc'[x] = pc[x]
    BY <1>1, <1>14 DEF Save, Vanish, TypeInv, TypeOK
  <2>3. /\ disk'[w] = IF w \in Stateless THEN disk[w] ELSE st[w]
        /\ published'[w] = published[w] \cup {st[w]}
        /\ pc'[w] = "down" \/ st'[w] = st[w]
    BY <1>1, <1>14, <2>1 DEF Save, Vanish, TypeInv, TypeOK
  <2>4. MemoryAhead'
    BY <2>1, <2>2, <2>3, ExtendsReflexive DEF WitnessInv, MemoryAhead
  <2>5. CorruptIsDown'
    BY <1>2, <2>1, <2>2, <2>3, CorruptAssumption DEF WitnessInv, CorruptIsDown, Durable
  <2>6. ASSUME w \in Durable, NEW c \in published[w]
        PROVE  c \in TreeHead /\ Extends(st[w], c)
    <3>1. disk[w] # Corrupt
      BY <2>1, <2>6 DEF WitnessInv, CorruptIsDown
    <3>2. disk[w] # NoView /\ Extends(disk[w], c)
      BY <2>6, <3>1 DEF WitnessInv, PublishedIsSaved
    <3>3. Extends(st[w], disk[w])
      BY <2>1, <3>1, <3>2 DEF WitnessInv, MemoryAhead
    <3>4. disk[w] \in TreeHead /\ c \in TreeHead
      BY <1>1, <2>6, <3>1, <3>2 DEF TypeInv, TypeOK
    <3> QED  BY <2>1, <3>2, <3>3, <3>4, ExtendsTransitive
  <2>7. PublishedIsSaved'
    <3> SUFFICES ASSUME NEW x \in Durable, disk'[x] # Corrupt, NEW c \in published'[x]
                 PROVE  disk'[x] # NoView /\ Extends(disk'[x], c)
      BY DEF PublishedIsSaved
    <3>1. CASE x # w
      BY <1>2, <2>2, <3>1 DEF WitnessInv, PublishedIsSaved
    <3>2. CASE x = w
      <4>1. disk'[w] = st[w]
        BY <2>3, <3>2 DEF Durable
      <4>2. Extends(st[w], c)
        BY <2>1, <2>3, <2>6, <3>2, ExtendsReflexive
      <4> QED  BY <2>1, <3>2, <4>1, <4>2, NoViewAssumption
    <3> QED  BY <3>1, <3>2
  <2>8. CosignaturesConsistent'
    <3> SUFFICES ASSUME NEW x \in Durable, NEW a \in published'[x], NEW b \in published'[x]
                 PROVE  Comparable(a, b)
      BY DEF CosignaturesConsistent
    <3>1. CASE x # w
      BY <1>2, <2>2, <3>1 DEF WitnessInv, CosignaturesConsistent
    <3>2. CASE x = w
      <4>1. a \in TreeHead /\ b \in TreeHead /\ Extends(st[w], a) /\ Extends(st[w], b)
        BY <2>1, <2>3, <2>6, <3>2, ExtendsReflexive
      <4> QED  BY <2>1, <4>1, CommonExtension
    <3> QED  BY <3>1, <3>2
  <2> QED  BY <1>1, <2>4, <2>5, <2>7, <2>8 DEF WitnessInv
<1>15. ASSUME NEW w \in Witness, SaveError(w)
       PROVE  WitnessInv'
  <2>1. disk' = disk \/ disk' = [disk EXCEPT ![w] = Corrupt]
    BY <1>15 DEF SaveError
  <2>2. CASE w \in OneShot
    BY <1>6, <1>7, <1>15, <2>1, <2>2 DEF SaveError
  <2>3. CASE w \notin OneShot
    <3>1. w \notin Durable
      BY <1>15, <2>3 DEF SaveError, Durable
    <3>2. /\ \A x \in Witness \ {w} :
                disk'[x] = disk[x] /\ published'[x] = published[x] /\ pc'[x] = pc[x]
          /\ disk'[w] \in {disk[w], Corrupt}
          /\ st' = st
      BY <1>1, <1>15, <2>1, <2>3 DEF SaveError, TypeInv, TypeOK
    <3>3. pc[w] = "save"
      BY <1>15 DEF SaveError
    <3>4. MemoryAhead'
      BY <3>2, <3>3 DEF WitnessInv, MemoryAhead
    <3>5. CorruptIsDown' /\ PublishedIsSaved' /\ CosignaturesConsistent'
      BY <1>2, <3>1, <3>2
         DEF WitnessInv, CorruptIsDown, PublishedIsSaved, CosignaturesConsistent
    <3> QED  BY <1>1, <3>4, <3>5 DEF WitnessInv
  <2> QED  BY <2>2, <2>3
<1>16. CASE UNCHANGED vars
  BY <1>3, <1>16 DEF vars
<1> QED
  BY <1>4, <1>5, <1>8, <1>11, <1>12, <1>13, <1>14, <1>15, <1>16
     DEF Next, Poll, GetCheckpoint

\* The invariant holds throughout.
LEMMA WitnessInvHolds == Spec => []WitnessInv
  BY WitnessInvInit, WitnessInvNext, PTL DEF Spec

\* A durable witness never gives out cosignatures for two histories, for any
\* number of witnesses, crashes, failing signers, and any log operator.
THEOREM OneHistory == Spec => []CosignaturesConsistent
<1>1. WitnessInv => CosignaturesConsistent
  BY DEF WitnessInv
<1> QED  BY WitnessInvHolds, <1>1, PTL

\* The state file of a durable witness is ahead of all it has given out.
THEOREM SavedBeforePublished == Spec => []PublishedIsSaved
<1>1. WitnessInv => PublishedIsSaved
  BY DEF WitnessInv
<1> QED  BY WitnessInvHolds, <1>1, PTL

-----------------------------------------------------------------------------
(* The state file moves along one history; the promise of a cosigner. *)

\* The only ways a state file changes, and what is given out meanwhile.
FileStep(w) ==
    \/ disk'[w] = disk[w] /\ published'[w] = published[w]
    \/ disk'[w] = Corrupt /\ published'[w] = published[w]
    \/ /\ pc[w] = "save" /\ disk'[w] = st[w]
       /\ published'[w] \in {published[w], published[w] \cup {st[w]}}
    \/ w \notin Durable /\ disk'[w] \in {disk[w], Corrupt}

\* One step changes the state file of one witness, in one of these ways.
LEMMA FilesChange ==
    ASSUME WitnessInv, [Next]_vars
    PROVE  \/ UNCHANGED <<disk, published>>
           \/ \E w \in Witness :
                 /\ FileStep(w)
                 /\ \A x \in Witness \ {w} : disk'[x] = disk[x] /\ published'[x] = published[x]
<1>1. TypeInv
  BY DEF WitnessInv
<1>2. CASE Operate
  BY <1>2 DEF Operate, Add, Rewind, witnessVars
<1>3. ASSUME NEW w \in Witness, Start(w) \/ GetCheckpoint(w) \/ Tick(w)
      PROVE  UNCHANGED <<disk, published>>
  BY <1>3 DEF Start, Tick, GetCheckpoint, PollFirstSight, PollUnchanged, PollRefused,
              PollAhead, AcceptOrError
<1>4. ASSUME NEW w \in Witness, PollExtension(w) \/ PollInconsistent(w) \/ PollError(w)
      PROVE  UNCHANGED <<disk, published>>
  BY <1>4 DEF PollExtension, PollInconsistent, PollError, AcceptOrError
<1>5. ASSUME NEW w \in Witness, Crash(w) \/ Save(w) \/ SaveError(w)
      PROVE  /\ FileStep(w)
             /\ \A x \in Witness \ {w} : disk'[x] = disk[x] /\ published'[x] = published[x]
  <2>1. CASE Crash(w)
    BY <1>1, <2>1 DEF Crash, FileStep, TypeInv, TypeOK
  <2>2. CASE Save(w)
    <3>1. latest[w] = st[w]
      BY <1>1, <2>2 DEF Save, TypeInv, PollInv
    <3> QED  BY <1>1, <2>2, <3>1 DEF Save, FileStep, TypeInv, TypeOK, Durable
  <2>3. CASE SaveError(w)
    BY <1>1, <2>3 DEF SaveError, FileStep, TypeInv, TypeOK, Durable
  <2> QED  BY <1>5, <2>1, <2>2, <2>3
<1>6. CASE UNCHANGED vars
  BY <1>6 DEF vars
<1> QED
  BY <1>2, <1>3, <1>4, <1>5, <1>6 DEF Next, Poll

\* Before a save the view in memory is at least as far as the file.
LEMMA SaveExtends ==
    ASSUME WitnessInv, NEW w \in Witness, pc[w] = "save", disk[w] # Corrupt
    PROVE  st[w] \in TreeHead /\ Extends(st[w], disk[w])
  BY DEF WitnessInv, TypeInv, PollInv, MemoryAhead, Extends

\* No state file, of a durable witness or not, is ever replaced by one that does
\* not extend it.
THEOREM SavedViewMovesForward == Spec => SavedViewOnlyExtends
<1> DEFINE Forward == \A w \in Witness :
              disk[w] # Corrupt /\ disk'[w] # Corrupt =>
                  disk[w] = NoView \/ (disk'[w] # NoView /\ Extends(disk'[w], disk[w]))
<1>1. ASSUME WitnessInv, [Next]_vars
      PROVE  Forward
  <2> SUFFICES ASSUME NEW w \in Witness, disk[w] # Corrupt, disk'[w] # Corrupt,
                      disk[w] # NoView
               PROVE  disk'[w] # NoView /\ Extends(disk'[w], disk[w])
    OBVIOUS
  <2>1. disk[w] \in TreeHead
    BY <1>1 DEF WitnessInv, TypeInv, TypeOK
  <2>2. disk'[w] = disk[w] \/ (pc[w] = "save" /\ disk'[w] = st[w])
    BY <1>1, FilesChange DEF FileStep
  <2> QED
    BY <1>1, <2>1, <2>2, ExtendsReflexive, SaveExtends, NoViewAssumption
<1>2. Spec => [][WitnessInv /\ [Next]_vars]_vars
  BY WitnessInvHolds, PTL DEF Spec
<1>3. [WitnessInv /\ [Next]_vars]_vars => [Forward]_vars
  BY <1>1
<1> QED  BY <1>2, <1>3, PTL DEF SavedViewOnlyExtends

\* The operators of TreeHeads are the same ones in the abstract specification.
LEMMA SameTreeHeads ==
    /\ Cosigners!TreeHead = TreeHead
    /\ \A new, old : Cosigners!Extends(new, old) <=> Extends(new, old)
  BY DEF Cosigners!TreeHead, TreeHead, Cosigners!Extends, Extends

\* The abstract step that a change of one durable witness's file stands for.
LEMMA CosignerStep ==
    ASSUME WitnessInv, NEW w \in Durable, FileStep(w),
           \A x \in Durable \ {w} : disk'[x] = disk[x] /\ published'[x] = published[x]
    PROVE  Cosigners!ANext \/ UNCHANGED Cosigners!avars
<1> DEFINE trusted == [x \in Durable |-> disk[x]]
           given == [x \in Durable |-> published[x]]
           trustedNew == [x \in Durable |-> disk'[x]]
           givenNew == [x \in Durable |-> published'[x]]
<1>1. w \in Witness
  BY DEF Durable
<1>2. trustedNew = [trusted EXCEPT ![w] = disk'[w]] /\ givenNew = [given EXCEPT ![w] = published'[w]]
  OBVIOUS
<1>3. CASE disk'[w] = disk[w] /\ published'[w] = published[w]
  <2>1. trustedNew = trusted /\ givenNew = given
    BY <1>3
  <2> QED  BY <2>1 DEF Cosigners!avars
<1>4. CASE disk'[w] = Corrupt /\ published'[w] = published[w]
  <2>1. trustedNew = [trusted EXCEPT ![w] = Corrupt] /\ givenNew = given
    BY <1>2, <1>4
  <2>2. Cosigners!Lose(w)
    BY <2>1 DEF Cosigners!Lose
  <2> QED  BY <2>2 DEF Cosigners!ANext
<1>5. CASE pc[w] = "save" /\ disk'[w] = st[w]
             /\ published'[w] \in {published[w], published[w] \cup {st[w]}}
  <2>1. disk[w] # Corrupt
    BY <1>5 DEF WitnessInv, CorruptIsDown
  <2>2. st[w] \in TreeHead /\ Extends(st[w], disk[w])
    BY <1>1, <1>5, <2>1, SaveExtends
  <2>3. trusted[w] = disk[w] /\ trustedNew[w] = st[w]
    BY <1>5
  <2>4. trustedNew = [trusted EXCEPT ![w] = trustedNew[w]]
    BY <1>2, <2>3, <1>5
  <2>5. Cosigners!Trust(w)
    BY <2>1, <2>2, <2>3, <2>4, SameTreeHeads DEF Cosigners!Trust
  <2>6. CASE published'[w] = published[w]
    <3>1. givenNew = given
      BY <1>2, <2>6
    <3> QED  BY <2>5, <3>1 DEF Cosigners!Remember, Cosigners!ANext
  <2>7. CASE published'[w] = published[w] \cup {st[w]}
    <3>1. givenNew = [given EXCEPT ![w] = @ \cup {trustedNew[w]}]
      BY <1>2, <2>3, <2>7
    <3> QED  BY <2>5, <3>1 DEF Cosigners!Give, Cosigners!ANext
  <2> QED  BY <1>5, <2>6, <2>7
<1> QED  BY <1>3, <1>4, <1>5 DEF FileStep

\* The durable witnesses implement the abstract cosigner: with the state file
\* for what it remembers, every step of a poll, a save, a crash or a restart is
\* one of its steps or none.
THEOREM WitnessImplementsCosigner == Spec => ImplementsCosigner
<1>1. Init => Cosigners!AInit
  BY DEF Init, FreshWitnesses, Cosigners!AInit, Durable
<1>2. ASSUME WitnessInv, [Next]_vars
      PROVE  Cosigners!ANext \/ UNCHANGED Cosigners!avars
  <2>1. Durable \subseteq Witness
    BY DEF Durable
  <2>2. CASE \A x \in Durable : disk'[x] = disk[x] /\ published'[x] = published[x]
    BY <2>2 DEF Cosigners!avars
  <2>3. CASE \E w \in Durable :
                /\ FileStep(w)
                /\ \A x \in Durable \ {w} : disk'[x] = disk[x] /\ published'[x] = published[x]
    BY <1>2, <2>3, CosignerStep
  <2> QED  BY <1>2, <2>1, <2>2, <2>3, FilesChange
<1>3. WitnessInv /\ [Next]_vars => [Cosigners!ANext]_(Cosigners!avars)
  BY <1>2
<1> QED  BY <1>1, <1>3, WitnessInvHolds, PTL DEF Spec, ImplementsCosigner, Cosigners!ASpec
=============================================================================
