--------------------------- MODULE BoltCacheProofs ---------------------------
(***************************************************************************)
(* The main cache, proved for any number of calls and keys, over closing,  *)
(* crashing and opening it again.  What the two layers, the write-back of  *)
(* Close and a promotion under way hold for a key that was not raced is    *)
(* current: no complete Set had begun after it was written.  Only the disk *)
(* may be behind, after a write of it failed; while it is, the key is hot, *)
(* and nobody reads the disk.                                              *)
(***************************************************************************)
EXTENDS BoltCache, TLAPS

\* Only what is hot is written back or handed out, and only Close writes back.
ShapeInv ==
    /\ todo \subseteq Entries(hot)
    /\ writeBack # <<>> => hot[writeBack[1]] # Absent /\ db \in {"closing", "crashed"}
    /\ \A g \in Callers : pc[g] = "promote" => got[g] # Absent

\* What a call remembers are values of Sets of its key that are complete.
BeforeInv == \A c \in Callers : before[c] \subseteq Written(key[c])

Setting(k) == {c \in Callers : op[c] = "set" /\ key[c] = k /\ pc[c] = "disk"}

Reading(k) == {g \in Callers : op[g] = "get" /\ key[g] = k /\ pc[g] \in {"disk", "promote"}}

\* No complete Set of k had begun after v was written.
Current(v, k) == \A s \in Written(k) \ {Old} : v \notin before[s]

\* As long as nothing has raced, a cold read and a Set of a key exclude each other
\* between their steps: what a Set has put into memory is found there.
Apart(k) ==
    /\ Setting(k) # {} => Reading(k) = {} /\ hot[k] # Absent
    /\ \A c \in Setting(k) : hot[k] \notin before[c]

\* The last write of the key to the disk failed, and memory stands in for it.
Behind(k) == k \in unsaved /\ hot[k] # Absent /\ Reading(k) = {}

AllCurrent(k) ==
    /\ Current(hot[k], k)
    /\ Current(disk[k], k) \/ Behind(k)
    /\ writeBack # <<>> /\ writeBack[1] = k => Current(writeBack[2], k)
    /\ \A g \in Reading(k) : pc[g] = "promote" => Current(got[g], k)

\* During a cold read the layers agree, and so does what Close is writing.
Agree(k) ==
    /\ writeBack # <<>> /\ writeBack[1] = k => writeBack[2] = hot[k]
    /\ \A g \in Reading(k) :
          /\ hot[k] \in {Absent, disk[k]}
          /\ pc[g] = "promote" => got[g] = disk[k]

\* Close has written every hot entry, or failed to, or has it before it.
Settling(k) ==
    db \in {"closing", "closed"} /\ hot[k] # Absent =>
        \/ db = "closing" /\ k \in todo
        \/ writeBack # <<>> /\ writeBack[1] = k
        \/ disk[k] = hot[k]
        \/ k \in unsaved

KeyInv(k) == Apart(k) /\ Agree(k) /\ Settling(k) /\ (k \notin lost => AllCurrent(k))

IInv ==
    /\ TypeOK /\ ShapeInv /\ BeforeInv
    /\ \A k \in Keys \ raced : KeyInv(k)
    /\ ReadsNotSuperseded

-----------------------------------------------------------------------------
(* Types and shape *)

LEMMA TypeInit == Init => TypeOK /\ ShapeInv
  BY ValuesAssumption DEF Init, TypeOK, ShapeInv, Entries, Values

\* A step of one call.
LEMMA TypeOperation ==
  ASSUME TypeOK, ShapeInv, NEW c \in Callers, Operation(c)
  PROVE  TypeOK' /\ ShapeInv'
  <1>a. CASE \E o \in {"get", "set"}, k \in Keys : Call(c, o, k)
    <2>1. Written(key'[c]) \subseteq Values
      BY DEF Written, Values
    <2>2. PICK o \in {"get", "set"}, k \in Keys : Call(c, o, k)
      BY <1>a
    <2>3. Written(k) \subseteq Values
      BY DEF Written, Values
    <2> QED BY <2>2, <2>3 DEF Call, TypeOK, ShapeInv, Entries, layers, closing, failures
  <1>b. CASE GetHot(c)
    BY <1>b DEF GetHot, At, Goto, TypeOK, ShapeInv, Entries, layers, closing, failures, arguments
  <1>c. CASE GetDisk(c)
    BY <1>c DEF GetDisk, At, Goto, TypeOK, ShapeInv, Entries, layers, closing, failures, arguments
  <1>d. CASE Promote(c)
    BY <1>d DEF Promote, At, Goto, TypeOK, ShapeInv, Entries, closing, arguments, failures
  <1>e. CASE SetHot(c)
    BY <1>e, ValuesAssumption
    DEF SetHot, MarkRace, At, Goto, TypeOK, ShapeInv, Entries, closing, arguments, failures, Values
  <1>f. CASE SetDisk(c)
    BY <1>f
    DEF SetDisk, Save, MarkRace, At, Goto, TypeOK, ShapeInv, Entries, closing, arguments, failures, Values
  <1> QED BY <1>a, <1>b, <1>c, <1>d, <1>e, <1>f DEF Operation

\* A step of Close, a crash, or New.
LEMMA TypeClosing ==
  ASSUME TypeOK, ShapeInv,
         CloseBegin \/ (\E k \in Keys : FlushRead(k)) \/ FlushWrite \/ CloseEnd
           \/ Crash \/ Reopen \/ UNCHANGED vars
  PROVE  TypeOK' /\ ShapeInv'
  <1>a. CASE CloseBegin
    BY <1>a DEF CloseBegin, TypeOK, ShapeInv, Entries, layers, arguments, failures
  <1>b. CASE \E k \in Keys : FlushRead(k)
    BY <1>b DEF FlushRead, TypeOK, ShapeInv, Entries, layers, arguments, failures
  <1>c. CASE FlushWrite
    BY <1>c DEF FlushWrite, Save, TypeOK, ShapeInv, Entries, arguments, failures
  <1>d. CASE CloseEnd
    BY <1>d DEF CloseEnd, TypeOK, ShapeInv, Entries, layers, arguments, failures
  <1>e. CASE Crash
    BY <1>e DEF Crash, TypeOK, ShapeInv, Entries, layers, arguments, failures
  <1>f. CASE Reopen
    BY <1>f DEF Reopen, TypeOK, ShapeInv, Entries, arguments, failures
  <1>g. CASE UNCHANGED vars
    BY <1>g DEF vars, TypeOK, ShapeInv, Entries
  <1> QED BY <1>a, <1>b, <1>c, <1>d, <1>e, <1>f, <1>g

LEMMA TypeStep == TypeOK /\ ShapeInv /\ [Next]_vars => TypeOK' /\ ShapeInv'
  BY TypeOperation, TypeClosing DEF Next

\* Every variable keeps its type; in particular Close writes values only.
THEOREM TypeCorrect == Spec => []TypeOK
  <1>1. Spec => [](TypeOK /\ ShapeInv)
    BY TypeInit, TypeStep, PTL DEF Spec
  <1> QED BY <1>1, PTL

-----------------------------------------------------------------------------
(* What is complete, and what is current *)

\* A call that is under way keeps its arguments, and one that is done stays so.
LEMMA CallsKept ==
  ASSUME TypeOK, [Next]_vars, NEW c \in Callers, pc[c] # "idle"
  PROVE  /\ op'[c] = op[c] /\ key'[c] = key[c] /\ before'[c] = before[c]
         /\ pc'[c] # "idle"
         /\ pc[c] = "done" => pc'[c] = "done" /\ got'[c] = got[c]
  BY DEF TypeOK, Next, Operation, vars, layers, closing, failures, arguments, At, Goto,
         Call, GetHot, GetDisk, Promote, SetHot, SetDisk, Save, failures,
         CloseBegin, FlushRead, FlushWrite, CloseEnd, Crash, Reopen

\* Only the disk step of a Set completes one.
LEMMA WrittenKept ==
  ASSUME TypeOK, [Next]_vars, \A c \in Callers : ~SetDisk(c), NEW k \in Keys
  PROVE  Written(k)' = Written(k)
  BY DEF Written, TypeOK, Next, Operation, vars, layers, closing, failures, arguments, At, Goto,
         Call, GetHot, GetDisk, Promote, SetHot, failures,
         CloseBegin, FlushRead, FlushWrite, CloseEnd, Crash, Reopen

LEMMA WrittenSet ==
  ASSUME TypeOK, NEW c \in Callers, SetDisk(c), NEW k \in Keys
  PROVE  Written(k)' = Written(k) \cup (IF k = key[c] THEN {c} ELSE {})
  BY DEF Written, TypeOK, SetDisk, closing, arguments, At, Goto

LEMMA BeforeStep ==
  ASSUME TypeOK, BeforeInv, [Next]_vars
  PROVE  BeforeInv'
  <1>1. \A k \in Keys : Written(k) \subseteq Written(k)'
    BY WrittenKept, WrittenSet
  <1> SUFFICES ASSUME NEW c \in Callers
               PROVE  before'[c] \subseteq Written(key[c])'
    BY DEF BeforeInv
  <1>2. CASE pc[c] # "idle"
    BY <1>1, <1>2, CallsKept DEF BeforeInv, TypeOK
  <1>3. CASE \E o \in {"get", "set"}, k \in Keys : Call(c, o, k)
    BY <1>1, <1>3 DEF Call, TypeOK
  <1>4. CASE pc[c] = "idle" /\ ~ \E o \in {"get", "set"}, k \in Keys : Call(c, o, k)
    <2>1. before'[c] = before[c] /\ key'[c] = key[c]
      BY <1>4 DEF TypeOK, Next, Operation, vars, layers, closing, failures, arguments, At, Goto,
         Call, GetHot, GetDisk, Promote, SetHot, SetDisk, Save, failures,
         CloseBegin, FlushRead, FlushWrite, CloseEnd, Crash, Reopen
    <2> QED BY <1>1, <2>1 DEF BeforeInv, TypeOK
  <1> QED BY <1>2, <1>3, <1>4

\* The value of a Set that is not complete is in nobody's memory.
LEMMA UnfinishedIsCurrent ==
  ASSUME TypeOK, BeforeInv, NEW c \in Callers, pc[c] # "done"
  PROVE  /\ \A s \in Callers : c \notin before[s]
         /\ \A k \in Keys : Current(c, k)
  BY ValuesAssumption DEF BeforeInv, Current, Written, TypeOK

LEMMA AbsentIsCurrent ==
  ASSUME TypeOK
  PROVE  \A k \in Keys : Current(Absent, k)
  BY ValuesAssumption DEF Current, Written, TypeOK, Values

\* A value stays current until a Set that had begun after its writing completes.
LEMMA CurrentKept ==
  ASSUME TypeOK, [Next]_vars, \A c \in Callers : ~SetDisk(c), NEW k \in Keys, NEW v
  PROVE  Current(v, k)' <=> Current(v, k)
  <1>1. \A s \in Written(k) \ {Old} : before'[s] = before[s]
    BY CallsKept DEF Written
  <1> QED BY <1>1, WrittenKept DEF Current

LEMMA CurrentSet ==
  ASSUME TypeOK, NEW c \in Callers, SetDisk(c), NEW k \in Keys, NEW v
  PROVE  Current(v, k)' <=> Current(v, k) /\ (k = key[c] => v \notin before[c])
  <1>1. before' = before
    BY DEF SetDisk, Save, arguments
  <1> QED BY <1>1, WrittenSet, ValuesAssumption DEF Current

-----------------------------------------------------------------------------
(* What holds for a key that was not raced, step by step *)

Known == TypeOK /\ ShapeInv /\ BeforeInv

\* A Set that does not race finds the database open and nobody reading the key.
LEMMA UnracedSet ==
  ASSUME TypeOK, NEW c \in Callers, MarkRace(key[c]), key[c] \notin raced'
  PROVE  db = "open" /\ Reading(key[c]) = {}
  BY DEF MarkRace, Races, Reading, TypeOK

LEMMA RacesStay ==
  ASSUME TypeOK, [Next]_vars
  PROVE  /\ raced \subseteq raced' /\ lost \subseteq lost'
         /\ Reopen => unsaved \subseteq lost'
  BY DEF failures,  Next, Operation, vars, MarkRace,
         Call, GetHot, GetDisk, Promote, SetHot, SetDisk, Save, failures,
         CloseBegin, FlushRead, FlushWrite, CloseEnd, Crash, Reopen

\* A step that leaves a key, its readers and its writers alone.
LEMMA KeyFrame ==
  ASSUME NEW k \in Keys, KeyInv(k),
         hot'[k] = hot[k], disk'[k] = disk[k], UNCHANGED closing,
         k \in unsaved' <=> k \in unsaved, lost' = lost,
         Setting(k)' = Setting(k), Reading(k)' = Reading(k),
         \A c \in Setting(k) : before'[c] = before[c],
         \A g \in Reading(k) : pc'[g] = pc[g] /\ got'[g] = got[g],
         \A v : Current(v, k)' <=> Current(v, k)
  PROVE  KeyInv(k)'
  <1>1. Apart(k)' /\ Agree(k)' /\ Settling(k)'
    BY DEF KeyInv, Apart, Agree, Settling, closing
  <1>2. k \notin lost => AllCurrent(k)'
    <2> SUFFICES ASSUME k \notin lost PROVE AllCurrent(k)'
      OBVIOUS
    <2>1. Current(hot[k], k)' /\ (Current(disk[k], k) \/ Behind(k))'
      BY DEF KeyInv, AllCurrent, Behind
    <2> QED BY <2>1 DEF KeyInv, AllCurrent, closing
  <1> QED BY <1>1, <1>2 DEF KeyInv

LEMMA CallKeeps ==
  ASSUME Known, NEW k \in Keys, KeyInv(k), NEW c \in Callers,
         NEW o \in {"get", "set"}, NEW j \in Keys, Call(c, o, j)
  PROVE  KeyInv(k)'
  <1>1. [Next]_vars /\ \A d \in Callers : ~SetDisk(d)
    BY DEF Known, Next, Operation, Call, SetDisk, At, Goto, TypeOK
  <1>2. \A v : Current(v, k)' <=> Current(v, k)
    BY <1>1, CurrentKept DEF Known
  <1>3. Setting(k)' = Setting(k) /\ Reading(k)' = Reading(k)
    BY DEF Known, TypeOK, Call, Setting, Reading
  <1>4. \A d \in Setting(k) \cup Reading(k) :
           before'[d] = before[d] /\ pc'[d] = pc[d] /\ got'[d] = got[d]
    BY DEF Known, TypeOK, Call, Setting, Reading
  <1> QED BY <1>2, <1>3, <1>4, KeyFrame DEF Call, layers, failures

LEMMA GetHotKeeps ==
  ASSUME Known, NEW k \in Keys, KeyInv(k), NEW c \in Callers, GetHot(c)
  PROVE  KeyInv(k)'
  <1>0. lost' = lost
    BY DEF GetHot, failures
  <1>1. [Next]_vars /\ \A d \in Callers : ~SetDisk(d)
    BY DEF Known, Next, Operation, GetHot, SetDisk, At, Goto, TypeOK
  <1>2. \A v : Current(v, k)' <=> Current(v, k)
    BY <1>1, CurrentKept DEF Known
  <1>3. Setting(k)' = Setting(k)
    BY DEF Known, TypeOK, GetHot, At, Goto, arguments, Setting
  <1>4. \A d \in Reading(k) : pc'[d] = pc[d] /\ got'[d] = got[d]
    BY DEF Known, TypeOK, GetHot, At, Goto, arguments, Reading
  <1>5. CASE key[c] = k /\ hot[k] = Absent
    <2>1. Reading(k)' = Reading(k) \cup {c} /\ pc'[c] = "disk"
      BY <1>5 DEF Known, TypeOK, GetHot, At, Goto, arguments, Reading
    <2>2. Setting(k) = {}
      BY <1>5 DEF KeyInv, Apart
    <2>3. UNCHANGED <<hot, disk, db, todo, writeBack, unsaved>>
      BY DEF GetHot, layers, closing, failures
    <2>4. Apart(k)' /\ Agree(k)' /\ Settling(k)'
      BY <1>3, <1>4, <1>5, <2>1, <2>2, <2>3 DEF KeyInv, Apart, Agree, Settling
    <2>5. k \notin lost => AllCurrent(k)'
      BY <1>2, <1>4, <1>5, <2>1, <2>3 DEF KeyInv, AllCurrent, Behind
    <2> QED BY <1>0, <2>4, <2>5 DEF KeyInv
  <1>6. CASE ~(key[c] = k /\ hot[k] = Absent)
    <2>1. Reading(k)' = Reading(k)
      BY <1>6 DEF Known, TypeOK, GetHot, At, Goto, arguments, Reading
    <2> QED BY <1>0, <1>2, <1>3, <1>4, <2>1, KeyFrame DEF GetHot, layers, arguments, failures
  <1> QED BY <1>5, <1>6

LEMMA GetDiskKeeps ==
  ASSUME Known, NEW k \in Keys, KeyInv(k), NEW c \in Callers, GetDisk(c)
  PROVE  KeyInv(k)'
  <1>0. lost' = lost
    BY DEF GetDisk, failures
  <1>1. [Next]_vars /\ \A d \in Callers : ~SetDisk(d)
    BY DEF Known, Next, Operation, GetDisk, SetDisk, At, Goto, TypeOK
  <1>2. \A v : Current(v, k)' <=> Current(v, k)
    BY <1>1, CurrentKept DEF Known
  <1>3. Setting(k)' = Setting(k)
    BY DEF Known, TypeOK, GetDisk, At, Goto, arguments, Setting
  <1>4. UNCHANGED <<hot, disk, db, todo, writeBack, key, before, unsaved>>
    BY DEF GetDisk, layers, closing, failures, arguments
  <1>5. Reading(k)' \subseteq Reading(k)
    BY DEF Known, TypeOK, GetDisk, At, Goto, arguments, Reading
  <1>6. \A d \in Reading(k)' : \/ pc'[d] = pc[d] /\ got'[d] = got[d]
                              \/ got'[d] = disk[k]
    BY DEF Known, TypeOK, GetDisk, At, Goto, arguments, Reading
  <1>7. Apart(k)' /\ Agree(k)' /\ Settling(k)'
    BY <1>3, <1>4, <1>5, <1>6 DEF KeyInv, Apart, Agree, Settling
  <1>9. k \notin lost /\ Reading(k) # {} => Current(disk[k], k)
    BY DEF KeyInv, AllCurrent, Behind
  <1>8. k \notin lost => AllCurrent(k)'
    <2> SUFFICES ASSUME k \notin lost PROVE AllCurrent(k)'
      OBVIOUS
    <2>1. \A g \in Reading(k)' : pc'[g] = "promote" => Current(got'[g], k)
      BY <1>5, <1>6, <1>9 DEF KeyInv, AllCurrent
    <2>2. Current(hot'[k], k) /\ (Current(disk'[k], k) \/ Behind(k)')
          /\ (writeBack' # <<>> /\ writeBack'[1] = k => Current(writeBack'[2], k))
      BY <1>4, <1>5 DEF KeyInv, AllCurrent, Behind
    <2> QED BY <1>2, <2>1, <2>2 DEF AllCurrent
  <1> QED BY <1>0, <1>7, <1>8 DEF KeyInv

LEMMA PromoteKeeps ==
  ASSUME Known, NEW k \in Keys, KeyInv(k), NEW c \in Callers, Promote(c)
  PROVE  KeyInv(k)'
  <1>0. lost' = lost
    BY DEF Promote, failures
  <1>1. [Next]_vars /\ \A d \in Callers : ~SetDisk(d)
    BY DEF Known, Next, Operation, Promote, SetDisk, At, Goto, TypeOK
  <1>2. \A v : Current(v, k)' <=> Current(v, k)
    BY <1>1, CurrentKept DEF Known
  <1>3. Setting(k)' = Setting(k)
    BY DEF Known, TypeOK, Promote, At, Goto, arguments, Setting
  <1>4. UNCHANGED <<disk, db, todo, writeBack, key, before, got, unsaved>>
    BY DEF Promote, closing, arguments, failures
  <1>5. Reading(k)' = Reading(k) \ {c} /\ \A d \in Reading(k)' : pc'[d] = pc[d]
    BY DEF Known, TypeOK, Promote, At, Goto, arguments, Reading
  <1>6. CASE key[c] = k
    <2>1. c \in Reading(k) /\ pc[c] = "promote" /\ hot'[k] = got[c]
      BY <1>6 DEF Known, TypeOK, Promote, At, Reading
    <2>2. got[c] = disk[k] /\ hot[k] \in {Absent, disk[k]} /\ Setting(k) = {}
      BY <2>1 DEF KeyInv, Agree, Apart
    <2>3. writeBack # <<>> /\ writeBack[1] = k => writeBack[2] = disk[k]
      BY <2>2 DEF KeyInv, Agree, Known, ShapeInv
    <2>4. Apart(k)' /\ Agree(k)' /\ Settling(k)'
      BY <1>3, <1>4, <1>5, <2>1, <2>2, <2>3 DEF KeyInv, Apart, Agree, Settling
    <2>5. k \notin lost => AllCurrent(k)'
      BY <1>2, <1>4, <1>5, <2>1, <2>2 DEF KeyInv, AllCurrent, Behind
    <2> QED BY <1>0, <2>4, <2>5 DEF KeyInv
  <1>7. CASE key[c] # k
    <2>1. hot'[k] = hot[k] /\ Reading(k)' = Reading(k)
      BY <1>5, <1>7 DEF Known, TypeOK, Promote, Reading
    <2> QED BY <1>0, <1>2, <1>3, <1>4, <1>5, <2>1, KeyFrame DEF closing
  <1> QED BY <1>6, <1>7

LEMMA SetHotKeeps ==
  ASSUME Known, NEW k \in Keys \ raced', KeyInv(k), NEW c \in Callers, SetHot(c)
  PROVE  KeyInv(k)'
  <1>0. lost' = lost
    BY DEF SetHot, failures
  <1>1. [Next]_vars /\ \A d \in Callers : ~SetDisk(d)
    BY DEF Known, Next, Operation, SetHot, SetDisk, At, Goto, TypeOK
  <1>2. \A v : Current(v, k)' <=> Current(v, k)
    BY <1>1, CurrentKept DEF Known
  <1>3. UNCHANGED <<disk, db, todo, writeBack, key, before, got, unsaved>>
    BY DEF SetHot, closing, arguments, failures
  <1>4. Reading(k)' = Reading(k) /\ \A d \in Reading(k) : pc'[d] = pc[d]
    BY DEF Known, TypeOK, SetHot, At, Goto, arguments, Reading
  <1>5. CASE key[c] = k
    <2>1. db = "open" /\ Reading(k) = {}
      BY <1>5, UnracedSet DEF SetHot, Known
    <2>2. writeBack = <<>> /\ hot'[k] = c
      BY <1>5, <2>1 DEF Known, ShapeInv, TypeOK, SetHot
    <2>3. Current(c, k) /\ \A d \in Callers : c \notin before[d]
      BY UnfinishedIsCurrent DEF Known, SetHot, At
    <2>4. Apart(k)' /\ Agree(k)' /\ Settling(k)'
      BY <1>3, <1>4, <2>1, <2>2, <2>3, ValuesAssumption DEF Apart, Agree, Settling, Setting
    <2>5. k \notin lost => AllCurrent(k)'
      BY <1>2, <1>3, <1>4, <2>1, <2>2, <2>3, ValuesAssumption DEF KeyInv, AllCurrent, Behind
    <2> QED BY <1>0, <2>4, <2>5 DEF KeyInv
  <1>6. CASE key[c] # k
    <2>1. hot'[k] = hot[k] /\ Setting(k)' = Setting(k)
      BY <1>6 DEF Known, TypeOK, SetHot, At, Goto, arguments, Setting
    <2> QED BY <1>0, <1>2, <1>3, <1>4, <2>1, KeyFrame DEF closing
  <1> QED BY <1>5, <1>6

LEMMA SetDiskKeeps ==
  ASSUME Known, NEW k \in Keys \ raced', KeyInv(k), NEW c \in Callers, SetDisk(c)
  PROVE  KeyInv(k)'
  <1>0. lost' = lost
    BY DEF SetDisk, failures
  <1>1. \A v : Current(v, k)' <=> Current(v, k) /\ (k = key[c] => v \notin before[c])
    BY CurrentSet DEF Known
  <1>2. UNCHANGED <<hot, db, todo, writeBack, key, before, got>>
    BY DEF SetDisk, Save, closing, arguments
  <1>3. Reading(k)' = Reading(k) /\ \A d \in Reading(k) : pc'[d] = pc[d]
    BY DEF Known, TypeOK, SetDisk, At, Goto, arguments, Reading
  <1>4. Setting(k)' = Setting(k) \ {c}
    BY DEF Known, TypeOK, SetDisk, At, Goto, arguments, Setting
  <1>5. CASE key[c] = k
    <2>1. db = "open" /\ Reading(k) = {}
      BY <1>5, UnracedSet DEF SetDisk, Known
    <2>2. /\ writeBack = <<>> /\ c \in Setting(k)
          /\ disk'[k] = c \/ (disk'[k] = disk[k] /\ k \in unsaved')
      <3>1. writeBack = <<>> /\ c \in Setting(k)
        BY <1>5, <2>1 DEF Known, ShapeInv, TypeOK, SetDisk, At, Setting
      <3>2. disk'[k] = c \/ (disk'[k] = disk[k] /\ k \in unsaved')
        <4>1. Save(k, c) /\ disk \in [Keys -> Values \cup {Absent}]
          BY Zenon, <1>5 DEF Known, TypeOK, SetDisk
        <4> QED BY <4>1 DEF Save
      <3> QED BY <3>1, <3>2
    <2>3. Current(c, k) /\ c \notin before[c]
      BY UnfinishedIsCurrent DEF Known, SetDisk, At
    <2>4. Apart(k)' /\ Agree(k)' /\ Settling(k)'
      BY <1>2, <1>3, <1>4, <2>1, <2>2 DEF KeyInv, Apart, Agree, Settling
    <2>5. (k \notin lost => Current(hot[k], k)) /\ hot[k] \notin before[c]
      BY <2>2 DEF KeyInv, Apart, AllCurrent
    <2>7. disk'[k] = c \/ Behind(k)'
      BY <1>2, <1>3, <2>1, <2>2 DEF KeyInv, Apart, Behind
    <2>6. k \notin lost => AllCurrent(k)'
      BY <1>1, <1>2, <1>3, <2>1, <2>2, <2>3, <2>5, <2>7 DEF AllCurrent
    <2> QED BY <1>0, <2>4, <2>6 DEF KeyInv
  <1>6. CASE key[c] # k
    <2>1. disk'[k] = disk[k] /\ Setting(k)' = Setting(k) /\ (k \in unsaved' <=> k \in unsaved)
      BY <1>4, <1>6 DEF Known, TypeOK, SetDisk, Save, At, Setting
    <2>2. \A v : Current(v, k)' <=> Current(v, k)
      BY <1>1, <1>6
    <2> QED BY <1>0, <1>2, <1>3, <2>1, <2>2, KeyFrame DEF closing
  <1> QED BY <1>5, <1>6

ClosingStep ==
    \/ CloseBegin \/ (\E k \in Keys : FlushRead(k)) \/ FlushWrite \/ CloseEnd
    \/ Crash \/ UNCHANGED vars

\* Close writes a key that is being read only with what is on disk already.
LEMMA ClosingKeeps ==
  ASSUME Known, NEW k \in Keys, KeyInv(k), ClosingStep
  PROVE  KeyInv(k)'
  <1>1. [Next]_vars /\ \A d \in Callers : ~SetDisk(d)
    BY DEF Known, ClosingStep, Next, SetDisk, At, Goto, TypeOK, vars, arguments,
           CloseBegin, FlushRead, FlushWrite, CloseEnd, Crash
  <1>2. \A v : Current(v, k)' <=> Current(v, k)
    BY <1>1, CurrentKept DEF Known
  <1>3. UNCHANGED <<hot, pc, op, key, before, got, lost>>
    BY DEF ClosingStep, vars, layers, arguments, failures,
           CloseBegin, FlushRead, FlushWrite, CloseEnd, Crash
  <1>4. Setting(k)' = Setting(k) /\ Reading(k)' = Reading(k)
    BY <1>3 DEF Setting, Reading
  <1>5. CASE CloseBegin
    <2>1. UNCHANGED <<disk, writeBack, unsaved>> /\ db' = "closing" /\ todo' = Entries(hot)
      BY <1>5 DEF CloseBegin, layers, failures
    <2>2. Apart(k)' /\ Agree(k)' /\ Settling(k)'
      BY <1>3, <1>4, <2>1 DEF KeyInv, Apart, Agree, Settling, Entries
    <2>3. k \notin lost => AllCurrent(k)'
      BY <1>2, <1>3, <1>4, <2>1 DEF KeyInv, AllCurrent, Behind
    <2> QED BY <1>3, <2>2, <2>3 DEF KeyInv
  <1>6. CASE \E j \in Keys : FlushRead(j)
    <2>1. PICK j \in Keys : FlushRead(j)
      BY <1>6
    <2>2. UNCHANGED <<disk, db, unsaved>> /\ writeBack = <<>> /\ writeBack' = <<j, hot[j]>>
          /\ todo' = todo \ {j}
      BY <2>1 DEF FlushRead, layers, failures
    <2>3. Apart(k)' /\ Agree(k)' /\ Settling(k)'
      BY <1>3, <1>4, <2>2 DEF KeyInv, Apart, Agree, Settling
    <2>4. k \notin lost => AllCurrent(k)'
      BY <1>2, <1>3, <1>4, <2>2 DEF KeyInv, AllCurrent, Behind
    <2> QED BY <1>3, <2>3, <2>4 DEF KeyInv
  <1>7. CASE FlushWrite
    <2>1. UNCHANGED <<db, todo>> /\ writeBack # <<>> /\ writeBack' = <<>>
          /\ \/ disk'[k] = disk[k] /\ writeBack[1] # k /\ (k \in unsaved' <=> k \in unsaved)
             \/ disk'[k] = disk[k] /\ writeBack[1] = k /\ k \in unsaved'
             \/ disk'[k] = writeBack[2] /\ writeBack[1] = k
      BY <1>7 DEF FlushWrite, Save, Known, TypeOK
    <2>2. writeBack[1] = k => /\ writeBack[2] = hot[k] /\ hot[k] # Absent
                              /\ k \notin lost => Current(writeBack[2], k)
      BY <2>1 DEF KeyInv, Agree, AllCurrent, Known, ShapeInv
    <2>3. Reading(k) # {} => disk'[k] = disk[k]
      BY <2>1, <2>2 DEF KeyInv, Agree
    <2>4. Apart(k)' /\ Agree(k)' /\ Settling(k)'
      BY <1>3, <1>4, <2>1, <2>2, <2>3 DEF KeyInv, Apart, Agree, Settling
    <2>5. k \notin lost => AllCurrent(k)'
      BY <1>2, <1>3, <1>4, <2>1, <2>2 DEF KeyInv, AllCurrent, Behind
    <2> QED BY <1>3, <2>4, <2>5 DEF KeyInv
  <1>8. CASE CloseEnd \/ Crash \/ UNCHANGED vars
    <2>1. UNCHANGED <<disk, todo, writeBack, unsaved>>
          /\ \/ db' = "closed" /\ db = "closing" /\ todo = {} /\ writeBack = <<>>
             \/ db' \in {"crashed", db}
      BY <1>8 DEF CloseEnd, Crash, vars, layers, failures
    <2>2. Apart(k)' /\ Agree(k)' /\ Settling(k)'
      BY <1>3, <1>4, <2>1 DEF KeyInv, Apart, Agree, Settling
    <2>3. k \notin lost => AllCurrent(k)'
      BY <1>2, <1>3, <1>4, <2>1 DEF KeyInv, AllCurrent, Behind
    <2> QED BY <1>3, <2>2, <2>3 DEF KeyInv
  <1> QED BY <1>5, <1>6, <1>7, <1>8 DEF ClosingStep

LEMMA ReopenKeeps ==
  ASSUME Known, NEW k \in Keys, KeyInv(k), Reopen
  PROVE  KeyInv(k)'
  <1>1. [Next]_vars /\ \A d \in Callers : ~SetDisk(d)
    BY DEF Known, Next, Reopen, SetDisk, At, Goto, TypeOK
  <1>2. \A v : Current(v, k)' <=> Current(v, k)
    BY <1>1, CurrentKept DEF Known
  <1>3. Setting(k)' = {} /\ Reading(k)' = {}
    BY DEF Reopen, Known, TypeOK, Setting, Reading
  <1>4. hot'[k] = Absent /\ disk' = disk /\ writeBack' = <<>> /\ db' = "open"
    BY DEF Reopen
  <1>5. Current(Absent, k) /\ (k \notin lost' => Current(disk[k], k))
    BY AbsentIsCurrent DEF KeyInv, AllCurrent, Behind, Known, Reopen
  <1> QED BY <1>2, <1>3, <1>4, <1>5 DEF KeyInv, Apart, AllCurrent, Agree, Settling

-----------------------------------------------------------------------------
(* The invariant, and what it says *)

LEMMA KeyStep ==
  ASSUME IInv, [Next]_vars, NEW k \in Keys \ raced'
  PROVE  KeyInv(k)'
  <1>1. Known /\ KeyInv(k)
    BY RacesStay DEF IInv, Known
  <1>2. ASSUME NEW c \in Callers, Operation(c) PROVE KeyInv(k)'
    BY <1>1, <1>2, CallKeeps, GetHotKeeps, GetDiskKeeps, PromoteKeeps, SetHotKeeps,
       SetDiskKeeps DEF Operation
  <1> QED BY <1>1, <1>2, ClosingKeeps, ReopenKeeps DEF Next, ClosingStep

\* The step that completes a Get returns what is current.
LEMMA ReadsStep ==
  ASSUME IInv, [Next]_vars
  PROVE  ReadsNotSuperseded'
  <1> USE DEF IInv
  <1> SUFFICES ASSUME NEW g \in Callers, op'[g] = "get", pc'[g] = "done",
                      key'[g] \notin (raced \cup lost)', NEW s \in before'[g] \ {Old}
               PROVE  got'[g] \notin before'[s]
    BY DEF ReadsNotSuperseded
  <1>1. pc[g] \notin {"idle", "dead"}
    BY DEF TypeOK, Next, Operation, vars, layers, closing, failures, arguments, At, Goto,
         Call, GetHot, GetDisk, Promote, SetHot, SetDisk, Save, failures,
         CloseBegin, FlushRead, FlushWrite, CloseEnd, Crash, Reopen
  <1>2. op[g] = "get" /\ key'[g] = key[g] /\ before'[g] = before[g] /\ key[g] \in Keys \ (raced \cup lost)
    BY <1>1, CallsKept, RacesStay DEF TypeOK
  <1>3. s \in Callers /\ s \in Written(key[g]) \ {Old} /\ before'[s] = before[s]
    BY <1>2, CallsKept DEF BeforeInv, Written
  <1>4. CASE pc[g] = "done"
    BY <1>2, <1>3, <1>4, CallsKept DEF ReadsNotSuperseded
  <1>5. CASE pc[g] # "done"
    <2>1. GetHot(g) \/ GetDisk(g) \/ Promote(g)
      BY <1>1, <1>2, <1>5
      DEF TypeOK, Next, Operation, vars, layers, closing, failures, arguments, At, Goto,
         Call, GetHot, GetDisk, Promote, SetHot, SetDisk, Save, failures,
         CloseBegin, FlushRead, FlushWrite, CloseEnd, Crash, Reopen
    <2>2. Current(got'[g], key[g])
      <3>1. KeyInv(key[g]) /\ key[g] \notin lost
        BY <1>2
      <3>2. CASE GetHot(g)
        BY <3>1, <3>2 DEF GetHot, TypeOK, KeyInv, AllCurrent
      <3>3. CASE GetDisk(g)
        <4>1. got'[g] = Absent
          BY <3>3 DEF GetDisk, At, Goto, TypeOK
        <4> QED BY <1>2, <4>1, AbsentIsCurrent
      <3>4. CASE Promote(g)
        BY <3>1, <3>4 DEF Promote, At, TypeOK, KeyInv, AllCurrent, Reading
      <3> QED BY <2>1, <3>2, <3>3, <3>4
    <2> QED BY <1>3, <2>2 DEF Current
  <1> QED BY <1>4, <1>5

LEMMA IInvInit == Init => IInv
  <1> SUFFICES ASSUME Init PROVE IInv
    OBVIOUS
  <1>1. TypeOK /\ ShapeInv
    BY TypeInit
  <1>2. BeforeInv /\ ReadsNotSuperseded
    BY DEF Init, BeforeInv, ReadsNotSuperseded
  <1>3. ASSUME NEW k \in Keys PROVE KeyInv(k)
    BY DEF Init, KeyInv, Apart, AllCurrent, Agree, Settling, Current, Written, Setting, Reading
  <1> QED BY <1>1, <1>2, <1>3 DEF IInv

LEMMA IInvStep == IInv /\ [Next]_vars => IInv'
  <1> SUFFICES ASSUME IInv, [Next]_vars PROVE IInv'
    OBVIOUS
  <1>1. TypeOK' /\ ShapeInv' /\ BeforeInv'
    BY TypeStep, BeforeStep DEF IInv
  <1>2. \A k \in Keys \ raced' : KeyInv(k)'
    BY KeyStep
  <1> QED BY <1>1, <1>2, ReadsStep DEF IInv

LEMMA IInvHolds == Spec => []IInv
  BY IInvInit, IInvStep, PTL DEF Spec

\* A Get of a key that was not raced never returns a value that a Set, complete
\* before the Get began, had replaced: not from either layer, and not after any
\* number of closes and crashes.
THEOREM ReadsNotSupersededHolds == Spec => []ReadsNotSuperseded
  <1>1. IInv => ReadsNotSuperseded
    BY DEF IInv
  <1> QED BY <1>1, IInvHolds, PTL

\* A Close that ran to its end has left on disk what was hot, for every key that
\* was not raced.
THEOREM CloseSettlesHolds == Spec => []CloseSettles
  <1>1. IInv => CloseSettles
    BY DEF IInv, ShapeInv, KeyInv, Settling, CloseSettles, Entries
  <1> QED BY <1>1, IInvHolds, PTL
=============================================================================
