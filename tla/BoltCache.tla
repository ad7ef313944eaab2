------------------------------ MODULE BoltCache ------------------------------
(***************************************************************************)
(* The main cache, internal/cache/boltdb.go: a bucket on disk and a map of *)
(* hot entries in memory, read and written one after the other by          *)
(* concurrent calls of Get and Set, closed while calls may be under way,   *)
(* and opened again after a Close or after the process has died.           *)
(*                                                                         *)
(* A bbolt transaction is one step; one that writes may fail (the database *)
(* is closed, the disk is full), and the code ignores that.  Del, which    *)
(* nothing calls, is left out.  The value a Set writes is named after the  *)
(* call; which calls were complete when another began is recorded in       *)
(* "before", and which writes failed in "unsaved" and "lost", for the      *)
(* properties.                                                             *)
(***************************************************************************)
CONSTANTS
    Callers,  \* calls of Get or Set
    Keys,     \* "domain|qtype"
    Old,      \* what an earlier run left on disk
    Absent    \* no entry

ASSUME ValuesAssumption ==
    Old \notin Callers /\ Absent \notin Callers \cup {Old}

Values == Callers \cup {Old}

VARIABLES
    hot, disk,  \* the two layers
    db,         \* open, closing (Close has begun), closed, or the process died
    todo,       \* keys Close has not come to
    writeBack,  \* <<key, value>> Close has read and not yet written, or <<>>
    pc, op, key,  \* per call: step, "get" or "set", argument
    got,        \* got[c]: what a Get has found so far
    before,     \* before[c]: the values whose writing was over when c began
    raced,      \* keys with a Set during a cold read or during a Close
    unsaved,    \* keys whose last write to the disk failed
    lost        \* keys that were so when an earlier run ended

vars == <<hot, disk, db, todo, writeBack, pc, op, key, got, before, raced, unsaved, lost>>

layers == <<hot, disk>>
closing == <<db, todo, writeBack>>
arguments == <<op, key, before>>
failures == <<unsaved, lost>>

Entries(layer) == {k \in Keys : layer[k] # Absent}

TypeOK ==
    /\ hot \in [Keys -> Values \cup {Absent}]
    /\ disk \in [Keys -> Values \cup {Absent}]
    /\ db \in {"open", "closing", "closed", "crashed"}
    /\ todo \subseteq Keys
    /\ writeBack \in {<<>>} \cup Keys \X Values
    /\ pc \in [Callers -> {"idle", "hot", "disk", "promote", "done", "dead"}]
    /\ op \in [Callers -> {"get", "set"}]
    /\ key \in [Callers -> Keys]
    /\ got \in [Callers -> Values \cup {Absent}]
    /\ before \in [Callers -> SUBSET Values]
    /\ raced \subseteq Keys /\ unsaved \subseteq Keys /\ lost \subseteq Keys

\* New: nothing is hot.
Init ==
    /\ hot = [k \in Keys |-> Absent]
    /\ disk \in [Keys -> {Old, Absent}]
    /\ db = "open" /\ todo = {} /\ writeBack = <<>>
    /\ pc = [c \in Callers |-> "idle"]
    /\ op = [c \in Callers |-> "get"]
    /\ key \in {[c \in Callers |-> k] : k \in Keys}
    /\ got = [c \in Callers |-> Absent]
    /\ before = [c \in Callers |-> {}]
    /\ raced = {} /\ unsaved = {} /\ lost = {}

-----------------------------------------------------------------------------

Written(k) == {Old} \cup {c \in Callers : op[c] = "set" /\ key[c] = k /\ pc[c] = "done"}

Call(c, o, k) ==
    /\ pc[c] = "idle" /\ db # "crashed"
    /\ pc' = [pc EXCEPT ![c] = "hot"]
    /\ op' = [op EXCEPT ![c] = o]
    /\ key' = [key EXCEPT ![c] = k]
    /\ before' = [before EXCEPT ![c] = Written(k)]
    /\ UNCHANGED <<layers, closing, got, raced, failures>>

At(c, o, step) == db # "crashed" /\ op[c] = o /\ pc[c] = step

Goto(c, step) == pc' = [pc EXCEPT ![c] = step]

\* Get, first the hot cache.
GetHot(c) ==
    /\ At(c, "get", "hot")
    /\ got' = [got EXCEPT ![c] = hot[key[c]]]
    /\ Goto(c, IF hot[key[c]] # Absent THEN "done" ELSE "disk")
    /\ UNCHANGED <<layers, closing, arguments, raced, failures>>

\* Get, then the bucket, unless the database is closed.
GetDisk(c) ==
    /\ At(c, "get", "disk")
    /\ LET found == IF db = "closed" THEN Absent ELSE disk[key[c]]
       IN  /\ got' = [got EXCEPT ![c] = found]
           /\ Goto(c, IF found # Absent THEN "promote" ELSE "done")
    /\ UNCHANGED <<layers, closing, arguments, raced, failures>>

\* What was read from disk becomes hot, whatever is hot by now.
Promote(c) ==
    /\ At(c, "get", "promote")
    /\ hot' = [hot EXCEPT ![key[c]] = got[c]]
    /\ Goto(c, "done")
    /\ UNCHANGED <<disk, closing, arguments, got, raced, failures>>

\* A Set of a key comes in between the steps of another operation on it.
Races(k) ==
    \/ db # "open"
    \/ \E g \in Callers : op[g] = "get" /\ key[g] = k /\ pc[g] \in {"disk", "promote"}

MarkRace(k) == raced' = IF Races(k) THEN raced \cup {k} ELSE raced

\* Seeded fault: an entry that is hot already is kept (LoadOrStore).
SetHotIfAbsent(c) ==
    /\ At(c, "set", "hot")
    /\ hot' = [hot EXCEPT ![key[c]] = IF @ = Absent THEN c ELSE @]
    /\ MarkRace(key[c])
    /\ Goto(c, "disk")
    /\ UNCHANGED <<disk, closing, arguments, got, failures>>

\* Set, first the hot cache.
SetHot(c) ==
    /\ At(c, "set", "hot")
    /\ hot' = [hot EXCEPT ![key[c]] = c]
    /\ MarkRace(key[c])
    /\ Goto(c, "disk")
    /\ UNCHANGED <<disk, closing, arguments, got, failures>>

\* A write of key k in a transaction: v is on disk, or the transaction failed, and
\* nobody is told.
Save(k, v) ==
    \/ /\ db # "closed"
       /\ disk' = [disk EXCEPT ![k] = v]
       /\ unsaved' = unsaved \ {k}
    \/ /\ unsaved' = unsaved \cup {k}
       /\ UNCHANGED disk

\* Set, then the bucket.
SetDisk(c) ==
    /\ At(c, "set", "disk")
    /\ Save(key[c], c)
    /\ MarkRace(key[c])
    /\ Goto(c, "done")
    /\ UNCHANGED <<hot, closing, arguments, got, lost>>

-----------------------------------------------------------------------------
(* Close, a crash, and New on what they leave *)

\* Seeded fault: Close relies on Set having written everything through.
CloseAtOnce ==
    /\ db = "open"
    /\ db' = "closing"
    /\ todo' = {}
    /\ UNCHANGED <<layers, writeBack, pc, arguments, got, raced, failures>>

\* Seeded fault: Close writes back every key, hot or not.
CloseFlushesAll ==
    /\ db = "open"
    /\ db' = "closing"
    /\ todo' = Keys
    /\ UNCHANGED <<layers, writeBack, pc, arguments, got, raced, failures>>

CloseBegin ==
    /\ db = "open"
    /\ db' = "closing"
    /\ todo' = Entries(hot)
    /\ UNCHANGED <<layers, writeBack, pc, arguments, got, raced, failures>>

\* Range hands out an entry ...
FlushRead(k) ==
    /\ db = "closing" /\ writeBack = <<>>
    /\ k \in todo
    /\ todo' = todo \ {k}
    /\ writeBack' = <<k, hot[k]>>
    /\ UNCHANGED <<layers, db, pc, arguments, got, raced, failures>>

\* ... and the callback writes it in a transaction of its own.
FlushWrite ==
    /\ writeBack # <<>> /\ db = "closing"
    /\ Save(writeBack[1], writeBack[2])
    /\ writeBack' = <<>>
    /\ UNCHANGED <<hot, db, todo, pc, arguments, got, raced, lost>>

CloseEnd ==
    /\ db = "closing" /\ todo = {} /\ writeBack = <<>>
    /\ db' = "closed"
    /\ UNCHANGED <<layers, todo, writeBack, pc, arguments, got, raced, failures>>

Crash ==
    /\ db # "crashed"
    /\ db' = "crashed"
    /\ UNCHANGED <<layers, todo, writeBack, pc, arguments, got, raced, failures>>

\* Calls still under way belong to the old instance and are not followed.
Reopen ==
    /\ db \in {"closed", "crashed"}
    /\ db' = "open" /\ todo' = {} /\ writeBack' = <<>>
    /\ hot' = [k \in Keys |-> Absent]
    /\ pc' = [c \in Callers |-> IF pc[c] \in {"idle", "done"} THEN pc[c] ELSE "dead"]
    /\ lost' = lost \cup unsaved /\ unsaved' = {}
    /\ UNCHANGED <<disk, arguments, got, raced>>

-----------------------------------------------------------------------------

Operation(c) ==
    \/ \E o \in {"get", "set"}, k \in Keys : Call(c, o, k)
    \/ GetHot(c) \/ GetDisk(c) \/ Promote(c) \/ SetHot(c) \/ SetDisk(c)

Next ==
    \/ \E c \in Callers : Operation(c)
    \/ CloseBegin \/ (\E k \in Keys : FlushRead(k)) \/ FlushWrite \/ CloseEnd
    \/ Crash \/ Reopen

Spec == Init /\ [][Next]_vars

-----------------------------------------------------------------------------
(* Properties *)

\* A Get never returns a value that a Set, complete before the Get began, had
\* replaced (that Set having begun after the value was written): not from either
\* layer, and not after a Close or a crash.  The exceptions are keys that were set
\* during a cold read, which may promote the older value over the newer one, or
\* during a Close, and keys whose last write to the disk had failed in an earlier
\* run, which left the older value there.
ReadsNotSuperseded ==
    \A g \in Callers :
        op[g] = "get" /\ pc[g] = "done" /\ key[g] \notin raced \cup lost
            => \A s \in before[g] \ {Old} : got[g] \notin before[s]

\* Close leaves on disk what was hot, also where two Sets have reached the layers
\* in different orders, where the write of a Set has failed, and where a Set has
\* yet to come to the disk; not for keys that were set during the Close, or during
\* a cold read, or whose write-back failed in its turn, which Close does not report.
CloseSettles ==
    db = "closed" => \A k \in Entries(hot) \ (raced \cup unsaved) : disk[k] = hot[k]
=============================================================================
