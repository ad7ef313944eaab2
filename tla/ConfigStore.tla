----------------------------- MODULE ConfigStore -----------------------------
(***************************************************************************)
(* The configuration, in memory and in its file: SaveConfig, GetConfig and *)
(* New of internal/control/control.go.  SaveConfig writes the file outside *)
(* the mutex, with os.WriteFile, which truncates and then writes; the web  *)
(* API may run several saves at once, any of these steps may fail, and the *)
(* process may end between two of them.                                    *)
(*                                                                         *)
(* The file is a sequence of blocks.  A configuration takes one block or   *)
(* two, and a block is named after the configuration it is a part of.  The *)
(* two web settings New fills in when they are missing are left out.       *)
(***************************************************************************)
EXTENDS Naturals, Sequences

CONSTANTS
    Callers,  \* goroutines that save
    Configs,
    Long,     \* those of two blocks
    Faults,   \* which system calls may fail: a subset of {"open", "write"}
    Lost      \* what New makes of a file that holds no configuration

ASSUME ConfigAssumption == Long \subseteq Configs /\ Lost \notin Configs

VARIABLES
    file,     \* the blocks of the file
    memory,   \* Control.config
    up,       \* the process runs
    pc,       \* pc[c]: the next step of c's save
    new,      \* new[c]: the configuration c saves
    alone,    \* the saves that no other save has overlapped
    settled,  \* the file was last changed by a save that was alone and succeeded
    acked     \* the configuration of that save, or the one first loaded

vars == <<file, memory, up, pc, new, alone, settled, acked>>

Encode(v) == IF v \in Long THEN <<v, v>> ELSE <<v>>

\* toml.DecodeFile: an empty or garbled file is an error or an empty configuration.
Decode(f) ==
    IF \E v \in Configs : f = Encode(v)
    THEN CHOOSE v \in Configs : f = Encode(v)
    ELSE Lost

TypeOK ==
    /\ file \in UNION {[1..n -> Configs] : n \in 0..2}
    /\ memory \in Configs \cup {Lost}
    /\ up \in BOOLEAN
    /\ pc \in [Callers -> {"idle", "open", "write", "set"}]
    /\ new \in [Callers -> Configs]
    /\ alone \subseteq Callers
    /\ settled \in BOOLEAN
    /\ acked \in Configs

\* New
Init ==
    /\ memory \in Configs
    /\ file = Encode(memory)
    /\ up = TRUE
    /\ pc = [c \in Callers |-> "idle"]
    /\ new = [c \in Callers |-> memory]
    /\ alone = {}
    /\ settled = TRUE
    /\ acked = memory

-----------------------------------------------------------------------------
(* SaveConfig *)

Busy == {c \in Callers : pc[c] # "idle"}

At(c, step) == up /\ pc[c] = step

Goto(c, step) == pc' = [pc EXCEPT ![c] = step]

SaveConfig(c, v) ==
    /\ At(c, "idle")
    /\ new' = [new EXCEPT ![c] = v]
    /\ alone' = IF Busy = {} THEN {c} ELSE {}
    /\ Goto(c, "open")
    /\ UNCHANGED <<file, memory, up, settled, acked>>

\* Seeded fault: the file is opened without truncating it.
OpenOnly(c) ==
    /\ At(c, "open")
    /\ settled' = FALSE
    /\ Goto(c, "write")
    /\ UNCHANGED <<file, memory, up, new, alone, acked>>

\* os.WriteFile opens the file with O_TRUNC ...
Truncate(c) ==
    /\ At(c, "open")
    /\ file' = <<>>
    /\ settled' = FALSE
    /\ Goto(c, "write")
    /\ UNCHANGED <<memory, up, new, alone, acked>>

OpenFails(c) ==
    /\ At(c, "open") /\ "open" \in Faults
    /\ Goto(c, "idle")
    /\ UNCHANGED <<file, memory, up, new, alone, settled, acked>>

\* Seeded fault: each save writes at the end of the file.
Appended(blocks) == file \o blocks

\* Blocks written from the start of the file leave what lies beyond them.
Overwritten(blocks) == blocks \o SubSeq(file, Len(blocks) + 1, Len(file))

\* ... and writes from its start.
Write(c) ==
    /\ At(c, "write")
    /\ file' = Overwritten(Encode(new[c]))
    /\ Goto(c, "set")
    /\ UNCHANGED <<memory, up, new, alone, settled, acked>>

\* A write that fails has written less than all: the save returns the error.
WriteFails(c) ==
    /\ At(c, "write") /\ "write" \in Faults
    /\ \E n \in 0..Len(Encode(new[c])) - 1 :
          file' = Overwritten(SubSeq(Encode(new[c]), 1, n))
    /\ Goto(c, "idle")
    /\ UNCHANGED <<memory, up, new, alone, settled, acked>>

\* Under the mutex; then nil is returned.
SetConfig(c) ==
    /\ At(c, "set")
    /\ memory' = new[c]
    /\ settled' = (c \in alone)
    /\ acked' = IF c \in alone THEN new[c] ELSE acked
    /\ Goto(c, "idle")
    /\ UNCHANGED <<file, up, new, alone>>

-----------------------------------------------------------------------------

Crash ==
    /\ up
    /\ up' = FALSE
    /\ pc' = [c \in Callers |-> "idle"]
    /\ UNCHANGED <<file, memory, new, alone, settled, acked>>

\* New
Restart ==
    /\ ~up
    /\ up' = TRUE
    /\ memory' = Decode(file)
    /\ UNCHANGED <<file, pc, new, alone, settled, acked>>

Next ==
    \/ \E c \in Callers :
          \/ \E v \in Configs : SaveConfig(c, v)
          \/ Truncate(c) \/ OpenFails(c) \/ Write(c) \/ WriteFails(c) \/ SetConfig(c)
    \/ Crash \/ Restart

Spec == Init /\ [][Next]_vars

-----------------------------------------------------------------------------
(* Properties *)

\* Whatever saves have overlapped, failed or been cut short before, once a save
\* that runs alone has succeeded, file and memory hold its configuration, over
\* crashes too, until another save opens the file.
SettledIsStored ==
    settled /\ up => memory = acked /\ Decode(file) = acked
=============================================================================
