---------------------------- MODULE LatencyTracker ----------------------------
(***************************************************************************)
(* The latency window of a DoH client, internal/upstream/doh/client.go: a  *)
(* ring buffer that every Resolve adds to and every Stats reads.  One      *)
(* client serves all queries, and nothing orders their accesses, so each   *)
(* load and store of idx and filled is a step.  Where the code reads idx   *)
(* twice the compiled code may read it again or keep the first value.      *)
(*                                                                         *)
(* The element store and the copy of the window are single steps; sorting  *)
(* the copy is replaced by what it is for, the k-th smallest element.      *)
(***************************************************************************)
EXTENDS Integers, Sequences, FiniteSets, SequencesExt

CONSTANTS
    Callers,    \* goroutines in Resolve or Stats
    Size,       \* len(lt.buf), 1024 in the code
    Latencies,  \* measurements, in milliseconds
    MaxAdds     \* bound on the calls of add

ASSUME SizeAssumption == Size \in Nat \ {0} /\ MaxAdds \in Nat
ASSUME LatencyAssumption == Latencies \subseteq Nat \ {0}

VARIABLES
    buf, idx, filled,
    pc,        \* pc[c]: the next step of c
    ms,        \* ms[c]: the measurement c adds
    register,  \* register[c]: c's copy of idx
    stats,     \* stats[c]: what percentiles returned last
    added,     \* the measurements in the order their calls of add began
    panicked   \* an index was out of range: the process ends

vars == <<buf, idx, filled, pc, ms, register, stats, added, panicked>>

ring == <<buf, idx, filled>>

Init ==
    /\ buf = [i \in 1..Size |-> 0] /\ idx = 0 /\ filled = FALSE
    /\ pc = [c \in Callers |-> "idle"]
    /\ ms = [c \in Callers |-> 0]
    /\ register = [c \in Callers |-> 0]
    /\ stats = [c \in Callers |-> [p50 |-> 0, p99 |-> 0, of |-> <<>>]]
    /\ added = <<>>
    /\ panicked = FALSE

At(c, step) == ~panicked /\ pc[c] = step

Goto(c, step) == pc' = [pc EXCEPT ![c] = step]

-----------------------------------------------------------------------------
(* add *)

Add(c) ==
    /\ At(c, "idle")
    /\ Len(added) < MaxAdds
    /\ \E x \in Latencies :
          /\ ms' = [ms EXCEPT ![c] = x]
          /\ added' = Append(added, x)
    /\ Goto(c, "write")
    /\ UNCHANGED <<ring, register, stats, panicked>>

\* lt.buf[lt.idx] = ms
Write(c) ==
    /\ At(c, "write")
    /\ register' = [register EXCEPT ![c] = idx]
    /\ IF idx < Size
       THEN buf' = [buf EXCEPT ![idx + 1] = ms[c]] /\ UNCHANGED panicked
       ELSE panicked' = TRUE /\ UNCHANGED buf
    /\ Goto(c, "load")
    /\ UNCHANGED <<idx, filled, ms, stats, added>>

\* lt.idx++, its load: again from memory, or what Write has loaded ...
Load(c) ==
    /\ At(c, "load")
    /\ \E i \in {idx, register[c]} : register' = [register EXCEPT ![c] = i]
    /\ Goto(c, "increment")
    /\ UNCHANGED <<ring, ms, stats, added, panicked>>

\* ... and its store.
Increment(c) ==
    /\ At(c, "increment")
    /\ idx' = register[c] + 1
    /\ register' = [register EXCEPT ![c] = idx']
    /\ Goto(c, "check")
    /\ UNCHANGED <<buf, filled, ms, stats, added, panicked>>

\* Seeded fault: the index may come to stand one past the end.
CheckLater(c) ==
    /\ At(c, "check")
    /\ \E i \in {idx, register[c]} :
          Goto(c, IF i > Size THEN "wrap" ELSE "idle")
    /\ UNCHANGED <<ring, ms, register, stats, added, panicked>>

\* if lt.idx >= len(lt.buf)
Check(c) ==
    /\ At(c, "check")
    /\ \E i \in {idx, register[c]} :
          Goto(c, IF i >= Size THEN "wrap" ELSE "idle")
    /\ UNCHANGED <<ring, ms, register, stats, added, panicked>>

Wrap(c) ==
    /\ At(c, "wrap")
    /\ idx' = 0
    /\ Goto(c, "fill")
    /\ UNCHANGED <<buf, filled, ms, register, stats, added, panicked>>

\* Seeded fault: after wrapping around the window starts from empty.
FillNothing(c) ==
    /\ At(c, "fill")
    /\ Goto(c, "idle")
    /\ UNCHANGED <<ring, ms, register, stats, added, panicked>>

Fill(c) ==
    /\ At(c, "fill")
    /\ filled' = TRUE
    /\ Goto(c, "idle")
    /\ UNCHANGED <<buf, idx, ms, register, stats, added, panicked>>

-----------------------------------------------------------------------------
(* percentiles *)

Below(window, x) == Cardinality({i \in DOMAIN window : window[i] < x})
AtMost(window, x) == Cardinality({i \in DOMAIN window : window[i] <= x})
Above(window, x) == Cardinality({i \in DOMAIN window : window[i] > x})

\* Element k, from 0, of the sorted window.
Sorted(window, k) ==
    CHOOSE x \in ToSet(window) : Below(window, x) <= k /\ k < AtMost(window, x)

\* n := lt.idx
ReadIdx(c) ==
    /\ At(c, "idle")
    /\ register' = [register EXCEPT ![c] = idx]
    /\ Goto(c, "window")
    /\ UNCHANGED <<ring, ms, stats, added, panicked>>

\* if lt.filled { n = len(lt.buf) }
Window(c) == IF filled THEN Size ELSE register[c]

Report(c) ==
    /\ At(c, "window")
    /\ LET n == Window(c)
           window == SubSeq(buf, 1, n)
       IN  IF n > Size
           THEN panicked' = TRUE /\ UNCHANGED stats
           ELSE /\ stats' = [stats EXCEPT ![c] =
                                IF n = 0 THEN [p50 |-> 0, p99 |-> 0, of |-> <<>>]
                                ELSE [p50 |-> Sorted(window, n \div 2),
                                      p99 |-> Sorted(window, (99 * n) \div 100),
                                      of  |-> added]]
                /\ UNCHANGED panicked
    /\ Goto(c, "idle")
    /\ UNCHANGED <<ring, ms, register, added>>

-----------------------------------------------------------------------------

Next ==
    \E c \in Callers :
        \/ Add(c) \/ Write(c) \/ Load(c) \/ Increment(c)
        \/ Check(c) \/ Wrap(c) \/ Fill(c)
        \/ ReadIdx(c) \/ Report(c)

Spec == Init /\ [][Next]_vars

-----------------------------------------------------------------------------
(* Properties *)

\* No index is out of range, in add or in percentiles.  control.go:86 says of
\* Control, whose probe clients concurrent calls of CheckLatency share, that it
\* is safe for concurrent use.
WithinBounds == ~panicked

\* The measurements a window is to hold: the latest Size ones.
Latest(seq) == SubSeq(seq, 1 + (IF Len(seq) > Size THEN Len(seq) - Size ELSE 0), Len(seq))

\* What Stats reports are percentiles of the latest measurements, before and
\* after the buffer wraps around: the reported p50 has at most half of them on
\* either side, and at most one in a hundred exceeds the reported p99.
PercentilesOfLatest ==
    \A c \in Callers :
        LET latest == Latest(stats[c].of)
        IN  /\ 2 * Below(latest, stats[c].p50) <= Len(latest)
            /\ 2 * Above(latest, stats[c].p50) <= Len(latest)
            /\ 100 * Above(latest, stats[c].p99) <= Len(latest)
=============================================================================
