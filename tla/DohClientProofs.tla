-------------------------- MODULE DohClientProofs --------------------------
(***************************************************************************)
(* What a DoH client does between the query it is given and the octets it  *)
(* sends and receives: its latency window (LatencyTracker) and the DNS     *)
(* messages it reads and builds (DnsMessage), which the server shares.     *)
(*                                                                         *)
(* The latency window is proved for any size of the buffer, any            *)
(* measurements, any number of them and any number of callers in every     *)
(* interleaving: what holds although nothing orders their accesses.  That  *)
(* more does not hold is what the run LatencyTracker_shared shows.         *)
(*                                                                         *)
(* The messages are proved for any packets of any octets: every name in    *)
(* them is read as the layout of RFC 1035 has it, a question that is       *)
(* accepted is forwarded as it came, and a response is parsed into the     *)
(* records it was built from; of a response that is cut off all answers    *)
(* are kept or none, if it has no other records.                           *)
(***************************************************************************)
EXTENDS LatencyTracker, DnsMessage, FiniteSetTheorems, SequenceTheorems,
        WellFoundedInduction, TLAPS

-----------------------------------------------------------------------------
(* The natural numbers *)

Smaller == {ss \in Nat \X Nat : ss[1] < ss[2]}

LEMMA LeastElement ==
    ASSUME NEW S \in SUBSET Nat, S # {}
    PROVE  \E m \in S : \A k \in S : m <= k
<1>1. OpToRel(<, Nat) = Smaller
  BY Zenon DEF OpToRel, Smaller
<1>2. IsWellFoundedOn(Smaller, Nat)
  BY Zenon, <1>1, NatLessThanWellFounded
<1>3. PICK m \in S : \A k \in S : <<k, m>> \notin Smaller
  BY Zenon, <1>2, WFMin
<1>4. ASSUME NEW k \in S, k < m PROVE FALSE
  <2>1. <<k, m>> \in Smaller
    BY <1>4 DEF Smaller
  <2> QED
    BY <1>3, <2>1
<1>5. \A k \in S : m <= k
  BY <1>4
<1> QED
  BY <1>5

-----------------------------------------------------------------------------
(* Induction and recursion over the natural numbers *)

\* What holds of a number if it holds of all that are smaller holds of all.
LEMMA StrongInduction ==
    ASSUME NEW T \in SUBSET Nat, \A n \in Nat : (\A k \in Nat : k < n => k \in T) => n \in T
    PROVE  T = Nat
<1> SUFFICES ASSUME Nat \ T # {} PROVE FALSE
  OBVIOUS
<1>1. PICK m \in Nat \ T : \A k \in Nat \ T : m <= k
  BY LeastElement
<1>2. \A k \in Nat : k < m => k \in T
  BY <1>1
<1> QED
  BY <1>1, <1>2

\* From one end of an interval to the other.
LEMMA UpwardInduction ==
    ASSUME NEW m \in Int, NEW n \in Int, NEW T,
           m \in T, \A i \in m..n - 1 : i \in T => i + 1 \in T
    PROVE  m..n \subseteq T
<1> DEFINE U == {k \in Nat : m + k <= n => m + k \in T}
<1>1. ASSUME NEW k \in Nat, \A l \in Nat : l < k => l \in U PROVE k \in U
  <2> SUFFICES ASSUME m + k <= n PROVE m + k \in T
    OBVIOUS
  <2>1. CASE k = 0
    BY <2>1
  <2>2. CASE k # 0
    <3>1. k - 1 \in Nat /\ k - 1 < k /\ m + (k - 1) <= n /\ m + (k - 1) \in m..n - 1
          /\ m + (k - 1) + 1 = m + k
      <4> HIDE DEF U
      <4> QED
        BY <2>2
    <3>2. k - 1 \in U
      BY Zenon, <1>1, <3>1
    <3>3. m + (k - 1) \in T
      BY <3>1, <3>2
    <3> HIDE DEF U
    <3> QED
      BY <3>1, <3>3
  <2> QED
    BY <2>1, <2>2
<1>2. U = Nat
  <2> HIDE DEF U
  <2> QED
    BY <1>1, StrongInduction DEF U
<1> SUFFICES ASSUME NEW i \in m..n PROVE i \in T
  OBVIOUS
<1>3. i - m \in Nat /\ m + (i - m) = i /\ m + (i - m) <= n
  OBVIOUS
<1>4. i - m \in U
  BY Zenon, <1>2, <1>3
<1> QED
  BY <1>3, <1>4

LEMMA DownwardInduction ==
    ASSUME NEW m \in Int, NEW n \in Int, NEW T,
           n \in T, \A i \in m..n - 1 : i + 1 \in T => i \in T
    PROVE  m..n \subseteq T
<1> DEFINE U == {i \in Int : m + n - i \in T}
<1>1. m + n - m = n
  OBVIOUS
<1>2. m \in U
  BY <1>1
<1>3. ASSUME NEW i \in m..n - 1, i \in U PROVE i + 1 \in U
  <2>1. /\ m + n - (i + 1) \in m..n - 1 /\ m + n - (i + 1) + 1 = m + n - i
        /\ i + 1 \in Int
    OBVIOUS
  <2>2. m + n - i \in T
    BY <1>3
  <2> QED
    BY <2>1, <2>2
<1>4. m..n \subseteq U
  <2> HIDE DEF U
  <2> QED
    BY <1>2, <1>3, UpwardInduction
<1> SUFFICES ASSUME NEW i \in m..n PROVE i \in T
  OBVIOUS
<1>5. m + n - i \in m..n /\ m + n - (m + n - i) = i
  OBVIOUS
<1>6. m + n - i \in U
  BY <1>4, <1>5
<1> QED
  BY <1>5, <1>6

\* step makes the value of a function at s from its values where the rank is smaller.
IsRecursion(S, V, bound, rank, step) ==
    /\ V # {} /\ bound \in Nat /\ rank \in [S -> 0..bound]
    /\ step \in [S \X [S -> V] -> V]
    /\ \A s \in S : \A f, g \in [S -> V] :
          (\A t \in S : rank[t] < rank[s] => f[t] = g[t]) => step[<<s, f>>] = step[<<s, g>>]

LEMMA RecursiveFunction ==
    ASSUME NEW S, NEW V, NEW bound, NEW rank, NEW step, IsRecursion(S, V, bound, rank, step)
    PROVE  \E f \in [S -> V] : \A s \in S : f[s] = step[<<s, f>>]
<1>0. /\ V # {} /\ bound \in Nat /\ rank \in [S -> 0..bound]
      /\ step \in [S \X [S -> V] -> V]
      /\ \A s \in S : \A f, g \in [S -> V] :
            (\A t \in S : rank[t] < rank[s] => f[t] = g[t]) => step[<<s, f>>] = step[<<s, g>>]
  BY DEF IsRecursion
<1> DEFINE T == {n \in Nat : \E f \in [S -> V] :
                     \A s \in S : rank[s] < n => f[s] = step[<<s, f>>]}
<1>1. ASSUME NEW n \in Nat, \A k \in Nat : k < n => k \in T PROVE n \in T
  <2>1. CASE n = 0
    <3>1. PICK v \in V : TRUE
      BY <1>0
    <3>2. [s \in S |-> v] \in [S -> V] /\ \A s \in S : ~(rank[s] < 0)
      BY <1>0
    <3> QED
      BY <2>1, <3>2
  <2>2. CASE n # 0
    <3>1. n - 1 \in Nat /\ n - 1 < n
      <4> HIDE DEF T
      <4> QED
        BY <2>2
    <3>2. PICK f \in [S -> V] : \A s \in S : rank[s] < n - 1 => f[s] = step[<<s, f>>]
      BY <1>1, <3>1
    <3> DEFINE g == [s \in S |-> IF rank[s] < n - 1 THEN f[s] ELSE step[<<s, f>>]]
    <3>3. g \in [S -> V]
      BY <1>0
    <3>4. \A s \in S : rank[s] < n - 1 => g[s] = f[s]
      OBVIOUS
    <3>5. \A s \in S : rank[s] < n => g[s] = step[<<s, f>>]
      BY <1>0, <3>1, <3>2
    <3> HIDE DEF g
    <3>6. ASSUME NEW s \in S, rank[s] < n PROVE step[<<s, f>>] = step[<<s, g>>]
      <4>1. \A t \in S : rank[t] < rank[s] => rank[t] < n - 1
        BY <1>0, <3>1, <3>6
      <4>2. \A t \in S : rank[t] < rank[s] => f[t] = g[t]
        BY <3>4, <4>1
      <4> QED
        BY <1>0, <3>3, <4>2
    <3>7. \A s \in S : rank[s] < n => g[s] = step[<<s, g>>]
      BY <3>5, <3>6
    <3> QED
      BY <3>3, <3>7
  <2> QED
    BY <2>1, <2>2
<1>2. T = Nat
  <2> HIDE DEF T
  <2> QED
    BY <1>1, StrongInduction DEF T
<1>3. bound + 1 \in T
  <2>1. bound + 1 \in Nat
    BY <1>0
  <2> QED
    BY Zenon, <1>2, <2>1
<1>4. PICK f \in [S -> V] : \A s \in S : rank[s] < bound + 1 => f[s] = step[<<s, f>>]
  BY <1>3
<1>5. \A s \in S : rank[s] < bound + 1
  BY <1>0
<1> QED
  BY <1>4, <1>5

-----------------------------------------------------------------------------
(* Counting the elements of a window *)

LEMMA SubsetsOfInterval ==
    ASSUME NEW n \in Nat, NEW A \in SUBSET (1..n)
    PROVE  IsFiniteSet(A) /\ Cardinality(A) \in Nat /\ Cardinality(1..n) = n
           /\ Cardinality(A) <= n
<1>1. IsFiniteSet(1..n) /\ Cardinality(1..n) = n
  BY FS_Interval
<1> QED
  BY <1>1, FS_Subset, FS_CardinalityType

\* Below and AtMost count what is less, Above counts the rest.
LEMMA Counts ==
    ASSUME NEW w \in Seq(Nat), NEW x \in Nat
    PROVE  /\ Below(w, x) \in Nat /\ AtMost(w, x) \in Nat /\ Above(w, x) \in Nat
           /\ AtMost(w, x) + Above(w, x) = Len(w)
<1> DEFINE A == {i \in DOMAIN w : w[i] < x}
           B == {i \in DOMAIN w : w[i] <= x}
           C == {i \in DOMAIN w : w[i] > x}
           n == Len(w)
<1>1. n \in Nat /\ DOMAIN w = 1..n /\ \A i \in 1..n : w[i] \in Nat
  OBVIOUS
<1>2. A \in SUBSET (1..n) /\ B \in SUBSET (1..n) /\ C \in SUBSET (1..n)
  BY <1>1
<1>3. B \cup C = 1..n /\ B \cap C = {}
  BY <1>1
<1>4. Cardinality(A) \in Nat
  BY <1>1, <1>2, SubsetsOfInterval
<1>5. IsFiniteSet(B) /\ Cardinality(B) \in Nat
  BY <1>1, <1>2, SubsetsOfInterval
<1>6. IsFiniteSet(C) /\ Cardinality(C) \in Nat
  BY <1>1, <1>2, SubsetsOfInterval
<1>7. Cardinality(1..n) = n
  BY <1>1, <1>2, SubsetsOfInterval
<1> HIDE DEF A, B, C, n
<1>8. Cardinality(B \cup C) = Cardinality(B) + Cardinality(C) - Cardinality(B \cap C)
  BY <1>5, <1>6, FS_Union
<1>10. Cardinality({}) = 0
  BY FS_EmptySet
<1>9. Cardinality(B) + Cardinality(C) = n
  <2>1. n = Cardinality(B) + Cardinality(C) - 0
    BY Zenon, <1>3, <1>7, <1>8, <1>10
  <2> QED
    BY <1>5, <1>6, <2>1
<1> QED
  BY <1>4, <1>5, <1>6, <1>9 DEF A, B, C, n, Below, AtMost, Above

\* Everything in a window is at most some number.
LEMMA Bounded ==
    ASSUME NEW w \in Seq(Nat)
    PROVE  \E m \in Nat : \A i \in 1..Len(w) : w[i] <= m
<1> DEFINE Bound(n) == \E m \in Nat : \A i \in 1..n : w[i] <= m
           S == {n \in Nat : n <= Len(w) /\ ~Bound(n)}
<1>0. Len(w) \in Nat /\ \A i \in 1..Len(w) : w[i] \in Nat
  OBVIOUS
<1>1. Bound(0)
  OBVIOUS
<1>2. ASSUME NEW n \in Nat, n < Len(w), Bound(n) PROVE Bound(n + 1)
  <2>1. PICK m \in Nat : \A i \in 1..n : w[i] <= m
    BY <1>2
  <2>2. w[n + 1] \in Nat
    BY <1>0, <1>2
  <2>3. m + w[n + 1] \in Nat /\ m <= m + w[n + 1] /\ w[n + 1] <= m + w[n + 1]
    BY <2>2
  <2>4. \A i \in 1..(n + 1) : w[i] <= m + w[n + 1]
    <3> SUFFICES ASSUME NEW i \in 1..(n + 1) PROVE w[i] <= m + w[n + 1]
      OBVIOUS
    <3>1. CASE i = n + 1
      BY <2>3, <3>1
    <3>2. CASE i \in 1..n
      <4>1. w[i] \in Nat /\ w[i] <= m
        BY <1>0, <1>2, <2>1, <3>2
      <4> QED
        BY <2>2, <4>1
    <3> QED
      BY <3>1, <3>2
  <2> QED
    BY <2>3, <2>4
<1> HIDE DEF Bound
<1>3. S = {}
  <2> SUFFICES ASSUME S # {} PROVE FALSE
    OBVIOUS
  <2>1. S \in SUBSET Nat
    OBVIOUS
  <2>2. PICK n \in S : \A k \in S : n <= k
    BY <2>1, LeastElement, Zenon
  <2>3. n \in Nat /\ n <= Len(w) /\ ~Bound(n)
    OBVIOUS
  <2>4. n # 0
    BY <1>1, <2>3
  <2>5. n - 1 \in Nat /\ n - 1 < Len(w) /\ (n - 1) + 1 = n /\ ~(n <= n - 1)
    BY <1>0, <2>3, <2>4
  <2>6. Bound(n - 1)
    BY <1>0, <2>2, <2>5
  <2> QED
    BY <1>2, <2>3, <2>5, <2>6
<1>4. Bound(Len(w))
  BY <1>0, <1>3
<1> QED
  BY <1>4 DEF Bound

\* There is an element k of the sorted window: the least number with more than
\* k elements at most it is one of the elements.
LEMMA SortedElement ==
    ASSUME NEW w \in Seq(Nat), NEW k \in Nat, k < Len(w)
    PROVE  /\ Sorted(w, k) \in ToSet(w)
           /\ Below(w, Sorted(w, k)) <= k
           /\ k < AtMost(w, Sorted(w, k))
<1> DEFINE S == {m \in Nat : k < AtMost(w, m)}
<1>0. Len(w) \in Nat /\ DOMAIN w = 1..Len(w) /\ \A i \in 1..Len(w) : w[i] \in Nat
  OBVIOUS
<1>1. S # {}
  <2>1. PICK m \in Nat : \A i \in 1..Len(w) : w[i] <= m
    BY Bounded
  <2>2. {i \in DOMAIN w : w[i] <= m} = 1..Len(w)
    BY <1>0, <2>1
  <2>3. Cardinality(1..Len(w)) = Len(w)
    BY <1>0, SubsetsOfInterval
  <2>4. AtMost(w, m) = Len(w)
    BY <2>2, <2>3 DEF AtMost
  <2> QED
    BY <2>4
<1>2. PICK x \in S : \A y \in S : x <= y
  BY <1>1, LeastElement
<1>3. Below(w, x) <= k
  <2>1. CASE x = 0
    <3>1. {i \in DOMAIN w : w[i] < x} = {}
      BY <1>0, <2>1
    <3>2. Cardinality({}) = 0
      BY FS_EmptySet
    <3>3. Below(w, x) = 0
      BY Zenon, <3>1, <3>2 DEF Below
    <3> QED
      BY <3>3
  <2>2. CASE x # 0
    <3>1. x - 1 \in Nat /\ x - 1 \notin S
      BY <1>2, <2>2
    <3>2. {i \in DOMAIN w : w[i] < x} = {i \in DOMAIN w : w[i] <= x - 1}
      BY <1>0, <1>2, <3>1
    <3>3. Below(w, x) = AtMost(w, x - 1)
      BY <3>2 DEF Below, AtMost
    <3>4. AtMost(w, x - 1) \in Nat
      BY <3>1, Counts
    <3> QED
      BY <3>1, <3>3, <3>4
  <2> QED
    BY <2>1, <2>2
<1>4. x \in ToSet(w)
  <2> SUFFICES ASSUME x \notin ToSet(w) PROVE FALSE
    OBVIOUS
  <2>1. \A i \in DOMAIN w : w[i] # x
    BY <1>0 DEF ToSet
  <2>2. {i \in DOMAIN w : w[i] < x} = {i \in DOMAIN w : w[i] <= x}
    BY <1>0, <1>2, <2>1
  <2>3. Below(w, x) = AtMost(w, x)
    BY <2>2 DEF Below, AtMost
  <2>4. AtMost(w, x) \in Nat /\ k < AtMost(w, x)
    BY <1>2, Counts
  <2> QED
    BY <1>3, <2>3, <2>4
<1>5. k < AtMost(w, x)
  BY <1>2
<1> HIDE DEF S
<1> QED
  BY <1>3, <1>4, <1>5, Zenon DEF Sorted

LEMMA ElementsAreNat == \A w \in Seq(Nat) : \A x \in ToSet(w) : x \in Nat
  BY DEF ToSet

\* A later element of the sorted window is not a smaller one.
LEMMA SortedInOrder ==
    ASSUME NEW w \in Seq(Nat), NEW j \in Nat, NEW k \in Nat, j <= k, k < Len(w)
    PROVE  Sorted(w, j) <= Sorted(w, k)
<1> DEFINE x == Sorted(w, j)
           y == Sorted(w, k)
<1>0. Len(w) \in Nat /\ DOMAIN w = 1..Len(w) /\ \A i \in 1..Len(w) : w[i] \in Nat
  OBVIOUS
<1>1. j < Len(w)
  BY <1>0
<1>2. x \in ToSet(w) /\ Below(w, x) <= j
  BY <1>1, SortedElement
<1>3. y \in ToSet(w) /\ k < AtMost(w, y)
  BY SortedElement
<1>4. x \in Nat /\ y \in Nat
  BY <1>2, <1>3, ElementsAreNat
<1> HIDE DEF x, y
<1>5. ASSUME y < x PROVE AtMost(w, y) <= Below(w, x)
  <2> DEFINE A == {i \in 1..Len(w) : w[i] <= y}
             B == {i \in 1..Len(w) : w[i] < x}
  <2>0. \A a \in Nat : a <= y => a < x
    BY <1>4, <1>5
  <2>1. A \subseteq B /\ B \in SUBSET (1..Len(w))
    BY <1>0, <2>0
  <2>2. IsFiniteSet(B)
    BY <1>0, <2>1, SubsetsOfInterval
  <2>3. Cardinality(A) <= Cardinality(B)
    BY <2>1, <2>2, FS_Subset
  <2> QED
    BY <1>0, <2>3 DEF Below, AtMost
<1>6. Below(w, x) \in Nat /\ AtMost(w, y) \in Nat
  BY <1>4, Counts
<1>7. ~(y < x)
  BY <1>2, <1>3, <1>5, <1>6
<1> QED
  BY <1>4, <1>7 DEF x, y

-----------------------------------------------------------------------------
(* The invariant of the window *)

AddSteps == {"write", "load", "increment", "check", "wrap", "fill"}

Known == ToSet(added) \cup {0}

TypeInv ==
    /\ buf \in [1..Size -> Nat]
    /\ idx \in Nat
    /\ pc \in [Callers -> {"idle", "window"} \cup AddSteps]
    /\ ms \in [Callers -> Nat]
    /\ register \in [Callers -> Nat]
    /\ DOMAIN stats = Callers
    /\ added \in Seq(Nat)

\* Nothing but measurements is stored, and reported.
MeasuredInv ==
    /\ \A i \in 1..Size : buf[i] \in Known
    /\ \A c \in Callers : ms[c] \in Known

\* The calls of add that have yet to count.
Pending == {c \in Callers : pc[c] \in {"write", "load", "increment"}}

Counted == Len(added) - Cardinality(Pending)

\* No copy of the index is ahead of the calls of add that have counted, of which
\* some may have counted over each other.
CountInv ==
    /\ IsFiniteSet(Pending)
    /\ idx <= Counted
    /\ \A c \in Callers : register[c] <= Counted

\* While the window is not full for the first time no index is out of range,
\* however calls of add and percentiles overlap.
BoundsUntilFull == Len(added) <= Size => WithinBounds

\* What Stats reports was measured, or is 0, and its p50 is not above its p99,
\* however calls of add and percentiles overlap.
ReportsMeasured ==
    \A c \in Callers :
        /\ stats[c].p50 \in Known /\ stats[c].p99 \in Known
        /\ stats[c].p50 <= stats[c].p99

IInv == TypeInv /\ MeasuredInv /\ CountInv /\ BoundsUntilFull /\ ReportsMeasured

LEMMA InitIInv == Init => IInv
<1> SUFFICES ASSUME Init PROVE IInv
  OBVIOUS
<1>0. Size \in Nat \ {0} /\ <<>> \in Seq(Nat) /\ Len(<<>>) = 0
  BY SizeAssumption
<1>1. TypeInv
  BY <1>0 DEF Init, TypeInv
<1>2. MeasuredInv /\ ReportsMeasured
  BY DEF Init, MeasuredInv, ReportsMeasured, Known
<1>3. CountInv
  <2>1. Pending = {}
    BY DEF Init, Pending
  <2>2. IsFiniteSet({}) /\ Cardinality({}) = 0
    BY FS_EmptySet
  <2>3. Counted = 0
    <3>1. added = <<>>
      BY DEF Init
    <3> QED
      BY <1>0, <2>1, <2>2, <3>1 DEF Counted
  <2> QED
    BY <1>0, <2>1, <2>2, <2>3 DEF Init, CountInv
<1>4. BoundsUntilFull
  BY DEF Init, BoundsUntilFull, WithinBounds
<1> QED
  BY <1>1, <1>2, <1>3, <1>4 DEF IInv

\* What is known stays known.
LEMMA KnownGrows ==
    ASSUME TypeInv, NEW x \in Nat, added' = Append(added, x)
    PROVE  /\ Known \subseteq Known' /\ x \in Known'
           /\ added' \in Seq(Nat) /\ Len(added') = Len(added) + 1
<1>1. added \in Seq(Nat)
  BY DEF TypeInv
<1>2. /\ added' \in Seq(Nat) /\ Len(added') = Len(added) + 1
      /\ added'[Len(added) + 1] = x /\ \A i \in 1..Len(added) : added'[i] = added[i]
  BY <1>1, AppendProperties
<1>3. DOMAIN added = 1..Len(added) /\ DOMAIN added' = 1..Len(added) + 1 /\ Len(added) \in Nat
  BY <1>1, <1>2
<1> QED
  BY <1>2, <1>3 DEF Known, ToSet

\* The count of a step that neither begins nor counts a measurement.
LEMMA CountKept ==
    ASSUME TypeInv, CountInv, NEW c \in Callers, NEW s, Goto(c, s),
           pc[c] \in {"write", "load", "increment"} <=> s \in {"write", "load", "increment"},
           added' = added
    PROVE  Pending' = Pending /\ Counted' = Counted /\ Counted \in Nat
<1>1. pc' = [pc EXCEPT ![c] = s] /\ DOMAIN pc = Callers
  BY DEF Goto, TypeInv
<1>2. Pending' = Pending
  BY <1>1 DEF Pending
<1>3. Cardinality(Pending) \in Nat /\ Len(added) \in Nat
  BY FS_CardinalityType DEF CountInv, TypeInv
<1>4. Counted \in Int /\ idx \in Nat /\ idx <= Counted
  BY <1>3 DEF Counted, CountInv, TypeInv
<1> QED
  BY <1>2, <1>4 DEF Counted

\* The window percentiles copies consists of measurements, and so do two of its
\* sorted elements, the later of which is not the smaller.
LEMMA ReportOfWindow ==
    ASSUME TypeInv, MeasuredInv, NEW n \in 1..Size
    PROVE  LET w == SubSeq(buf, 1, n)
           IN  /\ Sorted(w, n \div 2) \in Known
               /\ Sorted(w, (99 * n) \div 100) \in Known
               /\ Sorted(w, n \div 2) <= Sorted(w, (99 * n) \div 100)
<1> DEFINE w == SubSeq(buf, 1, n)
<1>0. Size \in Nat /\ n \in Nat /\ n <= Size /\ n # 0
  BY SizeAssumption
<1>1. w \in Seq(Nat) /\ Len(w) = n /\ \A i \in 1..n : w[i] = buf[i]
  <2>1. \A i \in 1..n : buf[i] \in Nat
    BY <1>0 DEF TypeInv
  <2> QED
    BY <1>0, <2>1, SubSeqProperties
<1> HIDE DEF w
<1>2. \A x \in ToSet(w) : x \in Known
  <2>1. DOMAIN w = 1..n /\ 1..n \subseteq 1..Size
    BY <1>0, <1>1
  <2> QED
    BY <1>1, <2>1 DEF ToSet, MeasuredInv
<1>3. /\ n \div 2 \in Nat /\ (99 * n) \div 100 \in Nat /\ n \div 2 <= (99 * n) \div 100
      /\ n \div 2 < n /\ (99 * n) \div 100 < n
  BY <1>0
<1>4. Sorted(w, n \div 2) \in ToSet(w) /\ Sorted(w, (99 * n) \div 100) \in ToSet(w)
  BY <1>1, <1>3, SortedElement
<1>5. Sorted(w, n \div 2) <= Sorted(w, (99 * n) \div 100)
  BY <1>1, <1>3, SortedInOrder
<1> QED
  BY <1>2, <1>4, <1>5 DEF w

LEMMA StepIInv == IInv /\ [Next]_vars => IInv'
<1> SUFFICES ASSUME IInv, [Next]_vars PROVE IInv'
  OBVIOUS
<1>0. /\ TypeInv /\ MeasuredInv /\ CountInv /\ BoundsUntilFull /\ ReportsMeasured
      /\ Size \in Nat \ {0}
  BY SizeAssumption DEF IInv
<1>l. Len(added) \in Nat
  BY <1>0 DEF TypeInv
<1>r. ASSUME Known \subseteq Known', stats' = stats PROVE ReportsMeasured'
  BY <1>0, <1>r DEF ReportsMeasured
<1>k. ASSUME added' = added PROVE Known' = Known
  BY <1>k DEF Known
<1>b. ASSUME panicked' = panicked, added' = added PROVE BoundsUntilFull'
  BY <1>0, <1>b DEF BoundsUntilFull, WithinBounds
<1>m. ASSUME added' = added, buf' = buf, ms' = ms PROVE MeasuredInv'
  BY <1>0, <1>k, <1>m DEF MeasuredInv
<1>1. ASSUME NEW c \in Callers, Add(c) PROVE IInv'
  <2>1. PICK x \in Latencies : ms' = [ms EXCEPT ![c] = x] /\ added' = Append(added, x)
    BY <1>1 DEF Add
  <2>2. x \in Nat
    BY LatencyAssumption
  <2>3. /\ Known \subseteq Known' /\ x \in Known'
        /\ added' \in Seq(Nat) /\ Len(added') = Len(added) + 1
    BY <1>0, <2>1, <2>2, KnownGrows
  <2>4. /\ pc[c] = "idle" /\ pc' = [pc EXCEPT ![c] = "write"] /\ panicked = FALSE
        /\ buf' = buf /\ idx' = idx /\ register' = register /\ stats' = stats
        /\ panicked' = panicked
    <3>1. ~panicked /\ pc[c] = "idle"
      BY <1>1 DEF Add, At
    <3> QED
      BY <1>1, <3>1 DEF Add, Goto, ring
  <2>5. TypeInv'
    BY <1>0, <2>1, <2>2, <2>3, <2>4 DEF TypeInv, AddSteps
  <2>6. MeasuredInv'
    BY <1>0, <2>1, <2>3, <2>4 DEF MeasuredInv, TypeInv
  <2>7. CountInv'
    <3>1. Pending' = Pending \cup {c} /\ c \notin Pending
      BY <1>0, <2>4 DEF Pending, TypeInv
    <3>2. /\ IsFiniteSet(Pending') /\ Cardinality(Pending) \in Nat
          /\ Cardinality(Pending') = Cardinality(Pending) + 1
      BY <1>0, <3>1, FS_AddElement, FS_CardinalityType DEF CountInv
    <3>3. Counted' = Counted
      BY <1>l, <2>3, <3>2 DEF Counted
    <3> QED
      BY <1>0, <2>4, <3>2, <3>3 DEF CountInv
  <2>8. BoundsUntilFull'
    BY <2>4 DEF BoundsUntilFull, WithinBounds
  <2> QED
    BY <1>r, <2>3, <2>4, <2>5, <2>6, <2>7, <2>8 DEF IInv
<1>2. ASSUME NEW c \in Callers, Write(c) PROVE IInv'
  <2>1. /\ pc[c] = "write" /\ Goto(c, "load") /\ pc' = [pc EXCEPT ![c] = "load"]
        /\ register' = [register EXCEPT ![c] = idx]
        /\ idx' = idx /\ ms' = ms /\ stats' = stats /\ added' = added
    BY <1>2 DEF Write, At, Goto
  <2>2. Pending' = Pending /\ Counted' = Counted /\ Counted \in Nat
    BY <1>0, <2>1, CountKept
  <2>3. buf' = buf \/ (idx < Size /\ buf' = [buf EXCEPT ![idx + 1] = ms[c]])
    BY <1>2 DEF Write
  <2>4. TypeInv'
    <3>1. buf' \in [1..Size -> Nat]
      BY <1>0, <2>3 DEF TypeInv
    <3> QED
      BY <1>0, <2>1, <3>1 DEF TypeInv, AddSteps
  <2>5. MeasuredInv'
    <3>1. \A i \in 1..Size : buf'[i] \in Known
      BY <1>0, <2>3 DEF TypeInv, MeasuredInv
    <3> QED
      BY <1>0, <1>k, <2>1, <3>1 DEF MeasuredInv
  <2>6. CountInv'
    BY <1>0, <2>1, <2>2 DEF CountInv, TypeInv
  <2>7. BoundsUntilFull'
    <3> SUFFICES ASSUME Len(added) <= Size PROVE ~panicked'
      BY <2>1 DEF BoundsUntilFull, WithinBounds
    <3>1. c \in Pending
      BY <2>1 DEF Pending
    <3>2. Cardinality(Pending) \in Nat /\ Cardinality(Pending) # 0
      BY <1>0, <3>1, FS_CardinalityType, FS_EmptySet DEF CountInv
    <3>3. idx < Size
      BY <1>0, <1>l, <3>2 DEF CountInv, Counted, TypeInv
    <3>4. panicked' = panicked
      BY <1>2, <3>3 DEF Write
    <3>5. ~panicked
      BY <1>2 DEF Write, At
    <3> QED
      BY Zenon, <3>4, <3>5
  <2> QED
    BY <1>r, <1>k, <2>1, <2>4, <2>5, <2>6, <2>7 DEF IInv
<1>3. ASSUME NEW c \in Callers, Load(c) PROVE IInv'
  <2>1. /\ pc[c] = "load" /\ Goto(c, "increment") /\ pc' = [pc EXCEPT ![c] = "increment"]
        /\ buf' = buf /\ idx' = idx /\ ms' = ms /\ stats' = stats /\ added' = added
        /\ panicked' = panicked
    BY <1>3 DEF Load, At, Goto, ring
  <2>2. PICK i \in {idx, register[c]} : register' = [register EXCEPT ![c] = i]
    BY <1>3 DEF Load
  <2>3. Pending' = Pending /\ Counted' = Counted /\ Counted \in Nat
    BY <1>0, <2>1, CountKept
  <2>4. i \in Nat /\ i <= Counted
    BY <1>0 DEF TypeInv, CountInv
  <2>5. TypeInv'
    BY <1>0, <2>1, <2>2, <2>4 DEF TypeInv, AddSteps
  <2>6. CountInv'
    BY <1>0, <2>1, <2>2, <2>3, <2>4 DEF CountInv, TypeInv
  <2> QED
    BY <1>r, <1>k, <1>b, <1>m, <2>1, <2>5, <2>6 DEF IInv
<1>4. ASSUME NEW c \in Callers, Increment(c) PROVE IInv'
  <2>1. /\ pc[c] = "increment" /\ pc' = [pc EXCEPT ![c] = "check"]
        /\ idx' = register[c] + 1 /\ register' = [register EXCEPT ![c] = register[c] + 1]
        /\ buf' = buf /\ ms' = ms /\ stats' = stats /\ added' = added
        /\ panicked' = panicked
    BY <1>4 DEF Increment, At, Goto
  <2>2. TypeInv'
    BY <1>0, <2>1 DEF TypeInv, AddSteps
  <2>3. CountInv'
    <3>1. Pending' = Pending \ {c} /\ c \in Pending
      BY <1>0, <2>1 DEF Pending, TypeInv
    <3>2. /\ IsFiniteSet(Pending') /\ Cardinality(Pending) \in Nat
          /\ Cardinality(Pending') = Cardinality(Pending) - 1
      BY <1>0, <3>1, FS_RemoveElement, FS_CardinalityType DEF CountInv
    <3>3. Counted' = Counted + 1 /\ Counted \in Int
      BY <1>l, <2>1, <3>2 DEF Counted
    <3>4. register \in [Callers -> Nat] /\ \A d \in Callers : register[d] <= Counted
      BY <1>0 DEF CountInv, TypeInv
    <3>5. \A d \in Callers : register'[d] <= Counted'
      BY <2>1, <3>3, <3>4
    <3>6. idx' <= Counted'
      BY <2>1, <3>3, <3>4
    <3> QED
      BY <3>2, <3>5, <3>6 DEF CountInv
  <2> QED
    BY <1>r, <1>k, <1>b, <1>m, <2>1, <2>2, <2>3 DEF IInv
<1>5. ASSUME NEW c \in Callers, Check(c) PROVE IInv'
  <2>1. /\ pc[c] = "check"
        /\ buf' = buf /\ idx' = idx /\ ms' = ms /\ stats' = stats /\ added' = added
        /\ register' = register /\ panicked' = panicked
    BY <1>5 DEF Check, At, ring
  <2>2. PICK s \in {"wrap", "idle"} : Goto(c, s)
    BY <1>5 DEF Check
  <2>3. Pending' = Pending /\ Counted' = Counted /\ Counted \in Nat
    BY <1>0, <2>1, <2>2, CountKept
  <2>4. TypeInv'
    BY <1>0, <2>1, <2>2 DEF TypeInv, AddSteps, Goto
  <2>5. CountInv'
    BY <1>0, <2>1, <2>3 DEF CountInv
  <2> QED
    BY <1>r, <1>k, <1>b, <1>m, <2>1, <2>4, <2>5 DEF IInv
<1>6. ASSUME NEW c \in Callers, Wrap(c) PROVE IInv'
  <2>1. /\ pc[c] = "wrap" /\ Goto(c, "fill") /\ pc' = [pc EXCEPT ![c] = "fill"]
        /\ buf' = buf /\ idx' = 0 /\ ms' = ms /\ stats' = stats /\ added' = added
        /\ register' = register /\ panicked' = panicked
    BY <1>6 DEF Wrap, At, Goto
  <2>2. Pending' = Pending /\ Counted' = Counted /\ Counted \in Nat
    BY <1>0, <2>1, CountKept
  <2>3. TypeInv'
    BY <1>0, <2>1 DEF TypeInv, AddSteps
  <2>4. CountInv'
    BY <1>0, <2>1, <2>2 DEF CountInv
  <2> QED
    BY <1>r, <1>k, <1>b, <1>m, <2>1, <2>3, <2>4 DEF IInv
<1>7. ASSUME NEW c \in Callers, Fill(c) PROVE IInv'
  <2>1. /\ pc[c] = "fill" /\ Goto(c, "idle") /\ pc' = [pc EXCEPT ![c] = "idle"]
        /\ buf' = buf /\ idx' = idx /\ ms' = ms /\ stats' = stats /\ added' = added
        /\ register' = register /\ panicked' = panicked
    BY <1>7 DEF Fill, At, Goto
  <2>2. Pending' = Pending /\ Counted' = Counted /\ Counted \in Nat
    BY <1>0, <2>1, CountKept
  <2>3. TypeInv'
    BY <1>0, <2>1 DEF TypeInv, AddSteps
  <2>4. CountInv'
    BY <1>0, <2>1, <2>2 DEF CountInv
  <2> QED
    BY <1>r, <1>k, <1>b, <1>m, <2>1, <2>3, <2>4 DEF IInv
<1>8. ASSUME NEW c \in Callers, ReadIdx(c) PROVE IInv'
  <2>1. /\ pc[c] = "idle" /\ Goto(c, "window") /\ pc' = [pc EXCEPT ![c] = "window"]
        /\ register' = [register EXCEPT ![c] = idx]
        /\ buf' = buf /\ idx' = idx /\ ms' = ms /\ stats' = stats /\ added' = added
        /\ panicked' = panicked
    BY <1>8 DEF ReadIdx, At, Goto, ring
  <2>2. Pending' = Pending /\ Counted' = Counted /\ Counted \in Nat
    BY <1>0, <2>1, CountKept
  <2>3. TypeInv'
    BY <1>0, <2>1 DEF TypeInv, AddSteps
  <2>4. CountInv'
    BY <1>0, <2>1, <2>2 DEF CountInv, TypeInv
  <2> QED
    BY <1>r, <1>k, <1>b, <1>m, <2>1, <2>3, <2>4 DEF IInv
<1>9. ASSUME NEW c \in Callers, Report(c) PROVE IInv'
  <2> DEFINE n == Window(c)
             w == SubSeq(buf, 1, n)
  <2>1. /\ pc[c] = "window" /\ Goto(c, "idle") /\ pc' = [pc EXCEPT ![c] = "idle"]
        /\ buf' = buf /\ idx' = idx /\ ms' = ms /\ added' = added /\ register' = register
    BY <1>9 DEF Report, At, Goto, ring
  <2>2. Pending' = Pending /\ Counted' = Counted /\ Counted \in Nat
    BY <1>0, <2>1, CountKept
  <2>3. TypeInv'
    <3>1. DOMAIN stats' = DOMAIN stats
      BY <1>9 DEF Report
    <3> QED
      BY <1>0, <2>1, <3>1 DEF TypeInv, AddSteps
  <2>4. CountInv'
    BY <1>0, <2>1, <2>2 DEF CountInv
  <2>5. n \in Nat /\ (n = Size \/ n <= Counted)
    BY <1>0 DEF TypeInv, CountInv, Window
  <2>6. BoundsUntilFull'
    <3> SUFFICES ASSUME Len(added) <= Size PROVE ~panicked'
      BY <2>1 DEF BoundsUntilFull, WithinBounds
    <3>1. Cardinality(Pending) \in Nat
      BY <1>0, FS_CardinalityType DEF CountInv
    <3>2. Counted <= Len(added)
      BY <1>l, <3>1 DEF Counted
    <3>3. ~(n > Size)
      BY <1>0, <1>l, <2>2, <2>5, <3>2
    <3>4. panicked' = panicked
      BY <1>9, <3>3 DEF Report
    <3>5. ~panicked
      BY <1>9 DEF Report, At
    <3> QED
      BY Zenon, <3>4, <3>5
  <2>7. ReportsMeasured'
    <3>1. CASE n > Size
      <4>1. stats' = stats
        BY <1>9, <3>1 DEF Report
      <4> QED
        BY <1>r, <1>k, <2>1, <4>1
    <3>2. CASE n = 0
      <4>1. stats' = [stats EXCEPT ![c] = [p50 |-> 0, p99 |-> 0, of |-> <<>>]]
        BY <1>0, <1>9, <3>2 DEF Report
      <4>2. ASSUME NEW d \in Callers
            PROVE  stats'[d] = stats[d] \/ (stats'[d].p50 = 0 /\ stats'[d].p99 = 0)
        BY <1>0, <4>1 DEF TypeInv
      <4> QED
        BY <1>0, <1>k, <2>1, <4>2 DEF ReportsMeasured, Known
    <3>3. CASE n \in 1..Size
      <4> DEFINE p50 == Sorted(w, n \div 2)
                 p99 == Sorted(w, (99 * n) \div 100)
      <4>1. p50 \in Known /\ p99 \in Known /\ p50 <= p99
        BY <1>0, <3>3, ReportOfWindow
      <4>2. ~(n > Size) /\ n # 0
        BY <1>0, <3>3
      <4>3. stats' = [stats EXCEPT ![c] = [p50 |-> p50, p99 |-> p99, of |-> added]]
        BY <1>9, <4>2 DEF Report
      <4> HIDE DEF p50, p99
      <4>4. ASSUME NEW d \in Callers
            PROVE  stats'[d] = stats[d] \/ (stats'[d].p50 = p50 /\ stats'[d].p99 = p99)
        BY <1>0, <4>3 DEF TypeInv
      <4> QED
        BY <1>0, <1>k, <2>1, <4>1, <4>4 DEF ReportsMeasured
    <3> QED
      BY <1>0, <2>5, <3>1, <3>2, <3>3
  <2> QED
    BY <1>m, <2>1, <2>3, <2>4, <2>6, <2>7 DEF IInv
<1>10. CASE UNCHANGED vars
  <2>1. pc' = pc /\ Pending' = Pending /\ Counted' = Counted /\ Known' = Known
    BY <1>10 DEF vars, Pending, Counted, Known
  <2> QED
    BY <1>10, <1>0, <2>1 DEF vars, IInv, TypeInv, MeasuredInv, CountInv, BoundsUntilFull,
                             WithinBounds, ReportsMeasured
<1> QED
  BY <1>1, <1>2, <1>3, <1>4, <1>5, <1>6, <1>7, <1>8, <1>9, <1>10 DEF Next

LEMMA Inductive == Spec => []IInv
  BY InitIInv, StepIInv, PTL DEF Spec

-----------------------------------------------------------------------------

(* The first Size measurements of a client cannot put lt.buf[lt.idx] or     *)
(* lt.buf[:n] (client.go:45, 62-65) out of bounds, whatever the size of the *)
(* window, the number of callers and their interleaving: WithinBounds, which *)
(* fails later (LatencyTracker_shared), holds until then.                   *)
THEOREM BoundsUntilFullHolds == Spec => [](Len(added) <= Size => WithinBounds)
<1>1. IInv => (Len(added) <= Size => WithinBounds)
  BY DEF IInv, BoundsUntilFull
<1> QED
  BY Inductive, <1>1, PTL

(* What percentiles (client.go:54-90) reports was measured, or is the 0 of an *)
(* element not yet written, and its p50 is at most its p99, however calls of  *)
(* add and percentiles overlap.                                               *)
THEOREM ReportsMeasuredHolds == Spec => []ReportsMeasured
<1>1. IInv => ReportsMeasured
  BY DEF IInv
<1> QED
  BY Inductive, <1>1, PTL

Packets == Seq(0..255)

Names == {Failure} \cup {Name(l, e) : l \in Seq(Seq(0..255)), e \in Nat}

Rest(p, s, question, name, read, o) ==
    IF o = Len(p) THEN Name(<<>>, o)
    ELSE
    LET length  == Octet(p, o)
        pointer == (length % 64) * 256 + Octet(p, o + 1)
        rest    == read[o + 1 + length]
        target  == name[pointer]
    IN  IF length = 0 THEN Name(<<>>, o + 1)
        ELSE IF question /\ length > 63 THEN Failure
        ELSE IF length >= 192 THEN
             IF o + 1 = Len(p) \/ pointer >= s THEN Failure
             ELSE IF target.ok
                  THEN Name(target.labels, AfterPointer(o, target))
             ELSE IF s < o THEN Name(<<>>, o + 2)
             ELSE Failure
        ELSE IF o + 1 + length > Len(p) \/ ~rest.ok THEN Failure
        ELSE Name(<<Slice(p, o + 1, o + 1 + length)>> \o rest.labels,
                  rest.end)

IsRead(p, s, question, name, read) ==
    read = [o \in s..Len(p) |-> Rest(p, s, question, name, read, o)]

Read(p, s, question, name) == CHOOSE read : IsRead(p, s, question, name, read)

IsNamesTo(p, start, qSection, name) ==
    name = [s \in 0..start |-> Read(p, s, qSection /\ s = start, name)[s]]

NamesTo(p, start, qSection) == CHOOSE name : IsNamesTo(p, start, qSection, name)

LEMMA UnpackNameIsNamesTo ==
    ASSUME NEW p, NEW start, NEW qSection
    PROVE  UnpackName(p, start, qSection) =
              IF start < Len(p) THEN NamesTo(p, start, qSection)[start] ELSE Failure
BY Zenon DEF UnpackName, NamesTo, IsNamesTo, Read, IsRead, Rest

LEMMA OctetType ==
    ASSUME NEW p \in Packets, NEW o \in 0..Len(p) - 1
    PROVE  Octet(p, o) \in 0..255
<1>1. o + 1 \in 1..Len(p)
  BY LenProperties DEF Packets
<1> QED
  BY <1>1, ElementOfSeq DEF Packets, Octet

LEMMA SliceType ==
    ASSUME NEW p \in Packets, NEW m \in Nat, NEW n \in Nat, m <= n, n <= Len(p)
    PROVE  /\ Slice(p, m, n) \in Packets
           /\ Len(Slice(p, m, n)) = n - m
           /\ \A i \in 1..n - m : Slice(p, m, n)[i] = Octet(p, m + i - 1)
<1>1. Len(p) \in Nat
  BY LenProperties DEF Packets
<1>2. \A i \in m + 1..n : p[i] \in 0..255
  <2>1. \A i \in m + 1..n : i \in 1..Len(p)
    BY <1>1
  <2> QED
    BY <2>1, ElementOfSeq DEF Packets
<1>3. /\ Len(SubSeq(p, m + 1, n)) = IF m + 1 <= n THEN n - (m + 1) + 1 ELSE 0
      /\ SubSeq(p, m + 1, n) \in Seq(0..255)
      /\ \A i \in 1..n - (m + 1) + 1 : SubSeq(p, m + 1, n)[i] = p[m + 1 + i - 1]
  BY <1>2, SubSeqProperties
<1> QED
  BY <1>3 DEF Slice, Packets, Octet

\* The offset a pointer leads to.
LEMMA PointerType ==
    ASSUME NEW p \in Packets, NEW o \in Nat, o + 1 < Len(p)
    PROVE  (Octet(p, o) % 64) * 256 + Octet(p, o + 1) \in Nat
<1>1. o \in 0..Len(p) - 1 /\ o + 1 \in 0..Len(p) - 1
  BY LenProperties DEF Packets
<1>2. \A a, b \in 0..255 : (a % 64) * 256 + b \in Nat
  OBVIOUS
<1>3. Octet(p, o) \in 0..255 /\ Octet(p, o + 1) \in 0..255
  BY <1>1, OctetType
<1> QED
  BY Zenon, <1>2, <1>3

LEMMA NamesType ==
    /\ Failure \in Names /\ ~Failure.ok
    /\ \A l \in Seq(Seq(0..255)), e \in Nat : Name(l, e) \in Names
    /\ \A e \in Nat : Name(<<>>, e) \in Names
    /\ \A n \in Names : n.ok => n.labels \in Seq(Seq(0..255)) /\ n.end \in Nat
<1>1. \A l \in Seq(Seq(0..255)), e \in Nat : Name(l, e) \in Names
  <2> SUFFICES ASSUME NEW l \in Seq(Seq(0..255)), NEW e \in Nat PROVE Name(l, e) \in Names
    OBVIOUS
  <2>1. Name(l, e) \in {Name(m, f) : m \in Seq(Seq(0..255)), f \in Nat}
    OBVIOUS
  <2> QED
    BY <2>1 DEF Names
<1>2. <<>> \in Seq(Seq(0..255))
  OBVIOUS
<1>3. Failure \in Names /\ ~Failure.ok
  BY DEF Names, Failure
<1>4. \A n \in Names : n.ok => n.labels \in Seq(Seq(0..255)) /\ n.end \in Nat
  BY <1>3 DEF Names, Name
<1> QED
  BY <1>1, <1>2, <1>3, <1>4

LEMMA RestType ==
    ASSUME NEW p \in Packets, NEW s \in 0..Len(p), NEW question, NEW o \in s..Len(p),
           NEW name, \A r \in 0..s - 1 : name[r] \in Names,
           NEW read, \A r \in o + 1..Len(p) : read[r] \in Names
    PROVE  Rest(p, s, question, name, read, o) \in Names
<1> DEFINE length  == Octet(p, o)
           pointer == (length % 64) * 256 + Octet(p, o + 1)
           rest    == read[o + 1 + length]
           target  == name[pointer]
<1>1. Len(p) \in Nat
  BY LenProperties DEF Packets
<1>5. CASE o = Len(p)
  BY <1>1, <1>5, NamesType DEF Rest
<1>6. CASE o # Len(p)
  <2>1. o \in 0..Len(p) - 1 /\ length \in 0..255
    BY <1>1, <1>6, OctetType
  <2>2. o + 1 # Len(p) => pointer \in Nat
    <3>1. o \in Nat /\ (o + 1 # Len(p) => o + 1 < Len(p))
      BY <1>1, <2>1
    <3> QED
      BY <3>1, PointerType
  <2>3. ASSUME o + 1 # Len(p), ~(pointer >= s), target.ok
        PROVE  Name(target.labels, AfterPointer(o, target)) \in Names
    <3>1. target \in Names
      BY <1>1, <2>2, <2>3
    <3>2. target.labels \in Seq(Seq(0..255)) /\ o + 2 \in Nat
      BY <2>1, <2>3, <3>1, NamesType
    <3> QED
      BY <3>2, NamesType DEF AfterPointer
  <2>4. ASSUME length # 0, ~(o + 1 + length > Len(p)), rest.ok
        PROVE  Name(<<Slice(p, o + 1, o + 1 + length)>> \o rest.labels, rest.end) \in Names
    <3>1. o + 1 + length \in o + 1..Len(p) /\ o + 1 \in Nat
      <4> HIDE DEF length
      <4>1. ~(o + 1 + length > Len(p))
        BY <2>4
      <4> QED
        BY <1>1, <2>1, <4>1
    <3>2. rest.labels \in Seq(Seq(0..255)) /\ rest.end \in Nat
      BY <2>4, <3>1, NamesType
    <3>3. Slice(p, o + 1, o + 1 + length) \in Seq(0..255)
      BY <1>1, <2>1, <3>1, SliceType DEF Packets
    <3>4. <<Slice(p, o + 1, o + 1 + length)>> \o rest.labels \in Seq(Seq(0..255))
      BY <3>2, <3>3, ConcatProperties
    <3> QED
      BY <3>2, <3>4, NamesType
  <2>5. o + 1 \in Nat /\ o + 2 \in Nat
    BY <2>1
  <2> DEFINE first == Name(target.labels, AfterPointer(o, target))
             whole1 == Name(<<Slice(p, o + 1, o + 1 + length)>> \o rest.labels, rest.end)
  <2>6. Rest(p, s, question, name, read, o) =
          IF length = 0 THEN Name(<<>>, o + 1)
          ELSE IF question /\ length > 63 THEN Failure
          ELSE IF length >= 192 THEN
             IF o + 1 = Len(p) \/ pointer >= s THEN Failure
             ELSE IF target.ok THEN first
             ELSE IF s < o THEN Name(<<>>, o + 2)
             ELSE Failure
          ELSE IF o + 1 + length > Len(p) \/ ~rest.ok THEN Failure
          ELSE whole1
    BY Zenon, <1>6 DEF Rest
  <2> HIDE DEF length, pointer, rest, target, first, whole1
  <2> QED
    BY <2>3, <2>4, <2>5, <2>6, NamesType DEF first, whole1
<1> QED
  BY <1>5, <1>6

LEMMA RestDepends ==
    ASSUME NEW p \in Packets, NEW s \in 0..Len(p), NEW question, NEW o \in s..Len(p),
           NEW name, NEW name2, \A r \in 0..s - 1 : name[r] = name2[r],
           NEW read, NEW read2, \A r \in o + 1..Len(p) : read[r] = read2[r]
    PROVE  Rest(p, s, question, name, read, o) = Rest(p, s, question, name2, read2, o)
<1> DEFINE length  == Octet(p, o)
           pointer == (length % 64) * 256 + Octet(p, o + 1)
<1>1. Len(p) \in Nat
  BY LenProperties DEF Packets
<1>2. CASE o = Len(p)
  BY Zenon, <1>2 DEF Rest
<1>3. CASE o # Len(p)
  <2>1. o \in 0..Len(p) - 1 /\ length \in 0..255
    BY <1>1, <1>3, OctetType
  <2>2. o + 1 # Len(p) => pointer \in Nat
    <3>1. o \in Nat /\ (o + 1 # Len(p) => o + 1 < Len(p))
      BY <1>1, <2>1
    <3> QED
      BY <3>1, PointerType
  <2> HIDE DEF length, pointer
  <2>3. ~(o + 1 = Len(p) \/ pointer >= s) => name[pointer] = name2[pointer]
    BY <1>1, <2>2
  <2>4. length # 0 /\ ~(o + 1 + length > Len(p)) => read[o + 1 + length] = read2[o + 1 + length]
    BY <1>1, <2>1
  <2>5. /\ Rest(p, s, question, name, read, o) =
          IF length = 0 THEN Name(<<>>, o + 1)
          ELSE IF question /\ length > 63 THEN Failure
          ELSE IF length >= 192 THEN
             IF o + 1 = Len(p) \/ pointer >= s THEN Failure
             ELSE IF name[pointer].ok
                  THEN Name(name[pointer].labels, AfterPointer(o, name[pointer]))
             ELSE IF s < o THEN Name(<<>>, o + 2)
             ELSE Failure
          ELSE IF o + 1 + length > Len(p) \/ ~read[o + 1 + length].ok THEN Failure
          ELSE Name(<<Slice(p, o + 1, o + 1 + length)>> \o read[o + 1 + length].labels,
                    read[o + 1 + length].end)
        /\ Rest(p, s, question, name2, read2, o) =
          IF length = 0 THEN Name(<<>>, o + 1)
          ELSE IF question /\ length > 63 THEN Failure
          ELSE IF length >= 192 THEN
             IF o + 1 = Len(p) \/ pointer >= s THEN Failure
             ELSE IF name2[pointer].ok
                  THEN Name(name2[pointer].labels, AfterPointer(o, name2[pointer]))
             ELSE IF s < o THEN Name(<<>>, o + 2)
             ELSE Failure
          ELSE IF o + 1 + length > Len(p) \/ ~read2[o + 1 + length].ok THEN Failure
          ELSE Name(<<Slice(p, o + 1, o + 1 + length)>> \o read2[o + 1 + length].labels,
                    read2[o + 1 + length].end)
    BY Zenon, <1>3 DEF Rest, length, pointer
  <2> QED
    BY <2>3, <2>4, <2>5
<1> QED
  BY <1>2, <1>3

LEMMA ReadDepends ==
    ASSUME NEW p \in Packets, NEW s \in 0..Len(p), NEW question,
           NEW name, NEW name2, \A r \in 0..s - 1 : name[r] = name2[r]
    PROVE  Read(p, s, question, name) = Read(p, s, question, name2)
<1>1. \A read : \A o \in s..Len(p) :
        Rest(p, s, question, name, read, o) = Rest(p, s, question, name2, read, o)
  <2> SUFFICES ASSUME NEW read, NEW o \in s..Len(p)
               PROVE  Rest(p, s, question, name, read, o) = Rest(p, s, question, name2, read, o)
    OBVIOUS
  <2> QED
    BY RestDepends
<1>2. ASSUME NEW read
      PROVE  IsRead(p, s, question, name, read) <=> IsRead(p, s, question, name2, read)
  BY <1>1 DEF IsRead
<1> QED
  BY Zenon, <1>2 DEF Read

LEMMA ReadDefined ==
    ASSUME NEW p \in Packets, NEW s \in 0..Len(p), NEW question,
           NEW name, \A r \in 0..s - 1 : name[r] \in Names
    PROVE  \A o \in s..Len(p) :
              /\ Read(p, s, question, name)[o] \in Names
              /\ Read(p, s, question, name)[o] =
                    Rest(p, s, question, name, Read(p, s, question, name), o)
<1> DEFINE S == s..Len(p)
           F == [S -> Names]
           rank == [o \in S |-> Len(p) - o]
           step == [x \in S \X F |-> Rest(p, s, question, name, x[2], x[1])]
           read == Read(p, s, question, name)
<1>1. Len(p) \in Nat
  BY LenProperties DEF Packets
<1>2. rank \in [S -> 0..Len(p)] /\ \A o, r \in S : rank[r] < rank[o] <=> o < r
  BY <1>1
<1>3. \A o \in S, f \in F : step[<<o, f>>] = Rest(p, s, question, name, f, o)
  OBVIOUS
<1>4. \A o \in S, f \in F : Rest(p, s, question, name, f, o) \in Names
  <2> SUFFICES ASSUME NEW o \in S, NEW f \in F
               PROVE  Rest(p, s, question, name, f, o) \in Names
    OBVIOUS
  <2>1. \A r \in o + 1..Len(p) : f[r] \in Names
    BY <1>1
  <2> QED
    BY <2>1, RestType
<1>5. step \in [S \X F -> Names]
  BY <1>4
<1>6. ASSUME NEW o \in S, NEW f \in F, NEW g \in F,
             \A r \in S : rank[r] < rank[o] => f[r] = g[r]
      PROVE  step[<<o, f>>] = step[<<o, g>>]
  <2>1. \A r \in o + 1..Len(p) : r \in S /\ o < r
    BY <1>1
  <2>2. \A r \in o + 1..Len(p) : f[r] = g[r]
    <3> HIDE DEF S, rank
    <3> QED
      BY <1>2, <1>6, <2>1
  <2>3. Rest(p, s, question, name, f, o) = Rest(p, s, question, name, g, o)
    BY <2>2, RestDepends
  <2> QED
    BY <1>3, <2>3
<1>7. \E f \in F : \A o \in S : f[o] = step[<<o, f>>]
  <2>1. Names # {}
    BY NamesType
  <2>2. \A o \in S : \A f, g \in [S -> Names] :
          (\A r \in S : rank[r] < rank[o] => f[r] = g[r]) => step[<<o, f>>] = step[<<o, g>>]
    BY Zenon, <1>6
  <2> HIDE DEF S, rank, step
  <2>3. IsRecursion(S, Names, Len(p), rank, step)
    BY Zenon, <1>1, <1>2, <1>5, <2>1, <2>2 DEF IsRecursion
  <2> QED
    BY <2>3, RecursiveFunction
<1>8. \E f : IsRead(p, s, question, name, f)
  <2>1. PICK f \in F : \A o \in S : f[o] = step[<<o, f>>]
    BY <1>7
  <2>2. \A o \in S : f[o] = Rest(p, s, question, name, f, o)
    BY Zenon, <1>3, <2>1
  <2> HIDE DEF step
  <2>3. f = [o \in S |-> Rest(p, s, question, name, f, o)]
    BY <2>2
  <2> QED
    BY <2>3 DEF IsRead
<1>9. IsRead(p, s, question, name, read)
  BY Zenon, <1>8 DEF Read
<1> HIDE DEF read
<1>10. \A o \in S : read[o] = Rest(p, s, question, name, read, o)
  BY <1>9 DEF IsRead
<1> DEFINE T == {n \in Nat : \A o \in S : Len(p) - o = n => read[o] \in Names}
<1>11. ASSUME NEW n \in Nat, \A k \in Nat : k < n => k \in T PROVE n \in T
  <2> SUFFICES ASSUME NEW o \in S, Len(p) - o = n PROVE read[o] \in Names
    OBVIOUS
  <2>1. ASSUME NEW r \in o + 1..Len(p) PROVE read[r] \in Names
    <3>1. r \in S /\ Len(p) - r \in Nat /\ Len(p) - r < n
      <4> HIDE DEF T
      <4> QED
        BY <1>1
    <3>2. Len(p) - r \in T
      BY Zenon, <1>11, <3>1
    <3> QED
      BY <3>1, <3>2
  <2>2. Rest(p, s, question, name, read, o) \in Names
    BY <2>1, RestType
  <2> QED
    BY <1>10, <2>2
<1>12. T = Nat
  <2> HIDE DEF T
  <2> QED
    BY <1>11, StrongInduction DEF T
<1>13. ASSUME NEW o \in S PROVE read[o] \in Names
  <2>1. Len(p) - o \in Nat
    BY <1>1
  <2>2. Len(p) - o \in T
    BY Zenon, <1>12, <2>1
  <2> QED
    BY <2>2
<1> QED
  BY <1>10, <1>13 DEF read

LEMMA NamesToDefined ==
    ASSUME NEW p \in Packets, NEW start \in Nat, start < Len(p), NEW q \in BOOLEAN
    PROVE  \A s \in 0..start :
              /\ NamesTo(p, start, q)[s] \in Names
              /\ NamesTo(p, start, q)[s] =
                    Read(p, s, q /\ s = start, NamesTo(p, start, q))[s]
<1> DEFINE S == 0..start
           F == [S -> Names]
           rank == [s \in S |-> s]
           Step(s, f) == Read(p, s, q /\ s = start, f)[s]
           step == [x \in S \X F |-> Step(x[1], x[2])]
           name == NamesTo(p, start, q)
<1>1. Len(p) \in Nat
  BY LenProperties DEF Packets
<1>2. rank \in [S -> 0..start] /\ \A r, s \in S : rank[r] < rank[s] <=> r < s
  OBVIOUS
<1>3. \A s \in S, f \in F : step[<<s, f>>] = Step(s, f)
  OBVIOUS
<1>4. ASSUME NEW s \in S, NEW f, \A r \in 0..s - 1 : f[r] \in Names PROVE Step(s, f) \in Names
  <2>1. s \in 0..Len(p) /\ s \in s..Len(p)
    BY <1>1
  <2> QED
    BY <1>4, <2>1, ReadDefined
<1>5. step \in [S \X F -> Names]
  <2>1. ASSUME NEW s \in S, NEW f \in F PROVE Step(s, f) \in Names
    <3>1. \A r \in 0..s - 1 : f[r] \in Names
      OBVIOUS
    <3> QED
      BY <1>4, <3>1
  <2> HIDE DEF Step
  <2> QED
    BY <2>1
<1>6. ASSUME NEW s \in S, NEW f \in F, NEW g \in F,
             \A r \in S : rank[r] < rank[s] => f[r] = g[r]
      PROVE  step[<<s, f>>] = step[<<s, g>>]
  <2>1. \A r \in 0..s - 1 : r \in S /\ r < s
    OBVIOUS
  <2>2. \A r \in 0..s - 1 : f[r] = g[r]
    <3> HIDE DEF S, rank
    <3> QED
      BY <1>2, <1>6, <2>1
  <2>3. s \in 0..Len(p)
    BY <1>1
  <2>4. Step(s, f) = Step(s, g)
    BY Zenon, <2>2, <2>3, ReadDepends
  <2> QED
    BY <1>3, <2>4
<1>7. \E f \in F : \A s \in S : f[s] = step[<<s, f>>]
  <2>1. Names # {}
    BY NamesType
  <2>2. \A s \in S : \A f, g \in [S -> Names] :
          (\A r \in S : rank[r] < rank[s] => f[r] = g[r]) => step[<<s, f>>] = step[<<s, g>>]
    BY Zenon, <1>6
  <2> HIDE DEF S, rank, step
  <2>3. IsRecursion(S, Names, start, rank, step)
    BY Zenon, <1>2, <1>5, <2>1, <2>2 DEF IsRecursion
  <2> QED
    BY <2>3, RecursiveFunction
<1>8. \E f : IsNamesTo(p, start, q, f)
  <2>1. PICK f \in F : \A s \in S : f[s] = step[<<s, f>>]
    BY <1>7
  <2>2. \A s \in S : f[s] = Step(s, f)
    BY Zenon, <1>3, <2>1
  <2> HIDE DEF step
  <2>3. f = [s \in S |-> Step(s, f)]
    <3> HIDE DEF Step
    <3> QED
      BY <2>2
  <2> QED
    BY Zenon, <2>3 DEF IsNamesTo
<1>9. IsNamesTo(p, start, q, name)
  BY Zenon, <1>8 DEF NamesTo
<1> HIDE DEF name
<1>10. \A s \in S : name[s] = Step(s, name)
  <2>1. name = [s \in S |-> Step(s, name)]
    BY Zenon, <1>9 DEF IsNamesTo
  <2> HIDE DEF Step
  <2> QED
    BY <2>1
<1> DEFINE T == {n \in Nat : n \in S => name[n] \in Names}
<1>11. ASSUME NEW n \in Nat, \A k \in Nat : k < n => k \in T PROVE n \in T
  <2> SUFFICES ASSUME n \in S PROVE name[n] \in Names
    OBVIOUS
  <2>1. ASSUME NEW r \in 0..n - 1 PROVE name[r] \in Names
    <3>1. r \in S /\ r \in Nat /\ r < n
      <4> HIDE DEF T
      <4> QED
        OBVIOUS
    <3>2. r \in T
      BY Zenon, <1>11, <3>1
    <3> QED
      BY <3>1, <3>2
  <2> QED
    BY <1>4, <1>10, <2>1
<1>12. T = Nat
  <2> HIDE DEF T
  <2> QED
    BY <1>11, StrongInduction DEF T
<1>13. ASSUME NEW s \in S PROVE name[s] \in Names
  <2>1. s \in Nat
    OBVIOUS
  <2>2. s \in T
    BY Zenon, <1>12, <2>1
  <2> QED
    BY <2>2
<1> QED
  BY <1>10, <1>13 DEF name

\* The names pointers lead to.
Before(p) == [r \in 0..Len(p) |-> UnpackName(p, r, FALSE)]

\* Left(p, s, question)[o] is what is left at o of the name that starts at s.
Left(p, s, question) == Read(p, s, question, Before(p))

LEMMA NamesToAgree ==
    ASSUME NEW p \in Packets
    PROVE  \A s \in Nat : \A start \in Nat, q \in BOOLEAN : s < start /\ start < Len(p) =>
              NamesTo(p, start, q)[s] = UnpackName(p, s, FALSE)
<1> DEFINE P(s) == \A start \in Nat, q \in BOOLEAN : s < start /\ start < Len(p) =>
                      NamesTo(p, start, q)[s] = UnpackName(p, s, FALSE)
           T == {s \in Nat : P(s)}
<1>1. ASSUME NEW s \in Nat, \A r \in Nat : r < s => r \in T PROVE s \in T
  <2> SUFFICES ASSUME NEW start \in Nat, NEW q \in BOOLEAN, s < start, start < Len(p)
               PROVE  NamesTo(p, start, q)[s] = UnpackName(p, s, FALSE)
    OBVIOUS
  <2>1. Len(p) \in Nat
    BY LenProperties DEF Packets
  <2>2. s \in 0..start /\ s \in 0..s /\ s \in 0..Len(p) /\ s < Len(p) /\ s # start
    <3> HIDE DEF T
    <3> QED
      BY <2>1
  <2>3. ASSUME NEW r \in 0..s - 1
        PROVE  NamesTo(p, start, q)[r] = NamesTo(p, s, FALSE)[r]
    <3>1. r \in Nat /\ r < s /\ r < start
      <4> HIDE DEF T
      <4> QED
        BY <2>1
    <3>2. P(r)
      BY <1>1, <3>1
    <3> QED
      BY <2>2, <3>1, <3>2
  <2>4. Read(p, s, FALSE, NamesTo(p, start, q)) = Read(p, s, FALSE, NamesTo(p, s, FALSE))
    BY <2>2, <2>3, ReadDepends
  <2>5. NamesTo(p, start, q)[s] = Read(p, s, q /\ s = start, NamesTo(p, start, q))[s]
    BY <2>2, NamesToDefined
  <2>6. NamesTo(p, s, FALSE)[s] = Read(p, s, FALSE /\ s = s, NamesTo(p, s, FALSE))[s]
    BY <2>2, NamesToDefined
  <2>7. (q /\ s = start) = FALSE /\ (FALSE /\ s = s) = FALSE
    BY <2>2
  <2>8. UnpackName(p, s, FALSE) = NamesTo(p, s, FALSE)[s]
    BY <2>2, UnpackNameIsNamesTo
  <2> QED
    BY Zenon, <2>4, <2>5, <2>6, <2>7, <2>8
<1>2. T = Nat
  <2> HIDE DEF T
  <2> QED
    BY <1>1, StrongInduction DEF T
<1> QED
  BY <1>2

\* The recursion of unpackName.
LEMMA UnpackNameRecursion ==
    ASSUME NEW p \in Packets, NEW s \in Nat, s < Len(p), NEW question \in BOOLEAN
    PROVE  /\ UnpackName(p, s, question) = Left(p, s, question)[s]
           /\ \A o \in s..Len(p) :
                 /\ Left(p, s, question)[o] \in Names
                 /\ Left(p, s, question)[o] =
                       Rest(p, s, question, Before(p), Left(p, s, question), o)
<1>1. Len(p) \in Nat
  BY LenProperties DEF Packets
<1>2. s \in 0..s /\ s \in 0..Len(p)
  BY <1>1
<1>3. \A r \in 0..s - 1 :
        /\ r \in Nat /\ r \in 0..Len(p) /\ r < s
        /\ NamesTo(p, s, question)[r] \in Names
        /\ NamesTo(p, s, question)[r] = Before(p)[r]
  <2>1. ASSUME NEW r \in 0..s - 1
        PROVE  r \in Nat /\ r \in 0..Len(p) /\ r \in 0..s /\ r < s
    BY <1>1
  <2>2. \A r \in 0..s - 1 : Before(p)[r] = UnpackName(p, r, FALSE)
    BY <2>1 DEF Before
  <2> QED
    BY <2>1, <2>2, NamesToDefined, NamesToAgree
<1>4. Read(p, s, question, NamesTo(p, s, question)) = Left(p, s, question)
  BY <1>2, <1>3, ReadDepends DEF Left
<1>5. UnpackName(p, s, question) = NamesTo(p, s, question)[s]
  BY UnpackNameIsNamesTo
<1>6. NamesTo(p, s, question)[s] =
        Read(p, s, question /\ s = s, NamesTo(p, s, question))[s]
  BY <1>2, NamesToDefined
<1>7. (question /\ s = s) = question
  OBVIOUS
<1>8. UnpackName(p, s, question) = Left(p, s, question)[s]
  BY Zenon, <1>4, <1>5, <1>6, <1>7
<1>9. \A r \in 0..s - 1 : Before(p)[r] \in Names
  BY <1>3
<1> QED
  BY <1>2, <1>8, <1>9, ReadDefined DEF Left

\* One step of unpackName: at the end of the packet, at a terminator, at a label, at
\* what no question may have, and at a pointer.
EndCase(p, s, q) == Left(p, s, q)[Len(p)] = Name(<<>>, Len(p))

ZeroCase(p, s, q) ==
    \A o \in s..Len(p) - 1 : Octet(p, o) = 0 => Left(p, s, q)[o] = Name(<<>>, o + 1)

LabelCase(p, s, q) ==
    \A o \in s..Len(p) - 1 : Octet(p, o) \in 1..63 =>
        Left(p, s, q)[o] =
            IF o + 1 + Octet(p, o) > Len(p) \/ ~Left(p, s, q)[o + 1 + Octet(p, o)].ok
            THEN Failure
            ELSE Name(<<Slice(p, o + 1, o + 1 + Octet(p, o))>>
                         \o Left(p, s, q)[o + 1 + Octet(p, o)].labels,
                      Left(p, s, q)[o + 1 + Octet(p, o)].end)

RefusedCase(p, s, q) ==
    q => \A o \in s..Len(p) - 1 : Octet(p, o) > 63 => Left(p, s, q)[o] = Failure

JumpCase(p, s, q) ==
    ~q => \A o \in s..Len(p) - 1 :
            Octet(p, o) >= 192 /\ o + 1 < Len(p) =>
               LET pointer == (Octet(p, o) % 64) * 256 + Octet(p, o + 1)
                   target  == UnpackName(p, pointer, FALSE)
               IN  pointer < s /\ target.ok => Left(p, s, q)[o] = Name(target.labels, o + 2)

LEMMA LeftCases ==
    ASSUME NEW p \in Packets, NEW s \in Nat, s < Len(p), NEW q \in BOOLEAN
    PROVE  /\ EndCase(p, s, q) /\ ZeroCase(p, s, q) /\ LabelCase(p, s, q)
           /\ RefusedCase(p, s, q) /\ JumpCase(p, s, q)
<1> DEFINE left == Left(p, s, q)
<1>1. Len(p) \in Nat
  BY LenProperties DEF Packets
<1>2. \A o \in s..Len(p) : left[o] = Rest(p, s, q, Before(p), left, o)
  BY UnpackNameRecursion
<1>3. Rest(p, s, q, Before(p), left, Len(p)) = Name(<<>>, Len(p))
  BY Zenon DEF Rest
<1>4. left[Len(p)] = Name(<<>>, Len(p))
  BY <1>1, <1>2, <1>3
<1> SUFFICES ASSUME NEW o \in s..Len(p) - 1
             PROVE  /\ Octet(p, o) = 0 => left[o] = Name(<<>>, o + 1)
                    /\ Octet(p, o) \in 1..63 =>
                          left[o] = IF o + 1 + Octet(p, o) > Len(p)
                                       \/ ~left[o + 1 + Octet(p, o)].ok
                                    THEN Failure
                                    ELSE Name(<<Slice(p, o + 1, o + 1 + Octet(p, o))>>
                                                 \o left[o + 1 + Octet(p, o)].labels,
                                              left[o + 1 + Octet(p, o)].end)
                    /\ q /\ Octet(p, o) > 63 => left[o] = Failure
                    /\ ~q /\ Octet(p, o) >= 192 /\ o + 1 < Len(p) =>
                          LET pointer == (Octet(p, o) % 64) * 256 + Octet(p, o + 1)
                              target  == UnpackName(p, pointer, FALSE)
                          IN  pointer < s /\ target.ok => left[o] = Name(target.labels, o + 2)
  <2>1. EndCase(p, s, q)
    BY Zenon, <1>4 DEF EndCase
  <2>2. ZeroCase(p, s, q)
    BY Zenon DEF ZeroCase
  <2>3. LabelCase(p, s, q)
    BY Zenon DEF LabelCase
  <2>4. RefusedCase(p, s, q)
    BY Zenon DEF RefusedCase
  <2>5. JumpCase(p, s, q)
    BY Zenon DEF JumpCase
  <2> QED
    BY Zenon, <2>1, <2>2, <2>3, <2>4, <2>5
<1> DEFINE length  == Octet(p, o)
           end == o + 1 + length
           pointer == (length % 64) * 256 + Octet(p, o + 1)
           target == Before(p)[pointer]
           all == Name(<<Slice(p, o + 1, end)>> \o left[end].labels, left[end].end)
<1> HIDE DEF left
<1>5. o \in s..Len(p) /\ o # Len(p) /\ o \in 0..Len(p) - 1
  BY <1>1
<1>6. length \in 0..255
  BY <1>5, OctetType
<1>7. left[o] =
        IF length = 0 THEN Name(<<>>, o + 1)
        ELSE IF q /\ length > 63 THEN Failure
        ELSE IF length >= 192 THEN
             IF o + 1 = Len(p) \/ pointer >= s THEN Failure
             ELSE IF target.ok
                  THEN Name(target.labels, AfterPointer(o, target))
             ELSE IF s < o THEN Name(<<>>, o + 2)
             ELSE Failure
        ELSE IF end > Len(p) \/ ~left[end].ok THEN Failure
        ELSE all
  BY Zenon, <1>2, <1>5 DEF Rest
<1>8. o + 1 < Len(p) /\ pointer < s => target = UnpackName(p, pointer, FALSE) /\ ~(pointer >= s)
  <2> SUFFICES ASSUME o + 1 < Len(p), pointer < s
               PROVE  target = UnpackName(p, pointer, FALSE) /\ ~(pointer >= s)
    OBVIOUS
  <2>1. pointer \in Nat
    BY <1>5, PointerType
  <2> HIDE DEF pointer
  <2>2. pointer \in 0..Len(p)
    BY <1>1, <2>1
  <2> QED
    BY <2>1, <2>2 DEF Before
<1> HIDE DEF length, end, pointer, target, all
<1>9. length = 0 => left[o] = Name(<<>>, o + 1)
  BY <1>7
<1>10. length \in 1..63 => left[o] = IF end > Len(p) \/ ~left[end].ok THEN Failure ELSE all
  BY <1>7
<1>11. q /\ length > 63 => left[o] = Failure
  BY <1>6, <1>7
<1>12. ~q /\ length >= 192 /\ o + 1 < Len(p) /\ pointer < s /\ target.ok =>
          left[o] = Name(target.labels, o + 2)
  <2> SUFFICES ASSUME ~q, length >= 192, o + 1 < Len(p), pointer < s, target.ok
               PROVE  left[o] = Name(target.labels, o + 2)
    OBVIOUS
  <2>1. length # 0 /\ o + 1 # Len(p) /\ ~(pointer >= s)
    BY <1>1, <1>6, <1>8
  <2> QED
    BY Zenon, <1>7, <2>1 DEF AfterPointer
<1>13. ~q /\ length >= 192 /\ o + 1 < Len(p) /\ pointer < s /\ UnpackName(p, pointer, FALSE).ok
          => left[o] = Name(UnpackName(p, pointer, FALSE).labels, o + 2)
  BY Zenon, <1>8, <1>12
<1> QED
  BY Zenon, <1>9, <1>10, <1>11, <1>13 DEF length, end, pointer, all

-----------------------------------------------------------------------------
(* Names without pointers *)

\* The name with these labels stands in p from offset offsets[0] on, label i at
\* offsets[i - 1], the terminator at the last offset.
LabelsAt(p, labels, offsets) ==
    /\ labels \in Seq(Label)
    /\ offsets \in [0..Len(labels) -> Nat]
    /\ offsets[Len(labels)] < Len(p)
    /\ Octet(p, offsets[Len(labels)]) = 0
    /\ \A i \in 1..Len(labels) :
          /\ offsets[i] = offsets[i - 1] + 1 + Len(labels[i])
          /\ Octet(p, offsets[i - 1]) = Len(labels[i])
          /\ Slice(p, offsets[i - 1] + 1, offsets[i]) = labels[i]

\* Every offset of a label is in the packet, and those are in order.
LEMMA LabelOffsets ==
    ASSUME NEW p \in Packets, NEW labels, NEW offsets, LabelsAt(p, labels, offsets)
    PROVE  \A i \in 0..Len(labels) :
              offsets[i] \in Nat /\ offsets[0] + i <= offsets[i] /\ offsets[i] < Len(p)
<1> DEFINE N == Len(labels)
<1>1. N \in Nat /\ Len(p) \in Nat
  BY LenProperties DEF LabelsAt, Packets
<1>2. \A i \in 0..N : offsets[i] \in Nat
  BY DEF LabelsAt
<1>3. \A i \in 1..N : offsets[i - 1] + 1 <= offsets[i]
  <2> SUFFICES ASSUME NEW i \in 1..N PROVE offsets[i - 1] + 1 <= offsets[i]
    OBVIOUS
  <2>1. labels[i] \in Label
    BY ElementOfSeq DEF LabelsAt
  <2>2. Len(labels[i]) \in Nat /\ offsets[i] = offsets[i - 1] + 1 + Len(labels[i])
    BY <2>1 DEF Label, LabelsAt
  <2>3. i - 1 \in 0..N /\ i \in 0..N
    BY <1>1
  <2>4. offsets[i - 1] \in Nat /\ offsets[i] \in Nat
    BY <1>2, <2>3
  <2> QED
    BY <2>2, <2>4
<1> DEFINE T == {i \in 0..N : offsets[0] + i <= offsets[i]}
           U == {i \in 0..N : offsets[i] < Len(p)}
<1>4. \A i \in 0..N - 1 : /\ i \in 0..N /\ i + 1 \in 0..N
                          /\ offsets[i] \in Nat /\ offsets[i + 1] \in Nat
                          /\ offsets[i] + 1 <= offsets[i + 1]
  <2> SUFFICES ASSUME NEW i \in 0..N - 1
               PROVE  /\ i \in 0..N /\ i + 1 \in 0..N
                      /\ offsets[i] \in Nat /\ offsets[i + 1] \in Nat
                      /\ offsets[i] + 1 <= offsets[i + 1]
    OBVIOUS
  <2>1. i \in 0..N /\ i + 1 \in 0..N /\ i + 1 \in 1..N /\ i + 1 - 1 = i
    BY <1>1
  <2> QED
    BY <1>2, <1>3, <2>1
<1>5. 0 \in Int /\ N \in Int /\ offsets[0] \in Nat /\ 0 \in 0..N /\ N \in 0..N
  BY <1>1, <1>2
<1>6. 0..N \subseteq T
  <2>1. 0 \in T
    BY <1>5
  <2>2. \A i \in 0..N - 1 : i \in T => i + 1 \in T
    <3> SUFFICES ASSUME NEW i \in 0..N - 1, offsets[0] + i <= offsets[i]
                 PROVE  i + 1 \in 0..N /\ offsets[0] + (i + 1) <= offsets[i + 1]
      OBVIOUS
    <3> QED
      BY <1>4, <1>5
  <2> HIDE DEF T
  <2> QED
    BY Zenon, <1>5, <2>1, <2>2, UpwardInduction
<1>7. 0..N \subseteq U
  <2>1. N \in U
    BY <1>5 DEF LabelsAt
  <2>2. \A i \in 0..N - 1 : i + 1 \in U => i \in U
    BY <1>1, <1>4
  <2> HIDE DEF U
  <2> QED
    BY Zenon, <1>5, <2>1, <2>2, DownwardInduction
<1> QED
  BY <1>2, <1>6, <1>7

LEMMA NameFields ==
    ASSUME NEW n, NEW l, NEW e, n = Name(l, e)
    PROVE  n.ok /\ n.labels = l /\ n.end = e
BY DEF Name

LEMMA LabelsRead ==
    ASSUME NEW p \in Packets, NEW labels, NEW offsets, LabelsAt(p, labels, offsets),
           NEW q \in BOOLEAN
    PROVE  UnpackName(p, offsets[0], q) = Name(labels, offsets[Len(labels)] + 1)
<1> DEFINE N == Len(labels)
           s == offsets[0]
           left == Left(p, s, q)
           T == {i \in 0..N : left[offsets[i]] = Name(SubSeq(labels, i + 1, N), offsets[N] + 1)}
<1>1. N \in Nat /\ Len(p) \in Nat /\ labels \in Seq(Label)
  BY LenProperties DEF LabelsAt, Packets
<1>2. \A i \in 0..N : offsets[i] \in Nat /\ s + i <= offsets[i] /\ offsets[i] < Len(p)
  BY LabelOffsets
<1>3. 0 \in 0..N /\ N \in 0..N /\ s \in Nat /\ s < Len(p)
  BY <1>1, <1>2
<1>4. \A i \in 0..N : offsets[i] \in s..Len(p) - 1
  BY <1>1, <1>2, <1>3
<1>5. N \in T
  <2>1. SubSeq(labels, N + 1, N) = <<>>
    BY <1>1, SubSeqEmpty
  <2>2. Octet(p, offsets[N]) = 0
    BY DEF LabelsAt
  <2>3. left[offsets[N]] = Name(<<>>, offsets[N] + 1)
    <3>1. offsets[N] \in s..Len(p) - 1
      BY <1>3, <1>4
    <3>2. \A o \in s..Len(p) - 1 : Octet(p, o) = 0 => left[o] = Name(<<>>, o + 1)
      BY Zenon, <1>3, LeftCases DEF ZeroCase
    <3> QED
      BY Zenon, <2>2, <3>1, <3>2
  <2> QED
    BY <1>3, <2>1, <2>3
<1>6. ASSUME NEW i \in 0..N - 1, i + 1 \in T PROVE i \in T
  <2>1. i \in 0..N /\ i + 1 \in 0..N /\ i + 1 \in 1..N /\ i + 1 - 1 = i /\ N \in i + 1..N
    <3> HIDE DEF T
    <3> QED
      BY <1>1
  <2> DEFINE l == labels[i + 1]
             rest == SubSeq(labels, i + 1 + 1, N)
  <2>2. l \in Label /\ Len(l) \in 1..63
    BY <1>1, <2>1, ElementOfSeq DEF Label
  <2>3. /\ offsets[i + 1] = offsets[i] + 1 + Len(l)
        /\ Octet(p, offsets[i]) = Len(l)
        /\ Slice(p, offsets[i] + 1, offsets[i + 1]) = l
    BY <2>1 DEF LabelsAt
  <2>4. left[offsets[i + 1]] = Name(rest, offsets[N] + 1)
    BY <1>6
  <2>5. offsets[i] \in s..Len(p) - 1 /\ ~(offsets[i + 1] > Len(p))
    BY <1>1, <1>2, <1>4, <2>1
  <2> HIDE DEF left, T, l, rest
  <2>6. left[offsets[i]] =
           LET end == offsets[i] + 1 + Octet(p, offsets[i])
           IN  IF end > Len(p) \/ ~left[end].ok THEN Failure
               ELSE Name(<<Slice(p, offsets[i] + 1, end)>> \o left[end].labels, left[end].end)
    <3>1. Octet(p, offsets[i]) \in 1..63
      BY <2>2, <2>3
    <3>2. LabelCase(p, s, q)
      BY Zenon, <1>3, LeftCases
    <3> QED
      BY Zenon, <2>5, <3>1, <3>2 DEF LabelCase, left
  <2>7. left[offsets[i]] = Name(<<l>> \o rest, offsets[N] + 1)
    <3>1. left[offsets[i]] = Name(<<l>> \o left[offsets[i + 1]].labels, left[offsets[i + 1]].end)
      BY <2>3, <2>4, <2>5, <2>6, NameFields
    <3> QED
      BY <2>4, <3>1, NameFields
  <2>8. SubSeq(labels, i + 1, N) = <<l>> \o rest
    BY <1>1, <2>1, SubSeqRecursiveFirst DEF l, rest
  <2> QED
    BY <2>1, <2>7, <2>8 DEF T
<1>7. 0..N \subseteq T
  <2>1. 0 \in Int /\ N \in Int
    BY <1>1
  <2> HIDE DEF T
  <2> QED
    BY Zenon, <1>5, <1>6, <2>1, DownwardInduction
<1>8. left[s] = Name(SubSeq(labels, 1, N), offsets[N] + 1)
  BY <1>3, <1>7
<1>9. SubSeq(labels, 1, N) = labels
  BY <1>1, SubSeqFull
<1>10. UnpackName(p, s, q) = left[s]
  BY <1>3, UnpackNameRecursion
<1> QED
  BY <1>8, <1>9, <1>10

\* A question that is accepted consists of labels.
LEMMA QuestionLabels ==
    ASSUME NEW p \in Packets, NEW s \in Nat, s < Len(p),
           UnpackName(p, s, TRUE).ok, UnpackName(p, s, TRUE).end < Len(p)
    PROVE  LET name == UnpackName(p, s, TRUE)
           IN  \E offsets : /\ LabelsAt(p, name.labels, offsets)
                            /\ offsets[0] = s
                            /\ name.end = offsets[Len(name.labels)] + 1
<1> DEFINE left == Left(p, s, TRUE)
           Stands(o) == \E offsets : /\ LabelsAt(p, left[o].labels, offsets)
                                     /\ offsets[0] = o
                                     /\ left[o].end = offsets[Len(left[o].labels)] + 1
           T == {o \in s..Len(p) : left[o].ok /\ left[o].end < Len(p) => Stands(o)}
<1>1. Len(p) \in Nat
  BY LenProperties DEF Packets
<1>2. Len(p) \in T
  <2>1. left[Len(p)] = Name(<<>>, Len(p))
    BY Zenon, LeftCases DEF EndCase
  <2> HIDE DEF left
  <2> DEFINE n == left[Len(p)]
  <2>0. n = Name(<<>>, Len(p))
    BY Zenon, <2>1
  <2> HIDE DEF n
  <2>2. n.end = Len(p)
    BY <2>0, NameFields
  <2> USE DEF n
  <2>3. Len(p) \in s..Len(p) /\ ~(left[Len(p)].end < Len(p))
    BY <1>1, <2>2
  <2> QED
    BY <2>3
<1>3. ASSUME NEW o \in s..Len(p) - 1, \A r \in o + 1..Len(p) : r \in T PROVE o \in T
  <2> DEFINE length == Octet(p, o)
  <2>1. o \in s..Len(p) /\ o \in 0..Len(p) - 1 /\ o \in Nat /\ o < Len(p)
    <3> HIDE DEF T
    <3> QED
      BY <1>1
  <2>2. length \in 0..255
    BY <2>1, OctetType
  <2> SUFFICES ASSUME left[o].ok, left[o].end < Len(p) PROVE Stands(o)
    BY <2>1
  <2>3. CASE length = 0
    <3> DEFINE offsets == [i \in 0..0 |-> o]
    <3>1. left[o] = Name(<<>>, o + 1)
      BY Zenon, <2>3, LeftCases DEF ZeroCase
    <3>2. left[o].labels = <<>> /\ left[o].end = o + 1
      <4> HIDE DEF left
      <4> QED
        BY <3>1, NameFields
    <3>3. offsets \in [0..0 -> Nat] /\ offsets[0] = o
      BY <2>1
    <3>4. <<>> \in Seq(Label) /\ Len(<<>>) = 0 /\ 1..0 = {}
      BY EmptySeq
    <3> HIDE DEF left, offsets
    <3>5. LabelsAt(p, <<>>, offsets)
      BY <2>1, <2>3, <3>3, <3>4 DEF LabelsAt
    <3> QED
      BY <3>2, <3>3, <3>4, <3>5
  <2>4. CASE length > 63
    <3>1. left[o] = Failure
      BY Zenon, <2>4, LeftCases DEF RefusedCase
    <3> QED
      BY Zenon, <3>1, NamesType
  <2>5. CASE length \in 1..63
    <3> DEFINE end == o + 1 + length
               l == Slice(p, o + 1, end)
    <3>1. left[o] = IF end > Len(p) \/ ~left[end].ok THEN Failure
                    ELSE Name(<<l>> \o left[end].labels, left[end].end)
      <4>1. LabelCase(p, s, TRUE)
        BY Zenon, LeftCases
      <4> QED
        BY Zenon, <2>5, <4>1 DEF LabelCase
    <3>2. ~Failure.ok
      BY Zenon, NamesType
    <3>3. ~(end > Len(p)) /\ left[end].ok
      BY Zenon, <3>1, <3>2
    <3>4. left[o].labels = <<l>> \o left[end].labels /\ left[o].end = left[end].end
      <4> DEFINE all == <<l>> \o left[end].labels
                 last == left[end].end
      <4>1. left[o] = Name(all, last)
        BY Zenon, <3>1, <3>3
      <4> HIDE DEF left, l, end, all, last
      <4>2. left[o].labels = all /\ left[o].end = last
        BY <4>1, NameFields
      <4> QED
        BY <4>2 DEF all, last
    <3>5. end <= Len(p) /\ end \in o + 1..Len(p) /\ end \in Nat /\ o + 1 \in Nat /\ o + 1 <= end
          /\ end - (o + 1) = length
      <4> HIDE DEF T, left, length
      <4> QED
        BY <1>1, <2>1, <2>5, <3>3
    <3>6. end \in T
      BY Zenon, <1>3, <3>5
    <3>7. PICK more : /\ LabelsAt(p, left[end].labels, more)
                      /\ more[0] = end
                      /\ left[end].end = more[Len(left[end].labels)] + 1
      BY <3>3, <3>4, <3>6
    <3> HIDE DEF left, length, T
    <3>8. l \in Label /\ Len(l) = length
      <4>1. l \in Packets /\ Len(l) = end - (o + 1)
        BY Zenon, <3>5, SliceType
      <4> QED
        BY <2>5, <3>5, <4>1 DEF Packets, Label
    <3> DEFINE ls == left[end].labels
               M == Len(ls)
               offsets == [i \in 0..M + 1 |-> IF i = 0 THEN o ELSE more[i - 1]]
    <3>9. ls \in Seq(Label) /\ M \in Nat /\ more \in [0..M -> Nat]
      BY <3>7, LenProperties DEF LabelsAt
    <3>10. /\ <<l>> \o ls \in Seq(Label) /\ Len(<<l>> \o ls) = M + 1
           /\ (<<l>> \o ls)[1] = l
           /\ \A i \in 2..M + 1 : (<<l>> \o ls)[i] = ls[i - 1]
      <4>1. <<l>> \in Seq(Label) /\ Len(<<l>>) = 1 /\ <<l>>[1] = l
        BY <3>8
      <4> HIDE DEF ls, l
      <4>2. /\ <<l>> \o ls \in Seq(Label) /\ Len(<<l>> \o ls) = 1 + M
            /\ \A i \in 1..1 + M : (<<l>> \o ls)[i] =
                  IF i <= 1 THEN <<l>>[i] ELSE ls[i - 1]
        BY <3>9, <4>1, ConcatProperties
      <4> QED
        BY <3>9, <4>1, <4>2
    <3>11. /\ offsets \in [0..M + 1 -> Nat] /\ offsets[0] = o
           /\ \A i \in 1..M + 1 : offsets[i] = more[i - 1]
      <4> HIDE DEF ls, M
      <4>1. \A i \in 0..M + 1 : i = 0 \/ (i # 0 /\ more[i - 1] \in Nat)
        BY <3>9
      <4> QED
        BY <2>1, <3>9, <4>1
    <3> HIDE DEF ls, M, offsets, l
    <3>12. /\ more[M] < Len(p) /\ Octet(p, more[M]) = 0
           /\ \A i \in 1..M : /\ more[i] = more[i - 1] + 1 + Len(ls[i])
                              /\ Octet(p, more[i - 1]) = Len(ls[i])
                              /\ Slice(p, more[i - 1] + 1, more[i]) = ls[i]
      BY <3>7 DEF LabelsAt, ls, M
    <3>13. offsets[M + 1] = more[M]
      BY <3>9, <3>11
    <3> DEFINE all == <<l>> \o ls
    <3>14. ASSUME NEW i \in 1..M + 1
           PROVE  /\ offsets[i] = offsets[i - 1] + 1 + Len(all[i])
                  /\ Octet(p, offsets[i - 1]) = Len(all[i])
                  /\ Slice(p, offsets[i - 1] + 1, offsets[i]) = all[i]
      <4>1. CASE i = 1
        <5>1. offsets[1] = end /\ offsets[1 - 1] = o
          BY <3>7, <3>9, <3>11
        <5>2. all[1] = l
          BY <3>10
        <5> QED
          BY <3>8, <4>1, <5>1, <5>2 DEF l, length
      <4>2. CASE i # 1
        <5>1. i \in 2..M + 1 /\ i - 1 \in 1..M + 1 /\ i - 1 \in 1..M
          BY <3>9, <4>2
        <5>2. all[i] = ls[i - 1] /\ offsets[i] = more[i - 1] /\ offsets[i - 1] = more[i - 1 - 1]
          BY <3>10, <3>11, <5>1
        <5> QED
          BY <3>12, <5>1, <5>2
      <4> QED
        BY <4>1, <4>2
    <3>15. LabelsAt(p, all, offsets)
      <4> HIDE DEF all
      <4>1. all \in Seq(Label) /\ Len(all) = M + 1
        BY <3>10 DEF all
      <4> QED
        BY <3>11, <3>12, <3>13, <3>14, <4>1 DEF LabelsAt
    <3>16. left[o].labels = all /\ Len(all) = M + 1 /\ left[o].end = offsets[M + 1] + 1
      BY <3>4, <3>7, <3>10, <3>13 DEF ls, M
    <3> QED
      BY <3>11, <3>15, <3>16
  <2> QED
    <3> HIDE DEF left, Stands, length
    <3> QED
      BY <2>2, <2>3, <2>4, <2>5
<1> DEFINE U == {o \in s..Len(p) : \A r \in o..Len(p) : r \in T}
<1>4. s..Len(p) \subseteq U
  <2> HIDE DEF T
  <2>1. Len(p) \in U
    BY <1>1, <1>2
  <2>2. ASSUME NEW o \in s..Len(p) - 1, o + 1 \in U PROVE o \in U
    <3>1. \A r \in o + 1..Len(p) : r \in T
      BY <2>2
    <3>2. o \in T
      BY <1>3, <3>1
    <3>3. \A r \in o..Len(p) : r = o \/ r \in o + 1..Len(p)
      BY <1>1
    <3>4. o \in s..Len(p)
      BY <1>1
    <3> QED
      BY <3>1, <3>2, <3>3, <3>4
  <2>3. s \in Int /\ Len(p) \in Int
    BY <1>1
  <2> HIDE DEF U
  <2> QED
    BY Zenon, <2>1, <2>2, <2>3, DownwardInduction
<1>5. s \in T
  <2>1. s \in s..Len(p)
    BY <1>1
  <2> HIDE DEF T
  <2> QED
    BY <1>4, <2>1
<1>6. UnpackName(p, s, TRUE) = left[s]
  BY UnpackNameRecursion
<1> QED
  BY <1>5, <1>6

-----------------------------------------------------------------------------
(* Encoding *)

\* The sequences of seqs stand in u one after the other, sequence i from ends[i - 1] on.
IsLayout(u, seqs, ends) ==
    /\ ends \in [0..Len(seqs) -> Nat] /\ ends[0] = 0 /\ ends[Len(seqs)] = Len(u)
    /\ \A i \in 1..Len(seqs) :
          /\ ends[i] = ends[i - 1] + Len(seqs[i])
          /\ ends[i] <= Len(u)
          /\ \A j \in 1..Len(seqs[i]) : u[ends[i - 1] + j] = seqs[i][j]

IsFlatten(seqs, flat) ==
    flat = [i \in 1..Len(seqs) |-> IF i = 1 THEN seqs[i] ELSE flat[i - 1] \o seqs[i]]

\* flat[i] is the concatenation of the first i of N sequences, up to ends[i].
Concatenates(N, len, ends, seqs, flat) ==
    /\ N \in Nat \ {0} /\ len \in [1..N -> Nat] /\ ends \in [0..N -> Nat]
    /\ ends[0] = 0 /\ \A i \in 1..N : ends[i] = ends[i - 1] + len[i]
    /\ \A j \in 1..len[1] : flat[1][j] = seqs[1][j]
    /\ \A k \in 1..N - 1 : \A x \in 1..ends[k + 1] :
          flat[k + 1][x] = IF x <= ends[k] THEN flat[k][x] ELSE seqs[k + 1][x - ends[k]]

\* The whole concatenation has the elements of every sequence.
LaidOut(N, len, ends, seqs, flat) ==
    \A i \in 1..N : /\ ends[i] <= ends[N]
                    /\ \A j \in 1..len[i] : flat[N][ends[i - 1] + j] = seqs[i][j]

\* g is f, up to b, and then the m elements of h.
Continues(g, f, b, h, m) == \A x \in 1..b + m : g[x] = IF x <= b THEN f[x] ELSE h[x - b]

LEMMA ConcatenationBefore ==
    ASSUME NEW b \in Nat, NEW m \in Nat, NEW f, NEW g, NEW h, Continues(g, f, b, h, m)
    PROVE  \A x \in 1..b : g[x] = f[x]
<1> SUFFICES ASSUME NEW x \in 1..b PROVE g[x] = f[x]
  OBVIOUS
<1>1. x \in 1..b + m /\ x <= b
  OBVIOUS
<1> QED
  BY <1>1 DEF Continues

LEMMA ConcatenationLast ==
    ASSUME NEW b \in Nat, NEW m \in Nat, NEW f, NEW g, NEW h, Continues(g, f, b, h, m)
    PROVE  \A j \in 1..m : g[b + j] = h[j]
<1> SUFFICES ASSUME NEW j \in 1..m PROVE g[b + j] = h[j]
  OBVIOUS
<1> DEFINE x == b + j
<1>1. x \in 1..b + m /\ ~(x <= b) /\ x - b = j
  OBVIOUS
<1> HIDE DEF x
<1>2. g[x] = h[j]
  BY <1>1 DEF Continues
<1> QED
  BY <1>2 DEF x

LEMMA ConcatenationLayout ==
    ASSUME NEW N, NEW len, NEW ends, NEW seqs, NEW flat,
           Concatenates(N, len, ends, seqs, flat)
    PROVE  LaidOut(N, len, ends, seqs, flat)
<1> DEFINE Laid(k, i) == /\ ends[i] <= ends[k]
                         /\ \A j \in 1..len[i] : flat[k][ends[i - 1] + j] = seqs[i][j]
           T == {k \in 1..N : \A i \in 1..k : Laid(k, i)}
<1>0. N \in Nat \ {0} /\ len \in [1..N -> Nat] /\ ends \in [0..N -> Nat]
  BY DEF Concatenates
<1>1. 1 \in 1..N /\ N \in 1..N /\ 1 \in Int /\ N \in Int /\ 1 - 1 = 0
  BY <1>0
<1>2. 1 \in T
  <2>1. ends[1] \in Nat /\ len[1] \in Nat /\ 0 \in 0..N
    BY <1>0, <1>1
  <2>2. ends[0] = 0 /\ \A j \in 1..len[1] : flat[1][j] = seqs[1][j]
    BY DEF Concatenates
  <2>3. ASSUME NEW j \in 1..len[1] PROVE flat[1][ends[1 - 1] + j] = seqs[1][j]
    <3>1. 0 + j = j
      OBVIOUS
    <3> QED
      BY Zenon, <1>1, <2>2, <3>1
  <2>4. Laid(1, 1)
    <3>1. ends[1] <= ends[1]
      BY <2>1
    <3> QED
      BY Zenon, <2>3, <3>1
  <2>5. \A i \in 1..1 : i = 1
    OBVIOUS
  <2> HIDE DEF Laid
  <2> QED
    BY <1>1, <2>4, <2>5
<1>3. ASSUME NEW k \in 1..N - 1, k \in T PROVE k + 1 \in T
  <2> DEFINE K == k + 1
  <2>1. k \in 0..N /\ k \in 1..N /\ K \in 0..N /\ K - 1 = k
    <3> HIDE DEF T
    <3> QED
      BY <1>0
  <2>2. K \in 1..N
    <3> HIDE DEF T
    <3> QED
      BY <1>0
  <2>3. \A x \in 1..ends[K] :
           flat[K][x] = IF x <= ends[k] THEN flat[k][x] ELSE seqs[K][x - ends[k]]
    BY Zenon DEF Concatenates
  <2>4. \A i \in 1..K : i \in 1..k \/ i = K
    <3> HIDE DEF T
    <3> QED
      BY <1>0
  <2>5. \A i \in 1..k : Laid(k, i)
    <3> HIDE DEF Laid
    <3> QED
      BY <1>3
  <2> HIDE DEF K, T
  <2>6. ends[k] \in Nat /\ ends[K] \in Nat /\ len[K] \in Nat
    BY <1>0, <2>1, <2>2
  <2>7. ends[K] = ends[k] + len[K]
    <3>1. ends[K] = ends[K - 1] + len[K]
      BY Zenon, <2>2 DEF Concatenates
    <3> QED
      BY <2>1, <3>1
  <2>8. Continues(flat[K], flat[k], ends[k], seqs[K], len[K])
    BY Zenon, <2>3, <2>7 DEF Continues
  <2>9. ASSUME NEW i \in 1..k PROVE Laid(K, i)
    <3>1. ends[i] <= ends[k] /\ \A j \in 1..len[i] : flat[k][ends[i - 1] + j] = seqs[i][j]
      BY Zenon, <2>5
    <3> HIDE DEF Laid
    <3>2. i \in 1..N /\ i - 1 \in 0..N /\ i \in 0..N
      BY <1>0, <2>1
    <3>3. ends[i] \in Nat /\ ends[i - 1] \in Nat /\ len[i] \in Nat
      BY <1>0, <3>2
    <3>4. ends[i] = ends[i - 1] + len[i]
      BY Zenon, <3>2 DEF Concatenates
    <3>5. ends[i] <= ends[K]
      <4> DEFINE a == ends[i]
                 b == ends[k]
                 c == ends[K]
                 l == len[K]
      <4>1. a \in Nat /\ b \in Nat /\ l \in Nat /\ a <= b /\ c = b + l
        BY Zenon, <2>6, <2>7, <3>1, <3>3
      <4> HIDE DEF a, b, c, l
      <4>2. a <= c
        BY <4>1
      <4> QED
        BY Zenon, <4>2 DEF a, c
    <3>6. ends[i - 1] + len[i] <= ends[k]
      BY Zenon, <3>1, <3>4
    <3>7. \A j \in 1..len[i] : flat[K][ends[i - 1] + j] = flat[k][ends[i - 1] + j]
      <4> DEFINE a == ends[i - 1]
                 l == len[i]
                 b == ends[k]
                 m == len[K]
                 f == flat[k]
                 g == flat[K]
                 h == seqs[K]
      <4>1. a \in Nat /\ l \in Nat /\ b \in Nat /\ m \in Nat /\ a + l <= b
        BY Zenon, <2>6, <3>3, <3>6
      <4>2. Continues(g, f, b, h, m)
        BY Zenon, <2>8
      <4> HIDE DEF a, l, b, m, f, g, h
      <4>3. \A x \in 1..b : g[x] = f[x]
        BY <4>1, <4>2, ConcatenationBefore
      <4>4. \A j \in 1..l : a + j \in 1..b
        BY <4>1
      <4>5. \A j \in 1..l : g[a + j] = f[a + j]
        BY Zenon, <4>3, <4>4
      <4> QED
        BY Zenon, <4>5 DEF a, l, f, g
    <3>8. \A j \in 1..len[i] : flat[K][ends[i - 1] + j] = seqs[i][j]
      BY <3>1, <3>7
    <3> QED
      BY Zenon, <3>5, <3>8 DEF Laid
  <2>10. Laid(K, K)
    <3>1. \A j \in 1..len[K] : flat[K][ends[k] + j] = seqs[K][j]
      <4> DEFINE b == ends[k]
                 m == len[K]
                 f == flat[k]
                 g == flat[K]
                 h == seqs[K]
      <4>1. b \in Nat /\ m \in Nat
        BY Zenon, <2>6
      <4>2. Continues(g, f, b, h, m)
        BY Zenon, <2>8
      <4> HIDE DEF b, m, f, g, h
      <4>3. \A j \in 1..m : g[b + j] = h[j]
        BY <4>1, <4>2, ConcatenationLast
      <4> QED
        BY Zenon, <4>3 DEF b, m, g, h
    <3>2. ends[K] <= ends[K]
      BY <2>6
    <3>3. K - 1 = k
      BY <2>1
    <3> QED
      BY Zenon, <3>1, <3>2, <3>3
  <2> HIDE DEF Laid
  <2>11. K \in T
    BY <2>2, <2>4, <2>9, <2>10 DEF T
  <2> QED
    BY <2>11 DEF K
<1>4. 1..N \subseteq T
  <2> HIDE DEF T
  <2> QED
    BY Zenon, <1>1, <1>2, <1>3, UpwardInduction
<1>5. N \in T
  <2> HIDE DEF T
  <2> QED
    BY <1>1, <1>4
<1> QED
  BY <1>5 DEF LaidOut

LEMMA FlattenDefined ==
    ASSUME NEW S, NEW seqs \in Seq(Seq(S)), seqs # <<>>
    PROVE  \E flat \in [1..Len(seqs) -> Seq(S)] :
              /\ FlattenSeq(seqs) = flat[Len(seqs)]
              /\ flat[1] = seqs[1]
              /\ \A i \in 2..Len(seqs) : flat[i] = flat[i - 1] \o seqs[i]
<1> DEFINE N == Len(seqs)
           I == 1..N
           F == [I -> Seq(S)]
           rank == [i \in I |-> i]
           Step(i, f) == IF i = 1 THEN seqs[i] ELSE f[i - 1] \o seqs[i]
           step == [x \in I \X F |-> Step(x[1], x[2])]
           flat == CHOOSE f : IsFlatten(seqs, f)
<1>1. N \in Nat \ {0} /\ \A i \in I : seqs[i] \in Seq(S)
  BY EmptySeq, ElementOfSeq
<1>2. rank \in [I -> 0..N] /\ \A i, j \in I : rank[i] < rank[j] <=> i < j
  BY <1>1
<1>3. ASSUME NEW i \in I, NEW f, i = 1 \/ f[i - 1] \in Seq(S)
      PROVE  Step(i, f) \in Seq(S)
  BY <1>1, <1>3, ConcatProperties
<1>4. step \in [I \X F -> Seq(S)]
  <2>1. ASSUME NEW i \in I, NEW f \in F PROVE Step(i, f) \in Seq(S)
    <3>1. i = 1 \/ i - 1 \in I
      BY <1>1
    <3>2. i = 1 \/ f[i - 1] \in Seq(S)
      BY <3>1
    <3> QED
      BY <1>3, <3>2
  <2> HIDE DEF Step
  <2> QED
    BY <2>1
<1>5. \A i \in I, f \in F : step[<<i, f>>] = Step(i, f)
  OBVIOUS
<1>6. ASSUME NEW i \in I, NEW f \in F, NEW g \in F,
             \A j \in I : rank[j] < rank[i] => f[j] = g[j]
      PROVE  step[<<i, f>>] = step[<<i, g>>]
  <2>1. i = 1 \/ (i - 1 \in I /\ i - 1 < i)
    BY <1>1
  <2>2. i = 1 \/ f[i - 1] = g[i - 1]
    <3> HIDE DEF I, rank
    <3> QED
      BY <1>2, <1>6, <2>1
  <2>3. Step(i, f) = Step(i, g)
    BY <2>2
  <2> QED
    BY <1>5, <2>3
<1>7. \E f \in F : \A i \in I : f[i] = step[<<i, f>>]
  <2>1. Seq(S) # {} /\ N \in Nat
    BY <1>1, EmptySeq
  <2>2. \A i \in I : \A f, g \in [I -> Seq(S)] :
          (\A j \in I : rank[j] < rank[i] => f[j] = g[j]) => step[<<i, f>>] = step[<<i, g>>]
    BY Zenon, <1>6
  <2> HIDE DEF I, N, rank, step
  <2>3. IsRecursion(I, Seq(S), N, rank, step)
    BY Zenon, <1>2, <1>4, <2>1, <2>2 DEF IsRecursion
  <2> QED
    BY <2>3, RecursiveFunction
<1>8. \E f : IsFlatten(seqs, f)
  <2>1. PICK f \in F : \A i \in I : f[i] = step[<<i, f>>]
    BY <1>7
  <2>2. \A i \in I : f[i] = Step(i, f)
    BY Zenon, <1>5, <2>1
  <2> HIDE DEF step
  <2>3. f = [i \in I |-> Step(i, f)]
    <3> HIDE DEF Step
    <3> QED
      BY <2>2
  <2> QED
    BY Zenon, <2>3 DEF IsFlatten
<1>9. IsFlatten(seqs, flat)
  BY Zenon, <1>8
<1>10. FlattenSeq(seqs) = flat[N]
  <2>1. Len(seqs) # 0
    BY <1>1
  <2> QED
    BY Zenon, <2>1 DEF FlattenSeq, IsFlatten
<1> HIDE DEF flat
<1>11. flat = [i \in I |-> Step(i, flat)]
  BY Zenon, <1>9 DEF IsFlatten
<1>12. \A i \in I : flat[i] = Step(i, flat)
  <2> HIDE DEF Step
  <2> QED
    BY <1>11
<1>13. flat[1] = seqs[1] /\ \A i \in 2..N : flat[i] = flat[i - 1] \o seqs[i]
  <2>1. 1 \in I /\ \A i \in 2..N : i \in I /\ i # 1
    BY <1>1
  <2> QED
    BY <1>12, <2>1
<1> DEFINE T == {i \in I : flat[i] \in Seq(S)}
<1>14. 1..N \subseteq T
  <2>1. 1 \in T
    BY <1>1, <1>13
  <2>2. ASSUME NEW i \in 1..N - 1, i \in T PROVE i + 1 \in T
    <3>1. i + 1 \in I /\ (i + 1) - 1 = i /\ i + 1 \in 2..N
      <4> HIDE DEF T
      <4> QED
        BY <1>1
    <3>2. seqs[i + 1] \in Seq(S) /\ flat[i] \in Seq(S)
      BY <1>1, <2>2, <3>1
    <3>3. flat[i + 1] = flat[(i + 1) - 1] \o seqs[i + 1]
      BY Zenon, <1>13, <3>1
    <3>4. (i + 1) - 1 = i
      BY <1>1
    <3>5. flat[i + 1] = flat[i] \o seqs[i + 1]
      BY Zenon, <3>3, <3>4
    <3> QED
      BY <3>1, <3>2, <3>5, ConcatProperties
  <2>3. 1 \in Int /\ N \in Int
    BY <1>1
  <2> HIDE DEF T, N
  <2> QED
    BY Zenon, <2>1, <2>2, <2>3, UpwardInduction
<1>15. flat \in F
  <2>1. \A i \in I : flat[i] \in Seq(S)
    BY <1>14
  <2>2. flat = [i \in I |-> flat[i]]
    <3> HIDE DEF Step
    <3>1. DOMAIN flat = I
      BY <1>11
    <3> QED
      BY <1>11, <1>12
  <2> HIDE DEF I
  <2> QED
    BY <2>1, <2>2
<1> QED
  BY <1>10, <1>13, <1>15

LEMMA FlattenLayout ==
    ASSUME NEW S, NEW seqs \in Seq(Seq(S))
    PROVE  FlattenSeq(seqs) \in Seq(S) /\ \E ends : IsLayout(FlattenSeq(seqs), seqs, ends)
<1> DEFINE N == Len(seqs)
<1>1. CASE seqs = <<>>
  <2> DEFINE ends == [i \in 0..0 |-> 0]
  <2>1. Len(seqs) = 0 /\ 1..0 = {}
    BY <1>1
  <2>2. FlattenSeq(seqs) = seqs
    BY Zenon, <2>1 DEF FlattenSeq
  <2>3. ends \in [0..0 -> Nat] /\ ends[0] = 0
    OBVIOUS
  <2> HIDE DEF ends
  <2>4. IsLayout(seqs, seqs, ends)
    BY <2>1, <2>3 DEF IsLayout
  <2>5. <<>> \in Seq(S)
    BY EmptySeq
  <2> QED
    BY Zenon, <1>1, <2>2, <2>4, <2>5
<1>2. CASE seqs # <<>>
  <2>1. PICK flat \in [1..N -> Seq(S)] :
              /\ FlattenSeq(seqs) = flat[N]
              /\ flat[1] = seqs[1]
              /\ \A i \in 2..N : flat[i] = flat[i - 1] \o seqs[i]
    BY <1>2, FlattenDefined
  <2> DEFINE len == [i \in 1..N |-> Len(seqs[i])]
             ends == [i \in 0..N |-> IF i = 0 THEN 0 ELSE Len(flat[i])]
  <2>2. N \in Nat \ {0} /\ \A i \in 1..N : seqs[i] \in Seq(S) /\ Len(seqs[i]) \in Nat
    BY <1>2, EmptySeq, ElementOfSeq, LenProperties
  <2>3. \A i \in 1..N : flat[i] \in Seq(S) /\ Len(flat[i]) \in Nat
    BY LenProperties
  <2>4. /\ ends \in [0..N -> Nat] /\ ends[0] = 0
        /\ \A i \in 1..N : ends[i] = Len(flat[i])
    <3>1. \A i \in 0..N : i = 0 \/ i \in 1..N
      BY <2>2
    <3> QED
      BY <2>2, <2>3, <3>1
  <2>5. len \in [1..N -> Nat] /\ \A i \in 1..N : len[i] = Len(seqs[i])
    BY <2>2
  <2> HIDE DEF ends, len
  <2>6. 1 \in 1..N /\ N \in 1..N
    BY <2>2
  <2>7. \A i \in 2..N :
          /\ Len(flat[i]) = Len(flat[i - 1]) + Len(seqs[i])
          /\ \A x \in 1..Len(flat[i - 1]) + Len(seqs[i]) :
                flat[i][x] = IF x <= Len(flat[i - 1]) THEN flat[i - 1][x]
                             ELSE seqs[i][x - Len(flat[i - 1])]
    <3> SUFFICES ASSUME NEW i \in 2..N
                 PROVE  /\ Len(flat[i]) = Len(flat[i - 1]) + Len(seqs[i])
                        /\ \A x \in 1..Len(flat[i - 1]) + Len(seqs[i]) :
                              flat[i][x] = IF x <= Len(flat[i - 1]) THEN flat[i - 1][x]
                                           ELSE seqs[i][x - Len(flat[i - 1])]
      OBVIOUS
    <3>1. i \in 1..N /\ i - 1 \in 1..N
      BY <2>2
    <3>2. flat[i] = flat[i - 1] \o seqs[i]
      BY Zenon, <2>1
    <3> QED
      <4>1. flat[i - 1] \in Seq(S) /\ seqs[i] \in Seq(S)
        BY <2>2, <2>3, <3>1
      <4> QED
        <5> DEFINE all == flat[i - 1] \o seqs[i]
        <5>1. /\ Len(all) = Len(flat[i - 1]) + Len(seqs[i])
              /\ \A x \in 1..Len(flat[i - 1]) + Len(seqs[i]) :
                    all[x] = IF x <= Len(flat[i - 1]) THEN flat[i - 1][x]
                             ELSE seqs[i][x - Len(flat[i - 1])]
          BY Zenon, <4>1, ConcatProperties
        <5> QED
          BY Zenon, <3>2, <5>1
  <2>8. \A i \in 1..N : ends[i] = ends[i - 1] + len[i]
    <3> SUFFICES ASSUME NEW i \in 1..N PROVE ends[i] = ends[i - 1] + len[i]
      OBVIOUS
    <3>1. CASE i = 1
      <4>1. ends[1] = Len(seqs[1]) /\ ends[1 - 1] = 0 /\ len[1] \in Nat
        BY <2>1, <2>4, <2>5, <2>6
      <4>2. len[1] = Len(seqs[1])
        BY <2>5, <2>6
      <4> QED
        BY <3>1, <4>1, <4>2
    <3>2. CASE i # 1
      <4>1. i \in 2..N /\ i - 1 \in 1..N
        BY <2>2, <3>2
      <4> QED
        BY <2>4, <2>5, <2>7, <4>1
    <3> QED
      BY <3>1, <3>2
  <2>9. \A k \in 1..N - 1 : \A x \in 1..ends[k + 1] :
           flat[k + 1][x] = IF x <= ends[k] THEN flat[k][x] ELSE seqs[k + 1][x - ends[k]]
    <3> SUFFICES ASSUME NEW k \in 1..N - 1, NEW x \in 1..ends[k + 1]
                 PROVE  flat[k + 1][x] = IF x <= ends[k] THEN flat[k][x]
                                         ELSE seqs[k + 1][x - ends[k]]
      OBVIOUS
    <3>1. k + 1 \in 2..N /\ k + 1 \in 1..N /\ k \in 1..N /\ (k + 1) - 1 = k
      BY <2>2
    <3>2. ends[k] = Len(flat[k]) /\ ends[k + 1] = Len(flat[k + 1])
      BY <2>4, <3>1
    <3>3. /\ Len(flat[k + 1]) = Len(flat[k]) + Len(seqs[k + 1])
          /\ \A y \in 1..Len(flat[k]) + Len(seqs[k + 1]) :
                flat[k + 1][y] = IF y <= Len(flat[k]) THEN flat[k][y]
                                 ELSE seqs[k + 1][y - Len(flat[k])]
      <4> DEFINE m == k + 1
      <4>1. m \in 2..N
        BY <3>1
      <4>2. m - 1 = k
        BY <3>1
      <4> HIDE DEF m
      <4>3. /\ Len(flat[m]) = Len(flat[m - 1]) + Len(seqs[m])
            /\ \A y \in 1..Len(flat[m - 1]) + Len(seqs[m]) :
                  flat[m][y] = IF y <= Len(flat[m - 1]) THEN flat[m - 1][y]
                               ELSE seqs[m][y - Len(flat[m - 1])]
        BY Zenon, <2>7, <4>1
      <4> QED
        BY Zenon, <4>2, <4>3 DEF m
    <3> QED
      BY Zenon, <3>2, <3>3
  <2>10. \A j \in 1..len[1] : flat[1][j] = seqs[1][j]
    BY <2>1
  <2>11. \A i \in 1..N : /\ ends[i] <= ends[N]
                         /\ \A j \in 1..len[i] : flat[N][ends[i - 1] + j] = seqs[i][j]
    <3>1. N \in Nat \ {0}
      BY <2>2
    <3>2. Concatenates(N, len, ends, seqs, flat)
      BY Zenon, <2>4, <2>5, <2>8, <2>9, <2>10, <3>1 DEF Concatenates
    <3> HIDE DEF N
    <3>3. LaidOut(N, len, ends, seqs, flat)
      BY Zenon, <3>2, ConcatenationLayout
    <3> QED
      BY Zenon, <3>3 DEF LaidOut
  <2>12. ends[N] = Len(flat[N])
    BY <2>4, <2>6
  <2>13. IsLayout(flat[N], seqs, ends)
    BY Zenon, <2>4, <2>5, <2>8, <2>11, <2>12 DEF IsLayout
  <2> QED
    BY <2>1, <2>3, <2>6, <2>13
<1> QED
  BY <1>1, <1>2

-----------------------------------------------------------------------------
(* Octets within octets *)

\* p has the octets of u from offset m on.
Holds(p, m, u) ==
    /\ p \in Packets /\ u \in Packets /\ m \in Nat /\ m + Len(u) <= Len(p)
    /\ \A x \in 1..Len(u) : p[m + x] = u[x]

LEMMA HoldsAll ==
    ASSUME NEW p \in Packets
    PROVE  Holds(p, 0, p)
<1>1. Len(p) \in Nat
  BY LenProperties DEF Packets
<1>2. \A x \in 1..Len(p) : 0 + x = x
  BY <1>1
<1> QED
  BY <1>1, <1>2 DEF Holds

LEMMA HoldsParts ==
    ASSUME NEW p, NEW m, NEW u \in Packets, NEW v \in Packets, Holds(p, m, u \o v)
    PROVE  Holds(p, m, u) /\ Holds(p, m + Len(u), v)
<1>1. Len(p) \in Nat /\ Len(u) \in Nat /\ Len(v) \in Nat
  BY LenProperties DEF Packets, Holds
<1>2. /\ Len(u \o v) = Len(u) + Len(v)
      /\ \A x \in 1..Len(u) + Len(v) :
            (u \o v)[x] = IF x <= Len(u) THEN u[x] ELSE v[x - Len(u)]
  BY ConcatProperties DEF Packets
<1>3. /\ p \in Packets /\ m \in Nat /\ m + (Len(u) + Len(v)) <= Len(p)
      /\ \A x \in 1..Len(u) + Len(v) : p[m + x] = (u \o v)[x]
  BY <1>2 DEF Holds
<1> DEFINE a == Len(u)
           b == Len(v)
<1>4. a \in Nat /\ b \in Nat
  BY <1>1
<1> HIDE DEF a, b
<1>5. \A x \in 1..a : p[m + x] = u[x]
  <2>1. \A x \in 1..a : x \in 1..a + b /\ x <= a
    BY <1>4
  <2> QED
    BY Zenon, <1>2, <1>3, <2>1 DEF a, b
<1>6. \A x \in 1..b : p[m + a + x] = v[x]
  <2> SUFFICES ASSUME NEW x \in 1..b PROVE p[m + a + x] = v[x]
    OBVIOUS
  <2> DEFINE y == a + x
  <2>1. y \in 1..a + b /\ ~(y <= a) /\ y - a = x /\ m + a + x = m + y
    BY <1>3, <1>4
  <2> HIDE DEF y
  <2>2. p[m + y] = (u \o v)[y] /\ (u \o v)[y] = v[y - a]
    BY Zenon, <1>2, <1>3, <2>1 DEF a, b
  <2> QED
    BY Zenon, <2>1, <2>2
<1>7. m + a <= Len(p) /\ m + a + b <= Len(p) /\ m + a \in Nat
  BY <1>1, <1>3, <1>4 DEF a, b
<1> QED
  BY Zenon, <1>3, <1>5, <1>6, <1>7 DEF Holds, a, b

LEMMA HoldsOctet ==
    ASSUME NEW p, NEW m, NEW u, Holds(p, m, u), NEW i \in 0..Len(u) - 1
    PROVE  Octet(p, m + i) = u[i + 1] /\ Octet(p, m + i) = Octet(u, i)
<1>1. Len(u) \in Nat /\ m \in Nat
  BY LenProperties DEF Packets, Holds
<1>2. i + 1 \in 1..Len(u) /\ m + i + 1 = m + (i + 1)
  BY <1>1
<1>3. p[m + (i + 1)] = u[i + 1]
  BY Zenon, <1>2 DEF Holds
<1> QED
  BY Zenon, <1>2, <1>3 DEF Octet

LEMMA HoldsSlice ==
    ASSUME NEW p, NEW m, NEW u, Holds(p, m, u), NEW a \in Nat, NEW b \in Nat,
           a <= b, b <= Len(u)
    PROVE  Slice(p, m + a, m + b) = Slice(u, a, b)
<1>1. p \in Packets /\ u \in Packets /\ m \in Nat /\ m + Len(u) <= Len(p)
      /\ Len(u) \in Nat /\ Len(p) \in Nat
  BY LenProperties DEF Packets, Holds
<1> DEFINE from == m + a
           to == m + b
           s == Slice(p, from, to)
           t == Slice(u, a, b)
<1>2. from \in Nat /\ to \in Nat /\ from <= to /\ to <= Len(p)
      /\ to - from = b - a /\ b - a \in Nat
  BY <1>1
<1> HIDE DEF from, to
<1>3. s \in Packets /\ Len(s) = b - a /\ \A i \in 1..b - a : s[i] = Octet(p, from + i - 1)
  <2>1. s \in Packets /\ Len(s) = to - from
        /\ \A i \in 1..to - from : s[i] = Octet(p, from + i - 1)
    BY <1>1, <1>2, SliceType
  <2> QED
    BY Zenon, <1>2, <2>1
<1>4. t \in Packets /\ Len(t) = b - a /\ \A i \in 1..b - a : t[i] = Octet(u, a + i - 1)
  BY <1>1, SliceType
<1>5. ASSUME NEW i \in 1..b - a PROVE s[i] = t[i]
  <2>1. a + i - 1 \in 0..Len(u) - 1 /\ from + i - 1 = m + (a + i - 1)
    BY <1>1 DEF from
  <2>2. Octet(p, m + (a + i - 1)) = Octet(u, a + i - 1)
    BY <2>1, HoldsOctet
  <2> QED
    BY <1>3, <1>4, <2>1, <2>2
<1> HIDE DEF s, t
<1>6. s = t
  BY <1>3, <1>4, <1>5, SeqEqual DEF Packets
<1> QED
  BY <1>6 DEF s, t, from, to

LEMMA SliceAll ==
    ASSUME NEW u \in Packets
    PROVE  Slice(u, 0, Len(u)) = u
<1>1. 0 + 1 = 1
  OBVIOUS
<1> QED
  BY <1>1, SubSeqFull DEF Slice, Packets

\* A part is read as it was written.
LEMMA HoldsPart ==
    ASSUME NEW p, NEW m, NEW u, Holds(p, m, u)
    PROVE  Slice(p, m, m + Len(u)) = u
<1>1. u \in Packets /\ m \in Nat /\ Len(u) \in Nat /\ 0 \in Nat /\ 0 <= Len(u)
      /\ Len(u) <= Len(u) /\ m + 0 = m
  BY LenProperties DEF Packets, Holds
<1>2. Slice(p, m + 0, m + Len(u)) = Slice(u, 0, Len(u))
  BY <1>1, HoldsSlice
<1> QED
  BY <1>1, <1>2, SliceAll

-----------------------------------------------------------------------------
(* Encoded names *)

EncodedLabel(l) == <<Len(l)>> \o l

LEMMA EncodedLabelOctets ==
    ASSUME NEW l \in Label
    PROVE  /\ EncodedLabel(l) \in Packets /\ Len(EncodedLabel(l)) = 1 + Len(l)
           /\ Len(l) \in 1..63
           /\ EncodedLabel(l)[1] = Len(l)
           /\ \A j \in 1..Len(l) : EncodedLabel(l)[1 + j] = l[j]
<1> DEFINE s == <<Len(l)>>
<1>1. l \in Seq(0..255) /\ Len(l) \in 1..63
  BY DEF Label
<1>2. s \in Seq(0..255) /\ Len(s) = 1 /\ s[1] = Len(l)
  BY <1>1
<1> HIDE DEF s
<1>3. /\ s \o l \in Seq(0..255) /\ Len(s \o l) = 1 + Len(l)
      /\ \A i \in 1..1 + Len(l) : (s \o l)[i] = IF i <= 1 THEN s[i] ELSE l[i - 1]
  <2>1. /\ s \o l \in Seq(0..255) /\ Len(s \o l) = Len(s) + Len(l)
        /\ \A i \in 1..Len(s) + Len(l) :
              (s \o l)[i] = IF i <= Len(s) THEN s[i] ELSE l[i - Len(s)]
    BY <1>1, <1>2, ConcatProperties
  <2> QED
    BY Zenon, <1>2, <2>1
<1>4. (s \o l)[1] = Len(l)
  BY <1>1, <1>2, <1>3
<1>5. ASSUME NEW j \in 1..Len(l) PROVE (s \o l)[1 + j] = l[j]
  <2>1. 1 + j \in 1..1 + Len(l) /\ ~(1 + j <= 1) /\ 1 + j - 1 = j
    BY <1>1
  <2> QED
    BY <1>3, <2>1
<1> QED
  BY Zenon, <1>1, <1>3, <1>4, <1>5 DEF EncodedLabel, s, Packets

\* The i-th label of a name ends at ends[i] of its encoding e.
LabelEnds(labels, e, ends) ==
    /\ ends \in [0..Len(labels) -> Nat] /\ ends[0] = 0 /\ ends[Len(labels)] = Len(e)
    /\ \A i \in 1..Len(labels) :
         /\ ends[i] = ends[i - 1] + (1 + Len(labels[i]))
         /\ ends[i] <= Len(e)
         /\ \A j \in 1..1 + Len(labels[i]) : e[ends[i - 1] + j] = EncodedLabel(labels[i])[j]

LEMMA EncodedName ==
    ASSUME NEW labels \in Seq(Label), labels # <<>>
    PROVE  /\ EncodeDomainName(labels) \in Packets
           /\ \E ends : LabelEnds(labels, EncodeDomainName(labels), ends)
<1> DEFINE N == Len(labels)
           seqs == [i \in DOMAIN labels |-> EncodedLabel(labels[i])]
           e == EncodeDomainName(labels)
<1>1. N \in Nat /\ DOMAIN labels = 1..N /\ \A i \in 1..N : labels[i] \in Label
  BY LenProperties, ElementOfSeq
<1>2. \A i \in 1..N : EncodedLabel(labels[i]) \in Packets
                      /\ Len(EncodedLabel(labels[i])) = 1 + Len(labels[i])
  BY <1>1, EncodedLabelOctets
<1>3. seqs \in Seq(Packets) /\ Len(seqs) = N /\ \A i \in 1..N : seqs[i] = EncodedLabel(labels[i])
  BY <1>1, <1>2
<1>4. e = FlattenSeq(seqs)
  BY Zenon DEF EncodeDomainName, EncodedLabel
<1> HIDE DEF seqs, e
<1>5. e \in Packets /\ \E ends : IsLayout(e, seqs, ends)
  BY <1>3, <1>4, FlattenLayout DEF Packets
<1>6. PICK ends : IsLayout(e, seqs, ends)
  BY <1>5
<1>7. /\ ends \in [0..N -> Nat] /\ ends[0] = 0 /\ ends[N] = Len(e)
      /\ \A i \in 1..N : /\ ends[i] = ends[i - 1] + Len(seqs[i])
                         /\ ends[i] <= Len(e)
                         /\ \A j \in 1..Len(seqs[i]) : e[ends[i - 1] + j] = seqs[i][j]
  BY Zenon, <1>3, <1>6 DEF IsLayout
<1>8. ASSUME NEW i \in 1..N
      PROVE  /\ ends[i] = ends[i - 1] + (1 + Len(labels[i]))
             /\ ends[i] <= Len(e)
             /\ \A j \in 1..1 + Len(labels[i]) : e[ends[i - 1] + j] = EncodedLabel(labels[i])[j]
  <2>1. seqs[i] = EncodedLabel(labels[i]) /\ Len(seqs[i]) = 1 + Len(labels[i])
    BY <1>2, <1>3
  <2> QED
    BY Zenon, <1>7, <2>1
<1>9. LabelEnds(labels, e, ends)
  BY Zenon, <1>7, <1>8 DEF LabelEnds
<1> QED
  BY Zenon, <1>5, <1>9 DEF e

\* A name that was encoded and terminated stands where it was written.
LEMMA EncodedStands ==
    ASSUME NEW p, NEW m, NEW labels \in Seq(Label), labels # <<>>,
           Holds(p, m, EncodeDomainName(labels) \o << 0 >>)
    PROVE  /\ EncodeDomainName(labels) \in Packets
           /\ \E offsets : /\ LabelsAt(p, labels, offsets) /\ offsets[0] = m
                           /\ offsets[Len(labels)] = m + Len(EncodeDomainName(labels))
<1> DEFINE N == Len(labels)
           e == EncodeDomainName(labels)
<1>1. e \in Packets /\ N \in Nat /\ \A i \in 1..N : labels[i] \in Label
  BY EncodedName, LenProperties, ElementOfSeq
<1>p. PICK ends : LabelEnds(labels, e, ends)
  BY Zenon, EncodedName
<1>2. /\ ends \in [0..N -> Nat] /\ ends[0] = 0
      /\ ends[N] = Len(e)
      /\ \A i \in 1..N :
           /\ ends[i] = ends[i - 1] + (1 + Len(labels[i]))
           /\ ends[i] <= Len(e)
           /\ \A j \in 1..1 + Len(labels[i]) : e[ends[i - 1] + j] = EncodedLabel(labels[i])[j]
  BY Zenon, <1>p DEF LabelEnds
<1> HIDE DEF e
<1>3. << 0 >> \in Packets /\ Len(<< 0 >>) = 1 /\ << 0 >>[1] = 0
  BY DEF Packets
<1>4. Holds(p, m, e) /\ Holds(p, m + Len(e), << 0 >>)
  BY Zenon, <1>1, <1>3, HoldsParts DEF e
<1>5. p \in Packets /\ m \in Nat /\ Len(e) \in Nat /\ Len(p) \in Nat
      /\ m + Len(e) + 1 <= Len(p)
  BY <1>1, <1>3, <1>4, LenProperties DEF Holds, Packets
<1>6. Octet(p, m + Len(e)) = 0
  <2>1. Octet(p, m + Len(e) + 0) = << 0 >>[0 + 1]
    BY <1>3, <1>4, HoldsOctet
  <2>2. m + Len(e) + 0 = m + Len(e) /\ 0 + 1 = 1
    BY <1>5
  <2> QED
    BY Zenon, <1>3, <2>1, <2>2
<1> DEFINE offsets == [i \in 0..N |-> m + ends[i]]
<1>7. offsets \in [0..N -> Nat] /\ \A i \in 0..N : offsets[i] = m + ends[i]
  BY <1>2, <1>5
<1>8. 0 \in 0..N /\ N \in 0..N /\ m + 0 = m
  BY <1>1, <1>5
<1>9. offsets[0] = m /\ offsets[N] = m + Len(e)
  BY Zenon, <1>2, <1>7, <1>8
<1> HIDE DEF offsets
<1>10. ASSUME NEW i \in 1..N
       PROVE  /\ offsets[i] = offsets[i - 1] + 1 + Len(labels[i])
              /\ Octet(p, offsets[i - 1]) = Len(labels[i])
              /\ Slice(p, offsets[i - 1] + 1, offsets[i]) = labels[i]
  <2> DEFINE l == labels[i]
             a == ends[i - 1]
             b == ends[i]
             n == Len(l)
  <2>1. i - 1 \in 0..N /\ i \in 0..N
    BY <1>1
  <2>2. a \in Nat /\ b \in Nat /\ offsets[i - 1] = m + a /\ offsets[i] = m + b
    BY <1>2, <1>7, <2>1
  <2>3. l \in Label /\ n \in 1..63 /\ l \in Packets
    BY <1>1, EncodedLabelOctets DEF Label, Packets
  <2>4. b = a + (1 + n) /\ b <= Len(e)
        /\ \A j \in 1..1 + n : e[a + j] = EncodedLabel(l)[j]
    BY Zenon, <1>2
  <2>5. EncodedLabel(l)[1] = n /\ \A j \in 1..n : EncodedLabel(l)[1 + j] = l[j]
    BY <2>3, EncodedLabelOctets
  <2> HIDE DEF l, a, b, n
  <2>6. offsets[i] = offsets[i - 1] + 1 + n
    BY <1>5, <2>2, <2>3, <2>4
  <2>7. Octet(p, m + a) = n
    <3>1. a \in 0..Len(e) - 1 /\ 1 \in 1..1 + n
      BY <1>5, <2>2, <2>3, <2>4
    <3>2. Octet(p, m + a) = e[a + 1]
      BY <1>4, <3>1, HoldsOctet
    <3>3. e[a + 1] = EncodedLabel(l)[1]
      BY Zenon, <2>4, <3>1
    <3> QED
      BY Zenon, <2>5, <3>2, <3>3
  <2>8. Slice(p, m + a + 1, m + b) = l
    <3> DEFINE from == m + a + 1
               to == m + b
               s == Slice(p, from, to)
    <3>1. from \in Nat /\ to \in Nat /\ from <= to /\ to <= Len(p) /\ to - from = n
      BY <1>5, <2>2, <2>3, <2>4
    <3> HIDE DEF from, to
    <3>2. s \in Packets /\ Len(s) = n /\ \A j \in 1..n : s[j] = Octet(p, from + j - 1)
      <4>1. s \in Packets /\ Len(s) = to - from
            /\ \A j \in 1..to - from : s[j] = Octet(p, from + j - 1)
        BY <1>5, <3>1, SliceType
      <4> QED
        BY Zenon, <3>1, <4>1
    <3>3. ASSUME NEW j \in 1..n PROVE s[j] = l[j]
      <4>1. /\ a + j \in 0..Len(e) - 1 /\ 1 + j \in 1..1 + n
            /\ from + j - 1 = m + (a + j) /\ a + j + 1 = a + (1 + j)
        BY <1>5, <2>2, <2>3, <2>4 DEF from
      <4>2. Octet(p, m + (a + j)) = e[a + j + 1]
        BY <1>4, <4>1, HoldsOctet
      <4>3. e[a + (1 + j)] = EncodedLabel(l)[1 + j] /\ EncodedLabel(l)[1 + j] = l[j]
        BY Zenon, <2>4, <2>5, <4>1
      <4>4. s[j] = Octet(p, from + j - 1)
        BY Zenon, <3>2
      <4> QED
        BY Zenon, <4>1, <4>2, <4>3, <4>4
    <3> HIDE DEF s
    <3>4. Len(l) = n
      BY DEF n
    <3>5. s = l
      BY <2>3, <3>2, <3>3, <3>4, SeqEqual DEF Packets
    <3> QED
      BY <3>5 DEF s, from, to
  <2> QED
    BY <2>2, <2>6, <2>7, <2>8 DEF l, n
<1>11. LabelsAt(p, labels, offsets)
  <2>1. offsets[N] < Len(p)
    BY <1>5, <1>9
  <2> QED
    BY <1>6, <1>7, <1>9, <1>10, <2>1 DEF LabelsAt
<1> QED
  BY Zenon, <1>1, <1>9, <1>11 DEF e

LEMMA Joined ==
    ASSUME NEW u \in Packets, NEW v \in Packets
    PROVE  /\ u \o v \in Packets /\ Len(u \o v) = Len(u) + Len(v)
           /\ Len(u) \in Nat /\ Len(v) \in Nat
BY ConcatProperties, LenProperties DEF Packets

-----------------------------------------------------------------------------
(* Questions *)

\* A name that was written into a packet is read there, in a question or not.
LEMMA WrittenName ==
    ASSUME NEW p, NEW m, NEW labels \in Seq(Label), labels # <<>>,
           Holds(p, m, EncodeDomainName(labels) \o << 0 >>), NEW q \in BOOLEAN
    PROVE  UnpackName(p, m, q) = Name(labels, m + Len(EncodeDomainName(labels)) + 1)
<1>1. p \in Packets
  BY DEF Holds
<1>2. PICK offsets : /\ LabelsAt(p, labels, offsets) /\ offsets[0] = m
                     /\ offsets[Len(labels)] = m + Len(EncodeDomainName(labels))
  BY Zenon, EncodedStands
<1>3. UnpackName(p, offsets[0], q) = Name(labels, offsets[Len(labels)] + 1)
  BY <1>1, <1>2, LabelsRead
<1> QED
  BY Zenon, <1>2, <1>3

\* A question for the name with these labels, which ends at end.
QuestionAt(p, labels, offsets, end) ==
    /\ LabelsAt(p, labels, offsets) /\ offsets[0] = Header
    /\ end = offsets[Len(labels)] + 1 /\ end \in Nat /\ Header < end
    /\ end + 4 <= Len(p)
    /\ Slice(p, 4, 6) # <<0, 0>>

LEMMA AcceptedQuestion ==
    ASSUME NEW p \in Packets, ParseQuery(p).ok
    PROVE  \E labels, offsets, end :
              /\ QuestionAt(p, labels, offsets, end)
              /\ UnpackName(p, Header, TRUE) = Name(labels, end)
              /\ ParseQuery(p) = [ok |-> TRUE, domain |-> labels, type |-> Slice(p, end, end + 2)]
<1> DEFINE name == UnpackName(p, Header, TRUE)
<1>1. Len(p) \in Nat /\ Header \in Nat /\ Header = 12
  BY LenProperties DEF Packets, Header
<1>2. ~Failure.ok
  BY NamesType
<1>3. /\ ~(Len(p) < Header) /\ Slice(p, 4, 6) # <<0, 0>> /\ name.ok
      /\ ~(name.end + 4 > Len(p))
      /\ ParseQuery(p) = [ok |-> TRUE, domain |-> name.labels,
                          type |-> Slice(p, name.end, name.end + 2)]
  BY Zenon, <1>2 DEF ParseQuery
<1>4. Header < Len(p)
  <2>1. CASE ~(Header < Len(p))
    BY Zenon, <1>2, <1>3, <2>1 DEF UnpackName
  <2> QED
    BY Zenon, <2>1
<1>5. name \in Names
  <2>1. Header \in Header..Len(p)
    BY <1>1, <1>4
  <2>2. name = Left(p, Header, TRUE)[Header] /\ Left(p, Header, TRUE)[Header] \in Names
    BY <1>1, <1>4, <2>1, UnpackNameRecursion
  <2> QED
    BY Zenon, <2>2
<1>6. name.end \in Nat
  BY <1>3, <1>5, NamesType
<1> HIDE DEF name
<1>7. name.end < Len(p) /\ name.end + 4 <= Len(p)
  BY <1>1, <1>3, <1>6
<1>8. \E offsets : /\ LabelsAt(p, name.labels, offsets)
                   /\ offsets[0] = Header
                   /\ name.end = offsets[Len(name.labels)] + 1
  BY <1>1, <1>3, <1>4, <1>7, QuestionLabels DEF name
<1>9. PICK offsets : /\ LabelsAt(p, name.labels, offsets)
                     /\ offsets[0] = Header
                     /\ name.end = offsets[Len(name.labels)] + 1
  BY Zenon, <1>8
<1>10. UnpackName(p, Header, TRUE) = Name(name.labels, name.end)
  <2>1. UnpackName(p, offsets[0], TRUE) = Name(name.labels, offsets[Len(name.labels)] + 1)
    BY <1>9, LabelsRead
  <2> QED
    BY Zenon, <1>9, <2>1
<1>11. Header < name.end
  <2>1. Len(name.labels) \in Nat
    BY <1>9, LenProperties DEF LabelsAt
  <2>2. Len(name.labels) \in 0..Len(name.labels)
    BY <2>1
  <2>3. offsets[Len(name.labels)] \in Nat
        /\ offsets[0] + Len(name.labels) <= offsets[Len(name.labels)]
    BY <1>9, <2>2, LabelOffsets
  <2> QED
    BY <1>1, <1>9, <2>1, <2>3
<1>12. QuestionAt(p, name.labels, offsets, name.end)
  BY Zenon, <1>3, <1>6, <1>7, <1>9, <1>11 DEF QuestionAt
<1> QED
  BY Zenon, <1>3, <1>10, <1>12

LEMMA QuestionAccepted ==
    ASSUME NEW p \in Packets, NEW labels, NEW offsets, NEW end,
           QuestionAt(p, labels, offsets, end)
    PROVE  /\ UnpackName(p, Header, TRUE) = Name(labels, end)
           /\ ParseQuery(p) = [ok |-> TRUE, domain |-> labels, type |-> Slice(p, end, end + 2)]
<1> DEFINE name == UnpackName(p, Header, TRUE)
<1>1. Len(p) \in Nat /\ Header \in Nat
  BY LenProperties DEF Packets, Header
<1>2. /\ LabelsAt(p, labels, offsets) /\ offsets[0] = Header
      /\ end = offsets[Len(labels)] + 1 /\ end \in Nat /\ Header < end
      /\ end + 4 <= Len(p)
      /\ Slice(p, 4, 6) # <<0, 0>>
  BY Zenon DEF QuestionAt
<1>3. name = Name(labels, end)
  <2>1. UnpackName(p, offsets[0], TRUE) = Name(labels, offsets[Len(labels)] + 1)
    BY <1>2, LabelsRead
  <2> QED
    BY Zenon, <1>2, <2>1
<1> HIDE DEF name
<1>4. name.ok /\ name.labels = labels /\ name.end = end
  BY <1>3, NameFields
<1>5. ~(Len(p) < Header) /\ ~(end + 4 > Len(p))
  BY <1>1, <1>2
<1>6. ParseQuery(p) = [ok |-> TRUE, domain |-> name.labels,
                       type |-> Slice(p, name.end, name.end + 2)]
  BY Zenon, <1>2, <1>4, <1>5 DEF ParseQuery, name
<1> QED
  BY Zenon, <1>3, <1>4, <1>6 DEF name

LEMMA OneQuestion ==
    ASSUME NEW p \in Packets, 6 <= Len(p), Octet(p, 5) = 1
    PROVE  Slice(p, 4, 6) # <<0, 0>>
<1>1. 4 \in Nat /\ 6 \in Nat /\ 4 <= 6 /\ 2 \in 1..6 - 4 /\ 4 + 2 - 1 = 5
  OBVIOUS
<1>2. Slice(p, 4, 6)[2] = Octet(p, 4 + 2 - 1)
  BY Zenon, <1>1, SliceType
<1>4. Slice(p, 4, 6)[2] = 1
  BY Zenon, <1>1, <1>2
<1>3. <<0, 0>>[2] = 0
  OBVIOUS
<1>5. 0 # 1
  OBVIOUS
<1> QED
  BY Zenon, <1>3, <1>4, <1>5

-----------------------------------------------------------------------------
(* Queries *)

LEMMA Forwarded ==
    ASSUME NEW labels \in Seq(Label), labels # <<>>, NEW type \in Word(2)
    PROVE  ParseQuery(BuildQuery(labels, type)) =
              [ok |-> TRUE, domain |-> labels, type |-> type]
<1> DEFINE h == <<0, 0, 1, 0, 0, 1, 0, 0, 0, 0, 0, 0>>
           e == EncodeDomainName(labels)
           z == << 0 >>
           c == <<0, 1>>
           b == BuildQuery(labels, type)
<1>1. h \in Packets /\ Len(h) = 12 /\ h[6] = 1 /\ z \in Packets /\ Len(z) = 1
      /\ c \in Packets /\ Len(c) = 2
  BY DEF Packets
<1>2. e \in Packets /\ type \in Packets /\ Len(type) = 2
  BY EncodedName DEF Word, Packets
<1>3. b = (((h \o e) \o z) \o type) \o c
  BY Zenon DEF BuildQuery, QClass
<1> HIDE DEF h, e, z, c, b
<1>4. (h \o e) \o z = h \o (e \o z) /\ e \o z \in Packets
  BY <1>1, <1>2, ConcatAssociative, ConcatProperties DEF Packets
<1> DEFINE g == e \o z
<1>5. b = ((h \o g) \o type) \o c
  <2>1. (h \o e) \o z = h \o g
    BY Zenon, <1>4
  <2> HIDE DEF g
  <2> QED
    BY Zenon, <1>3, <2>1
<1>6. g \in Packets /\ Len(g) = Len(e) + 1 /\ Len(e) \in Nat
  <2>1. g \in Packets /\ Len(g) = Len(e) + Len(z) /\ Len(e) \in Nat
    BY Zenon, <1>1, <1>2, Joined
  <2> HIDE DEF g
  <2> QED
    BY Zenon, <1>1, <2>1
<1> HIDE DEF g
<1>7. h \o g \in Packets /\ Len(h \o g) = 12 + (Len(e) + 1)
  BY <1>1, <1>6, Joined
<1>8. (h \o g) \o type \in Packets /\ Len((h \o g) \o type) = 12 + (Len(e) + 1) + 2
  BY <1>2, <1>7, Joined
<1>9. b \in Packets /\ Len(b) = 12 + (Len(e) + 1) + 2 + 2
  BY <1>1, <1>5, <1>8, Joined
<1>10. Holds(b, 0, b)
  BY <1>9, HoldsAll
<1>11. Holds(b, 0, (h \o g) \o type)
  <2>1. Holds(b, 0, ((h \o g) \o type) \o c)
    BY Zenon, <1>5, <1>10
  <2> QED
    BY Zenon, <1>1, <1>8, <2>1, HoldsParts
<1>12. Holds(b, 0, h \o g) /\ Holds(b, 0 + Len(h \o g), type)
  BY Zenon, <1>2, <1>7, <1>11, HoldsParts
<1>13. Holds(b, 0, h) /\ Holds(b, 0 + Len(h), g)
  BY Zenon, <1>1, <1>6, <1>12, HoldsParts
<1> DEFINE end == 12 + Len(e) + 1
<1>14. /\ 0 + Len(h) = 12 /\ 0 + Len(h \o g) = end /\ end \in Nat /\ Header = 12
       /\ Header < end /\ end + 4 <= Len(b) /\ 6 <= Len(b) /\ end + Len(type) = end + 2
       /\ 5 \in 0..Len(h) - 1 /\ 5 + 1 = 6 /\ 0 + 5 = 5
  BY <1>1, <1>2, <1>6, <1>7, <1>9 DEF Header
<1> HIDE DEF end
<1>15. PICK offsets : /\ LabelsAt(b, labels, offsets) /\ offsets[0] = 12
                      /\ offsets[Len(labels)] = 12 + Len(e)
  <2>1. Holds(b, 12, EncodeDomainName(labels) \o << 0 >>)
    BY Zenon, <1>13, <1>14 DEF g, e, z
  <2>2. labels # <<>>
    OBVIOUS
  <2> QED
    BY Zenon, <2>1, <2>2, EncodedStands DEF e
<1>16. end = offsets[Len(labels)] + 1
  BY Zenon, <1>15 DEF end
<1>17. Slice(b, 4, 6) # <<0, 0>>
  <2>1. Octet(b, 0 + 5) = h[5 + 1]
    BY <1>13, <1>14, HoldsOctet
  <2>2. Octet(b, 5) = 1
    BY Zenon, <1>1, <1>14, <2>1
  <2> QED
    BY <1>9, <1>14, <2>2, OneQuestion
<1>18. QuestionAt(b, labels, offsets, end)
  BY Zenon, <1>14, <1>15, <1>16, <1>17 DEF QuestionAt
<1>19. ParseQuery(b) = [ok |-> TRUE, domain |-> labels, type |-> Slice(b, end, end + 2)]
  BY Zenon, <1>9, <1>18, QuestionAccepted
<1>20. Slice(b, end, end + Len(type)) = type
  BY Zenon, <1>12, <1>14, HoldsPart
<1> QED
  BY Zenon, <1>14, <1>19, <1>20 DEF b

-----------------------------------------------------------------------------
(* The state machine *)

\* What has been received is octets.
Received == packet \in Packets

LEMMA PacketOctets == MessageSpec => []Received
<1>1. MessageInit => Received
  <2>1. QueryHeader \in Packets
    BY DEF QueryHeader, Packets
  <2> QED
    BY <2>1, MessagesAssumption DEF MessageInit, Packets, Received
<1>2. Received /\ [MessageNext]_messages => Received'
  <2> SUFFICES ASSUME packet \in Packets, [MessageNext]_messages
               PROVE  packet' \in Packets
    BY DEF Received
  <2>1. CASE CutOff
    <3>1. packet' = SubSeq(packet, 1, Len(packet) - 1) /\ packet # <<>>
      BY <2>1 DEF CutOff, Front
    <3>2. Len(packet) \in Nat \ {0}
      BY <3>1, EmptySeq, LenProperties DEF Packets
    <3>3. Slice(packet, 0, Len(packet) - 1) \in Packets
      BY <3>2, SliceType
    <3> QED
      BY <3>1, <3>3 DEF Slice
  <2>2. ASSUME NEW octet \in Octets, Receive(octet) PROVE packet' \in Packets
    BY <2>2, OctetAssumption, AppendProperties DEF Receive, Packets
  <2>3. CASE UNCHANGED messages
    BY <2>3 DEF messages
  <2> QED
    BY <2>1, <2>2, <2>3 DEF MessageNext
<1> QED
  BY <1>1, <1>2, PTL DEF MessageSpec

\* Whatever question a client asks, the query built for upstream (buildDNSQuery) asks
\* the same: it is parsed into the same name and type.
THEOREM QuestionIsForwarded == MessageSpec => []QuestionForwarded
<1>1. Received => QuestionForwarded
  <2> SUFFICES ASSUME packet \in Packets, ParseQuery(packet).ok, ParseQuery(packet).domain # <<>>
               PROVE  ParseQuery(BuildQuery(ParseQuery(packet).domain, ParseQuery(packet).type))
                         = ParseQuery(packet)
    BY Zenon DEF QuestionForwarded, Received
  <2>1. PICK labels, offsets, end :
              /\ QuestionAt(packet, labels, offsets, end)
              /\ UnpackName(packet, Header, TRUE) = Name(labels, end)
              /\ ParseQuery(packet) = [ok |-> TRUE, domain |-> labels,
                                       type |-> Slice(packet, end, end + 2)]
    BY Zenon, AcceptedQuestion
  <2> DEFINE type == Slice(packet, end, end + 2)
  <2>2. ParseQuery(packet).domain = labels /\ ParseQuery(packet).type = type
    BY <2>1
  <2>3. labels \in Seq(Label)
    BY Zenon, <2>1 DEF QuestionAt, LabelsAt
  <2>4. type \in Word(2)
    <3>1. end \in Nat /\ end + 4 <= Len(packet) /\ Len(packet) \in Nat
      BY <2>1, LenProperties DEF QuestionAt, Packets
    <3> DEFINE to == end + 2
    <3>2. to \in Nat /\ end <= to /\ to <= Len(packet) /\ to - end = 2
      BY <3>1
    <3> HIDE DEF to
    <3>3. Slice(packet, end, to) \in Packets /\ Len(Slice(packet, end, to)) = to - end
      BY <3>1, <3>2, SliceType
    <3> QED
      BY Zenon, <3>2, <3>3 DEF Word, Packets, type, to
  <2> HIDE DEF type
  <2>5. ParseQuery(BuildQuery(labels, type)) = [ok |-> TRUE, domain |-> labels, type |-> type]
    BY Zenon, <2>2, <2>3, <2>4, Forwarded
  <2> QED
    BY Zenon, <2>1, <2>2, <2>5 DEF type
<1> QED
  BY <1>1, PacketOctets, PTL

-----------------------------------------------------------------------------
(* One step of unpackName, by what stands at the offset *)

LEMMA LeftLabel ==
    ASSUME NEW p \in Packets, NEW s \in Nat, s < Len(p), NEW q \in BOOLEAN,
           NEW o \in s..Len(p) - 1, Octet(p, o) \in 1..63,
           NEW to \in Nat, to = o + 1 + Octet(p, o), to <= Len(p)
    PROVE  /\ \A l, e : Left(p, s, q)[to] = Name(l, e) =>
                     Left(p, s, q)[o] = Name(<<Slice(p, o + 1, to)>> \o l, e)
           /\ Left(p, s, q)[to] = Failure => Left(p, s, q)[o] = Failure
<1> DEFINE left == Left(p, s, q)
<1>1. left[o] = IF to > Len(p) \/ ~left[to].ok THEN Failure
                ELSE Name(<<Slice(p, o + 1, to)>> \o left[to].labels, left[to].end)
  <2>1. LabelCase(p, s, q)
    BY Zenon, LeftCases
  <2> QED
    BY Zenon, <2>1 DEF LabelCase
<1>2. ~(to > Len(p))
  <2>1. Len(p) \in Nat
    BY LenProperties DEF Packets
  <2>2. \A m, n \in Nat : m <= n => ~(m > n)
    OBVIOUS
  <2> QED
    BY Zenon, <2>1, <2>2
<1> HIDE DEF left
<1>3. ASSUME NEW l, NEW e, left[to] = Name(l, e)
      PROVE  left[o] = Name(<<Slice(p, o + 1, to)>> \o l, e)
  <2>1. left[to].ok /\ left[to].labels = l /\ left[to].end = e
    BY <1>3, NameFields
  <2> QED
    BY Zenon, <1>1, <1>2, <2>1
<1>4. ASSUME left[to] = Failure PROVE left[o] = Failure
  BY Zenon, <1>1, <1>4, NamesType
<1> QED
  BY Zenon, <1>3, <1>4 DEF left

\* There is a pointer to the target at offset o.
PointsTo(p, o, target) ==
    /\ Octet(p, o) >= 192 /\ o + 1 < Len(p)
    /\ target = (Octet(p, o) % 64) * 256 + Octet(p, o + 1)

PointerCase(p, s) ==
    \A target : \A o \in s..Len(p) - 1 : PointsTo(p, o, target) /\ target < s =>
        \A l, e : UnpackName(p, target, FALSE) = Name(l, e) =>
                    Left(p, s, FALSE)[o] = Name(l, o + 2)

LEMMA PointerCases ==
    ASSUME NEW p \in Packets, NEW s \in Nat, s < Len(p)
    PROVE  PointerCase(p, s)
<1> SUFFICES ASSUME NEW o \in s..Len(p) - 1, NEW target, PointsTo(p, o, target),
                    target < s, NEW l, NEW e, UnpackName(p, target, FALSE) = Name(l, e)
             PROVE  Left(p, s, FALSE)[o] = Name(l, o + 2)
  BY Zenon DEF PointerCase
<1> DEFINE left == Left(p, s, FALSE)
<1>0. FALSE \in BOOLEAN
  OBVIOUS
<1>1. \A r \in s..Len(p) - 1 :
         Octet(p, r) >= 192 /\ r + 1 < Len(p) =>
           (LET pointer == (Octet(p, r) % 64) * 256 + Octet(p, r + 1)
                t  == UnpackName(p, pointer, FALSE)
            IN  pointer < s /\ t.ok => left[r] = Name(t.labels, r + 2))
  BY Zenon, <1>0, LeftCases DEF JumpCase
<1> DEFINE name == UnpackName(p, target, FALSE)
<1>4. name = Name(l, e)
  OBVIOUS
<1> HIDE DEF name
<1>2. name.ok /\ name.labels = l
  BY <1>4, NameFields
<1> HIDE DEF left
<1>3. target < s /\ name.ok => left[o] = Name(name.labels, o + 2)
  BY Zenon, <1>1 DEF name, PointsTo
<1> QED
  BY Zenon, <1>2, <1>3 DEF left

-----------------------------------------------------------------------------
(* The walk of the reference *)

IsPointer(p, o) == Octet(p, o) >= 192

Hop(p, o) == IF IsPointer(p, o) THEN (Octet(p, o) % 64) * 256 + Octet(p, o + 1)
             ELSE o + 1 + Octet(p, o)

Stuck(p, path) ==
    LET o == Last(path)
    IN  \/ o >= Len(p) \/ Len(path) > 2 * Len(p)
        \/ Octet(p, o) \in {0} \cup 64..191
        \/ IsPointer(p, o) /\ (o + 1 = Len(p) \/ \E v \in ToSet(path) : Hop(p, o) >= v)

Paths == Seq(Nat) \ {<<>>}

IsWalk(p, walk) ==
    walk = [path \in Paths |->
              IF Stuck(p, path) THEN path ELSE walk[Append(path, Hop(p, Last(path)))]]

Walk(p) == CHOOSE walk : IsWalk(p, walk)

Visited(p, start) == Walk(p)[<<start>>]

Jumps(p, W) == {i \in 1..Len(W) - 1 : IsPointer(p, W[i])}

IsLabels(p, W, labels) ==
    labels = [i \in 1..Len(W) |->
                IF i = Len(W) THEN <<>>
                ELSE IF i \in Jumps(p, W) THEN labels[i + 1]
                ELSE <<Slice(p, W[i] + 1, Hop(p, W[i]))>> \o labels[i + 1]]

LabelsOf(p, W) == CHOOSE labels : IsLabels(p, W, labels)

EndOf(p, W) == IF Jumps(p, W) = {} THEN Last(W) + 1 ELSE W[Min(Jumps(p, W))] + 2

LEMMA ReferenceNamesWalk ==
    ASSUME NEW p, NEW start
    PROVE  ReferenceNames(p, start) =
              LET W == Visited(p, start)
              IN  IF Last(W) < Len(p) /\ Octet(p, Last(W)) = 0
                  THEN {Name(LabelsOf(p, W)[1], EndOf(p, W))} ELSE {}
BY Zenon DEF ReferenceNames, Visited, Walk, IsWalk, Paths, Stuck, Hop, IsPointer, LabelsOf,
             IsLabels, Jumps, EndOf

\* What every hop of the walk W from start satisfies.
Hops(p, start, W) ==
    /\ W \in Paths /\ W[1] = start
    /\ \A i \in 1..Len(W) - 1 :
         /\ W[i] < Len(p) /\ Octet(p, W[i]) \in 1..63 \cup 192..255
         /\ W[i + 1] = Hop(p, W[i])
         /\ IsPointer(p, W[i]) =>
               W[i] + 1 < Len(p) /\ \A j \in 1..i : W[i + 1] < W[j]

LEMMA HopType ==
    ASSUME NEW p \in Packets, NEW path \in Paths, ~Stuck(p, path)
    PROVE  LET o == Last(path)
           IN  /\ Len(path) <= 2 * Len(p)
               /\ o \in Nat /\ o < Len(p) /\ Octet(p, o) \in 1..63 \cup 192..255
               /\ Hop(p, o) \in Nat
               /\ IsPointer(p, o) =>
                     o + 1 < Len(p) /\ \A j \in 1..Len(path) : Hop(p, o) < path[j]
<1> DEFINE o == Last(path)
           n == Len(path)
<1>1. Len(p) \in Nat /\ n \in Nat \ {0} /\ path \in [1..n -> Nat]
  BY LenProperties, EmptySeq DEF Packets, Paths
<1>2. o = path[n] /\ o \in Nat
  BY <1>1 DEF Last
<1>3. /\ ~(o >= Len(p)) /\ ~(n > 2 * Len(p))
      /\ Octet(p, o) \notin {0} \cup 64..191
      /\ IsPointer(p, o) => ~(o + 1 = Len(p)) /\ \A v \in ToSet(path) : ~(Hop(p, o) >= v)
  BY Zenon DEF Stuck
<1> HIDE DEF o, n
<1>4. o < Len(p) /\ n <= 2 * Len(p)
  <2>1. ~(o >= Len(p)) /\ ~(n > 2 * Len(p)) /\ o \in Nat /\ n \in Nat /\ Len(p) \in Nat
    BY Zenon, <1>1, <1>2, <1>3
  <2> QED
    BY <2>1
<1>5. o \in 0..Len(p) - 1
  BY <1>1, <1>2, <1>4
<1>6. Octet(p, o) \in 0..255
  BY <1>5, OctetType
<1>7. Octet(p, o) \in 1..63 \cup 192..255
  BY <1>3, <1>6
<1>8. IsPointer(p, o) => o + 1 < Len(p)
  <2>1. IsPointer(p, o) => ~(o + 1 = Len(p))
    BY Zenon, <1>3
  <2>2. o \in Nat /\ Len(p) \in Nat /\ o < Len(p)
    BY Zenon, <1>1, <1>2, <1>4
  <2> QED
    BY <2>1, <2>2
<1>9. Hop(p, o) \in Nat
  <2>1. CASE IsPointer(p, o)
    <3>1. (Octet(p, o) % 64) * 256 + Octet(p, o + 1) \in Nat
      BY <1>2, <1>8, <2>1, PointerType
    <3> QED
      BY Zenon, <2>1, <3>1 DEF Hop
  <2>2. CASE ~IsPointer(p, o)
    <3>1. o + 1 + Octet(p, o) \in Nat
      BY <1>2, <1>6
    <3> QED
      BY Zenon, <2>2, <3>1 DEF Hop
  <2> QED
    BY Zenon, <2>1, <2>2
<1>10. ASSUME IsPointer(p, o), NEW j \in 1..n PROVE Hop(p, o) < path[j]
  <2>1. path[j] \in ToSet(path) /\ path[j] \in Nat
    BY <1>1 DEF ToSet
  <2>2. ~(Hop(p, o) >= path[j])
    BY Zenon, <1>3, <1>10, <2>1
  <2> QED
    BY <1>9, <2>1, <2>2
<1> QED
  BY Zenon, <1>2, <1>4, <1>7, <1>8, <1>9, <1>10 DEF o, n

LEMMA WalkDefined ==
    ASSUME NEW p \in Packets
    PROVE  \A path \in Paths :
              /\ Walk(p)[path] \in Paths
              /\ Walk(p)[path] = IF Stuck(p, path) THEN path
                                 ELSE Walk(p)[Append(path, Hop(p, Last(path)))]
<1> DEFINE F == [Paths -> Paths]
           bound == 2 * Len(p) + 1
           rank == [path \in Paths |->
                      IF Len(path) > 2 * Len(p) THEN 0 ELSE 2 * Len(p) + 1 - Len(path)]
           next(path) == Append(path, Hop(p, Last(path)))
           step == [x \in Paths \X F |-> IF Stuck(p, x[1]) THEN x[1] ELSE x[2][next(x[1])]]
<1>1. Len(p) \in Nat /\ bound \in Nat
  BY LenProperties DEF Packets
<1>2. \A path \in Paths : Len(path) \in Nat \ {0}
  BY EmptySeq DEF Paths
<1>3. rank \in [Paths -> 0..bound]
  BY <1>1, <1>2
<1>4. ASSUME NEW path \in Paths, ~Stuck(p, path)
      PROVE  next(path) \in Paths /\ rank[next(path)] < rank[path]
             /\ Len(next(path)) = Len(path) + 1
  <2>1. Hop(p, Last(path)) \in Nat /\ Len(path) <= 2 * Len(p)
    BY <1>4, HopType
  <2>2. next(path) \in Seq(Nat) /\ next(path) # <<>> /\ Len(next(path)) = Len(path) + 1
    BY <2>1, AppendProperties DEF Paths
  <2>3. next(path) \in Paths
    BY <2>2 DEF Paths
  <2> HIDE DEF next
  <2> QED
    BY <1>1, <1>2, <2>1, <2>2, <2>3
<1>5. \A path \in Paths, f \in F :
         step[<<path, f>>] = IF Stuck(p, path) THEN path ELSE f[next(path)]
  OBVIOUS
<1> HIDE DEF rank, bound, next
<1>6. step \in [Paths \X F -> Paths]
  BY <1>4
<1>7. \A path \in Paths : \A f, g \in [Paths -> Paths] :
        (\A t \in Paths : rank[t] < rank[path] => f[t] = g[t]) =>
            step[<<path, f>>] = step[<<path, g>>]
  <2> HIDE DEF step
  <2> QED
    BY Zenon, <1>4, <1>5
<1>8. << 0 >> \in Paths
  BY DEF Paths
<1> HIDE DEF step
<1>9. IsRecursion(Paths, Paths, bound, rank, step)
  BY Zenon, <1>1, <1>3, <1>6, <1>7, <1>8 DEF IsRecursion
<1>10. PICK f \in F : \A path \in Paths : f[path] = step[<<path, f>>]
  BY <1>9, RecursiveFunction
<1>11. IsWalk(p, f)
  <2>1. \A path \in Paths : f[path] = IF Stuck(p, path) THEN path ELSE f[next(path)]
    BY Zenon, <1>5, <1>10
  <2>2. f = [path \in Paths |-> IF Stuck(p, path) THEN path ELSE f[next(path)]]
    BY <2>1
  <2> QED
    BY Zenon, <2>2 DEF IsWalk, next
<1>12. IsWalk(p, Walk(p))
  BY Zenon, <1>11 DEF Walk
<1> DEFINE walk == Walk(p)
<1> HIDE DEF walk
<1>13. \A path \in Paths : walk[path] = IF Stuck(p, path) THEN path ELSE walk[next(path)]
  BY Zenon, <1>12 DEF IsWalk, next, walk
<1> DEFINE T == {k \in Int : \A path \in Paths : rank[path] <= k => walk[path] \in Paths}
<1>14. -1 \in T
  BY <1>3
<1>15. ASSUME NEW k \in -1..bound - 1, k \in T PROVE k + 1 \in T
  <2> SUFFICES ASSUME NEW path \in Paths, rank[path] <= k + 1 PROVE walk[path] \in Paths
    OBVIOUS
  <2>1. CASE Stuck(p, path)
    BY Zenon, <1>13, <2>1
  <2>2. CASE ~Stuck(p, path)
    <3>1. next(path) \in Paths /\ rank[next(path)] < rank[path]
      BY Zenon, <1>4, <2>2
    <3>2. rank[next(path)] <= k
      <4>1. rank[path] \in Int /\ rank[next(path)] \in Int
        BY <1>3, <3>1
      <4> QED
        BY <3>1, <4>1
    <3>3. walk[next(path)] \in Paths
      BY <1>15, <3>1, <3>2
    <3> QED
      BY Zenon, <1>13, <2>2, <3>3
  <2> QED
    BY Zenon, <2>1, <2>2
<1>16. -1..bound \subseteq T
  <2> HIDE DEF T
  <2>1. -1 \in Int /\ bound \in Int
    BY <1>1
  <2> QED
    BY <1>14, <1>15, <2>1, UpwardInduction
<1>17. \A path \in Paths : walk[path] \in Paths
  <2>1. bound \in T
    BY <1>1, <1>16
  <2> QED
    BY <1>3, <2>1
<1> QED
  BY Zenon, <1>13, <1>17 DEF walk, next

LEMMA HopsAppend ==
    ASSUME NEW p \in Packets, NEW start \in Nat, NEW path, Hops(p, start, path),
           ~Stuck(p, path)
    PROVE  Append(path, Hop(p, Last(path))) \in Paths
           /\ Hops(p, start, Append(path, Hop(p, Last(path))))
           /\ Len(Append(path, Hop(p, Last(path)))) = Len(path) + 1
<1> DEFINE h == Hop(p, Last(path))
           n == Len(path)
           W == Append(path, h)
<1>1. path \in Paths /\ path \in Seq(Nat) /\ path[1] = start
  BY DEF Hops, Paths
<1>2. n \in Nat \ {0}
  BY <1>1, EmptySeq DEF Paths
<1>3. /\ Last(path) < Len(p) /\ Octet(p, Last(path)) \in 1..63 \cup 192..255
      /\ h \in Nat
      /\ IsPointer(p, Last(path)) =>
            Last(path) + 1 < Len(p) /\ \A j \in 1..n : h < path[j]
  BY Zenon, <1>1, HopType
<1>4. \A i \in 1..n - 1 :
         /\ path[i] < Len(p) /\ Octet(p, path[i]) \in 1..63 \cup 192..255
         /\ path[i + 1] = Hop(p, path[i])
         /\ IsPointer(p, path[i]) =>
               path[i] + 1 < Len(p) /\ \A j \in 1..i : path[i + 1] < path[j]
  BY Zenon DEF Hops
<1>5. Last(path) = path[n]
  BY DEF Last
<1> HIDE DEF h
<1>6. W \in Seq(Nat) /\ Len(W) = n + 1 /\ W[n + 1] = h
      /\ \A i \in 1..n : W[i] = path[i]
  BY <1>1, <1>3, AppendProperties
<1>7. W \in Paths
  <2>1. Len(W) # 0
    BY <1>2, <1>6
  <2>2. Len(<<>>) = 0
    OBVIOUS
  <2> QED
    BY Zenon, <1>6, <2>1, <2>2 DEF Paths
<1> HIDE DEF W, n
<1>8. 1 \in 1..n /\ n + 1 - 1 = n
  BY <1>2
<1>9. ASSUME NEW i \in 1..n
      PROVE  /\ W[i] < Len(p) /\ Octet(p, W[i]) \in 1..63 \cup 192..255
             /\ W[i + 1] = Hop(p, W[i])
             /\ IsPointer(p, W[i]) =>
                   W[i] + 1 < Len(p) /\ \A j \in 1..i : W[i + 1] < W[j]
  <2>1. CASE i = n
    BY Zenon, <1>3, <1>5, <1>6, <2>1 DEF h, n
  <2>2. CASE i # n
    <3>1. i \in 1..n - 1 /\ i + 1 \in 1..n /\ \A j \in 1..i : j \in 1..n
      BY <1>2, <2>2
    <3>2. W[i] = path[i] /\ W[i + 1] = path[i + 1] /\ \A j \in 1..i : W[j] = path[j]
      BY Zenon, <1>6, <3>1
    <3>3. /\ path[i] < Len(p) /\ Octet(p, path[i]) \in 1..63 \cup 192..255
          /\ path[i + 1] = Hop(p, path[i])
          /\ IsPointer(p, path[i]) =>
                path[i] + 1 < Len(p) /\ \A j \in 1..i : path[i + 1] < path[j]
      BY Zenon, <1>4, <3>1
    <3> QED
      BY <3>2, <3>3
  <2> QED
    BY Zenon, <2>1, <2>2
<1>10. Hops(p, start, W)
  <2>1. W[1] = start
    BY Zenon, <1>1, <1>6, <1>8
  <2>2. 1..Len(W) - 1 = 1..n
    BY <1>2, <1>6
  <2> QED
    BY Zenon, <1>7, <1>9, <2>1, <2>2 DEF Hops
<1> QED
  BY Zenon, <1>6, <1>7, <1>10 DEF W, h, n

LEMMA WalkHops ==
    ASSUME NEW p \in Packets, NEW start \in Nat
    PROVE  Hops(p, start, Visited(p, start))
<1> DEFINE L == 2 * Len(p)
           T == {k \in Nat : \A path \in Paths :
                    L + 1 - Len(path) <= k /\ Hops(p, start, path)
                        => Hops(p, start, Walk(p)[path])}
<1>1. L \in Nat /\ \A path \in Paths : Len(path) \in Nat \ {0}
  <2>1. Len(p) \in Nat
    BY LenProperties DEF Packets
  <2>2. \A path \in Paths : Len(path) \in Nat \ {0}
    BY EmptySeq DEF Paths
  <2> QED
    BY <2>1, <2>2
<1>2. \A path \in Paths : Len(path) > L => Stuck(p, path)
  BY Zenon DEF Stuck
<1>3. \A path \in Paths :
         Walk(p)[path] = IF Stuck(p, path) THEN path
                         ELSE Walk(p)[Append(path, Hop(p, Last(path)))]
  BY Zenon, WalkDefined
<1> HIDE DEF L
<1>4. 0 \in T
  <2>1. ASSUME NEW path \in Paths, L + 1 - Len(path) <= 0
        PROVE  Walk(p)[path] = path
    <3>1. Len(path) > L
      BY <1>1, <2>1
    <3> QED
      BY Zenon, <1>2, <1>3, <3>1
  <2>2. 0 \in Nat
    OBVIOUS
  <2> QED
    BY Zenon, <2>1, <2>2
<1>5. ASSUME NEW k \in 0..L - 1, k \in T PROVE k + 1 \in T
  <2>1. k + 1 \in Nat
    BY <1>1
  <2>2. ASSUME NEW path \in Paths, L + 1 - Len(path) <= k + 1, Hops(p, start, path)
        PROVE  Hops(p, start, Walk(p)[path])
    <3>1. CASE Stuck(p, path)
      BY Zenon, <1>3, <2>2, <3>1
    <3>2. CASE ~Stuck(p, path)
      <4> DEFINE next == Append(path, Hop(p, Last(path)))
      <4>1. next \in Paths /\ Hops(p, start, next) /\ Len(next) = Len(path) + 1
        BY <2>2, <3>2, HopsAppend
      <4> HIDE DEF next
      <4>2. L + 1 - Len(next) <= k
        BY <1>1, <2>2, <4>1
      <4>3. Hops(p, start, Walk(p)[next])
        BY Zenon, <1>5, <4>1, <4>2
      <4> QED
        BY Zenon, <1>3, <3>2, <4>3 DEF next
    <3> QED
      BY Zenon, <3>1, <3>2
  <2> QED
    BY Zenon, <2>1, <2>2
<1>6. 0..L \subseteq T
  <2> HIDE DEF T
  <2>1. 0 \in Int /\ L \in Int
    BY <1>1
  <2> QED
    BY <1>4, <1>5, <2>1, UpwardInduction
<1> DEFINE path == <<start>>
<1>7. path \in Paths /\ Len(path) = 1 /\ path[1] = start
  BY DEF Paths
<1>8. Hops(p, start, path)
  <2>1. 1..Len(path) - 1 = {}
    BY <1>7
  <2> HIDE DEF path
  <2> QED
    BY Zenon, <1>7, <2>1 DEF Hops
<1>9. L \in T /\ L + 1 - Len(path) <= L
  BY <1>1, <1>6, <1>7
<1> QED
  <2> HIDE DEF path
  <2>1. Hops(p, start, Walk(p)[path])
    BY Zenon, <1>7, <1>8, <1>9
  <2> QED
    BY <2>1 DEF path, Visited

\* The labels that are collected along the walk.
LEMMA LabelsOfWalk ==
    ASSUME NEW p \in Packets, NEW start, NEW W, Hops(p, start, W), Last(W) < Len(p)
    PROVE  /\ LabelsOf(p, W)[Len(W)] = <<>>
           /\ \A i \in 1..Len(W) - 1 :
                 LabelsOf(p, W)[i] =
                    IF IsPointer(p, W[i]) THEN LabelsOf(p, W)[i + 1]
                    ELSE <<Slice(p, W[i] + 1, W[i + 1])>> \o LabelsOf(p, W)[i + 1]
<1> DEFINE n == Len(W)
           S == 1..n
           V == Seq(Seq(0..255))
           F == [S -> V]
           rank == [i \in S |-> n - i]
           J == Jumps(p, W)
           body(i, f) == IF i = n THEN <<>>
                         ELSE IF i \in J THEN f[i + 1]
                         ELSE <<Slice(p, W[i] + 1, Hop(p, W[i]))>> \o f[i + 1]
           step == [x \in S \X F |-> body(x[1], x[2])]
<1>1. n \in Nat \ {0} /\ \A i \in 1..n : W[i] \in Nat
  <2>1. W \in Seq(Nat) /\ W # <<>>
    BY DEF Hops, Paths
  <2> QED
    BY <2>1, EmptySeq, ElementOfSeq
<1>2. Len(p) \in Nat /\ W[n] < Len(p)
  BY LenProperties DEF Packets, Last
<1>3. \A i \in 1..n - 1 :
         W[i] < Len(p) /\ Octet(p, W[i]) \in 1..63 \cup 192..255 /\ W[i + 1] = Hop(p, W[i])
  BY Zenon DEF Hops
<1>4. \A i \in 1..n - 1 : i \in J <=> IsPointer(p, W[i])
  BY DEF Jumps
<1> HIDE DEF J, n
<1>5. ASSUME NEW i \in S, i # n
      PROVE  i \in 1..n - 1 /\ i + 1 \in S /\ W[i + 1] < Len(p) /\ n - (i + 1) < n - i
  <2>1. i \in 1..n - 1 /\ i + 1 \in S /\ n - (i + 1) < n - i
    BY <1>1, <1>5
  <2>2. CASE i + 1 = n
    BY Zenon, <1>2, <2>1, <2>2
  <2>3. CASE i + 1 # n
    <3>1. i + 1 \in 1..n - 1
      BY <1>1, <2>1, <2>3
    <3> QED
      BY Zenon, <1>3, <2>1, <3>1
  <2> QED
    BY Zenon, <2>1, <2>2, <2>3
<1>6. ASSUME NEW i \in S, i # n, i \notin J
      PROVE  Slice(p, W[i] + 1, Hop(p, W[i])) \in Seq(0..255)
  <2> DEFINE a == W[i] + 1
             b == Hop(p, W[i])
             o == Octet(p, W[i])
  <2>1. i \in 1..n - 1 /\ W[i + 1] < Len(p) /\ W[i + 1] = b /\ W[i] \in Nat
    BY Zenon, <1>1, <1>3, <1>5, <1>6
  <2>2. ~IsPointer(p, W[i])
    BY Zenon, <1>4, <1>6, <2>1
  <2>3. b = W[i] + 1 + o
    BY Zenon, <2>2 DEF Hop
  <2>4. o \in 1..63 \cup 192..255
    BY Zenon, <1>3, <2>1
  <2> HIDE DEF b, o
  <2>5. a \in Nat /\ b \in Nat /\ a <= b /\ b <= Len(p)
    <3> DEFINE w == W[i]
    <3>1. w \in Nat /\ o \in 1..63 \cup 192..255 /\ b = w + 1 + o /\ b < Len(p)
          /\ Len(p) \in Nat
      BY Zenon, <1>2, <2>1, <2>3, <2>4
    <3> HIDE DEF w
    <3>2. o \in Nat
      BY <3>1
    <3>3. w + 1 \in Nat /\ b \in Nat /\ w + 1 <= b /\ b <= Len(p)
      BY <3>1, <3>2
    <3> QED
      BY Zenon, <3>3 DEF w
  <2> HIDE DEF a
  <2>6. Slice(p, a, b) \in Packets
    BY <2>5, SliceType
  <2> QED
    BY <2>6 DEF Packets, a, b
<1>7. rank \in [S -> 0..n]
  BY <1>1
<1>8. \A i \in S, f \in F : step[<<i, f>>] = body(i, f)
  OBVIOUS
<1>9. ASSUME NEW i \in S, NEW f \in F PROVE body(i, f) \in V
  <2>1. <<>> \in V
    OBVIOUS
  <2>2. ASSUME i # n PROVE f[i + 1] \in V
    <3>1. i + 1 \in S
      BY Zenon, <1>5, <2>2
    <3> HIDE DEF S, V
    <3> QED
      BY <3>1
  <2>3. ASSUME i # n, i \notin J
        PROVE  <<Slice(p, W[i] + 1, Hop(p, W[i]))>> \o f[i + 1] \in V
    <3> DEFINE l == Slice(p, W[i] + 1, Hop(p, W[i]))
               t == f[i + 1]
    <3>1. l \in Seq(0..255) /\ t \in V
      BY Zenon, <1>6, <2>2, <2>3
    <3> HIDE DEF l, t
    <3>2. <<l>> \in V
      BY <3>1
    <3>3. <<l>> \o t \in V
      BY <3>1, <3>2, ConcatProperties
    <3> QED
      BY Zenon, <3>3 DEF l, t
  <2> HIDE DEF V, S
  <2> QED
    BY Zenon, <2>1, <2>2, <2>3
<1>10. step \in [S \X F -> V]
  <2> HIDE DEF body, V, S
  <2> QED
    BY <1>9
<1>11. ASSUME NEW i \in S, NEW f \in F, NEW g \in F,
              \A t \in S : rank[t] < rank[i] => f[t] = g[t]
       PROVE  step[<<i, f>>] = step[<<i, g>>]
  <2>1. body(i, f) = body(i, g)
    <3>1. CASE i = n
      BY Zenon, <3>1
    <3>2. CASE i # n
      <4>1. i + 1 \in S /\ n - (i + 1) < n - i
        BY Zenon, <1>5, <3>2
      <4>2. rank[i + 1] = n - (i + 1) /\ rank[i] = n - i
        <5> HIDE DEF S
        <5> QED
          BY <4>1
      <4>3. f[i + 1] = g[i + 1]
        <5> HIDE DEF rank, S
        <5> QED
          BY Zenon, <1>11, <4>1, <4>2
      <4> QED
        BY Zenon, <4>3
    <3> QED
      BY Zenon, <3>1, <3>2
  <2> HIDE DEF step, body
  <2> QED
    BY Zenon, <1>8, <2>1
<1> HIDE DEF step
<1>12. \E f \in F : \A i \in S : f[i] = step[<<i, f>>]
  <2>1. V # {} /\ n \in Nat
    <3>1. <<>> \in V
      OBVIOUS
    <3> QED
      BY Zenon, <1>1, <3>1
  <2>2. \A i \in S : \A f, g \in [S -> V] :
          (\A t \in S : rank[t] < rank[i] => f[t] = g[t]) => step[<<i, f>>] = step[<<i, g>>]
    BY Zenon, <1>11
  <2> HIDE DEF S, V, rank
  <2>3. IsRecursion(S, V, n, rank, step)
    BY Zenon, <1>7, <1>10, <2>1, <2>2 DEF IsRecursion
  <2> QED
    BY <2>3, RecursiveFunction
<1>13. PICK f \in F : \A i \in S : f[i] = step[<<i, f>>]
  BY <1>12
<1>14. IsLabels(p, W, f)
  <2>1. \A i \in S : f[i] = body(i, f)
    BY Zenon, <1>8, <1>13
  <2> HIDE DEF body
  <2>2. f = [i \in S |-> body(i, f)]
    BY <2>1
  <2> QED
    BY Zenon, <2>2 DEF IsLabels, body, J, n
<1> DEFINE labels == LabelsOf(p, W)
<1>15. IsLabels(p, W, labels)
  BY Zenon, <1>14 DEF LabelsOf
<1> HIDE DEF labels
<1>16. \A i \in S : labels[i] = body(i, labels)
  BY Zenon, <1>15 DEF IsLabels, J, n
<1>17. labels[n] = <<>>
  <2>1. n \in S
    BY <1>1
  <2> QED
    BY Zenon, <1>16, <2>1
<1>18. ASSUME NEW i \in 1..n - 1
       PROVE  labels[i] = IF IsPointer(p, W[i]) THEN labels[i + 1]
                          ELSE <<Slice(p, W[i] + 1, W[i + 1])>> \o labels[i + 1]
  <2>1. i \in S /\ i # n
    BY <1>1
  <2> QED
    BY Zenon, <1>3, <1>4, <1>16, <2>1
<1> QED
  BY Zenon, <1>17, <1>18 DEF labels, n

\* What is left of the name from W[i] on ends at e: after the first pointer from there
\* on, or after the terminator if there is none.
EndsAt(p, W, i, e) ==
    \E m \in i..Len(W) :
        /\ \A k \in i..m - 1 : ~IsPointer(p, W[k])
        /\ \/ m = Len(W) /\ e = Last(W) + 1
           \/ m < Len(W) /\ IsPointer(p, W[m]) /\ e = W[m] + 2

\* unpackName reads the same labels from W[i] on, for every name it may be reading.
ReadsFrom(p, start, W, labels, i, e) ==
    /\ EndsAt(p, W, i, e)
    /\ \A j \in 1..i : W[j] <= W[i] => Left(p, W[j], FALSE)[W[i]] = Name(labels[i], e)
    /\ start <= W[i] => Left(p, start, TRUE)[W[i]] \in {Name(labels[i], e), Failure}

LEMMA EndIsEndOf ==
    ASSUME NEW p, NEW W, NEW e, Len(W) \in Nat \ {0}, EndsAt(p, W, 1, e)
    PROVE  e = EndOf(p, W)
<1> DEFINE n == Len(W)
           J == Jumps(p, W)
<1>1. PICK m \in 1..n :
        /\ \A k \in 1..m - 1 : ~IsPointer(p, W[k])
        /\ \/ m = n /\ e = Last(W) + 1
           \/ m < n /\ IsPointer(p, W[m]) /\ e = W[m] + 2
  BY DEF EndsAt
<1>2. n \in Nat /\ \A k : k \in J <=> k \in 1..n - 1 /\ IsPointer(p, W[k])
  BY DEF Jumps
<1> HIDE DEF J, n
<1>3. CASE m = n /\ e = Last(W) + 1
  <2>1. J = {}
    BY Zenon, <1>1, <1>2, <1>3
  <2> QED
    BY Zenon, <1>3, <2>1 DEF EndOf, J
<1>4. CASE m < n /\ IsPointer(p, W[m]) /\ e = W[m] + 2
  <2>1. m \in J
    <3>1. m \in 1..n - 1
      BY <1>2, <1>4
    <3> QED
      BY Zenon, <1>2, <1>4, <3>1
  <2>2. ASSUME NEW k \in J PROVE m <= k
    <3>1. k \in 1..n - 1 /\ k \notin 1..m - 1
      BY Zenon, <1>1, <1>2
    <3> QED
      BY <1>2, <3>1
  <2>3. \A k \in J : (\A y \in J : k <= y) => k = m
    <3> SUFFICES ASSUME NEW k \in J, k <= m PROVE k = m
      BY Zenon, <2>1
    <3>1. m <= k /\ k \in 1..n - 1
      BY Zenon, <1>2, <2>2
    <3> QED
      BY <1>2, <3>1
  <2>4. Min(J) = m
    BY Zenon, <2>1, <2>2, <2>3 DEF Min
  <2>5. J # {}
    BY <2>1
  <2> QED
    BY Zenon, <1>4, <2>4, <2>5 DEF EndOf, J
<1> QED
  BY Zenon, <1>1, <1>3, <1>4

LEMMA WalkRead ==
    ASSUME NEW p \in Packets, NEW start \in Nat, NEW W, Hops(p, start, W),
           Last(W) < Len(p), Octet(p, Last(W)) = 0
    PROVE  \E e : ReadsFrom(p, start, W, LabelsOf(p, W), 1, e)
<1> DEFINE n == Len(W)
           labels == LabelsOf(p, W)
           T == {i \in 1..n : \E e : ReadsFrom(p, start, W, labels, i, e)}
<1>1. Len(p) \in Nat /\ n \in Nat \ {0} /\ \A i \in 1..n : W[i] \in Nat
  <2>1. W \in Seq(Nat) /\ W # <<>>
    BY DEF Hops, Paths
  <2> QED
    BY <2>1, EmptySeq, ElementOfSeq, LenProperties DEF Packets
<1>2. W[n] < Len(p) /\ Octet(p, W[n]) = 0
  BY DEF Last
<1>3. \A i \in 1..n - 1 :
         /\ W[i] < Len(p) /\ Octet(p, W[i]) \in 1..63 \cup 192..255
         /\ W[i + 1] = Hop(p, W[i])
         /\ IsPointer(p, W[i]) =>
               W[i] + 1 < Len(p) /\ \A j \in 1..i : W[i + 1] < W[j]
  BY Zenon DEF Hops
<1>4. /\ labels[n] = <<>>
      /\ \A i \in 1..n - 1 :
            labels[i] = IF IsPointer(p, W[i]) THEN labels[i + 1]
                        ELSE <<Slice(p, W[i] + 1, W[i + 1])>> \o labels[i + 1]
  BY LabelsOfWalk
<1> HIDE DEF labels
<1>5. W[1] = start
  BY DEF Hops
<1>6. \A i \in 1..n : W[i] < Len(p)
  <2> SUFFICES ASSUME NEW i \in 1..n PROVE W[i] < Len(p)
    OBVIOUS
  <2>1. i = n \/ i \in 1..n - 1
    BY <1>1
  <2> QED
    BY Zenon, <1>2, <1>3, <2>1
<1>7. start < Len(p)
  <2>1. 1 \in 1..n
    BY <1>1
  <2> QED
    BY Zenon, <1>5, <1>6, <2>1
<1>7a. Last(W) = W[n]
  BY DEF Last
<1> HIDE DEF n
<1>8. n \in T
  <2>1. EndsAt(p, W, n, W[n] + 1)
    <3>1. n \in n..n /\ n..n - 1 = {}
      BY <1>1
    <3> QED
      BY Zenon, <1>7a, <3>1 DEF EndsAt, n
  <2>2. ASSUME NEW s \in Nat, NEW q \in BOOLEAN, s < Len(p), s <= W[n]
        PROVE  Left(p, s, q)[W[n]] = Name(<<>>, W[n] + 1)
    <3>1. n \in 1..n
      BY <1>1
    <3>2. W[n] \in Nat
      BY Zenon, <1>1, <3>1
    <3>3. W[n] \in s..Len(p) - 1
      BY <1>1, <1>2, <2>2, <3>2
    <3>4. \A o \in s..Len(p) - 1 : Octet(p, o) = 0 => Left(p, s, q)[o] = Name(<<>>, o + 1)
      BY Zenon, <2>2, LeftCases DEF ZeroCase
    <3> QED
      BY Zenon, <1>2, <3>3, <3>4
  <2>3. n \in 1..n
    BY <1>1
  <2>4. ReadsFrom(p, start, W, labels, n, W[n] + 1)
    <3>1. \A j \in 1..n : W[j] <= W[n] => Left(p, W[j], FALSE)[W[n]] = Name(<<>>, W[n] + 1)
      BY Zenon, <1>1, <1>6, <2>2
    <3>2. start <= W[n] => Left(p, start, TRUE)[W[n]] = Name(<<>>, W[n] + 1)
      BY Zenon, <1>7, <2>2
    <3> QED
      BY Zenon, <1>4, <2>1, <3>1, <3>2 DEF ReadsFrom
  <2> QED
    BY Zenon, <2>3, <2>4
<1>9. ASSUME NEW i \in 1..n - 1, i + 1 \in T PROVE i \in T
  <2> DEFINE w == W[i]
             v == W[i + 1]
             k == Octet(p, w)
  <2>1. PICK e : ReadsFrom(p, start, W, labels, i + 1, e)
    BY Zenon, <1>9
  <2>2. i \in 1..n /\ i + 1 \in 1..n /\ i \in Nat
    BY <1>1
  <2>3. /\ w \in Nat /\ v \in Nat /\ w < Len(p) /\ v < Len(p)
        /\ k \in 1..63 \cup 192..255 /\ v = Hop(p, w)
    <3>1. w \in Nat /\ v \in Nat /\ w < Len(p) /\ v < Len(p)
      BY Zenon, <1>1, <1>6, <2>2
    <3>2. k \in 1..63 \cup 192..255 /\ v = Hop(p, w)
      BY ZenonT(30), <1>3
    <3> QED
      BY Zenon, <3>1, <3>2
  <2>4. /\ EndsAt(p, W, i + 1, e)
        /\ \A j \in 1..i + 1 : W[j] <= v => Left(p, W[j], FALSE)[v] = Name(labels[i + 1], e)
        /\ start <= v => Left(p, start, TRUE)[v] \in {Name(labels[i + 1], e), Failure}
    BY Zenon, <2>1 DEF ReadsFrom
  <2>5. CASE IsPointer(p, w)
    <3>1. labels[i] = labels[i + 1] /\ w + 1 < Len(p) /\ \A j \in 1..i : v < W[j]
      BY ZenonT(30), <1>3, <1>4, <2>5
    <3>2. EndsAt(p, W, i, w + 2)
      <4>1. i \in i..n /\ i..i - 1 = {} /\ i < n
        BY <1>1, <2>2
      <4> QED
        BY Zenon, <2>5, <4>1 DEF EndsAt, n
    <3>3. UnpackName(p, v, FALSE) = Name(labels[i + 1], e)
      <4>1. i + 1 \in 1..i + 1
        BY <2>2
      <4>2. \A x \in Nat : x <= x
        OBVIOUS
      <4>3. Left(p, v, FALSE)[v] = Name(labels[i + 1], e)
        BY Zenon, <2>3, <2>4, <4>1, <4>2
      <4>4. UnpackName(p, v, FALSE) = Left(p, v, FALSE)[v]
        <5> HIDE DEF v
        <5> QED
          BY <2>3, UnpackNameRecursion
      <4> QED
        BY Zenon, <4>3, <4>4
    <3>4. ASSUME NEW j \in 1..i, W[j] <= w
          PROVE  Left(p, W[j], FALSE)[w] = Name(labels[i], w + 2)
      <4>1. j \in 1..n
        BY <1>1, <2>2
      <4> DEFINE s == W[j]
      <4>2. s \in Nat /\ s < Len(p) /\ v < s /\ s <= w
        BY Zenon, <1>1, <1>6, <3>1, <3>4, <4>1
      <4> HIDE DEF s, w
      <4>3. w \in s..Len(p) - 1
        BY <1>1, <2>3, <4>2
      <4>4. k >= 192 /\ v = (k % 64) * 256 + Octet(p, w + 1)
        BY Zenon, <2>3, <2>5 DEF Hop, IsPointer
      <4> HIDE DEF v
      <4>6. w + 1 < Len(p)
        BY Zenon, <3>1
      <4>7. PointsTo(p, w, v)
        BY Zenon, <4>4, <4>6 DEF PointsTo
      <4>8. \A h, y : UnpackName(p, v, FALSE) = Name(h, y)
                        => Left(p, s, FALSE)[w] = Name(h, w + 2)
        <5>1. PointerCase(p, s)
          BY <4>2, PointerCases
        <5> QED
          BY Zenon, <4>2, <4>3, <4>7, <5>1 DEF PointerCase
      <4>5. Left(p, s, FALSE)[w] = Name(labels[i + 1], w + 2)
        BY Zenon, <3>3, <4>8
      <4> QED
        BY Zenon, <3>1, <4>5 DEF s
    <3>5. ASSUME start <= w PROVE Left(p, start, TRUE)[w] = Failure
      <4> HIDE DEF w, k
      <4>1. w \in start..Len(p) - 1
        BY <1>1, <2>3, <3>5
      <4>2. k > 63
        <5>1. k >= 192
          BY Zenon, <2>5 DEF IsPointer, k
        <5> QED
          BY <2>3, <5>1
      <4>3. \A o \in start..Len(p) - 1 : Octet(p, o) > 63 => Left(p, start, TRUE)[o] = Failure
        <5>1. TRUE \in BOOLEAN
          OBVIOUS
        <5> QED
          BY Zenon, <1>7, <5>1, LeftCases DEF RefusedCase
      <4> QED
        BY Zenon, <4>1, <4>2, <4>3 DEF k
    <3>6. ReadsFrom(p, start, W, labels, i, w + 2)
      BY Zenon, <3>2, <3>4, <3>5 DEF ReadsFrom
    <3> QED
      BY Zenon, <2>2, <3>6
  <2>6. CASE ~IsPointer(p, w)
    <3> DEFINE l == Slice(p, w + 1, v)
    <3>1. labels[i] = <<l>> \o labels[i + 1] /\ v = w + 1 + k
      BY Zenon, <1>4, <2>3, <2>6 DEF Hop
    <3>2. k \in 1..63 /\ w < v
      <4>1. ~(k >= 192)
        BY Zenon, <2>6 DEF IsPointer
      <4> HIDE DEF w, v, k
      <4>2. k \in 1..63
        BY <2>3, <4>1
      <4> QED
        BY <2>3, <3>1, <4>2
    <3>3. EndsAt(p, W, i, e)
      <4>1. PICK m \in i + 1..n :
              /\ \A x \in i + 1..m - 1 : ~IsPointer(p, W[x])
              /\ \/ m = n /\ e = Last(W) + 1
                 \/ m < n /\ IsPointer(p, W[m]) /\ e = W[m] + 2
        BY Zenon, <2>4 DEF EndsAt, n
      <4>2. m \in i..n /\ \A x \in i..m - 1 : x = i \/ x \in i + 1..m - 1
        BY <1>1, <2>2
      <4>3. \A x \in i..m - 1 : ~IsPointer(p, W[x])
        BY Zenon, <2>6, <4>1, <4>2
      <4> QED
        BY Zenon, <4>1, <4>2, <4>3 DEF EndsAt, n
    <3>4. ASSUME NEW s \in Nat, NEW q \in BOOLEAN, s < Len(p), s <= w
          PROVE  /\ s <= v
                 /\ \A y : Left(p, s, q)[v] = Name(labels[i + 1], y)
                              => Left(p, s, q)[w] = Name(labels[i], y)
                 /\ Left(p, s, q)[v] = Failure => Left(p, s, q)[w] = Failure
      <4> HIDE DEF w, v, k
      <4>1. w \in s..Len(p) - 1 /\ s <= v /\ v <= Len(p)
        BY <1>1, <2>3, <3>2, <3>4
      <4>2. Octet(p, w) \in 1..63 /\ v = w + 1 + Octet(p, w)
        BY Zenon, <3>1, <3>2 DEF k
      <4>3. /\ \A h, y : Left(p, s, q)[v] = Name(h, y)
                           => Left(p, s, q)[w] = Name(<<l>> \o h, y)
            /\ Left(p, s, q)[v] = Failure => Left(p, s, q)[w] = Failure
        BY <2>3, <3>4, <4>1, <4>2, LeftLabel
      <4> QED
        BY Zenon, <3>1, <4>1, <4>3
    <3>5. ASSUME NEW j \in 1..i, W[j] <= w
          PROVE  Left(p, W[j], FALSE)[w] = Name(labels[i], e)
      <4>1. j \in 1..n /\ j \in 1..i + 1
        BY <1>1, <2>2
      <4>2. W[j] \in Nat /\ W[j] < Len(p) /\ FALSE \in BOOLEAN
        BY Zenon, <1>1, <1>6, <4>1
      <4>3. W[j] <= v
        BY Zenon, <3>4, <3>5, <4>2
      <4>4. Left(p, W[j], FALSE)[v] = Name(labels[i + 1], e)
        BY Zenon, <2>4, <4>1, <4>3
      <4> QED
        BY Zenon, <3>4, <3>5, <4>2, <4>4
    <3>6. ASSUME start <= w
          PROVE  Left(p, start, TRUE)[w] \in {Name(labels[i], e), Failure}
      <4>1. TRUE \in BOOLEAN
        OBVIOUS
      <4>2. start <= v
        BY Zenon, <1>7, <3>4, <3>6, <4>1
      <4>3. Left(p, start, TRUE)[v] = Name(labels[i + 1], e) \/ Left(p, start, TRUE)[v] = Failure
        BY Zenon, <2>4, <4>2
      <4>4. Left(p, start, TRUE)[w] = Name(labels[i], e) \/ Left(p, start, TRUE)[w] = Failure
        BY Zenon, <1>7, <3>4, <3>6, <4>1, <4>3
      <4> QED
        BY Zenon, <4>4
    <3>7. ReadsFrom(p, start, W, labels, i, e)
      BY Zenon, <3>3, <3>5, <3>6 DEF ReadsFrom
    <3> QED
      BY Zenon, <2>2, <3>7
  <2> QED
    BY Zenon, <2>5, <2>6
<1>10. 1..n \subseteq T
  <2> HIDE DEF T
  <2>1. 1 \in Int /\ n \in Int
    BY <1>1
  <2> QED
    BY <1>8, <1>9, <2>1, DownwardInduction
<1>11. 1 \in T
  <2>1. 1 \in 1..n
    BY <1>1
  <2> QED
    BY Zenon, <1>10, <2>1
<1> QED
  BY Zenon, <1>11 DEF labels

\* What RFC 1035 says of the name at an offset is what unpackName reads there.
LEMMA ReferenceRead ==
    ASSUME NEW p \in Packets, NEW start \in Nat, NEW name \in ReferenceNames(p, start)
    PROVE  /\ UnpackName(p, start, FALSE) = name
           /\ UnpackName(p, start, TRUE) \in {name, Failure}
           /\ start < Len(p)
<1> DEFINE W == Visited(p, start)
           labels == LabelsOf(p, W)
<1>1. Hops(p, start, W)
  BY WalkHops
<1>2. /\ Last(W) < Len(p) /\ Octet(p, Last(W)) = 0
      /\ name = Name(labels[1], EndOf(p, W))
  <2>1. ReferenceNames(p, start) = IF Last(W) < Len(p) /\ Octet(p, Last(W)) = 0
                                   THEN {Name(labels[1], EndOf(p, W))} ELSE {}
    BY Zenon, ReferenceNamesWalk
  <2> HIDE DEF W, labels
  <2> QED
    BY <2>1
<1> HIDE DEF W
<1>3. PICK e : ReadsFrom(p, start, W, labels, 1, e)
  BY Zenon, <1>1, <1>2, WalkRead
<1>4. W[1] = start /\ Len(W) \in Nat \ {0}
  <2>1. W \in Seq(Nat) /\ W # <<>> /\ W[1] = start
    BY <1>1 DEF Hops, Paths
  <2> QED
    BY <2>1, EmptySeq
<1>5. name = Name(labels[1], e)
  <2>1. EndsAt(p, W, 1, e)
    BY Zenon, <1>3 DEF ReadsFrom
  <2>2. e = EndOf(p, W)
    BY <1>4, <2>1, EndIsEndOf
  <2> QED
    BY Zenon, <1>2, <2>2
<1>6. start < Len(p)
  <2>1. CASE Len(W) = 1
    BY Zenon, <1>2, <1>4, <2>1 DEF Last
  <2>2. CASE Len(W) # 1
    <3>1. 1 \in 1..Len(W) - 1
      <4> DEFINE n == Len(W)
      <4>1. n \in Nat \ {0} /\ n # 1
        BY Zenon, <1>4, <2>2
      <4> HIDE DEF n
      <4>2. 1 \in 1..n - 1
        BY <4>1
      <4> QED
        BY Zenon, <4>2 DEF n
    <3> QED
      BY Zenon, <1>1, <1>4, <3>1 DEF Hops
  <2> QED
    BY Zenon, <2>1, <2>2
<1> HIDE DEF labels
<1>7. 1 \in 1..1 /\ start <= start
  OBVIOUS
<1>8. /\ Left(p, start, FALSE)[start] = Name(labels[1], e)
      /\ Left(p, start, TRUE)[start] \in {Name(labels[1], e), Failure}
  BY Zenon, <1>3, <1>4, <1>7 DEF ReadsFrom
<1>9. \A q \in BOOLEAN : UnpackName(p, start, q) = Left(p, start, q)[start]
  BY <1>6, UnpackNameRecursion
<1>10. TRUE \in BOOLEAN /\ FALSE \in BOOLEAN
  OBVIOUS
<1> QED
  BY Zenon, <1>5, <1>6, <1>8, <1>9, <1>10

\* Every name that RFC 1035 allows, however it is compressed, is read by unpackName as
\* the RFC says, in whatever packet arrives.
THEOREM NamesAreReadAsWritten == MessageSpec => []NamesAreRead
<1>1. Received => NamesAreRead
  <2> SUFFICES ASSUME packet \in Packets, NEW start \in Header..Len(packet) - 1,
                      NEW name \in ReferenceNames(packet, start)
               PROVE  /\ UnpackName(packet, start, FALSE) = name
                      /\ UnpackName(packet, start, TRUE) \in {name, Failure}
    BY Zenon DEF NamesAreRead, Received
  <2>1. start \in Nat
    <3>1. Len(packet) \in Nat
      BY LenProperties DEF Packets
    <3> QED
      BY <3>1 DEF Header
  <2> QED
    BY Zenon, <2>1, ReferenceRead
<1> QED
  BY <1>1, PacketOctets, PTL

\* The walk goes on until it is stuck.
LEMMA WalkStuck ==
    ASSUME NEW p \in Packets
    PROVE  \A path \in Paths : Stuck(p, Walk(p)[path])
<1> DEFINE L == 2 * Len(p)
           T == {k \in Nat : \A path \in Paths :
                    L + 1 - Len(path) <= k => Stuck(p, Walk(p)[path])}
<1>1. L \in Nat /\ \A path \in Paths : Len(path) \in Nat \ {0}
  <2>1. Len(p) \in Nat
    BY LenProperties DEF Packets
  <2>2. \A path \in Paths : Len(path) \in Nat \ {0}
    BY EmptySeq DEF Paths
  <2> QED
    BY <2>1, <2>2
<1>2. \A path \in Paths : Len(path) > L => Stuck(p, path)
  BY Zenon DEF Stuck
<1>3. \A path \in Paths :
         Walk(p)[path] = IF Stuck(p, path) THEN path
                         ELSE Walk(p)[Append(path, Hop(p, Last(path)))]
  BY Zenon, WalkDefined
<1> HIDE DEF L
<1>4. 0 \in T
  <2>1. ASSUME NEW path \in Paths, L + 1 - Len(path) <= 0
        PROVE  Stuck(p, Walk(p)[path])
    <3>1. Len(path) > L
      BY <1>1, <2>1
    <3> QED
      BY Zenon, <1>2, <1>3, <3>1
  <2>2. 0 \in Nat
    OBVIOUS
  <2> QED
    BY Zenon, <2>1, <2>2
<1>5. ASSUME NEW k \in 0..L - 1, k \in T PROVE k + 1 \in T
  <2>1. k + 1 \in Nat
    BY <1>1
  <2>2. ASSUME NEW path \in Paths, L + 1 - Len(path) <= k + 1
        PROVE  Stuck(p, Walk(p)[path])
    <3>1. CASE Stuck(p, path)
      BY Zenon, <1>3, <3>1
    <3>2. CASE ~Stuck(p, path)
      <4> DEFINE next == Append(path, Hop(p, Last(path)))
      <4>1. next \in Paths /\ Len(next) = Len(path) + 1
        <5>1. Hop(p, Last(path)) \in Nat
          BY <3>2, HopType
        <5> DEFINE h == Hop(p, Last(path))
        <5> HIDE DEF h
        <5>2. Append(path, h) \in Seq(Nat) /\ Len(Append(path, h)) = Len(path) + 1
          BY <5>1, AppendProperties DEF Paths, h
        <5>3. Append(path, h) # <<>>
          <6>1. Len(Append(path, h)) # 0 /\ Len(<<>>) = 0
            BY <1>1, <5>2
          <6> QED
            BY Zenon, <6>1
        <5> QED
          BY Zenon, <5>2, <5>3 DEF Paths, h
      <4> HIDE DEF next
      <4>2. L + 1 - Len(next) <= k
        BY <1>1, <2>2, <4>1
      <4>3. Stuck(p, Walk(p)[next])
        BY Zenon, <1>5, <4>1, <4>2
      <4> QED
        BY Zenon, <1>3, <3>2, <4>3 DEF next
    <3> QED
      BY Zenon, <3>1, <3>2
  <2> QED
    BY Zenon, <2>1, <2>2
<1>6. 0..L \subseteq T
  <2> HIDE DEF T
  <2>1. 0 \in Int /\ L \in Int
    BY <1>1
  <2> QED
    BY <1>4, <1>5, <2>1, UpwardInduction
<1> SUFFICES ASSUME NEW path \in Paths PROVE Stuck(p, Walk(p)[path])
  OBVIOUS
<1>7. L \in T /\ L + 1 - Len(path) <= L
  BY <1>1, <1>6
<1> QED
  BY Zenon, <1>7

\* A name that stands as a row of labels is the name RFC 1035 says is there.
LEMMA ReferenceWritten ==
    ASSUME NEW p \in Packets, NEW labels, NEW offsets, LabelsAt(p, labels, offsets)
    PROVE  ReferenceNames(p, offsets[0]) = {Name(labels, offsets[Len(labels)] + 1)}
<1> DEFINE N == Len(labels)
           start == offsets[0]
           W == Visited(p, start)
           n == Len(W)
           name == Name(labels, offsets[N] + 1)
<1>1. N \in Nat /\ Len(p) \in Nat /\ labels \in Seq(Label)
  BY LenProperties DEF LabelsAt, Packets
<1>2. \A i \in 0..N : offsets[i] \in Nat /\ start + i <= offsets[i] /\ offsets[i] < Len(p)
  BY LabelOffsets
<1>3. 0 \in 0..N /\ N \in 0..N /\ start \in Nat
  BY <1>1, <1>2
<1>4. \A i \in 1..N : offsets[i] = offsets[i - 1] + 1 + Len(labels[i])
                      /\ Octet(p, offsets[i - 1]) = Len(labels[i])
                      /\ Len(labels[i]) \in 1..63
  <2>1. \A i \in 1..N : labels[i] \in Label
    BY <1>1, ElementOfSeq
  <2> QED
    BY Zenon, <2>1 DEF LabelsAt, Label
<1>5. Octet(p, offsets[N]) = 0
  BY DEF LabelsAt
<1>6. Hops(p, start, W)
  BY <1>3, WalkHops
<1>7. n \in Nat \ {0} /\ W[1] = start /\ W \in Paths
  <2>1. W \in Seq(Nat) /\ W # <<>> /\ W[1] = start /\ W \in Paths
    BY <1>6 DEF Hops, Paths
  <2> QED
    BY <2>1, EmptySeq
<1>8. Stuck(p, W)
  <2>1. <<start>> \in Paths
    BY <1>3 DEF Paths
  <2> QED
    BY Zenon, <2>1, WalkStuck DEF Visited
<1> HIDE DEF N, W, start
<1>9. \A i \in 1..n - 1 : Octet(p, W[i]) \in 1..63 \cup 192..255 /\ W[i + 1] = Hop(p, W[i])
  BY Zenon, <1>6 DEF Hops
<1>10. ASSUME NEW i \in 1..N
       PROVE  ~IsPointer(p, offsets[i - 1]) /\ Hop(p, offsets[i - 1]) = offsets[i]
              /\ Octet(p, offsets[i - 1]) \in 1..63
  <2> DEFINE k == Octet(p, offsets[i - 1])
  <2>1. k \in 1..63 /\ offsets[i] = offsets[i - 1] + 1 + k
    BY Zenon, <1>4
  <2> HIDE DEF k
  <2>2. ~(k >= 192)
    BY <2>1
  <2> QED
    BY Zenon, <2>1, <2>2 DEF IsPointer, Hop, k
<1> HIDE DEF n
<1> DEFINE m == IF n <= N + 1 THEN n ELSE N + 1
           T == {i \in 1..m : W[i] = offsets[i - 1]}
<1>11. m \in 1..n /\ m \in 1..N + 1 /\ (m = n \/ (m = N + 1 /\ m \in 1..n - 1))
  BY <1>1, <1>7
<1> HIDE DEF m
<1>12. 1..m \subseteq T
  <2>1. 1 \in T
    <3>1. 1 \in 1..m /\ 1 - 1 = 0
      BY <1>1, <1>11
    <3> QED
      BY Zenon, <1>7, <3>1 DEF start
  <2>2. ASSUME NEW i \in 1..m - 1, i \in T PROVE i + 1 \in T
    <3>1. i + 1 \in 1..m /\ i \in 1..n - 1 /\ i \in 1..N /\ (i + 1) - 1 = i
      BY <1>1, <1>7, <1>11
    <3>2. W[i] = offsets[i - 1]
      BY <2>2
    <3>3. W[i + 1] = offsets[i]
      BY Zenon, <1>9, <1>10, <3>1, <3>2
    <3>4. W[i + 1] = offsets[(i + 1) - 1]
      BY Zenon, <3>1, <3>3
    <3> QED
      BY Zenon, <3>1, <3>4
  <2> HIDE DEF T
  <2>3. 1 \in Int /\ m \in Int
    BY <1>11
  <2> QED
    BY <2>1, <2>2, <2>3, UpwardInduction
<1>13. W[m] = offsets[m - 1]
  <2>1. m \in 1..m
    BY <1>11
  <2> QED
    BY Zenon, <1>12, <2>1
<1>14. n = N + 1
  <2>1. CASE m \in 1..n - 1 /\ m = N + 1
    <3>1. m - 1 = N
      BY <1>1, <2>1
    <3>2. Octet(p, W[m]) = 0
      BY Zenon, <1>5, <1>13, <3>1
    <3>3. 0 \notin 1..63 \cup 192..255
      OBVIOUS
    <3> QED
      BY Zenon, <1>9, <2>1, <3>2, <3>3
  <2>2. CASE m = n /\ m \in 1..N
    <3> DEFINE w == W[n]
               k == Octet(p, w)
    <3>1. w = offsets[m - 1]
      BY Zenon, <1>13, <2>2
    <3>2. ~IsPointer(p, w) /\ k \in 1..63
      BY Zenon, <1>10, <2>2, <3>1
    <3>3. m - 1 \in 0..N
      BY <1>1, <2>2
    <3>4. w < Len(p) /\ w \in Nat
      BY Zenon, <1>2, <3>1, <3>3
    <3>5. N <= Len(p)
      <4>1. start + N <= offsets[N] /\ offsets[N] < Len(p) /\ offsets[N] \in Nat
        BY Zenon, <1>2, <1>3 DEF start
      <4> QED
        BY <1>1, <1>3, <4>1
    <3> HIDE DEF w, k
    <3>6. ~(w >= Len(p)) /\ ~(n > 2 * Len(p)) /\ k \notin {0} \cup 64..191
      <4>1. ~(n > 2 * Len(p))
        BY <1>1, <1>7, <2>2, <3>5
      <4> QED
        BY <1>1, <3>2, <3>4, <4>1
    <3>7. ~Stuck(p, W)
      BY Zenon, <3>2, <3>6 DEF Stuck, Last, n, w, k
    <3> QED
      BY Zenon, <1>8, <3>7
  <2>3. m = n /\ m \notin 1..N => n = N + 1
    BY <1>1, <1>11
  <2> QED
    BY Zenon, <1>11, <2>1, <2>2, <2>3
<1>15. m = n /\ n - 1 = N
  BY <1>1, <1>11, <1>14
<1>16. Last(W) = offsets[N]
  BY Zenon, <1>13, <1>15 DEF Last, n
<1>17. offsets[N] < Len(p)
  BY Zenon, <1>2, <1>3
<1>18. ReferenceNames(p, start) = {Name(LabelsOf(p, W)[1], EndOf(p, W))}
  <2>1. Last(W) < Len(p) /\ Octet(p, Last(W)) = 0
    BY Zenon, <1>5, <1>16, <1>17
  <2> QED
    BY Zenon, <2>1, ReferenceNamesWalk DEF W
<1> DEFINE found == Name(LabelsOf(p, W)[1], EndOf(p, W))
<1> HIDE DEF found
<1>19. found \in ReferenceNames(p, start)
  BY <1>18 DEF found
<1>20. UnpackName(p, start, FALSE) = found
  BY <1>3, <1>19, ReferenceRead
<1>21. UnpackName(p, start, FALSE) = name
  BY LabelsRead DEF start, N
<1> QED
  BY Zenon, <1>18, <1>20, <1>21 DEF found, start, N

-----------------------------------------------------------------------------
(* Copied octets *)

\* r has the octets that p has from one offset to another.
Copied(p, r, from, to) ==
    /\ p \in Packets /\ r \in Packets /\ from \in Nat /\ to \in Nat
    /\ to <= Len(p) /\ to <= Len(r)
    /\ \A o \in from..to - 1 : Octet(r, o) = Octet(p, o)

LEMMA CopiedSlice ==
    ASSUME NEW p, NEW r, NEW from, NEW to, Copied(p, r, from, to),
           NEW a \in Nat, NEW b \in Nat, from <= a, a <= b, b <= to
    PROVE  Slice(r, a, b) = Slice(p, a, b)
<1> DEFINE s == Slice(r, a, b)
           t == Slice(p, a, b)
<1>1. /\ p \in Packets /\ r \in Packets /\ from \in Nat /\ to \in Nat
      /\ to <= Len(p) /\ to <= Len(r) /\ Len(p) \in Nat /\ Len(r) \in Nat
  BY LenProperties DEF Copied, Packets
<1>2. b <= Len(p) /\ b <= Len(r) /\ b - a \in Nat
  BY <1>1
<1>3. s \in Packets /\ Len(s) = b - a /\ \A i \in 1..b - a : s[i] = Octet(r, a + i - 1)
  BY <1>1, <1>2, SliceType
<1>4. t \in Packets /\ Len(t) = b - a /\ \A i \in 1..b - a : t[i] = Octet(p, a + i - 1)
  BY <1>1, <1>2, SliceType
<1>5. ASSUME NEW i \in 1..b - a PROVE s[i] = t[i]
  <2>1. a + i - 1 \in from..to - 1
    BY <1>1
  <2>2. Octet(r, a + i - 1) = Octet(p, a + i - 1)
    BY Zenon, <2>1 DEF Copied
  <2> HIDE DEF s, t
  <2> QED
    BY Zenon, <1>3, <1>4, <2>2
<1> HIDE DEF s, t
<1>6. s = t
  BY <1>3, <1>4, <1>5, SeqEqual DEF Packets
<1> QED
  BY <1>6 DEF s, t

LEMMA HoldsOctets ==
    \A p, m, u : Holds(p, m, u) => \A i \in 0..Len(u) - 1 : Octet(p, m + i) = u[i + 1]
<1> SUFFICES ASSUME NEW p, NEW m, NEW u, Holds(p, m, u), NEW i \in 0..Len(u) - 1
             PROVE  Octet(p, m + i) = u[i + 1]
  BY Zenon
<1> QED
  BY HoldsOctet

LEMMA PartCopied ==
    ASSUME NEW p \in Packets, NEW r, NEW from \in Nat, NEW to \in Nat, from <= to,
           to <= Len(p), Holds(r, from, Slice(p, from, to))
    PROVE  Copied(p, r, from, to)
<1> DEFINE u == Slice(p, from, to)
<1>1. u \in Packets /\ Len(u) = to - from
      /\ \A i \in 1..to - from : u[i] = Octet(p, from + i - 1)
  BY SliceType
<1>2. r \in Packets /\ from + Len(u) <= Len(r) /\ Len(r) \in Nat /\ Len(p) \in Nat
  BY LenProperties DEF Holds, Packets
<1>5. Holds(r, from, u)
  OBVIOUS
<1> HIDE DEF u
<1>3. to <= Len(r)
  BY <1>1, <1>2
<1>4. ASSUME NEW o \in from..to - 1 PROVE Octet(r, o) = Octet(p, o)
  <2> DEFINE i == o - from
  <2>1. i \in 0..Len(u) - 1 /\ i + 1 \in 1..to - from /\ from + i = o
        /\ from + (i + 1) - 1 = o
    BY <1>1
  <2> HIDE DEF i
  <2>2. Octet(r, from + i) = u[i + 1]
    <3>1. i \in 0..Len(u) - 1
      BY Zenon, <2>1
    <3>2. \A x \in 0..Len(u) - 1 : Octet(r, from + x) = u[x + 1]
      BY Zenon, <1>5, HoldsOctets
    <3> QED
      BY Zenon, <3>1, <3>2
  <2>3. u[i + 1] = Octet(p, from + (i + 1) - 1)
    BY Zenon, <1>1, <2>1
  <2> QED
    BY Zenon, <2>1, <2>2, <2>3
<1> QED
  BY Zenon, <1>2, <1>3, <1>4 DEF Copied

\* A question that is copied to where it stood is the same question.
LEMMA QuestionRepeated ==
    ASSUME NEW p, NEW r, NEW labels, NEW offsets, NEW end,
           QuestionAt(p, labels, offsets, end), Copied(p, r, Header, end + 4),
           Octet(r, 5) = 1
    PROVE  /\ QuestionAt(r, labels, offsets, end)
           /\ Slice(r, end, end + 2) = Slice(p, end, end + 2)
<1> DEFINE N == Len(labels)
<1>1. /\ LabelsAt(p, labels, offsets) /\ offsets[0] = Header
      /\ end = offsets[N] + 1 /\ end \in Nat /\ Header < end
      /\ end + 4 <= Len(p)
  BY Zenon DEF QuestionAt
<1>2. /\ p \in Packets /\ r \in Packets /\ Header \in Nat /\ end + 4 \in Nat
      /\ end + 4 <= Len(r) /\ Len(r) \in Nat /\ Header = 12
  BY LenProperties DEF Copied, Packets, Header
<1>3. N \in Nat /\ labels \in Seq(Label)
  BY <1>1, LenProperties DEF LabelsAt
<1>4. \A i \in 0..N : offsets[i] \in Nat /\ Header + i <= offsets[i] /\ offsets[i] < Len(p)
  BY <1>1, <1>2, LabelOffsets
<1>5. /\ offsets \in [0..N -> Nat] /\ offsets[N] < Len(p) /\ Octet(p, offsets[N]) = 0
      /\ \A i \in 1..N : /\ offsets[i] = offsets[i - 1] + 1 + Len(labels[i])
                         /\ Octet(p, offsets[i - 1]) = Len(labels[i])
                         /\ Slice(p, offsets[i - 1] + 1, offsets[i]) = labels[i]
  BY Zenon, <1>1 DEF LabelsAt
<1>6. \A i \in 1..N : Len(labels[i]) \in Nat
  BY <1>3, ElementOfSeq, LenProperties DEF Label
<1> HIDE DEF N
<1>7. N \in 0..N /\ offsets[N] \in Nat
  BY <1>3, <1>4
<1>8. 0..N \subseteq {i \in 0..N : offsets[i] <= offsets[N]}
  <2> DEFINE T == {i \in 0..N : offsets[i] <= offsets[N]}
  <2>1. N \in T
    BY <1>7
  <2>2. ASSUME NEW i \in 0..N - 1, i + 1 \in T PROVE i \in T
    <3> DEFINE a == offsets[i]
               b == offsets[i + 1]
               c == offsets[N]
               k == Len(labels[i + 1])
    <3>1. i + 1 \in 1..N /\ i \in 0..N /\ (i + 1) - 1 = i /\ i + 1 \in 0..N
      BY <1>3
    <3>2. b = offsets[(i + 1) - 1] + 1 + k /\ k \in Nat /\ b <= c
      BY Zenon, <1>5, <1>6, <2>2, <3>1
    <3>3. b = a + 1 + k /\ a \in Nat /\ b \in Nat /\ c \in Nat
      BY Zenon, <1>4, <1>7, <3>1, <3>2
    <3> HIDE DEF a, b, c, k
    <3>4. a <= c
      BY <3>2, <3>3
    <3> QED
      BY <3>1, <3>4 DEF a, c
  <2> HIDE DEF T
  <2>3. 0 \in Int /\ N \in Int
    BY <1>3
  <2>4. 0..N \subseteq T
    BY <2>1, <2>2, <2>3, DownwardInduction
  <2> QED
    BY <2>4 DEF T
<1>9. ASSUME NEW i \in 0..N
      PROVE  offsets[i] \in Header..(end + 4) - 1 /\ Octet(r, offsets[i]) = Octet(p, offsets[i])
             /\ offsets[i] <= end
  <2> DEFINE a == offsets[i]
             c == offsets[N]
  <2>1. a \in Nat /\ Header + i <= a /\ a <= c /\ c \in Nat /\ end = c + 1
    BY Zenon, <1>1, <1>4, <1>7, <1>8 DEF N
  <2>2. i \in Nat
    BY <1>3
  <2> HIDE DEF a, c
  <2>3. a \in Header..(end + 4) - 1 /\ a <= end
    BY <1>2, <2>1, <2>2
  <2>4. Octet(r, a) = Octet(p, a)
    BY Zenon, <2>3 DEF Copied
  <2> QED
    BY Zenon, <2>3, <2>4 DEF a
<1>10. ASSUME NEW i \in 1..N
       PROVE  Slice(r, offsets[i - 1] + 1, offsets[i]) = labels[i]
  <2> DEFINE a == offsets[i - 1]
             b == offsets[i]
             k == Len(labels[i])
  <2>1. i - 1 \in 0..N /\ i \in 0..N
    BY <1>3
  <2>2. b = a + 1 + k /\ k \in Nat /\ b <= end /\ a \in Nat /\ b \in Nat
        /\ a \in Header..(end + 4) - 1
    BY Zenon, <1>4, <1>5, <1>6, <1>9, <2>1
  <2>3. Slice(p, a + 1, b) = labels[i]
    BY Zenon, <1>5
  <2> HIDE DEF a, b, k
  <2>4. a + 1 \in Nat /\ Header <= a + 1 /\ a + 1 <= b /\ b <= end + 4
    BY <1>1, <1>2, <2>2
  <2>5. Slice(r, a + 1, b) = Slice(p, a + 1, b)
    BY <2>2, <2>4, CopiedSlice
  <2> QED
    BY Zenon, <2>3, <2>5 DEF a, b
<1>11. LabelsAt(r, labels, offsets)
  <2>1. offsets[N] < Len(r) /\ Octet(r, offsets[N]) = 0
    <3>1. Octet(r, offsets[N]) = 0
      BY Zenon, <1>5, <1>7, <1>9
    <3> DEFINE c == offsets[N]
    <3>2. c \in Nat /\ end = c + 1
      BY Zenon, <1>1, <1>7 DEF N
    <3> HIDE DEF c
    <3>3. c < Len(r)
      BY <1>2, <3>2
    <3> QED
      BY Zenon, <3>1, <3>3 DEF c
  <2>2. \A i \in 1..N : Octet(r, offsets[i - 1]) = Len(labels[i])
    <3>1. \A i \in 1..N : i - 1 \in 0..N
      BY <1>3
    <3> QED
      BY Zenon, <1>5, <1>9, <3>1
  <2> QED
    BY Zenon, <1>3, <1>5, <1>10, <2>1, <2>2 DEF LabelsAt, N
<1>12. Slice(r, 4, 6) # <<0, 0>>
  <2>1. 6 <= Len(r)
    BY <1>1, <1>2
  <2> QED
    BY <1>2, <2>1, OneQuestion
<1>13. Slice(r, end, end + 2) = Slice(p, end, end + 2)
  <2>1. end + 2 \in Nat /\ Header <= end /\ end <= end + 2 /\ end + 2 <= end + 4
    BY <1>1, <1>2
  <2> QED
    BY <1>1, <2>1, CopiedSlice
<1> QED
  BY Zenon, <1>1, <1>2, <1>11, <1>12, <1>13 DEF QuestionAt, N

-----------------------------------------------------------------------------
(* Sections *)

NextSection(p, done) == AfterRecord(p, done, UnpackName(p, done.offset, FALSE))

IsSection(p, count, start, after) ==
    after = [i \in 0..count |-> IF i = 0 THEN Section(TRUE, <<>>, start)
                                ELSE NextSection(p, after[i - 1])]

LEMMA UnpackIsSection ==
    ASSUME NEW p, NEW count, NEW start
    PROVE  UnpackRRSection(p, count, start) = (CHOOSE after : IsSection(p, count, start, after))[count]
BY Zenon DEF UnpackRRSection, IsSection, NextSection

\* A section is what its records make of it one after the other.
LEMMA SectionComputed ==
    ASSUME NEW p, NEW count \in Nat, NEW start, NEW g, IsSection(p, count, start, g)
    PROVE  UnpackRRSection(p, count, start) = g[count]
<1> DEFINE after == CHOOSE after : IsSection(p, count, start, after)
           T == {i \in 0..count : after[i] = g[i]}
<1>1. IsSection(p, count, start, after)
  BY Zenon
<1> HIDE DEF after
<1>2. \A i \in 0..count : after[i] = IF i = 0 THEN Section(TRUE, <<>>, start)
                                     ELSE NextSection(p, after[i - 1])
  BY Zenon, <1>1 DEF IsSection
<1>3. \A i \in 0..count : g[i] = IF i = 0 THEN Section(TRUE, <<>>, start)
                                 ELSE NextSection(p, g[i - 1])
  BY Zenon DEF IsSection
<1>4. 0 \in T
  <2>1. 0 \in 0..count
    OBVIOUS
  <2> QED
    BY Zenon, <1>2, <1>3, <2>1
<1>5. ASSUME NEW i \in 0..count - 1, i \in T PROVE i + 1 \in T
  <2>1. i + 1 \in 0..count /\ i + 1 # 0 /\ (i + 1) - 1 = i
    OBVIOUS
  <2>2. after[i] = g[i]
    BY <1>5
  <2>3. after[i + 1] = g[i + 1]
    BY Zenon, <1>2, <1>3, <2>1, <2>2
  <2> QED
    BY <2>1, <2>3
<1>6. 0..count \subseteq T
  <2> HIDE DEF T
  <2>1. 0 \in Int /\ count \in Int
    OBVIOUS
  <2> QED
    BY <1>4, <1>5, <2>1, UpwardInduction
<1>7. after[count] = g[count]
  <2>1. count \in 0..count
    OBVIOUS
  <2> QED
    BY Zenon, <1>6, <2>1
<1> QED
  BY Zenon, <1>7, UnpackIsSection DEF after

LEMMA EmptySection ==
    ASSUME NEW p, NEW start
    PROVE  UnpackRRSection(p, 0, start) = Section(TRUE, <<>>, start)
<1> DEFINE g == [i \in 0..0 |-> Section(TRUE, <<>>, start)]
<1>1. g = [i \in 0..0 |-> IF i = 0 THEN Section(TRUE, <<>>, start)
                          ELSE NextSection(p, g[i - 1])]
  OBVIOUS
<1>2. g[0] = Section(TRUE, <<>>, start)
  OBVIOUS
<1> HIDE DEF g
<1>3. IsSection(p, 0, start, g)
  BY Zenon, <1>1 DEF IsSection
<1>4. UnpackRRSection(p, 0, start) = g[0]
  BY <1>3, SectionComputed
<1> QED
  BY Zenon, <1>2, <1>4

IsSections(p, start, f) ==
    f = [i \in 0..3 |->
           IF i = 0 THEN Section(TRUE, <<>>, start)
           ELSE UnpackRRSection(p, 256 * Octet(p, 4 + 2 * i) + Octet(p, 5 + 2 * i),
                                f[i - 1].offset)]

SectionsAre(p, start, f) ==
    /\ f[1] = UnpackRRSection(p, 256 * Octet(p, 6) + Octet(p, 7), start)
    /\ f[2] = UnpackRRSection(p, 256 * Octet(p, 8) + Octet(p, 9), f[1].offset)
    /\ f[3] = UnpackRRSection(p, 256 * Octet(p, 10) + Octet(p, 11), f[2].offset)

\* The three sections follow one another.
LEMMA SectionsInTurn ==
    ASSUME NEW p, NEW start
    PROVE  SectionsAre(p, start, Sections(p, start))
<1> DEFINE c(i) == 256 * Octet(p, 4 + 2 * i) + Octet(p, 5 + 2 * i)
           a0 == Section(TRUE, <<>>, start)
           a1 == UnpackRRSection(p, c(1), a0.offset)
           a2 == UnpackRRSection(p, c(2), a1.offset)
           a3 == UnpackRRSection(p, c(3), a2.offset)
           g == [i \in 0..3 |-> IF i = 0 THEN a0 ELSE IF i = 1 THEN a1
                               ELSE IF i = 2 THEN a2 ELSE a3]
           f == Sections(p, start)
<1>1. a0.offset = start
  BY DEF Section
<1>2. c(1) = 256 * Octet(p, 6) + Octet(p, 7) /\ c(2) = 256 * Octet(p, 8) + Octet(p, 9)
      /\ c(3) = 256 * Octet(p, 10) + Octet(p, 11)
  <2>1. /\ 4 + 2 * 1 = 6 /\ 5 + 2 * 1 = 7 /\ 4 + 2 * 2 = 8 /\ 5 + 2 * 2 = 9
        /\ 4 + 2 * 3 = 10 /\ 5 + 2 * 3 = 11
    OBVIOUS
  <2> QED
    BY Zenon, <2>1
<1>3. ASSUME NEW i \in 0..3
      PROVE  g[i] = IF i = 0 THEN a0 ELSE UnpackRRSection(p, c(i), g[i - 1].offset)
  <2> HIDE DEF a0, c
  <2>1. i \in {0, 1, 2, 3}
    OBVIOUS
  <2>2. /\ 0 \in 0..3 /\ 1 \in 0..3 /\ 2 \in 0..3 /\ 3 \in 0..3
        /\ 0 # 1 /\ 0 # 2 /\ 0 # 3 /\ 1 # 2 /\ 1 # 3 /\ 2 # 3
        /\ 1 - 1 = 0 /\ 2 - 1 = 1 /\ 3 - 1 = 2
    OBVIOUS
  <2>3. g[0] = a0
    BY Zenon, <2>2
  <2>4. g[1] = a1
    BY Zenon, <2>2
  <2>5. g[2] = a2
    BY Zenon, <2>2
  <2>6. g[3] = a3
    BY Zenon, <2>2
  <2> HIDE DEF g
  <2>7. CASE i = 0
    BY Zenon, <2>3, <2>7
  <2>8. CASE i = 1
    BY Zenon, <2>2, <2>3, <2>4, <2>8
  <2>9. CASE i = 2
    BY Zenon, <2>2, <2>4, <2>5, <2>9
  <2>10. CASE i = 3
    BY Zenon, <2>2, <2>5, <2>6, <2>10
  <2> QED
    BY Zenon, <2>1, <2>7, <2>8, <2>9, <2>10
<1>4. IsSections(p, start, g)
  <2> DEFINE R(i) == IF i = 0 THEN a0 ELSE UnpackRRSection(p, c(i), g[i - 1].offset)
  <2>1. g = [i \in 0..3 |-> g[i]]
    BY ZenonT(30)
  <2> HIDE DEF a0, c, g
  <2>2. \A i \in 0..3 : g[i] = R(i)
    BY Zenon, <1>3
  <2> HIDE DEF R
  <2>3. [i \in 0..3 |-> g[i]] = [i \in 0..3 |-> R(i)]
    BY Zenon, <2>2
  <2>4. g = [i \in 0..3 |-> R(i)]
    BY Zenon, <2>1, <2>3
  <2> QED
    BY Zenon, <2>4 DEF IsSections, R, a0, c
<1> HIDE DEF g
<1>5. f = CHOOSE x : IsSections(p, start, x)
  BY Zenon DEF Sections, IsSections
<1>6. IsSections(p, start, f)
  BY Zenon, <1>4, <1>5
<1> HIDE DEF f
<1>7. \A i \in 0..3 : f[i] = IF i = 0 THEN a0 ELSE UnpackRRSection(p, c(i), f[i - 1].offset)
  BY Zenon, <1>6 DEF IsSections
<1> HIDE DEF a0, c
<1>8. /\ 0 \in 0..3 /\ 1 \in 0..3 /\ 2 \in 0..3 /\ 3 \in 0..3
      /\ 1 # 0 /\ 2 # 0 /\ 3 # 0 /\ 1 - 1 = 0 /\ 2 - 1 = 1 /\ 3 - 1 = 2
  OBVIOUS
<1>9. /\ f[0] = a0 /\ f[1] = UnpackRRSection(p, c(1), f[0].offset)
      /\ f[2] = UnpackRRSection(p, c(2), f[1].offset)
      /\ f[3] = UnpackRRSection(p, c(3), f[2].offset)
  BY Zenon, <1>7, <1>8
<1> QED
  BY Zenon, <1>1, <1>2, <1>9 DEF SectionsAre, f

\* A response whose sections after the answers are empty, and what its answers are.
OnlyAnswers(r) == Octet(r, 8) = 0 /\ Octet(r, 9) = 0 /\ Octet(r, 10) = 0 /\ Octet(r, 11) = 0

AnswersAre(r, start, records, offset) ==
    UnpackRRSection(r, 256 * Octet(r, 6) + Octet(r, 7), start) = Section(TRUE, records, offset)

\* A response without authority and additional records is what its answer section says.
LEMMA AnswerParsed ==
    ASSUME NEW r \in Packets, NEW labels, NEW offsets, NEW end,
           QuestionAt(r, labels, offsets, end),
           OnlyAnswers(r), Octet(r, 3) % 16 \in {0, RcodeNXDomain},
           NEW S, NEW records \in Seq(S), NEW offset,
           AnswersAre(r, end + 4, records, offset)
    PROVE  ParseResponse(r) =
              [ok |-> TRUE, records |-> records,
               nxdomain |-> Octet(r, 3) % 16 = RcodeNXDomain /\ records = <<>>]
<1> DEFINE question == UnpackName(r, Header, TRUE)
           answer == UnpackRRSection(r, 256 * Octet(r, 6) + Octet(r, 7), end + 4)
           none == Section(TRUE, <<>>, offset)
<1>1. question = Name(labels, end)
  BY Zenon, QuestionAccepted
<1> HIDE DEF question
<1>2. question.ok /\ question.end = end
  BY <1>1, NameFields
<1>3. 256 * 0 + 0 = 0
  OBVIOUS
<1>4. answer = Section(TRUE, records, offset)
  BY Zenon DEF AnswersAre
<1> HIDE DEF answer
<1>5. answer.ok /\ answer.records = records /\ answer.offset = offset
  BY <1>4 DEF Section
<1>6. none.ok /\ none.records = <<>> /\ none.offset = offset
  BY DEF Section
<1>7. UnpackRRSection(r, 0, offset) = none
  BY Zenon, EmptySection
<1> HIDE DEF none
<1> DEFINE f == Sections(r, question.end + 4)
<1>8. f[1] = answer /\ f[2] = none /\ f[3] = none
  <2>1. SectionsAre(r, end + 4, f)
    BY Zenon, <1>2, SectionsInTurn
  <2> HIDE DEF f
  <2>2. f[1] = answer
    BY Zenon, <2>1 DEF SectionsAre, answer
  <2>3. f[2] = none
    <3>1. f[2] = UnpackRRSection(r, 256 * 0 + 0, offset)
      BY Zenon, <1>5, <2>1, <2>2 DEF SectionsAre, OnlyAnswers
    <3> QED
      BY Zenon, <1>3, <1>7, <3>1
  <2>4. f[3] = none
    <3>1. f[3] = UnpackRRSection(r, 256 * 0 + 0, offset)
      BY Zenon, <1>6, <2>1, <2>3 DEF SectionsAre, OnlyAnswers
    <3> QED
      BY Zenon, <1>3, <1>7, <3>1
  <2> QED
    BY Zenon, <2>2, <2>3, <2>4
<1> HIDE DEF f
<1>9. Kept(f) = records \o <<>> \o <<>>
  BY Zenon, <1>5, <1>6, <1>8 DEF Kept
<1>10. records \o <<>> \o <<>> = records
  BY ConcatEmptySeq
<1>11. ~(Len(r) < Header) /\ ~(end + 4 > Len(r))
  <2>1. Len(r) \in Nat /\ Header < end /\ end \in Nat /\ end + 4 <= Len(r) /\ Header \in Nat
    BY LenProperties DEF QuestionAt, Packets, Header
  <2> QED
    BY <2>1
<1> QED
  BY Zenon, <1>2, <1>9, <1>10, <1>11 DEF ParseResponse, question, f

-----------------------------------------------------------------------------
(* Names in record data *)

PlainStep(data, read, o) ==
    IF o = Len(data) \/ Octet(data, o) = 0 THEN Name(<<>>, o)
    ELSE LET end  == o + 1 + Octet(data, o)
             rest == read[end]
         IN  IF Octet(data, o) >= 192 \/ end > Len(data) \/ ~rest.ok
             THEN Failure
             ELSE Name(<<Slice(data, o + 1, end)>> \o rest.labels, end)

IsPlain(data, read) == read = [o \in 0..Len(data) |-> PlainStep(data, read, o)]

Plain(data) == CHOOSE read : IsPlain(data, read)

LEMMA UncompressedNameIsPlain ==
    ASSUME NEW data
    PROVE  UncompressedName(data) =
              IF Plain(data)[0].ok THEN Plain(data)[0].labels ELSE <<>>
BY Zenon DEF UncompressedName, Plain, IsPlain, PlainStep

AgreeAfter(data, o, f, g) == \A x \in o + 1..Len(data) : f[x] \in Names /\ f[x] = g[x]

\* What one step depends on.
LEMMA PlainStepType ==
    ASSUME NEW data \in Packets, NEW o \in 0..Len(data), NEW f, NEW g,
           AgreeAfter(data, o, f, g)
    PROVE  PlainStep(data, f, o) \in Names /\ PlainStep(data, f, o) = PlainStep(data, g, o)
<1> DEFINE k == Octet(data, o)
           end == o + 1 + k
           l == Slice(data, o + 1, end)
<1>1. Len(data) \in Nat /\ o \in Nat
  BY LenProperties DEF Packets
<1>2. CASE o = Len(data) \/ k = 0
  <2>1. PlainStep(data, f, o) = Name(<<>>, o) /\ PlainStep(data, g, o) = Name(<<>>, o)
    BY Zenon, <1>2 DEF PlainStep
  <2> QED
    BY Zenon, <1>1, <2>1, NamesType
<1>3. CASE ~(o = Len(data) \/ k = 0)
  <2>1. o \in 0..Len(data) - 1
    <3>1. o # Len(data)
      BY <1>3
    <3> QED
      BY <1>1, <3>1
  <2>2. k \in 1..255
    <3>1. k \in 0..255
      BY <2>1, OctetType
    <3> HIDE DEF k
    <3> QED
      BY <1>3, <3>1
  <2>3. \A h : PlainStep(data, h, o) =
                  IF k >= 192 \/ end > Len(data) \/ ~h[end].ok THEN Failure
                  ELSE Name(<<l>> \o h[end].labels, end)
    BY Zenon, <1>3 DEF PlainStep
  <2>4. CASE k >= 192 \/ end > Len(data)
    BY Zenon, <2>3, <2>4, NamesType
  <2>5. CASE ~(k >= 192 \/ end > Len(data))
    <3>0. end \in Nat
      <4> HIDE DEF k
      <4> QED
        BY <1>1, <2>2
    <3>1. end \in o + 1..Len(data) /\ end \in Nat /\ o + 1 \in Nat /\ o + 1 <= end
          /\ end <= Len(data)
      <4> HIDE DEF k
      <4> QED
        BY <1>1, <2>2, <2>5
    <3>2. f[end] \in Names /\ f[end] = g[end]
      BY Zenon, <3>1 DEF AgreeAfter
    <3> HIDE DEF end
    <3>3. l \in Seq(0..255)
      BY <3>1, SliceType DEF Packets
    <3> HIDE DEF l
    <3>4. PlainStep(data, f, o) = PlainStep(data, g, o)
      BY Zenon, <2>3, <3>2
    <3>5. ASSUME f[end].ok PROVE Name(<<l>> \o f[end].labels, end) \in Names
      <4> DEFINE t == f[end].labels
      <4>1. t \in Seq(Seq(0..255))
        BY <3>2, <3>5, NamesType
      <4> HIDE DEF t
      <4>2. <<l>> \in Seq(Seq(0..255))
        BY <3>3
      <4>3. <<l>> \o t \in Seq(Seq(0..255))
        BY <4>1, <4>2, ConcatProperties
      <4> QED
        BY Zenon, <3>1, <4>3, NamesType DEF t
    <3>6. PlainStep(data, f, o) \in Names
      BY Zenon, <2>3, <2>5, <3>5, NamesType
    <3> QED
      BY Zenon, <3>4, <3>6
  <2> QED
    BY Zenon, <2>4, <2>5
<1> QED
  BY Zenon, <1>2, <1>3

LEMMA PlainDefined ==
    ASSUME NEW data \in Packets
    PROVE  \A o \in 0..Len(data) : Plain(data)[o] = PlainStep(data, Plain(data), o)
<1> DEFINE S == 0..Len(data)
           F == [S -> Names]
           rank == [o \in S |-> Len(data) - o]
           step == [x \in S \X F |-> PlainStep(data, x[2], x[1])]
<1>1. Len(data) \in Nat
  BY LenProperties DEF Packets
<1>2. rank \in [S -> 0..Len(data)] /\ \A o, r \in S : rank[r] < rank[o] <=> o < r
  BY <1>1
<1>3. \A o \in S, f \in F : step[<<o, f>>] = PlainStep(data, f, o)
  OBVIOUS
<1>4. ASSUME NEW o \in S, NEW f \in F, NEW g \in F,
             \A r \in S : rank[r] < rank[o] => f[r] = g[r]
      PROVE  PlainStep(data, f, o) \in Names /\ PlainStep(data, f, o) = PlainStep(data, g, o)
  <2>1. \A r \in o + 1..Len(data) : r \in S /\ o < r
    BY <1>1
  <2>2. \A r \in S : f[r] \in Names
    OBVIOUS
  <2>3. \A r \in o + 1..Len(data) : f[r] \in Names /\ f[r] = g[r]
    <3> HIDE DEF S, rank
    <3> QED
      BY Zenon, <1>2, <1>4, <2>1, <2>2
  <2> QED
    BY <2>3, PlainStepType DEF AgreeAfter
<1>5. ASSUME NEW o \in S, NEW f \in F PROVE PlainStep(data, f, o) \in Names
  BY Zenon, <1>4
<1>6. step \in [S \X F -> Names]
  BY <1>5
<1>7. \E f \in F : \A o \in S : f[o] = step[<<o, f>>]
  <2>1. Names # {}
    BY NamesType
  <2>2. \A o \in S : \A f, g \in [S -> Names] :
          (\A r \in S : rank[r] < rank[o] => f[r] = g[r]) => step[<<o, f>>] = step[<<o, g>>]
    <3> HIDE DEF step
    <3>1. ASSUME NEW o \in S, NEW f \in F, NEW g \in F,
                 \A r \in S : rank[r] < rank[o] => f[r] = g[r]
          PROVE  step[<<o, f>>] = step[<<o, g>>]
      <4>1. PlainStep(data, f, o) = PlainStep(data, g, o)
        BY Zenon, <1>4, <3>1
      <4> QED
        BY Zenon, <1>3, <4>1
    <3> QED
      BY Zenon, <3>1
  <2> HIDE DEF S, rank, step
  <2>3. IsRecursion(S, Names, Len(data), rank, step)
    BY Zenon, <1>1, <1>2, <1>6, <2>1, <2>2 DEF IsRecursion
  <2> QED
    BY <2>3, RecursiveFunction
<1>8. PICK f \in F : \A o \in S : f[o] = step[<<o, f>>]
  BY <1>7
<1>9. IsPlain(data, f)
  <2>1. \A o \in S : f[o] = PlainStep(data, f, o)
    BY Zenon, <1>3, <1>8
  <2> HIDE DEF step
  <2>2. f = [o \in S |-> PlainStep(data, f, o)]
    BY <2>1
  <2> QED
    BY <2>2 DEF IsPlain
<1> DEFINE read == Plain(data)
<1>10. IsPlain(data, read)
  BY Zenon, <1>9 DEF Plain
<1> HIDE DEF read
<1> QED
  BY Zenon, <1>10 DEF IsPlain, read

\* A name that was written without compression is read by parseUncompressedName.
LEMMA PlainName ==
    ASSUME NEW data \in Packets, NEW labels, labels # <<>>, NEW offsets,
           LabelsAt(data, labels, offsets), offsets[0] = 0
    PROVE  UncompressedName(data) = labels
<1> DEFINE N == Len(labels)
           read == Plain(data)
           IsRest(i) == read[offsets[i]].ok /\ read[offsets[i]].labels = SubSeq(labels, i + 1, N)
           T == {i \in 0..N : IsRest(i)}
<1>1. N \in Nat /\ Len(data) \in Nat /\ labels \in Seq(Label)
  BY LenProperties DEF LabelsAt, Packets
<1>2. \A i \in 0..N : offsets[i] \in Nat /\ offsets[0] + i <= offsets[i] /\ offsets[i] < Len(data)
  BY LabelOffsets
<1>3. 0 \in 0..N /\ N \in 0..N
  BY <1>1
<1>4. \A o \in 0..Len(data) : read[o] = PlainStep(data, read, o)
  BY PlainDefined
<1>5. \A i \in 0..N : offsets[i] \in 0..Len(data) /\ offsets[i] # Len(data)
  <2> SUFFICES ASSUME NEW i \in 0..N PROVE offsets[i] \in 0..Len(data) /\ offsets[i] # Len(data)
    OBVIOUS
  <2> DEFINE o == offsets[i]
  <2>1. o \in Nat /\ o < Len(data)
    BY Zenon, <1>2
  <2> HIDE DEF o
  <2>2. o \in 0..Len(data) /\ o # Len(data)
    BY <1>1, <2>1
  <2> QED
    BY <2>2 DEF o
<1> HIDE DEF read
<1>6. N \in T
  <2>1. SubSeq(labels, N + 1, N) = <<>>
    BY <1>1, SubSeqEmpty
  <2>2. Octet(data, offsets[N]) = 0
    BY DEF LabelsAt
  <2>3. read[offsets[N]] = Name(<<>>, offsets[N])
    BY Zenon, <1>3, <1>4, <1>5, <2>2 DEF PlainStep
  <2>4. read[offsets[N]].ok /\ read[offsets[N]].labels = <<>>
    BY <2>3, NameFields
  <2> QED
    BY Zenon, <1>3, <2>1, <2>4
<1>7. ASSUME NEW i \in 0..N - 1, i + 1 \in T PROVE i \in T
  <2> DEFINE o == offsets[i]
             v == offsets[i + 1]
             l == labels[i + 1]
             k == Len(l)
             rest == SubSeq(labels, (i + 1) + 1, N)
  <2>1. i \in 0..N /\ i + 1 \in 0..N /\ i + 1 \in 1..N /\ (i + 1) - 1 = i /\ N \in i + 1..N
        /\ i + 1 \in 1..Len(labels) /\ Len(labels) \in Nat
    <3> HIDE DEF T
    <3> QED
      BY <1>1
  <2>2. read[v].ok /\ read[v].labels = rest
    BY Zenon, <1>7
  <2>3. l \in Label
    BY <1>1, <2>1, ElementOfSeq
  <2>4. k \in 1..63
    BY <2>3 DEF Label
  <2>5. \A x \in 1..N : /\ offsets[x] = offsets[x - 1] + 1 + Len(labels[x])
                        /\ Octet(data, offsets[x - 1]) = Len(labels[x])
                        /\ Slice(data, offsets[x - 1] + 1, offsets[x]) = labels[x]
    BY Zenon DEF LabelsAt
  <2>6. v = o + 1 + k /\ Octet(data, o) = k /\ Slice(data, o + 1, v) = l
    BY Zenon, <2>1, <2>5
  <2>7. o \in 0..Len(data) /\ o # Len(data) /\ v \in Nat /\ v < Len(data)
    BY Zenon, <1>2, <1>5, <2>1
  <2> HIDE DEF T, N, IsRest, o, v, l, k, rest
  <2>8. ~(k >= 192) /\ k # 0 /\ ~(v > Len(data))
    BY <1>1, <2>4, <2>7
  <2>9. PlainStep(data, read, o) = Name(<<l>> \o read[v].labels, v)
    BY Zenon, <2>2, <2>6, <2>7, <2>8 DEF PlainStep
  <2>10. read[o] = Name(<<l>> \o rest, v)
    BY Zenon, <1>4, <2>2, <2>7, <2>9
  <2>11. read[o].ok /\ read[o].labels = <<l>> \o rest
    BY <2>10, NameFields
  <2>12. SubSeq(labels, i + 1, N) = <<l>> \o rest
    BY <1>1, <2>1, SubSeqRecursiveFirst DEF l, rest
  <2>13. IsRest(i)
    BY Zenon, <2>11, <2>12 DEF IsRest, o
  <2> QED
    BY Zenon, <2>1, <2>13 DEF T
<1>8. 0..N \subseteq T
  <2>1. 0 \in Int /\ N \in Int
    BY <1>1
  <2> HIDE DEF T
  <2> QED
    BY Zenon, <1>6, <1>7, <2>1, DownwardInduction
<1>9. IsRest(0)
  BY Zenon, <1>3, <1>8
<1>10. SubSeq(labels, 0 + 1, N) = labels
  <2>1. SubSeq(labels, 1, N) = labels
    BY <1>1, SubSeqFull
  <2>2. 0 + 1 = 1
    OBVIOUS
  <2> QED
    BY Zenon, <2>1, <2>2
<1>11. read[0].ok /\ read[0].labels = labels
  BY Zenon, <1>9, <1>10
<1> QED
  BY Zenon, <1>11, UncompressedNameIsPlain DEF read

LEMMA SliceWhole ==
    ASSUME NEW p, NEW m, NEW u, Holds(p, m, u), NEW to, to = m + Len(u)
    PROVE  Slice(p, m, to) = u
BY Zenon, HoldsPart

\* The data that was encoded for an answer is parsed into what it was encoded from.
LEMMA DataParsed ==
    ASSUME NEW p, NEW m, NEW to, NEW r, IsAnswer(r),
           Holds(p, m, EncodeRData(r.type, r.rdata)),
           to = m + Len(EncodeRData(r.type, r.rdata))
    PROVE  ParseRData(p, r.type, m, to) = r.rdata /\ r.rdata # <<>>
<1> DEFINE type == r.type
           rdata == r.rdata
           data == EncodeRData(type, rdata)
<1>1. Slice(p, m, to) = data
  BY SliceWhole
<1>2. \/ type = QTypeA /\ rdata \in Word(4)
      \/ type = QTypeAAAA /\ rdata \in Word(16)
      \/ type = QTypeCNAME /\ rdata \in Seq(Label) \ {<<>>}
      \/ type = QTypeSOA /\ rdata = <<MinimumTTL>>
  BY DEF IsAnswer
<1>3. /\ QTypeA # QTypeAAAA /\ QTypeA # QTypeCNAME /\ QTypeA # QTypeSOA
      /\ QTypeAAAA # QTypeCNAME /\ QTypeAAAA # QTypeSOA /\ QTypeCNAME # QTypeSOA
  BY DEF QTypeA, QTypeAAAA, QTypeCNAME, QTypeSOA
<1> HIDE DEF type, rdata
<1>4. ParseRData(p, type, m, to) =
        CASE type = QTypeA /\ Len(data) = 4 -> data
          [] type = QTypeAAAA /\ Len(data) = 16 -> data
          [] type = QTypeCNAME ->
                IF UncompressedName(data) # <<>> THEN UncompressedName(data)
                ELSE IF UnpackName(p, m, FALSE).ok THEN UnpackName(p, m, FALSE).labels
                ELSE <<>>
          [] type = QTypeSOA -> <<MinimumTTL>>
          [] OTHER -> <<>>
  <2> HIDE DEF data
  <2> QED
    BY Zenon, <1>1 DEF ParseRData
<1>5. CASE type = QTypeA /\ rdata \in Word(4)
  <2>1. data = rdata /\ Len(rdata) = 4
    BY <1>3, <1>5 DEF EncodeRData, Word
  <2>2. rdata # <<>>
    <3>1. Len(<<>>) # 4
      OBVIOUS
    <3> QED
      BY Zenon, <2>1, <3>1
  <2> HIDE DEF data
  <2>3. ParseRData(p, type, m, to) = data
    BY <1>3, <1>4, <1>5, <2>1
  <2> QED
    BY Zenon, <2>1, <2>2, <2>3 DEF type, rdata
<1>6. CASE type = QTypeAAAA /\ rdata \in Word(16)
  <2>1. data = rdata /\ Len(rdata) = 16
    BY <1>3, <1>6 DEF EncodeRData, Word
  <2>2. rdata # <<>>
    <3>1. Len(<<>>) # 16
      OBVIOUS
    <3> QED
      BY Zenon, <2>1, <3>1
  <2> HIDE DEF data
  <2>3. ParseRData(p, type, m, to) = data
    BY <1>3, <1>4, <1>6, <2>1
  <2> QED
    BY Zenon, <2>1, <2>2, <2>3 DEF type, rdata
<1>7. CASE type = QTypeCNAME /\ rdata \in Seq(Label) \ {<<>>}
  <2> DEFINE e == EncodeDomainName(rdata)
  <2>1. rdata \in Seq(Label) /\ rdata # <<>>
    BY <1>7
  <2>2. e \in Packets /\ << 0 >> \in Packets
    BY <2>1, EncodedName DEF Packets
  <2> HIDE DEF e
  <2>3. data = e \o << 0 >>
    BY Zenon, <1>3, <1>7 DEF EncodeRData, e
  <2> HIDE DEF data
  <2>4. data \in Packets
    BY Zenon, <2>2, <2>3, Joined
  <2>5. Holds(data, 0, data)
    BY <2>4, HoldsAll
  <2>6. Holds(data, 0, EncodeDomainName(rdata) \o << 0 >>)
    BY Zenon, <2>3, <2>5 DEF e
  <2>7. PICK offsets : LabelsAt(data, rdata, offsets) /\ offsets[0] = 0
    BY <2>1, <2>6, EncodedStands
  <2>8. UncompressedName(data) = rdata
    BY <2>1, <2>4, <2>7, PlainName
  <2>9. ParseRData(p, type, m, to) = rdata
    <3> DEFINE u == UncompressedName(data)
    <3>1. u # <<>>
      BY Zenon, <2>1, <2>8
    <3> HIDE DEF u
    <3>2. ParseRData(p, type, m, to) = u
      BY <1>3, <1>4, <1>7, <3>1 DEF u
    <3> QED
      BY Zenon, <2>8, <3>2 DEF u
  <2> QED
    BY Zenon, <2>1, <2>9 DEF type, rdata
<1>8. CASE type = QTypeSOA /\ rdata = <<MinimumTTL>>
  <2> HIDE DEF data
  <2>1. ParseRData(p, type, m, to) = rdata
    BY <1>3, <1>4, <1>8
  <2>2. rdata # <<>>
    BY <1>8
  <2> QED
    BY Zenon, <2>1, <2>2 DEF type, rdata
<1> QED
  BY Zenon, <1>2, <1>5, <1>6, <1>7, <1>8

-----------------------------------------------------------------------------
(* Records *)

LEMMA EncodedU16 ==
    ASSUME NEW v \in Nat, v < 65536
    PROVE  /\ EncodeU16(v) \in Packets /\ Len(EncodeU16(v)) = 2
           /\ 256 * EncodeU16(v)[1] + EncodeU16(v)[2] = v
<1> DEFINE q == v \div 256
           b == v % 256
           a == q % 256
<1>1. q \in 0..255 /\ b \in 0..255 /\ (256 * q) + b = v
  OBVIOUS
<1> HIDE DEF q, b
<1>2. a = q
  BY <1>1
<1> HIDE DEF a
<1>3. a \in 0..255 /\ b \in 0..255 /\ 256 * a + b = v
  BY <1>1, <1>2
<1>4. EncodeU16(v) = <<a, b>>
  BY DEF EncodeU16, a, b, q
<1>5. <<a, b>> \in Packets /\ Len(<<a, b>>) = 2 /\ <<a, b>>[1] = a /\ <<a, b>>[2] = b
  BY <1>3 DEF Packets
<1> QED
  BY <1>3, <1>4, <1>5

\* The data of an answer.
Data(r) == EncodeRData(r.type, r.rdata)

LEMMA DataOctets ==
    ASSUME NEW r, IsAnswer(r)
    PROVE  Data(r) \in Packets /\ Len(Data(r)) \in Nat /\ Len(Data(r)) < 65536
<1> DEFINE type == r.type
           rdata == r.rdata
<1>1. \/ type = QTypeA /\ rdata \in Word(4)
      \/ type = QTypeAAAA /\ rdata \in Word(16)
      \/ type = QTypeCNAME /\ rdata \in Seq(Label) \ {<<>>}
      \/ type = QTypeSOA /\ rdata = <<MinimumTTL>>
  BY DEF IsAnswer
<1>2. Len(Data(r)) < 65536
  BY DEF IsAnswer, Data
<1>3. /\ QTypeA # QTypeAAAA /\ QTypeA # QTypeCNAME /\ QTypeA # QTypeSOA
      /\ QTypeAAAA # QTypeCNAME /\ QTypeAAAA # QTypeSOA /\ QTypeCNAME # QTypeSOA
  BY DEF QTypeA, QTypeAAAA, QTypeCNAME, QTypeSOA
<1>4. Data(r) = EncodeRData(type, rdata)
  BY DEF Data
<1> HIDE DEF type, rdata
<1>5. EncodeRData(type, rdata) \in Packets
  <2>1. CASE type = QTypeA /\ rdata \in Word(4)
    BY <1>3, <2>1 DEF EncodeRData, Word, Packets
  <2>2. CASE type = QTypeAAAA /\ rdata \in Word(16)
    BY <1>3, <2>2 DEF EncodeRData, Word, Packets
  <2>3. CASE type = QTypeCNAME /\ rdata \in Seq(Label) \ {<<>>}
    <3> DEFINE e == EncodeDomainName(rdata)
    <3>1. e \in Packets /\ << 0 >> \in Packets
      BY <2>3, EncodedName DEF Packets
    <3> HIDE DEF e
    <3>2. EncodeRData(type, rdata) = e \o << 0 >>
      BY Zenon, <1>3, <2>3 DEF EncodeRData, e
    <3> QED
      BY Zenon, <3>1, <3>2, Joined
  <2>4. CASE type = QTypeSOA /\ rdata = <<MinimumTTL>>
    <3>1. EncodeRData(type, rdata) = <<>>
      BY <1>3, <2>4 DEF EncodeRData
    <3> QED
      BY <3>1 DEF Packets
  <2> QED
    BY Zenon, <1>1, <2>1, <2>2, <2>3, <2>4
<1>6. Len(Data(r)) \in Nat
  BY <1>4, <1>5, LenProperties DEF Packets
<1> QED
  BY <1>2, <1>4, <1>5, <1>6

\* Six runs of octets one after the other, and where they stand.
Six(a, b, c, d, e, f) == ((((a \o b) \o c) \o d) \o e) \o f

SixStand(p, m, a, b, c, d, e, f) ==
    /\ Holds(p, m, a)
    /\ Holds(p, m + Len(a), b)
    /\ Holds(p, m + (Len(a) + Len(b)), c)
    /\ Holds(p, m + (Len(a) + Len(b) + Len(c)), d)
    /\ Holds(p, m + (Len(a) + Len(b) + Len(c) + Len(d)), e)
    /\ Holds(p, m + (Len(a) + Len(b) + Len(c) + Len(d) + Len(e)), f)

IsSix(w, a, b, c, d, e, f) ==
    /\ w \in Packets /\ Len(w) = Len(a) + Len(b) + Len(c) + Len(d) + Len(e) + Len(f)
    /\ \A p, m : Holds(p, m, w) => SixStand(p, m, a, b, c, d, e, f)

LEMMA SixParts ==
    ASSUME NEW a \in Packets, NEW b \in Packets, NEW c \in Packets, NEW d \in Packets,
           NEW e \in Packets, NEW f \in Packets
    PROVE  IsSix(Six(a, b, c, d, e, f), a, b, c, d, e, f)
<1> DEFINE ab == a \o b
           ac == ab \o c
           ad == ac \o d
           ae == ad \o e
           af == ae \o f
<1>1. ab \in Packets /\ Len(ab) = Len(a) + Len(b)
  BY Zenon, Joined
<1> HIDE DEF ab
<1>2. ac \in Packets /\ Len(ac) = Len(a) + Len(b) + Len(c)
  BY Zenon, <1>1, Joined
<1> HIDE DEF ac
<1>3. ad \in Packets /\ Len(ad) = Len(a) + Len(b) + Len(c) + Len(d)
  BY Zenon, <1>2, Joined
<1> HIDE DEF ad
<1>4. ae \in Packets /\ Len(ae) = Len(a) + Len(b) + Len(c) + Len(d) + Len(e)
  BY Zenon, <1>3, Joined
<1> HIDE DEF ae
<1>5. af \in Packets /\ Len(af) = Len(a) + Len(b) + Len(c) + Len(d) + Len(e) + Len(f)
  BY Zenon, <1>4, Joined
<1>6. Six(a, b, c, d, e, f) = af
  BY Zenon DEF Six, ab, ac, ad, ae, af
<1> HIDE DEF af
<1>7. ASSUME NEW p, NEW m, Holds(p, m, af)
      PROVE  SixStand(p, m, a, b, c, d, e, f)
  <2>1. Holds(p, m, ae) /\ Holds(p, m + Len(ae), f)
    BY Zenon, <1>4, <1>7, HoldsParts DEF af
  <2>2. Holds(p, m, ad) /\ Holds(p, m + Len(ad), e)
    BY Zenon, <1>3, <2>1, HoldsParts DEF ae
  <2>3. Holds(p, m, ac) /\ Holds(p, m + Len(ac), d)
    BY Zenon, <1>2, <2>2, HoldsParts DEF ad
  <2>4. Holds(p, m, ab) /\ Holds(p, m + Len(ab), c)
    BY Zenon, <1>1, <2>3, HoldsParts DEF ac
  <2>5. Holds(p, m, a) /\ Holds(p, m + Len(a), b)
    BY Zenon, <2>4, HoldsParts DEF ab
  <2> QED
    BY Zenon, <1>1, <1>2, <1>3, <1>4, <2>1, <2>2, <2>3, <2>4, <2>5 DEF SixStand
<1> QED
  BY Zenon, <1>5, <1>6, <1>7 DEF IsSix

\* Where the parts of a record stand.
LEMMA RecordParts ==
    ASSUME NEW r, IsAnswer(r)
    PROVE  /\ EncodeRecord(r) \in Packets /\ Len(EncodeRecord(r)) = 12 + Len(Data(r))
           /\ \A p, m : Holds(p, m, EncodeRecord(r)) =>
                 /\ Holds(p, m, <<192, Header>>) /\ Holds(p, m + 2, r.type)
                 /\ Holds(p, m + 4, r.class) /\ Holds(p, m + 6, r.ttl)
                 /\ Holds(p, m + 10, EncodeU16(Len(Data(r)))) /\ Holds(p, m + 12, Data(r))
<1> DEFINE a == <<192, Header>>
           b == r.type
           c == r.class
           d == r.ttl
           e == EncodeU16(Len(Data(r)))
           f == Data(r)
           w == Six(a, b, c, d, e, f)
<1>1. a \in Packets /\ Len(a) = 2
  BY DEF Packets, Header
<1>2. b \in Packets /\ Len(b) = 2 /\ c \in Packets /\ Len(c) = 2 /\ d \in Packets /\ Len(d) = 4
  BY DEF IsAnswer, Word, Packets
<1>3. f \in Packets /\ Len(f) \in Nat /\ e \in Packets /\ Len(e) = 2
  BY DataOctets, EncodedU16
<1>4. EncodeRecord(r) = w
  BY Zenon DEF EncodeRecord, Data, Six
<1> HIDE DEF a, b, c, d, e, f
<1>5. /\ w \in Packets /\ Len(w) = Len(a) + Len(b) + Len(c) + Len(d) + Len(e) + Len(f)
      /\ \A p, m : Holds(p, m, w) => SixStand(p, m, a, b, c, d, e, f)
  BY Zenon, <1>1, <1>2, <1>3, SixParts DEF IsSix
<1> HIDE DEF w
<1>6. /\ Len(a) + Len(b) = 4 /\ Len(a) + Len(b) + Len(c) = 6
      /\ Len(a) + Len(b) + Len(c) + Len(d) = 10
      /\ Len(a) + Len(b) + Len(c) + Len(d) + Len(e) = 12
      /\ Len(w) = 12 + Len(f)
  BY <1>1, <1>2, <1>3, <1>5
<1>7. ASSUME NEW p, NEW m, Holds(p, m, w)
      PROVE  /\ Holds(p, m, a) /\ Holds(p, m + 2, b) /\ Holds(p, m + 4, c)
             /\ Holds(p, m + 6, d) /\ Holds(p, m + 10, e) /\ Holds(p, m + 12, f)
  BY Zenon, <1>1, <1>5, <1>6, <1>7 DEF SixStand
<1> QED
  BY Zenon, <1>4, <1>5, <1>6, <1>7 DEF a, b, c, d, e, f

\* A record of a response is read as it was written, as a record of the name in the
\* question.
OwnedBy(r, labels) == [r EXCEPT !.name = labels]

OwnerRead(p, labels, end) == UnpackName(p, Header, FALSE) = Name(labels, end)

RecordStep(p, m, r, labels) ==
    \A records :
       NextSection(p, Section(TRUE, records, m)) =
          Section(TRUE, Append(records, OwnedBy(r, labels)), m + Len(EncodeRecord(r)))

LEMMA RecordRead ==
    ASSUME NEW p, NEW m \in Nat, NEW r, IsAnswer(r), Holds(p, m, EncodeRecord(r)),
           Header < m, NEW labels, NEW end, OwnerRead(p, labels, end)
    PROVE  RecordStep(p, m, r, labels)
<1> SUFFICES ASSUME NEW records
             PROVE  NextSection(p, Section(TRUE, records, m)) =
                       Section(TRUE, Append(records, OwnedBy(r, labels)),
                               m + Len(EncodeRecord(r)))
  BY Zenon DEF RecordStep
<1> DEFINE L == Len(Data(r))
           done == Section(TRUE, records, m)
           name == UnpackName(p, m, FALSE)
           size == Len(p)
           head == m + 12
           next == head + L
<1>1. p \in Packets /\ size \in Nat /\ m + Len(EncodeRecord(r)) <= size
  BY LenProperties DEF Holds, Packets
<1>2. Len(EncodeRecord(r)) = 12 + L /\ L \in Nat /\ L < 65536
  BY RecordParts, DataOctets
<1>3. /\ Holds(p, m, <<192, Header>>) /\ Holds(p, m + 2, r.type)
      /\ Holds(p, m + 4, r.class) /\ Holds(p, m + 6, r.ttl)
      /\ Holds(p, m + 10, EncodeU16(L)) /\ Holds(p, head, Data(r))
  BY Zenon, RecordParts
<1> HIDE DEF L
<1>4. m < size /\ m + 1 < size /\ next <= size /\ head <= size /\ next = m + Len(EncodeRecord(r))
  BY <1>1, <1>2
<1>5. name = Name(labels, m + 2)
  <2>1. Octet(p, m) = 192 /\ Octet(p, m + 1) = Header
    <3> DEFINE h == <<192, Header>>
    <3>1. /\ Len(h) = 2 /\ h[0 + 1] = 192 /\ h[1 + 1] = Header
          /\ 0 \in 0..2 - 1 /\ 1 \in 0..2 - 1 /\ m + 0 = m
      OBVIOUS
    <3>2. Holds(p, m, h)
      BY Zenon, <1>3
    <3> HIDE DEF h
    <3>3. \A i \in 0..Len(h) - 1 : Octet(p, m + i) = h[i + 1]
      BY Zenon, <3>2, HoldsOctets
    <3>4. Octet(p, m + 0) = h[0 + 1]
      BY Zenon, <3>1, <3>3
    <3>5. Octet(p, m + 1) = h[1 + 1]
      BY Zenon, <3>1, <3>3
    <3> QED
      BY Zenon, <3>1, <3>4, <3>5
  <2>2. PointsTo(p, m, Header)
    <3>1. (192 % 64) * 256 + Header = Header /\ 192 >= 192
      BY DEF Header
    <3> QED
      BY Zenon, <1>4, <2>1, <3>1 DEF PointsTo
  <2>3. m \in m..size - 1
    BY <1>1, <1>4
  <2>4. PointerCase(p, m)
    BY <1>1, <1>4, PointerCases
  <2>5. Left(p, m, FALSE)[m] = Name(labels, m + 2)
    BY Zenon, <2>2, <2>3, <2>4 DEF PointerCase, OwnerRead
  <2>6. FALSE \in BOOLEAN
    OBVIOUS
  <2>7. name = Left(p, m, FALSE)[m]
    BY <1>1, <1>4, <2>6, UnpackNameRecursion
  <2> QED
    BY Zenon, <2>5, <2>7
<1> HIDE DEF name
<1>6. name.ok /\ name.labels = labels /\ name.end = m + 2
  BY <1>5, NameFields
<1>7. done.ok /\ done.records = records /\ done.offset = m
  BY DEF Section
<1> HIDE DEF done
<1>8. /\ (m + 2) + 10 = head /\ head - 2 = m + 10 /\ head - 1 = m + 11 /\ (m + 2) + 2 = m + 4
      /\ head - 8 = m + 4 /\ head - 6 = m + 6
  OBVIOUS
<1>9. 256 * Octet(p, m + 10) + Octet(p, m + 11) = L
  <2> DEFINE e == EncodeU16(L)
  <2>1. e \in Packets /\ Len(e) = 2 /\ 256 * e[1] + e[2] = L
    BY <1>2, EncodedU16
  <2>4. Holds(p, m + 10, e)
    BY Zenon, <1>3
  <2> HIDE DEF e
  <2>5. \A i \in 0..Len(e) - 1 : Octet(p, (m + 10) + i) = e[i + 1]
    BY Zenon, <2>4, HoldsOctets
  <2>2. 0 \in 0..2 - 1 /\ 1 \in 0..2 - 1 /\ (m + 10) + 0 = m + 10 /\ (m + 10) + 1 = m + 11
        /\ 0 + 1 = 1 /\ 1 + 1 = 2
    OBVIOUS
  <2>3. Octet(p, (m + 10) + 0) = e[0 + 1] /\ Octet(p, (m + 10) + 1) = e[1 + 1]
    BY Zenon, <2>1, <2>2, <2>5
  <2> QED
    BY Zenon, <2>1, <2>2, <2>3
<1>10. /\ Slice(p, m + 2, m + 4) = r.type /\ Slice(p, m + 4, m + 6) = r.class
       /\ Slice(p, m + 6, m + 10) = r.ttl
  <2>1. Len(r.type) = 2 /\ Len(r.class) = 2 /\ Len(r.ttl) = 4
    BY DEF IsAnswer, Word
  <2>2. (m + 2) + 2 = m + 4 /\ (m + 4) + 2 = m + 6 /\ (m + 6) + 4 = m + 10
    OBVIOUS
  <2>3. /\ Slice(p, m + 2, (m + 2) + Len(r.type)) = r.type
        /\ Slice(p, m + 4, (m + 4) + Len(r.class)) = r.class
        /\ Slice(p, m + 6, (m + 6) + Len(r.ttl)) = r.ttl
    <3>1. Slice(p, m + 2, (m + 2) + Len(r.type)) = r.type
      BY Zenon, <1>3, HoldsPart
    <3>2. Slice(p, m + 4, (m + 4) + Len(r.class)) = r.class
      BY Zenon, <1>3, HoldsPart
    <3>3. Slice(p, m + 6, (m + 6) + Len(r.ttl)) = r.ttl
      BY Zenon, <1>3, HoldsPart
    <3> QED
      BY Zenon, <3>1, <3>2, <3>3
  <2> QED
    BY Zenon, <2>1, <2>2, <2>3
<1>11. ParseRData(p, r.type, head, next) = r.rdata /\ r.rdata # <<>>
  <2>1. Holds(p, head, EncodeRData(r.type, r.rdata))
        /\ next = head + Len(EncodeRData(r.type, r.rdata))
    BY Zenon, <1>3 DEF Data, L
  <2> HIDE DEF head, next
  <2> QED
    BY <2>1, DataParsed
<1> DEFINE record == [name |-> labels, type |-> r.type, class |-> r.class, ttl |-> r.ttl,
                      rdata |-> r.rdata]
<1>12. record = [r EXCEPT !.name = labels]
  BY DEF IsAnswer
<1>13. ~(head > size) /\ ~(next > size)
  <2>1. head \in Nat /\ next \in Nat
    BY <1>2
  <2> HIDE DEF head, next
  <2> QED
    BY <1>1, <1>4, <2>1
<1> HIDE DEF head, next
<1>14. NextSection(p, done) =
         CASE ~done.ok -> done
           [] done.ok /\ ~name.ok -> Section(FALSE, done.records, done.offset)
           [] done.ok /\ name.ok /\ head > size -> Section(FALSE, done.records, name.end)
           [] done.ok /\ name.ok /\ head <= size /\ next > size ->
                Section(FALSE, done.records, head)
           [] OTHER -> Section(TRUE, Append(records, record), next)
  <2> DEFINE h == name.end + 10
             k == 256 * Octet(p, h - 2) + Octet(p, h - 1)
             type == Slice(p, name.end, name.end + 2)
             rdata == ParseRData(p, type, h, h + k)
             class == Slice(p, h - 8, h - 6)
             ttl == Slice(p, h - 6, h - 2)
  <2>1. NextSection(p, done) =
         CASE ~done.ok -> done
           [] done.ok /\ ~name.ok -> Section(FALSE, done.records, done.offset)
           [] done.ok /\ name.ok /\ h > size -> Section(FALSE, done.records, name.end)
           [] done.ok /\ name.ok /\ h <= size /\ h + k > size ->
                Section(FALSE, done.records, h)
           [] OTHER -> Section(TRUE,
                               IF rdata = <<>> THEN done.records
                               ELSE Append(done.records,
                                       [name |-> name.labels, type |-> type, class |-> class,
                                        ttl |-> ttl, rdata |-> rdata]),
                               h + k)
    BY ZenonT(30), <1>7 DEF NextSection, AfterRecord, name
  <2>2. h = head
    BY Zenon, <1>6, <1>8
  <2>3. k = L
    BY Zenon, <1>8, <1>9, <2>2
  <2>4. h + k = next
    BY Zenon, <2>2, <2>3 DEF next
  <2>5. type = r.type
    BY Zenon, <1>6, <1>8, <1>10
  <2>6. class = r.class /\ ttl = r.ttl
    BY Zenon, <1>8, <1>10, <2>2
  <2>7. rdata = r.rdata /\ rdata # <<>>
    BY Zenon, <1>11, <2>2, <2>4, <2>5
  <2> HIDE DEF h, k, type, rdata, class, ttl
  <2> QED
    BY Zenon, <1>6, <1>7, <2>1, <2>2, <2>4, <2>5, <2>6, <2>7
<1> HIDE DEF record
<1>15. NextSection(p, done) = Section(TRUE, Append(records, record), next)
  BY <1>6, <1>7, <1>13, <1>14
<1> QED
  BY Zenon, <1>4, <1>12, <1>15 DEF done, OwnedBy

\* The records owned by the name with these labels.
Owned(records, labels) == [i \in DOMAIN records |-> OwnedBy(records[i], labels)]

AllAnswers(records) == \A i \in 1..Len(records) : IsAnswer(records[i])

Encoded(records) == FlattenSeq([i \in DOMAIN records |-> EncodeRecord(records[i])])

AnswersStand(p, m, records, labels) ==
    /\ \E R : Owned(records, labels) \in Seq(R)
    /\ \E offset : UnpackRRSection(p, Len(records), m)
                      = Section(TRUE, Owned(records, labels), offset)

\* The answer section of a response reads back as the records it was built from.
LEMMA AnswerSection ==
    ASSUME NEW S, NEW records \in Seq(S), AllAnswers(records),
           NEW p, NEW m \in Nat, Header < m, Holds(p, m, Encoded(records)),
           NEW labels, NEW end, OwnerRead(p, labels, end)
    PROVE  AnswersStand(p, m, records, labels)
<1> DEFINE n == Len(records)
           seqs == [i \in DOMAIN records |-> EncodeRecord(records[i])]
           u == Encoded(records)
           owned == Owned(records, labels)
           R == {owned[i] : i \in 1..n}
<1>0. ASSUME NEW a \in Nat, NEW r, IsAnswer(r), Holds(p, a, EncodeRecord(r)), Header < a
      PROVE  RecordStep(p, a, r, labels)
  BY Zenon, <1>0, RecordRead
<1>1. n \in Nat /\ DOMAIN records = 1..n
  BY LenProperties
<1>2. \A i \in 1..n : EncodeRecord(records[i]) \in Packets
  BY RecordParts DEF AllAnswers
<1>3. seqs \in Seq(Packets) /\ Len(seqs) = n /\ \A i \in 1..n : seqs[i] = EncodeRecord(records[i])
  BY <1>1, <1>2
<1>4. u = FlattenSeq(seqs)
  BY Zenon DEF Encoded
<1> HIDE DEF seqs, u
<1>5. PICK ends : IsLayout(u, seqs, ends)
  BY <1>3, <1>4, FlattenLayout DEF Packets
<1>6. /\ ends \in [0..n -> Nat] /\ ends[0] = 0
      /\ \A i \in 1..n : /\ ends[i] = ends[i - 1] + Len(seqs[i])
                         /\ ends[i] <= Len(u)
                         /\ \A j \in 1..Len(seqs[i]) : u[ends[i - 1] + j] = seqs[i][j]
  BY Zenon, <1>3, <1>5 DEF IsLayout
<1>7. /\ p \in Packets /\ u \in Packets /\ m + Len(u) <= Len(p)
      /\ Len(u) \in Nat /\ Len(p) \in Nat
      /\ \A x \in 1..Len(u) : p[m + x] = u[x]
  <2>1. Holds(p, m, u)
    BY DEF u
  <2> QED
    BY <2>1, LenProperties DEF Holds, Packets
<1>8. owned \in Seq(R) /\ Len(owned) = n
      /\ \A i \in 1..n : owned[i] = OwnedBy(records[i], labels)
  BY <1>1 DEF Owned
<1> HIDE DEF owned, R, n
<1>9. ASSUME NEW i \in 1..n
      PROVE  /\ Holds(p, m + ends[i - 1], EncodeRecord(records[i]))
             /\ ends[i - 1] \in Nat /\ ends[i] = ends[i - 1] + Len(EncodeRecord(records[i]))
  <2> DEFINE a == ends[i - 1]
             b == ends[i]
             r == EncodeRecord(records[i])
             k == Len(r)
  <2>1. i - 1 \in 0..n /\ i \in 0..n
    BY <1>1
  <2>2. a \in Nat /\ b \in Nat
    BY <1>6, <2>1
  <2>3. r \in Packets /\ b = a + k /\ b <= Len(u) /\ \A j \in 1..k : u[a + j] = r[j]
    <3>1. seqs[i] = r /\ r \in Packets
      BY Zenon, <1>2, <1>3
    <3>2. b = a + Len(seqs[i]) /\ b <= Len(u) /\ \A j \in 1..Len(seqs[i]) : u[a + j] = seqs[i][j]
      BY Zenon, <1>6
    <3> HIDE DEF a, b, r
    <3> QED
      BY Zenon, <3>1, <3>2
  <2> HIDE DEF a, b, r
  <2>4. k \in Nat
    BY <2>3, LenProperties DEF Packets
  <2> HIDE DEF k
  <2>5. m + a \in Nat /\ (m + a) + k <= Len(p)
    BY <1>7, <2>2, <2>3, <2>4
  <2>6. ASSUME NEW j \in 1..k PROVE p[(m + a) + j] = r[j]
    <3>1. a + j \in 1..Len(u) /\ m + (a + j) = (m + a) + j
      BY <1>7, <2>2, <2>3, <2>4
    <3> QED
      BY Zenon, <1>7, <2>3, <3>1
  <2> QED
    BY Zenon, <1>7, <2>2, <2>3, <2>5, <2>6 DEF Holds, a, b, r, k
<1> DEFINE g == [i \in 0..n |-> Section(TRUE, SubSeq(owned, 1, i), m + ends[i])]
<1>10. \A i \in 0..n : g[i] = Section(TRUE, SubSeq(owned, 1, i), m + ends[i])
  OBVIOUS
<1>11. ASSUME NEW i \in 0..n
       PROVE  Section(TRUE, SubSeq(owned, 1, i), m + ends[i])
                 = IF i = 0 THEN Section(TRUE, <<>>, m) ELSE NextSection(p, g[i - 1])
  <2>1. CASE i = 0
    <3>1. SubSeq(owned, 1, 0) = <<>>
      BY <1>8, SubSeqEmpty
    <3>2. m + 0 = m
      OBVIOUS
    <3> QED
      BY Zenon, <1>6, <2>1, <3>1, <3>2
  <2>2. CASE i # 0
    <3> DEFINE a == m + ends[i - 1]
               r == records[i]
               done == SubSeq(owned, 1, i - 1)
    <3>1. i \in 1..n /\ i - 1 \in 0..n /\ 1 \in 1..n /\ i \in Nat
      BY <1>1, <2>2
    <3>2. IsAnswer(r)
      BY Zenon, <3>1 DEF n, AllAnswers
    <3>3. Holds(p, a, EncodeRecord(r)) /\ ends[i - 1] \in Nat
      BY Zenon, <1>9, <3>1
    <3>4. a \in Nat /\ Header < a
      <4> DEFINE x == ends[i - 1]
      <4>1. x \in Nat
        BY Zenon, <3>3
      <4>2. a = m + x
        OBVIOUS
      <4> HIDE DEF x, a
      <4>3. Header \in Nat
        BY DEF Header
      <4> QED
        BY <4>1, <4>2, <4>3
    <3>5. g[i - 1] = Section(TRUE, done, a)
      BY Zenon, <1>10, <3>1
    <3> HIDE DEF a, r, done, g
    <3>6. NextSection(p, Section(TRUE, done, a))
            = Section(TRUE, Append(done, OwnedBy(r, labels)), a + Len(EncodeRecord(r)))
      BY Zenon, <1>0, <3>2, <3>3, <3>4 DEF RecordStep
    <3>7. SubSeq(owned, 1, i) = Append(done, OwnedBy(r, labels))
      <4>1. 1 \in 1..Len(owned) /\ i \in 1..Len(owned)
        BY Zenon, <1>8, <3>1
      <4>2. SubSeq(owned, 1, i) = done \o <<owned[i]>>
        BY <1>8, <4>1, SubSeqRecursiveSecond DEF done
      <4>3. owned[i] = OwnedBy(r, labels)
        BY Zenon, <1>8, <3>1 DEF r
      <4>4. done \in Seq(R) /\ owned[i] \in R
        <5>1. owned[i] \in R
          BY Zenon, <3>1 DEF R
        <5>2. \A x \in 1..i - 1 : owned[x] \in R
          <6>1. \A x \in 1..i - 1 : x \in 1..n
            BY <1>1, <3>1
          <6> QED
            BY Zenon, <6>1 DEF R
        <5>3. done \in Seq(R)
          BY <3>1, <5>2, SubSeqProperties DEF done
        <5> QED
          BY Zenon, <5>1, <5>3
      <4> DEFINE x == owned[i]
      <4> HIDE DEF x
      <4>5. Append(done, x) = done \o <<x>>
        BY <4>4, AppendIsConcat DEF x
      <4> QED
        BY Zenon, <4>2, <4>3, <4>5 DEF x
    <3>8. a + Len(EncodeRecord(r)) = m + ends[i]
      <4> DEFINE x == ends[i - 1]
                 y == ends[i]
                 k == Len(EncodeRecord(r))
      <4>1. x \in Nat /\ y = x + k
        BY Zenon, <1>9, <3>1 DEF r
      <4>2. k \in Nat
        <5>1. EncodeRecord(r) \in Packets
          BY Zenon, <3>2, RecordParts
        <5> QED
          BY <5>1, LenProperties DEF Packets
      <4>3. a = m + x
        BY DEF a
      <4> HIDE DEF x, y, k
      <4>4. a + k = m + y
        BY <4>1, <4>2, <4>3
      <4> QED
        BY <4>4 DEF y, k
    <3> QED
      BY Zenon, <2>2, <3>5, <3>6, <3>7, <3>8
  <2> QED
    BY Zenon, <2>1, <2>2
<1>12. IsSection(p, n, m, g)
  <2>1. g = [i \in 0..n |-> IF i = 0 THEN Section(TRUE, <<>>, m) ELSE NextSection(p, g[i - 1])]
    BY Zenon, <1>11
  <2> QED
    BY Zenon, <2>1 DEF IsSection
<1> HIDE DEF g
<1>13. UnpackRRSection(p, n, m) = g[n]
  BY <1>1, <1>12, SectionComputed
<1>14. g[n] = Section(TRUE, owned, m + ends[n])
  <2>1. n \in 0..n
    BY <1>1
  <2>2. SubSeq(owned, 1, n) = owned
    BY <1>8, SubSeqFull
  <2> QED
    BY Zenon, <1>10, <2>1, <2>2
<1> QED
  BY Zenon, <1>8, <1>13, <1>14 DEF owned, n, AnswersStand

-----------------------------------------------------------------------------
(* Responses *)

LEMMA FirstWord ==
    ASSUME NEW p \in Packets, 2 <= Len(p)
    PROVE  Slice(p, 0, 2) \in Packets /\ Len(Slice(p, 0, 2)) = 2
<1>1. 0 \in Nat /\ 2 \in Nat /\ 0 <= 2 /\ 2 - 0 = 2
  OBVIOUS
<1> QED
  BY Zenon, <1>1, SliceType

LEMMA PartSlice ==
    \A p \in Packets, m, n \in Nat :
        m <= n /\ n <= Len(p) => Slice(p, m, n) \in Packets /\ Len(Slice(p, m, n)) = n - m
BY SliceType

LEMMA QuestionEnd ==
    ASSUME NEW p \in Packets, NEW labels, NEW offsets, NEW end,
           QuestionAt(p, labels, offsets, end)
    PROVE  QuestionEndOffset(p) = end + 4
<1> DEFINE name == UnpackName(p, Header, TRUE)
<1>1. name = Name(labels, end)
  BY Zenon, QuestionAccepted
<1> HIDE DEF name
<1>2. name.ok /\ name.end = end
  BY <1>1, NameFields
<1>3. ~(Len(p) < Header) /\ ~(end + 4 > Len(p))
  <2>1. Len(p) \in Nat /\ Header < end /\ end \in Nat /\ end + 4 <= Len(p) /\ Header \in Nat
    BY LenProperties DEF QuestionAt, Packets, Header
  <2> QED
    BY <2>1
<1> QED
  BY Zenon, <1>2, <1>3 DEF QuestionEndOffset, name

\* An error response repeats the question and reads back as the error.
LEMMA ErrorReadBack ==
    ASSUME NEW p \in Packets, ParseQuery(p).ok
    PROVE  LET missing == BuildErrorResponse(p, RcodeNXDomain)
           IN  /\ ParseQuery(missing) = ParseQuery(p)
               /\ ParseResponse(missing) = [ok |-> TRUE, records |-> <<>>, nxdomain |-> TRUE]
<1>1. PICK labels, offsets, end :
              /\ QuestionAt(p, labels, offsets, end)
              /\ ParseQuery(p) = [ok |-> TRUE, domain |-> labels, type |-> Slice(p, end, end + 2)]
  BY Zenon, AcceptedQuestion
<1> DEFINE to == end + 4
           id == Slice(p, 0, 2)
           v == <<129, 131, 0, 1, 0, 0, 0, 0, 0, 0>>
           q == Slice(p, Header, to)
           b == BuildErrorResponse(p, RcodeNXDomain)
<1>2. /\ end \in Nat /\ to \in Nat /\ Header \in Nat /\ Header = 12 /\ Header <= to /\ to <= Len(p)
      /\ 2 <= Len(p) /\ Len(p) \in Nat
  BY <1>1, LenProperties DEF QuestionAt, Packets, Header
<1>3. id \in Packets /\ Len(id) = 2 /\ q \in Packets
  BY Zenon, <1>2, FirstWord, PartSlice
<1>4. /\ v \in Packets /\ Len(v) = 10 /\ v[2] = 131 /\ v[4] = 1 /\ v[5] = 0 /\ v[6] = 0 /\ v[7] = 0
      /\ v[8] = 0 /\ v[9] = 0 /\ v[10] = 0
  BY DEF Packets
<1>5. b = (id \o v) \o q
  <2>1. QuestionEndOffset(p) = to
    BY <1>1, QuestionEnd
  <2>2. 128 + RcodeNXDomain = 131
    BY DEF RcodeNXDomain
  <2> QED
    BY Zenon, <2>1, <2>2 DEF BuildErrorResponse
<1> HIDE DEF to, id, v, q, b
<1> DEFINE h == id \o v
<1>6. h \in Packets /\ Len(h) = 12
  <2>1. h \in Packets /\ Len(h) = Len(id) + Len(v)
    BY Zenon, <1>3, <1>4, Joined
  <2> HIDE DEF h
  <2> QED
    BY <1>3, <1>4, <2>1
<1>7. b \in Packets
  BY Zenon, <1>3, <1>5, <1>6, Joined
<1>8. Holds(b, 0, h) /\ Holds(b, 12, q)
  <2>1. Holds(b, 0, b) /\ 0 + 12 = 12
    BY <1>7, HoldsAll
  <2>2. Holds(b, 0, h \o q)
    BY Zenon, <1>5, <2>1
  <2> HIDE DEF h
  <2>3. Holds(b, 0, h) /\ Holds(b, 0 + Len(h), q)
    BY Zenon, <1>3, <1>6, <2>2, HoldsParts
  <2> QED
    BY Zenon, <1>6, <2>1, <2>3
<1>9. Holds(b, 2, v)
  <2>1. 0 + 2 = 2
    OBVIOUS
  <2>2. Holds(b, 0 + Len(id), v)
    BY Zenon, <1>3, <1>4, <1>8, HoldsParts
  <2> QED
    BY Zenon, <1>3, <2>1, <2>2
<1>10. /\ Octet(b, 3) = 131 /\ Octet(b, 5) = 1 /\ Octet(b, 6) = 0 /\ Octet(b, 7) = 0
       /\ Octet(b, 8) = 0 /\ Octet(b, 9) = 0 /\ Octet(b, 10) = 0 /\ Octet(b, 11) = 0
  <2>1. \A i \in 0..Len(v) - 1 : Octet(b, 2 + i) = v[i + 1]
    BY Zenon, <1>9, HoldsOctets
  <2>2. \A i \in 0..9 : Octet(b, 2 + i) = v[i + 1]
    BY <1>4, <2>1
  <2> QED
    BY <1>4, <2>2
<1>11. Copied(p, b, Header, to)
  <2>1. Holds(b, Header, Slice(p, Header, to))
    BY Zenon, <1>2, <1>8 DEF q
  <2> QED
    BY <1>2, <2>1, PartCopied
<1>12. QuestionAt(b, labels, offsets, end) /\ Slice(b, end, end + 2) = Slice(p, end, end + 2)
  BY <1>1, <1>10, <1>11, QuestionRepeated DEF to
<1>13. ParseQuery(b) = ParseQuery(p)
  <2>1. ParseQuery(b) = [ok |-> TRUE, domain |-> labels, type |-> Slice(b, end, end + 2)]
    BY Zenon, <1>7, <1>12, QuestionAccepted
  <2> QED
    BY Zenon, <1>1, <1>12, <2>1
<1> DEFINE none == <<>>
<1>14. ParseResponse(b) = [ok |-> TRUE, records |-> none,
                           nxdomain |-> Octet(b, 3) % 16 = RcodeNXDomain /\ none = <<>>]
  <2>1. UnpackRRSection(b, 256 * Octet(b, 6) + Octet(b, 7), end + 4) = Section(TRUE, none, end + 4)
    <3>1. 256 * Octet(b, 6) + Octet(b, 7) = 0
      BY <1>10
    <3>2. UnpackRRSection(b, 0, end + 4) = Section(TRUE, none, end + 4)
      BY Zenon, EmptySection
    <3> QED
      BY Zenon, <3>1, <3>2
  <2>2. Octet(b, 3) % 16 \in {0, RcodeNXDomain} /\ none \in Seq(Nat)
    BY <1>10 DEF RcodeNXDomain
  <2> DEFINE offset == end + 4
  <2> HIDE DEF none, offset
  <2>3. AnswersAre(b, end + 4, none, offset)
    BY Zenon, <2>1 DEF offset, AnswersAre
  <2>4. OnlyAnswers(b)
    BY Zenon, <1>10 DEF OnlyAnswers
  <2> QED
    BY Zenon, <1>7, <1>12, <2>2, <2>3, <2>4, AnswerParsed
<1>15. Octet(b, 3) % 16 = RcodeNXDomain
  BY <1>10 DEF RcodeNXDomain
<1> QED
  BY Zenon, <1>13, <1>14, <1>15 DEF b, none

LEMMA AnswersKnown ==
    ASSUME NEW records \in Answers, NEW i \in DOMAIN records
    PROVE  IsAnswer(records[i])
BY AnswersAssumption

\* A response to a question repeats it and reads back as the records it was built from.
LEMMA ResponseReadBack ==
    ASSUME NEW p \in Packets, ParseQuery(p).ok, NEW records \in Answers
    PROVE  LET response == BuildResponse(p, records)
           IN  /\ ParseQuery(response) = ParseQuery(p)
               /\ ParseResponse(response) =
                     [ok |-> TRUE, records |-> Owned(records, ParseQuery(p).domain),
                      nxdomain |-> FALSE]
<1>1. PICK labels, offsets, end :
              /\ QuestionAt(p, labels, offsets, end)
              /\ ParseQuery(p) = [ok |-> TRUE, domain |-> labels, type |-> Slice(p, end, end + 2)]
  BY Zenon, AcceptedQuestion
<1> DEFINE to == end + 4
           n == Len(records)
           id == Slice(p, 0, 2)
           v == <<129, 128, 0, 1>>
           c == EncodeU16(n)
           z == <<0, 0, 0, 0>>
           q == Slice(p, Header, to)
           f == Encoded(records)
           b == BuildResponse(p, records)
<1>2. /\ end \in Nat /\ to \in Nat /\ Header \in Nat /\ Header = 12 /\ Header <= to /\ to <= Len(p)
      /\ 2 <= Len(p) /\ Len(p) \in Nat /\ Header < to
  BY <1>1, LenProperties DEF QuestionAt, Packets, Header
<1>3. id \in Packets /\ Len(id) = 2 /\ q \in Packets /\ Len(q) = to - Header
  BY Zenon, <1>2, FirstWord, PartSlice
<1>4. /\ v \in Packets /\ Len(v) = 4 /\ v[2] = 128 /\ v[4] = 1
      /\ z \in Packets /\ Len(z) = 4 /\ z[1] = 0 /\ z[2] = 0 /\ z[3] = 0 /\ z[4] = 0
  BY DEF Packets
<1>5. /\ records \in Seq(Range(records)) /\ n \in Nat /\ n < 65536
      /\ \A i \in 1..n : IsAnswer(records[i])
  <2>1. /\ records \in Seq(Range(records)) /\ n < 65536
        /\ \A i \in DOMAIN records : IsAnswer(records[i])
    BY AnswersAssumption
  <2>2. n \in Nat /\ DOMAIN records = 1..n
    BY <2>1, LenProperties
  <2> QED
    BY <2>1, <2>2
<1>5a. AllAnswers(records)
  BY <1>5 DEF AllAnswers
<1> HIDE DEF n
<1>6. c \in Packets /\ Len(c) = 2 /\ (256 * c[1]) + c[2] = n
  BY <1>5, EncodedU16
<1>7. f \in Packets
  <2> DEFINE seqs == [i \in DOMAIN records |-> EncodeRecord(records[i])]
  <2>1. DOMAIN records = 1..n /\ Len(records) = n
    BY <1>5, LenProperties DEF n
  <2>2. \A i \in 1..n : EncodeRecord(records[i]) \in Packets
    BY <1>5, RecordParts
  <2>3. seqs \in Seq(Packets)
    BY <1>5, <2>1, <2>2
  <2> HIDE DEF seqs
  <2>4. FlattenSeq(seqs) \in Packets
    BY <2>3, FlattenLayout DEF Packets
  <2> QED
    BY Zenon, <2>4 DEF Encoded, seqs
<1>8. b = Six(id, v, c, z, q, f)
  <2>1. QuestionEndOffset(p) = to
    BY <1>1, QuestionEnd
  <2> QED
    BY Zenon, <2>1 DEF BuildResponse, Encoded, n, Six
<1> HIDE DEF to, id, v, c, z, q, f, b
<1>9. b \in Packets /\ (Holds(b, 0, b) => SixStand(b, 0, id, v, c, z, q, f))
  BY Zenon, <1>3, <1>4, <1>6, <1>7, <1>8, SixParts DEF IsSix
<1>10. /\ 0 + Len(id) = 2 /\ 0 + (Len(id) + Len(v)) = 6 /\ 0 + (Len(id) + Len(v) + Len(c)) = 8
       /\ 0 + (Len(id) + Len(v) + Len(c) + Len(z)) = 12
       /\ 0 + (Len(id) + Len(v) + Len(c) + Len(z) + Len(q)) = to
  BY <1>2, <1>3, <1>4, <1>6
<1>14. b \in Packets
  BY Zenon, <1>9
<1>16. /\ Holds(b, to, f) /\ Holds(b, 12, q) /\ Holds(b, 8, z) /\ Holds(b, 6, c)
       /\ Holds(b, 2, v)
  <2>1. SixStand(b, 0, id, v, c, z, q, f)
    BY Zenon, <1>9, HoldsAll
  <2> QED
    BY Zenon, <1>10, <2>1 DEF SixStand
<1>21. Octet(b, 3) = 128 /\ Octet(b, 5) = 1
  <2>1. \A i \in 0..Len(v) - 1 : Octet(b, 2 + i) = v[i + 1]
    BY Zenon, <1>16, HoldsOctets
  <2>2. \A i \in 0..3 : Octet(b, 2 + i) = v[i + 1]
    BY <1>4, <2>1
  <2> QED
    BY <1>4, <2>2
<1>22. Octet(b, 8) = 0 /\ Octet(b, 9) = 0 /\ Octet(b, 10) = 0 /\ Octet(b, 11) = 0
  <2>1. \A i \in 0..Len(z) - 1 : Octet(b, 8 + i) = z[i + 1]
    BY Zenon, <1>16, HoldsOctets
  <2>2. \A i \in 0..3 : Octet(b, 8 + i) = z[i + 1]
    BY <1>4, <2>1
  <2> QED
    BY <1>4, <2>2
<1>23. 256 * Octet(b, 6) + Octet(b, 7) = n
  <2>1. \A i \in 0..Len(c) - 1 : Octet(b, 6 + i) = c[i + 1]
    BY Zenon, <1>16, HoldsOctets
  <2>2. \A i \in 0..1 : Octet(b, 6 + i) = c[i + 1]
    BY <1>6, <2>1
  <2>3. Octet(b, 6) = c[1] /\ Octet(b, 7) = c[2]
    BY <2>2
  <2> QED
    BY Zenon, <1>6, <2>3
<1>24. Copied(p, b, Header, to)
  <2>1. Holds(b, Header, Slice(p, Header, to))
    BY Zenon, <1>2, <1>16 DEF q
  <2> QED
    BY <1>2, <2>1, PartCopied
<1>25. QuestionAt(b, labels, offsets, end) /\ Slice(b, end, end + 2) = Slice(p, end, end + 2)
  BY <1>1, <1>21, <1>24, QuestionRepeated DEF to
<1>26. ParseQuery(b) = ParseQuery(p)
  <2>1. ParseQuery(b) = [ok |-> TRUE, domain |-> labels, type |-> Slice(b, end, end + 2)]
    BY Zenon, <1>14, <1>25, QuestionAccepted
  <2> QED
    BY Zenon, <1>1, <1>25, <2>1
<1>27. OwnerRead(b, labels, end)
  <2>1. LabelsAt(b, labels, offsets) /\ offsets[0] = Header /\ end = offsets[Len(labels)] + 1
    BY Zenon, <1>25 DEF QuestionAt
  <2>2. UnpackName(b, offsets[0], FALSE) = Name(labels, offsets[Len(labels)] + 1)
    BY <1>14, <2>1, LabelsRead
  <2> QED
    BY Zenon, <2>1, <2>2 DEF OwnerRead
<1> DEFINE owned == Owned(records, labels)
<1>28. /\ \E R : owned \in Seq(R)
       /\ \E offset : UnpackRRSection(b, n, to) = Section(TRUE, owned, offset)
  <2>2. Holds(b, to, Encoded(records))
    BY Zenon, <1>16 DEF f
  <2>3. AnswersStand(b, to, records, labels)
    <3>1. to \in Nat /\ Header < to /\ records \in Seq(Range(records))
      BY <1>2, <1>5
    <3> QED
      BY Zenon, <1>5a, <1>27, <2>2, <3>1, AnswerSection
  <2> QED
    BY Zenon, <2>3 DEF AnswersStand, n
<1> HIDE DEF owned
<1>29. PICK R, offset : owned \in Seq(R) /\ UnpackRRSection(b, n, to) = Section(TRUE, owned, offset)
  BY Zenon, <1>28
<1>30. Octet(b, 3) % 16 = 0 /\ 0 # RcodeNXDomain
  BY <1>21 DEF RcodeNXDomain
<1>31. ParseResponse(b) = [ok |-> TRUE, records |-> owned,
                           nxdomain |-> Octet(b, 3) % 16 = RcodeNXDomain /\ owned = <<>>]
  <2>1. AnswersAre(b, end + 4, owned, offset)
    BY Zenon, <1>23, <1>29 DEF to, AnswersAre
  <2>2. Octet(b, 3) % 16 \in {0, RcodeNXDomain}
    BY <1>30
  <2>3. OnlyAnswers(b)
    BY Zenon, <1>22 DEF OnlyAnswers
  <2> QED
    BY Zenon, <1>14, <1>25, <1>29, <2>1, <2>2, <2>3, AnswerParsed
<1>32. ParseResponse(b) = [ok |-> TRUE, records |-> owned, nxdomain |-> FALSE]
  <2>1. (Octet(b, 3) % 16 = RcodeNXDomain /\ owned = <<>>) = FALSE
    BY <1>30
  <2> QED
    BY <1>31, <2>1
<1>33. ParseQuery(p).domain = labels
  BY <1>1
<1> QED
  BY Zenon, <1>26, <1>32, <1>33 DEF b, owned

\* The name an alias stands for is written as RFC 1035 says.
LEMMA AliasWritten ==
    ASSUME NEW r, IsAnswer(r), r.type = QTypeCNAME
    PROVE  LET rdata == EncodeRData(r.type, r.rdata)
           IN  ReferenceNames(rdata, 0) = {Name(r.rdata, Len(rdata))}
<1> DEFINE labels == r.rdata
           e == EncodeDomainName(labels)
           data == EncodeRData(r.type, r.rdata)
<1>1. labels \in Seq(Label) /\ labels # <<>>
  BY DEF IsAnswer, QTypeA, QTypeAAAA, QTypeCNAME, QTypeSOA
<1> HIDE DEF labels
<1>2. e \in Packets /\ << 0 >> \in Packets /\ Len(<< 0 >>) = 1
  BY <1>1, EncodedName DEF Packets
<1> HIDE DEF e
<1>3. data = e \o << 0 >>
  <2>1. QTypeCNAME \notin {QTypeA, QTypeAAAA}
    BY DEF QTypeA, QTypeAAAA, QTypeCNAME
  <2> QED
    BY <2>1 DEF EncodeRData, e, labels
<1> HIDE DEF data
<1>4. data \in Packets /\ Len(data) = Len(e) + 1
  BY Zenon, <1>2, <1>3, Joined
<1>5. Holds(data, 0, EncodeDomainName(labels) \o << 0 >>)
  <2>1. Holds(data, 0, data)
    BY <1>4, HoldsAll
  <2> QED
    BY Zenon, <1>3, <2>1 DEF e
<1>6. PICK offsets : /\ LabelsAt(data, labels, offsets) /\ offsets[0] = 0
                     /\ offsets[Len(labels)] = 0 + Len(EncodeDomainName(labels))
  BY <1>1, <1>5, EncodedStands
<1>7. ReferenceNames(data, offsets[0]) = {Name(labels, offsets[Len(labels)] + 1)}
  BY <1>4, <1>6, ReferenceWritten
<1>8. (0 + Len(e)) + 1 = Len(data)
  <2>1. Len(e) \in Nat
    BY <1>2, LenProperties DEF Packets
  <2> QED
    BY <1>4, <2>1
<1>9. ReferenceNames(data, 0) = {Name(labels, Len(data))}
  BY Zenon, <1>6, <1>7, <1>8 DEF e
<1> QED
  BY Zenon, <1>9 DEF data, labels

\* Whatever question is accepted, the response built for it repeats the question and is
\* parsed into the records it was built from, owned by the name asked; an error response is
\* parsed into the error; and the name in an alias is complete.
THEOREM AnswersAreReadBack == MessageSpec => []AnswersReadBack
<1>1. Received => AnswersReadBack
  <2> SUFFICES ASSUME packet \in Packets, ParseQuery(packet).ok
               PROVE  AnswersReadBack
    BY Zenon DEF AnswersReadBack, Received
  <2>1. ASSUME NEW records \in Answers, NEW r \in Range(records), r.type = QTypeCNAME
        PROVE  ReferenceNames(EncodeRData(r.type, r.rdata), 0)
                  = {Name(r.rdata, Len(EncodeRData(r.type, r.rdata)))}
    <3>1. PICK i \in DOMAIN records : r = records[i]
      BY Zenon DEF Range
    <3>2. IsAnswer(records[i])
      BY Zenon, AnswersKnown
    <3> QED
      BY Zenon, <2>1, <3>1, <3>2, AliasWritten
  <2>2. \A records \in Answers : \A r \in {r \in Range(records) : r.type = QTypeCNAME} :
           ReferenceNames(EncodeRData(r.type, r.rdata), 0)
              = {Name(r.rdata, Len(EncodeRData(r.type, r.rdata)))}
    BY Zenon, <2>1
  <2>3. \A records \in Answers :
          /\ ParseQuery(BuildResponse(packet, records)) = ParseQuery(packet)
          /\ ParseResponse(BuildResponse(packet, records)) =
                [ok |-> TRUE, records |-> [i \in DOMAIN records |->
                             [records[i] EXCEPT !.name = ParseQuery(packet).domain]],
                 nxdomain |-> FALSE]
    BY Zenon, ResponseReadBack DEF Owned, OwnedBy
  <2>4. /\ ParseQuery(BuildErrorResponse(packet, RcodeNXDomain)) = ParseQuery(packet)
        /\ ParseResponse(BuildErrorResponse(packet, RcodeNXDomain))
              = [ok |-> TRUE, records |-> <<>>, nxdomain |-> TRUE]
    BY Zenon, ErrorReadBack
  <2> QED
    BY Zenon, <2>2, <2>3, <2>4 DEF AnswersReadBack
<1> QED
  BY <1>1, PacketOctets, PTL

-----------------------------------------------------------------------------
(* Messages that are cut off *)

Cut(c, b) ==
    /\ c \in Packets /\ b \in Packets /\ Len(c) <= Len(b)
    /\ \A o \in 0..Len(c) - 1 : Octet(c, o) = Octet(b, o)

\* What the first octet says of the end of a name that is read.
EndFrom(p, read, o, rest) ==
    LET length == Octet(p, o)
    IN  /\ length = 0 => rest.end = o + 1
        /\ length >= 192 => rest.end = o + 2
        /\ length \in 1..191 => /\ o + 1 + length <= Len(p)
                                /\ read[o + 1 + length].ok
                                /\ rest.end = read[o + 1 + length].end

LEMMA RestEnd ==
    ASSUME NEW p \in Packets, NEW s \in Nat, NEW o \in s..Len(p) - 1,
           NEW question \in BOOLEAN, NEW name, NEW read,
           Rest(p, s, question, name, read, o).ok
    PROVE  EndFrom(p, read, o, Rest(p, s, question, name, read, o))
<1> DEFINE length  == Octet(p, o)
           pointer == (length % 64) * 256 + Octet(p, o + 1)
           next    == o + 1 + length
           rest    == read[next]
           target  == name[pointer]
           l       == Slice(p, o + 1, next)
           r       == Rest(p, s, question, name, read, o)
<1>1. Len(p) \in Nat /\ o \in Nat /\ o # Len(p) /\ o \in 0..Len(p) - 1
  BY LenProperties DEF Packets
<1>2. length \in 0..255
  BY <1>1, OctetType
<1>3. r = IF length = 0 THEN Name(<<>>, o + 1)
          ELSE IF question /\ length > 63 THEN Failure
          ELSE IF length >= 192 THEN
               IF o + 1 = Len(p) \/ pointer >= s THEN Failure
               ELSE IF target.ok THEN Name(target.labels, AfterPointer(o, target))
               ELSE IF s < o THEN Name(<<>>, o + 2)
               ELSE Failure
          ELSE IF next > Len(p) \/ ~rest.ok THEN Failure
          ELSE Name(<<l>> \o rest.labels, rest.end)
  BY Zenon, <1>1 DEF Rest
<1>4. r.ok /\ ~Failure.ok
  BY NamesType
<1> HIDE DEF r
<1>5. AfterPointer(o, target) = o + 2
  BY DEF AfterPointer
<1> HIDE DEF pointer, target, l, rest
<1>6. CASE length = 0
  <2>1. r.end = o + 1
    <3>1. r = Name(<<>>, o + 1)
      BY Zenon, <1>3, <1>6
    <3> QED
      BY <3>1, NameFields
  <2>2. ~(length >= 192) /\ length \notin 1..191
    BY <1>6
  <2> QED
    BY Zenon, <2>1, <2>2 DEF EndFrom, r
<1>7. CASE length >= 192
  <2>1. length # 0 /\ length \notin 1..191
    <3> HIDE DEF length
    <3> QED
      BY <1>2, <1>7
  <2>2. \E labels : r = Name(labels, o + 2)
    BY Zenon, <1>3, <1>4, <1>5, <1>7, <2>1
  <2>3. PICK labels : r = Name(labels, o + 2)
    BY Zenon, <2>2
  <2>4. r.end = o + 2
    BY <2>3, NameFields
  <2> QED
    BY Zenon, <2>1, <2>4 DEF EndFrom, r
<1>8. CASE length \in 1..191
  <2>1. length # 0 /\ ~(length >= 192)
    <3> HIDE DEF length
    <3> QED
      BY <1>8
  <2>2. /\ r = Name(<<l>> \o rest.labels, rest.end) /\ rest.ok /\ ~(next > Len(p))
    BY Zenon, <1>3, <1>4, <2>1
  <2>3. next <= Len(p)
    <3>1. next \in Nat
      <4> HIDE DEF length
      <4> QED
        BY <1>1, <1>2
    <3> HIDE DEF next
    <3> QED
      BY <1>1, <2>2, <3>1
  <2>4. r.end = rest.end
    BY <2>2, NameFields
  <2> QED
    BY Zenon, <2>1, <2>2, <2>3, <2>4 DEF EndFrom, r, rest
<1> QED
  <2>1. length = 0 \/ length >= 192 \/ length \in 1..191
    <3> HIDE DEF length
    <3> QED
      BY <1>2
  <2> QED
    BY Zenon, <1>6, <1>7, <1>8, <2>1

\* A name that is read in a message and in what it is cut down to ends at the same place,
\* or where the message is cut.
EndsAlike(x, y, size) == x.ok /\ y.ok => x.end = size \/ x.end = y.end

LEMMA NameCut ==
    ASSUME NEW c, NEW b, Cut(c, b), NEW s \in Nat, NEW q \in BOOLEAN
    PROVE  EndsAlike(UnpackName(c, s, q), UnpackName(b, s, q), Len(c))
<1>1. c \in Packets /\ b \in Packets /\ Len(c) \in Nat /\ Len(b) \in Nat /\ Len(c) <= Len(b)
  BY LenProperties DEF Cut, Packets
<1>2. CASE ~(s < Len(c))
  <2>1. ~UnpackName(c, s, q).ok
    BY Zenon, <1>2, NamesType, UnpackNameIsNamesTo
  <2> QED
    BY Zenon, <2>1 DEF EndsAlike
<1>3. CASE s < Len(c)
  <2> DEFINE left == Left(c, s, q)
             whl == Left(b, s, q)
             Alike(o) == EndsAlike(left[o], whl[o], Len(c))
             T == {m \in s..Len(c) : \A o \in m..Len(c) : Alike(o)}
  <2>1. s < Len(b) /\ s \in s..Len(c) /\ Len(c) \in s..Len(c)
    BY <1>1, <1>3
  <2>2. UnpackName(c, s, q) = left[s] /\ UnpackName(b, s, q) = whl[s]
    BY <1>1, <1>3, <2>1, UnpackNameRecursion
  <2>3. \A o \in s..Len(c) : left[o] = Rest(c, s, q, Before(c), left, o)
    BY <1>1, <1>3, UnpackNameRecursion
  <2>4. \A o \in s..Len(b) : whl[o] = Rest(b, s, q, Before(b), whl, o)
    BY <1>1, <2>1, UnpackNameRecursion
  <2>5. left[Len(c)] = Name(<<>>, Len(c))
    BY <1>1, <1>3, LeftCases DEF EndCase
  <2> HIDE DEF left, whl
  <2>6. Len(c) \in T
    <3>1. left[Len(c)].end = Len(c)
      BY <2>5, NameFields
    <3>2. \A o \in Len(c)..Len(c) : o = Len(c)
      BY <1>1
    <3> QED
      BY Zenon, <2>1, <3>1, <3>2 DEF EndsAlike
  <2>7. ASSUME NEW o \in s..Len(c) - 1, o + 1 \in T PROVE o \in T
    <3>1. o \in s..Len(c) /\ o \in s..Len(b) /\ o \in s..Len(b) - 1 /\ o \in 0..Len(c) - 1
      BY <1>1
    <3>2. ASSUME left[o].ok, whl[o].ok PROVE left[o].end = Len(c) \/ left[o].end = whl[o].end
      <4> DEFINE length == Octet(c, o)
                 next == o + 1 + length
      <4>1. Octet(b, o) = length
        BY Zenon, <3>1 DEF Cut
      <4>2. EndFrom(c, left, o, left[o])
        <5>1. Rest(c, s, q, Before(c), left, o) = left[o]
          BY Zenon, <2>3, <3>1
        <5> QED
          BY Zenon, <1>1, <3>2, <5>1, RestEnd
      <4>3. EndFrom(b, whl, o, whl[o])
        <5>1. Rest(b, s, q, Before(b), whl, o) = whl[o]
          BY Zenon, <2>4, <3>1
        <5> QED
          BY Zenon, <1>1, <3>1, <3>2, <5>1, RestEnd
      <4>4. length \in 0..255
        BY <1>1, <3>1, OctetType
      <4>5. /\ length = 0 => left[o].end = o + 1 /\ whl[o].end = o + 1
            /\ length >= 192 => left[o].end = o + 2 /\ whl[o].end = o + 2
            /\ length \in 1..191 => /\ next <= Len(c) /\ left[next].ok /\ whl[next].ok
                                    /\ left[o].end = left[next].end
                                    /\ whl[o].end = whl[next].end
        BY Zenon, <4>1, <4>2, <4>3 DEF EndFrom
      <4>6. CASE length \in 1..191
        <5>1. next \in o + 1..Len(c)
          <6>1. next <= Len(c)
            BY Zenon, <4>5, <4>6
          <6> HIDE DEF length
          <6> QED
            BY <1>1, <4>6, <6>1
        <5>2. Alike(next)
          BY Zenon, <2>7, <5>1
        <5> HIDE DEF next, length
        <5> QED
          BY Zenon, <4>5, <4>6, <5>2 DEF EndsAlike
      <4>7. length = 0 \/ length >= 192 \/ length \in 1..191
        <5> HIDE DEF length
        <5> QED
          BY <4>4
      <4> QED
        BY Zenon, <4>5, <4>6, <4>7
    <3>3. Alike(o)
      BY Zenon, <3>2 DEF EndsAlike
    <3>4. \A m \in o..Len(c) : m = o \/ m \in o + 1..Len(c)
      BY <1>1
    <3> QED
      BY Zenon, <2>7, <3>1, <3>3, <3>4
  <2>8. s..Len(c) \subseteq T
    <3>1. s \in Int /\ Len(c) \in Int
      BY <1>1
    <3> HIDE DEF T
    <3> QED
      BY Zenon, <2>6, <2>7, <3>1, DownwardInduction
  <2>9. Alike(s)
    BY Zenon, <2>1, <2>8
  <2> QED
    BY Zenon, <2>2, <2>9
<1> QED
  BY Zenon, <1>2, <1>3

\* What it takes to read one more record, and where the next one starts.
RecordFits(p, m, next) ==
    LET name == UnpackName(p, m, FALSE)
        head == name.end + 10
    IN  /\ name.ok /\ name.end \in Nat /\ head <= Len(p)
        /\ next = head + (256 * Octet(p, head - 2) + Octet(p, head - 1))
        /\ next \in Nat /\ next <= Len(p)

LEMMA NextFits ==
    ASSUME NEW p \in Packets, NEW done, done.offset \in Nat, NextSection(p, done).ok
    PROVE  done.ok /\ RecordFits(p, done.offset, NextSection(p, done).offset)
<1> DEFINE m == done.offset
           size == Len(p)
           name == UnpackName(p, m, FALSE)
           head == name.end + 10
           rdLen == 256 * Octet(p, head - 2) + Octet(p, head - 1)
           type == Slice(p, name.end, name.end + 2)
           rdata == ParseRData(p, type, head, head + rdLen)
           next == NextSection(p, done)
           more == IF rdata = <<>> THEN done.records
                   ELSE Append(done.records,
                               [name |-> name.labels, type |-> type,
                                class |-> Slice(p, head - 8, head - 6),
                                ttl |-> Slice(p, head - 6, head - 2), rdata |-> rdata])
<1>1. next = CASE ~done.ok -> done
              [] done.ok /\ ~name.ok -> Section(FALSE, done.records, m)
              [] done.ok /\ name.ok /\ head > size -> Section(FALSE, done.records, name.end)
              [] done.ok /\ name.ok /\ head <= size /\ head + rdLen > size ->
                   Section(FALSE, done.records, head)
              [] OTHER -> Section(TRUE, more, head + rdLen)
  BY Zenon DEF NextSection, AfterRecord
<1>2. \A records, x : ~Section(FALSE, records, x).ok /\ Section(TRUE, records, x).offset = x
  BY DEF Section
<1>3. size \in Nat
  BY LenProperties DEF Packets
<1>4. ~(m < size) => ~name.ok
  BY Zenon, NamesType, UnpackNameIsNamesTo
<1>5. name.ok => name.end \in Nat
  <2>1. m < size => name \in Names
    <3>1. ASSUME m < size PROVE name \in Names
      <4>1. FALSE \in BOOLEAN /\ m \in m..size
        BY <1>3, <3>1
      <4>2. name = Left(p, m, FALSE)[m] /\ Left(p, m, FALSE)[m] \in Names
        BY <3>1, <4>1, UnpackNameRecursion
      <4> QED
        BY Zenon, <4>2
    <3> QED
      BY Zenon, <3>1
  <2> HIDE DEF name
  <2> QED
    BY Zenon, <1>4, <2>1, NamesType
<1>6. next.ok
  OBVIOUS
<1> HIDE DEF m, name, more, next
<1>7. done.ok
  <2>1. ~done.ok => next = done
    BY <1>1
  <2> QED
    BY Zenon, <1>6, <2>1
<1>8. name.ok
  <2>1. ~name.ok => next = Section(FALSE, done.records, m)
    BY <1>1, <1>7
  <2> QED
    BY Zenon, <1>2, <1>6, <2>1
<1>9. ~(head > size)
  <2>1. head > size => next = Section(FALSE, done.records, name.end)
    <3>1. head \in Nat
      BY <1>5, <1>8
    <3> HIDE DEF head, rdLen
    <3>2. head > size => ~(head <= size)
      BY <1>3, <3>1
    <3> QED
      BY Zenon, <1>1, <1>7, <1>8, <3>2
  <2> QED
    BY Zenon, <1>2, <1>6, <2>1
<1>10. name.end \in Nat /\ head \in Nat /\ head <= size /\ head - 2 \in 0..size - 1
       /\ head - 1 \in 0..size - 1
  BY <1>3, <1>5, <1>8, <1>9
<1>11. rdLen \in Nat
  <2>1. Octet(p, head - 2) \in 0..255 /\ Octet(p, head - 1) \in 0..255
    BY <1>10, OctetType
  <2> DEFINE x == Octet(p, head - 2)
             y == Octet(p, head - 1)
  <2>2. x \in 0..255 /\ y \in 0..255
    BY Zenon, <2>1
  <2> HIDE DEF x, y
  <2>3. 256 * x + y \in Nat
    BY <2>2
  <2> QED
    BY Zenon, <2>3 DEF x, y
<1> HIDE DEF head, rdLen
<1>12. ~(head + rdLen > size)
  <2>1. head + rdLen > size => next = Section(FALSE, done.records, head)
    BY <1>1, <1>7, <1>8, <1>9, <1>10
  <2> QED
    BY Zenon, <1>2, <1>6, <2>1
<1>13. next = Section(TRUE, more, head + rdLen)
  BY <1>1, <1>7, <1>8, <1>9, <1>12
<1>14. next.offset = head + rdLen /\ head + rdLen \in Nat /\ head + rdLen <= size
  <2>1. next.offset = head + rdLen
    BY Zenon, <1>2, <1>13
  <2> QED
    BY <1>3, <1>10, <1>11, <1>12, <2>1
<1> QED
  BY Zenon, <1>7, <1>8, <1>10, <1>14 DEF RecordFits, m, name, head, rdLen, next

\* A record that still fits ends where it ends in the whole message.
LEMMA RecordCut ==
    ASSUME NEW c, NEW b, Cut(c, b), NEW m \in Nat, NEW next, RecordFits(c, m, next),
           NEW after, RecordFits(b, m, after)
    PROVE  next = after
<1> DEFINE name == UnpackName(c, m, FALSE)
           full == UnpackName(b, m, FALSE)
           head == name.end + 10
           last == full.end + 10
<1>1. Len(c) \in Nat
  BY LenProperties DEF Cut, Packets
<1>2. name.ok /\ name.end \in Nat /\ head <= Len(c) /\ full.ok
      /\ next = head + (256 * Octet(c, head - 2) + Octet(c, head - 1))
      /\ after = last + (256 * Octet(b, last - 2) + Octet(b, last - 1))
  BY Zenon DEF RecordFits
<1>3. name.end # Len(c)
  <2> HIDE DEF name
  <2> QED
    BY <1>1, <1>2
<1>4. name.end = full.end
  <2>1. EndsAlike(name, full, Len(c))
    BY NameCut
  <2> QED
    BY Zenon, <1>2, <1>3, <2>1 DEF EndsAlike
<1>5. head - 2 \in 0..Len(c) - 1 /\ head - 1 \in 0..Len(c) - 1
  <2> DEFINE x == name.end
  <2>1. x \in Nat /\ head = x + 10 /\ head <= Len(c)
    BY Zenon, <1>2
  <2> HIDE DEF x, head
  <2> QED
    BY <1>1, <2>1
<1>6. Octet(c, head - 2) = Octet(b, head - 2) /\ Octet(c, head - 1) = Octet(b, head - 1)
  BY Zenon, <1>5 DEF Cut
<1> HIDE DEF name, full
<1> QED
  BY Zenon, <1>2, <1>4, <1>6

\* After a failure a section stays as it is.
LEMMA StopsAtFailure ==
    ASSUME NEW p, NEW done, ~done.ok
    PROVE  NextSection(p, done) = done
<1> DEFINE size == Len(p)
           name == UnpackName(p, done.offset, FALSE)
           head == name.end + 10
           rdLen == 256 * Octet(p, head - 2) + Octet(p, head - 1)
           type == Slice(p, name.end, name.end + 2)
           rdata == ParseRData(p, type, head, head + rdLen)
           more == IF rdata = <<>> THEN done.records
                   ELSE Append(done.records,
                               [name |-> name.labels, type |-> type,
                                class |-> Slice(p, head - 8, head - 6),
                                ttl |-> Slice(p, head - 6, head - 2), rdata |-> rdata])
           noName == Section(FALSE, done.records, done.offset)
           noHead == Section(FALSE, done.records, name.end)
           noData == Section(FALSE, done.records, head)
           next == Section(TRUE, more, head + rdLen)
<1>1. NextSection(p, done) =
        CASE ~done.ok -> done
          [] done.ok /\ ~name.ok -> noName
          [] done.ok /\ name.ok /\ head > size -> noHead
          [] done.ok /\ name.ok /\ head <= size /\ head + rdLen > size -> noData
          [] OTHER -> next
  BY Zenon DEF NextSection, AfterRecord
<1> HIDE DEF size, name, head, rdLen, noName, noHead, noData, next
<1> QED
  BY Zenon, <1>1

LEMMA SectionDefined ==
    ASSUME NEW p, NEW n \in Nat, NEW m
    PROVE  \E g : IsSection(p, n, m, g)
<1> DEFINE T == {i \in 0..n : \E g : IsSection(p, i, m, g)}
<1>1. 0 \in T
  <2> DEFINE g == [i \in 0..0 |-> Section(TRUE, <<>>, m)]
  <2>1. g = [i \in 0..0 |-> IF i = 0 THEN Section(TRUE, <<>>, m)
                            ELSE NextSection(p, g[i - 1])]
    OBVIOUS
  <2> HIDE DEF g
  <2>2. IsSection(p, 0, m, g)
    BY Zenon, <2>1 DEF IsSection
  <2> QED
    BY <2>2
<1>2. ASSUME NEW i \in 0..n - 1, i \in T PROVE i + 1 \in T
  <2>1. PICK f : IsSection(p, i, m, f)
    BY Zenon, <1>2
  <2>2. f = [j \in 0..i |-> IF j = 0 THEN Section(TRUE, <<>>, m) ELSE NextSection(p, f[j - 1])]
    BY Zenon, <2>1 DEF IsSection
  <2> DEFINE g == [j \in 0..i + 1 |-> IF j = 0 THEN Section(TRUE, <<>>, m)
                                      ELSE NextSection(p, f[j - 1])]
  <2>3. ASSUME NEW j \in 0..i + 1, j # 0 PROVE g[j - 1] = f[j - 1]
    <3>1. j - 1 \in 0..i /\ j - 1 \in 0..i + 1
      BY <2>3
    <3> QED
      BY Zenon, <2>2, <3>1
  <2>4. g = [j \in 0..i + 1 |-> IF j = 0 THEN Section(TRUE, <<>>, m)
                                ELSE NextSection(p, g[j - 1])]
    <3> DEFINE h == [j \in 0..i + 1 |-> IF j = 0 THEN Section(TRUE, <<>>, m)
                                        ELSE NextSection(p, g[j - 1])]
    <3>1. \A j \in 0..i + 1 : g[j] = h[j]
      BY Zenon, <2>3
    <3>2. DOMAIN g = 0..i + 1 /\ DOMAIN h = 0..i + 1
      BY Zenon
    <3> QED
      BY Zenon, <3>1, <3>2
  <2>5. IsSection(p, i + 1, m, g)
    BY Zenon, <2>4 DEF IsSection
  <2>6. i + 1 \in 0..n
    OBVIOUS
  <2> QED
    BY Zenon, <2>5, <2>6
<1>3. 0..n \subseteq T
  <2> HIDE DEF T
  <2> QED
    BY <1>1, <1>2, UpwardInduction
<1> QED
  <2>1. n \in 0..n
    OBVIOUS
  <2> QED
    BY Zenon, <1>3, <2>1

\* A section that is read in a message and in what it is cut down to ends at the same place.
LEMMA SectionCut ==
    ASSUME NEW c, NEW b, Cut(c, b), NEW n \in Nat, NEW m \in Nat, m <= Len(c),
           UnpackRRSection(c, n, m).ok, UnpackRRSection(b, n, m).ok
    PROVE  /\ UnpackRRSection(c, n, m).offset = UnpackRRSection(b, n, m).offset
           /\ UnpackRRSection(c, n, m).offset <= Len(c)
<1>1. PICK f : IsSection(c, n, m, f)
  BY SectionDefined
<1>2. PICK g : IsSection(b, n, m, g)
  BY SectionDefined
<1>3. UnpackRRSection(c, n, m) = f[n] /\ UnpackRRSection(b, n, m) = g[n]
  BY <1>1, <1>2, SectionComputed
<1> DEFINE Alike(i) == f[i].ok /\ g[i].ok => /\ f[i].offset = g[i].offset
                                             /\ f[i].offset \in Nat /\ f[i].offset <= Len(c)
           T == {i \in 0..n : Alike(i)}
<1>4. \A i \in 0..n : f[i] = IF i = 0 THEN Section(TRUE, <<>>, m) ELSE NextSection(c, f[i - 1])
  BY Zenon, <1>1 DEF IsSection
<1>5. \A i \in 0..n : g[i] = IF i = 0 THEN Section(TRUE, <<>>, m) ELSE NextSection(b, g[i - 1])
  BY Zenon, <1>2 DEF IsSection
<1>6. 0 \in T
  <2>1. 0 \in 0..n
    OBVIOUS
  <2>2. f[0] = Section(TRUE, <<>>, m) /\ g[0] = Section(TRUE, <<>>, m)
    BY Zenon, <1>4, <1>5, <2>1
  <2>3. Section(TRUE, <<>>, m).offset = m
    BY DEF Section
  <2> QED
    BY Zenon, <2>1, <2>2, <2>3
<1>7. ASSUME NEW i \in 0..n - 1, i \in T PROVE i + 1 \in T
  <2>1. i + 1 \in 0..n /\ i + 1 # 0 /\ (i + 1) - 1 = i
    OBVIOUS
  <2>2. f[i + 1] = NextSection(c, f[i]) /\ g[i + 1] = NextSection(b, g[i])
    BY Zenon, <1>4, <1>5, <2>1
  <2>3. c \in Packets /\ b \in Packets
    BY DEF Cut
  <2>4. ASSUME f[i + 1].ok, g[i + 1].ok
        PROVE  /\ f[i + 1].offset = g[i + 1].offset
               /\ f[i + 1].offset \in Nat /\ f[i + 1].offset <= Len(c)
    <3>1. f[i].ok /\ g[i].ok
      BY Zenon, <2>2, <2>4, StopsAtFailure
    <3>2. f[i].offset = g[i].offset /\ f[i].offset \in Nat
      BY Zenon, <1>7, <3>1
    <3>3. RecordFits(c, f[i].offset, f[i + 1].offset)
      BY Zenon, <2>2, <2>3, <2>4, <3>2, NextFits
    <3>4. RecordFits(b, f[i].offset, g[i + 1].offset)
      BY Zenon, <2>2, <2>3, <2>4, <3>2, NextFits
    <3>5. f[i + 1].offset = g[i + 1].offset
      <4> DEFINE x == f[i].offset
                 y == f[i + 1].offset
                 z == g[i + 1].offset
      <4>1. x \in Nat /\ RecordFits(c, x, y) /\ RecordFits(b, x, z)
        BY Zenon, <3>2, <3>3, <3>4
      <4> HIDE DEF x, y, z
      <4>2. y = z
        BY <4>1, RecordCut
      <4> QED
        BY Zenon, <4>2 DEF y, z
    <3> QED
      BY Zenon, <3>3, <3>5 DEF RecordFits
  <2> QED
    BY Zenon, <2>1, <2>4
<1>8. 0..n \subseteq T
  <2> HIDE DEF T
  <2> QED
    BY <1>6, <1>7, UpwardInduction
<1>9. n \in 0..n
  OBVIOUS
<1> QED
  BY Zenon, <1>3, <1>8, <1>9

\* A whole message is one whose answer section can be read and is the last thing in it.
WholeAnswers(m) ==
    LET question == UnpackName(m, Header, TRUE)
        answer   == UnpackRRSection(m, 256 * Octet(m, 6) + Octet(m, 7), question.end + 4)
    IN  OnlyAnswers(m) /\ question.ok /\ answer.ok /\ answer.offset = Len(m)

\* Without authority and additional records, nothing is kept but the answers.
LEMMA OnlyAnswersKept ==
    ASSUME NEW p, OnlyAnswers(p), NEW m,
           ~UnpackRRSection(p, 256 * Octet(p, 6) + Octet(p, 7), m).ok
    PROVE  Kept(Sections(p, m)) = <<>>
<1> DEFINE f == Sections(p, m)
<1>1. SectionsAre(p, m, f)
  BY Zenon, SectionsInTurn
<1> HIDE DEF f
<1>2. ~f[1].ok
  BY Zenon, <1>1 DEF SectionsAre
<1>3. 256 * 0 + 0 = 0
  OBVIOUS
<1>4. \A x : UnpackRRSection(p, 256 * 0 + 0, x) = Section(TRUE, <<>>, x)
  BY Zenon, <1>3, EmptySection
<1>5. \A x : Section(TRUE, <<>>, x).records = <<>>
  BY DEF Section
<1>6. f[2].records = <<>>
  <2>1. f[2] = UnpackRRSection(p, 256 * 0 + 0, f[1].offset)
    BY Zenon, <1>1 DEF SectionsAre, OnlyAnswers
  <2> QED
    BY Zenon, <1>4, <1>5, <2>1
<1>7. f[3].records = <<>>
  <2>1. f[3] = UnpackRRSection(p, 256 * 0 + 0, f[2].offset)
    BY Zenon, <1>1 DEF SectionsAre, OnlyAnswers
  <2> QED
    BY Zenon, <1>4, <1>5, <2>1
<1>8. Kept(f) = <<>> \o <<>> \o <<>>
  BY Zenon, <1>2, <1>6, <1>7 DEF Kept
<1>9. <<>> \o <<>> \o <<>> = <<>>
  OBVIOUS
<1> QED
  BY Zenon, <1>8, <1>9 DEF f

\* What is received is part of the message it is cut off from.
CutInv == whole # <<>> => Cut(packet, whole)

LEMMA AlwaysCut == MessageSpec => []CutInv
<1>1. ASSUME MessageInit PROVE CutInv
  <2>1. CASE whole = <<>>
    BY <2>1 DEF CutInv
  <2>2. CASE whole # <<>>
    <3>1. packet = whole /\ whole \in Packets
      BY <1>1, <2>2, MessagesAssumption DEF MessageInit, Packets
    <3>2. Len(whole) <= Len(whole)
      BY <3>1, LenProperties DEF Packets
    <3> QED
      BY Zenon, <3>1, <3>2 DEF CutInv, Cut
  <2> QED
    BY <2>1, <2>2
<1>2. ASSUME CutInv, [MessageNext]_messages PROVE CutInv'
  <2>1. CASE UNCHANGED messages
    BY <1>2, <2>1 DEF CutInv, messages
  <2>2. CASE \E octet \in Octets : Receive(octet)
    BY <1>2, <2>2 DEF CutInv, Receive
  <2>3. CASE CutOff
    <3>1. whole' = whole /\ whole # <<>> /\ packet # <<>> /\ packet' = SubSeq(packet, 1, Len(packet) - 1)
      BY <2>3 DEF CutOff, Front
    <3>2. Cut(packet, whole)
      BY <1>2, <3>1 DEF CutInv
    <3> DEFINE c == packet
               n == Len(packet)
               d == SubSeq(packet, 1, Len(packet) - 1)
    <3>3. c \in Seq(0..255) /\ n \in Nat /\ n # 0 /\ n <= Len(whole) /\ Len(whole) \in Nat
          /\ whole \in Packets
      BY <3>1, <3>2, LenProperties, EmptySeq DEF Cut, Packets
    <3>4. /\ d \in Packets /\ Len(d) = n - 1 /\ \A i \in 1..n - 1 : d[i] = c[i]
      <4> DEFINE x == n - 1
                 u == Slice(c, 0, x)
      <4>1. x \in Nat /\ x <= Len(c) /\ 0 \in Nat /\ 0 <= x /\ x - 0 = x /\ 0 + 1 = 1
        BY <3>3
      <4>2. \A i \in 1..x : 0 + i - 1 = i - 1 /\ (i - 1) + 1 = i
        BY <4>1
      <4>3. c \in Packets
        BY Zenon, <3>3 DEF Packets
      <4> HIDE DEF x, c
      <4>4. u \in Packets /\ Len(u) = x - 0 /\ \A i \in 1..x - 0 : u[i] = Octet(c, 0 + i - 1)
        BY Zenon, <4>1, <4>3, SliceType
      <4>5. \A i \in 1..x : u[i] = c[i]
        BY Zenon, <4>1, <4>2, <4>4 DEF Octet
      <4>6. u = d
        BY Zenon, <4>1 DEF Slice, x, c
      <4> QED
        BY Zenon, <4>1, <4>4, <4>5, <4>6 DEF x, c
    <3> HIDE DEF d, n
    <3>5. Len(d) <= Len(whole)
      BY <3>3, <3>4
    <3>6. ASSUME NEW o \in 0..Len(d) - 1 PROVE Octet(d, o) = Octet(whole, o)
      <4>1. o + 1 \in 1..n - 1 /\ o \in 0..n - 1
        BY <3>3, <3>4
      <4>2. Octet(c, o) = Octet(whole, o)
        BY Zenon, <3>2, <4>1 DEF Cut, n
      <4>3. d[o + 1] = c[o + 1]
        BY Zenon, <3>4, <4>1
      <4> QED
        BY Zenon, <4>2, <4>3 DEF Octet
    <3>7. Cut(d, whole)
      BY Zenon, <3>3, <3>4, <3>5, <3>6 DEF Cut
    <3> QED
      BY <3>1, <3>7 DEF CutInv, d, Cut, Octet
  <2> QED
    BY <1>2, <2>1, <2>2, <2>3 DEF MessageNext
<1> QED
  BY <1>1, <1>2, PTL DEF MessageSpec

\* Wherever a response is cut whose only records are answers, and with which it ends, all of
\* the answers are kept or none.  With other sections this does not hold of every message:
\* the next section is then read from the middle of a record that is cut, whose data may
\* read as a record.
THEOREM AnswersAreCutWhole == MessageSpec => [](WholeAnswers(whole) => WholeSections)
<1>1. CutInv => (WholeAnswers(whole) => WholeSections)
  <2> SUFFICES ASSUME Cut(packet, whole), WholeAnswers(whole), ParseResponse(packet).ok
               PROVE  ParseResponse(packet).records \in
                        { <<>>, Kept(Sections(whole, UnpackName(whole, Header, TRUE).end + 4)) }
    BY Zenon DEF CutInv, WholeSections, WholeRecords
  <2> DEFINE question == UnpackName(packet, Header, TRUE)
             asked == UnpackName(whole, Header, TRUE)
             n == 256 * Octet(packet, 6) + Octet(packet, 7)
             k == Len(packet)
             m == question.end + 4
             answer == UnpackRRSection(packet, n, m)
  <2>1. packet \in Packets /\ whole \in Packets /\ k \in Nat /\ Len(whole) \in Nat
        /\ k <= Len(whole)
    BY LenProperties DEF Cut, Packets
  <2>2. /\ ~(k < Header) /\ question.ok /\ ~(m > k)
        /\ ParseResponse(packet).records = Kept(Sections(packet, m))
    <3> DEFINE rcode == Octet(packet, 3) % 16
               kept == Kept(Sections(packet, m))
               result == [ok |-> TRUE, records |-> kept,
                          nxdomain |-> rcode = RcodeNXDomain /\ kept = <<>>]
               r == ParseResponse(packet)
    <3>1. r = IF k < Header THEN Failure
              ELSE IF rcode \notin {0, RcodeNXDomain} THEN Failure
              ELSE IF ~question.ok THEN Failure
              ELSE IF m > k THEN Failure
              ELSE result
      BY Zenon DEF ParseResponse
    <3>2. r.ok /\ ~Failure.ok
      BY NamesType
    <3>3. result.records = kept
      OBVIOUS
    <3> HIDE DEF r, result, rcode, kept
    <3> QED
      BY Zenon, <3>1, <3>2, <3>3 DEF r, kept
  <2>3. question.end \in Nat /\ Header < k
    <3>1. ~(Header < k) => ~question.ok
      BY Zenon, NamesType, UnpackNameIsNamesTo
    <3>2. Header < k
      BY Zenon, <2>2, <3>1
    <3>3. Header \in Nat /\ TRUE \in BOOLEAN /\ Header \in Header..k
      BY <2>1, <3>2 DEF Header
    <3>4. question = Left(packet, Header, TRUE)[Header] /\ Left(packet, Header, TRUE)[Header] \in Names
      BY <2>1, <3>2, <3>3, UnpackNameRecursion
    <3> HIDE DEF question
    <3>5. question \in Names
      BY Zenon, <3>4
    <3> QED
      BY Zenon, <2>2, <3>2, <3>5, NamesType
  <2>4. m \in Nat /\ m <= k /\ question.end # k
    <3> HIDE DEF question
    <3> QED
      BY <2>1, <2>2, <2>3
  <2>5. asked.ok /\ UnpackRRSection(whole, 256 * Octet(whole, 6) + Octet(whole, 7), asked.end + 4).ok
        /\ UnpackRRSection(whole, 256 * Octet(whole, 6) + Octet(whole, 7), asked.end + 4).offset
              = Len(whole)
        /\ OnlyAnswers(whole)
    BY Zenon DEF WholeAnswers
  <2>6. asked.end = question.end
    <3>1. EndsAlike(question, asked, k)
      <4>1. Header \in Nat /\ TRUE \in BOOLEAN
        BY DEF Header
      <4> QED
        BY Zenon, <4>1, NameCut
    <3> QED
      BY Zenon, <2>2, <2>4, <2>5, <3>1 DEF EndsAlike
  <2> HIDE DEF question, asked
  <2>7. \A o \in 6..11 : Octet(packet, o) = Octet(whole, o)
    <3>1. \A o \in 6..11 : o \in 0..k - 1
      BY <2>1, <2>3 DEF Header
    <3> QED
      BY Zenon, <3>1 DEF Cut
  <2>8. 256 * Octet(whole, 6) + Octet(whole, 7) = n /\ OnlyAnswers(packet)
    <3>1. /\ Octet(packet, 6) = Octet(whole, 6) /\ Octet(packet, 7) = Octet(whole, 7)
          /\ Octet(packet, 8) = Octet(whole, 8) /\ Octet(packet, 9) = Octet(whole, 9)
          /\ Octet(packet, 10) = Octet(whole, 10) /\ Octet(packet, 11) = Octet(whole, 11)
      BY <2>7
    <3> QED
      BY Zenon, <2>5, <3>1 DEF OnlyAnswers
  <2>9. n \in Nat
    <3>1. 6 \in 0..k - 1 /\ 7 \in 0..k - 1
      BY <2>1, <2>3 DEF Header
    <3>2. Octet(packet, 6) \in 0..255 /\ Octet(packet, 7) \in 0..255
      BY <2>1, <3>1, OctetType
    <3> DEFINE x == Octet(packet, 6)
               y == Octet(packet, 7)
    <3>3. x \in 0..255 /\ y \in 0..255
      BY Zenon, <3>2
    <3> HIDE DEF x, y
    <3>4. 256 * x + y \in Nat
      BY <3>3
    <3> QED
      BY Zenon, <3>4 DEF x, y
  <2> HIDE DEF n
  <2>10. CASE answer.ok
    <3>1. /\ UnpackRRSection(whole, n, m).ok
          /\ UnpackRRSection(whole, n, m).offset = Len(whole)
      BY Zenon, <2>5, <2>6, <2>8
    <3>2. answer.offset = Len(whole) /\ answer.offset <= k
      BY Zenon, <2>4, <2>9, <2>10, <3>1, SectionCut
    <3>3. k = Len(whole)
      <4> DEFINE x == answer.offset
      <4>1. x = Len(whole) /\ x <= k
        BY Zenon, <3>2
      <4> HIDE DEF x
      <4> QED
        BY <2>1, <4>1
    <3>4. ASSUME NEW i \in 1..k PROVE packet[i] = whole[i]
      <4>1. i - 1 \in 0..k - 1 /\ (i - 1) + 1 = i
        BY <2>1
      <4>2. Octet(packet, i - 1) = Octet(whole, i - 1)
        BY Zenon, <4>1 DEF Cut
      <4> QED
        BY Zenon, <4>1, <4>2 DEF Octet
    <3>5. packet = whole
      <4>1. packet \in Seq(0..255) /\ whole \in Seq(0..255)
        BY Zenon, <2>1 DEF Packets
      <4> QED
        BY Zenon, <3>3, <3>4, <4>1, SeqEqual
    <3> QED
      BY Zenon, <2>2, <2>6, <3>5 DEF asked
  <2>11. CASE ~answer.ok
    <3>1. Kept(Sections(packet, m)) = <<>>
      BY Zenon, <2>8, <2>11, OnlyAnswersKept DEF n
    <3> QED
      BY Zenon, <2>2, <3>1
  <2> QED
    BY Zenon, <2>10, <2>11
<1> QED
  BY <1>1, AlwaysCut, PTL

=============================================================================
