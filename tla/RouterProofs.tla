---------------------------- MODULE RouterProofs ----------------------------
(***************************************************************************)
(* That the rule file keeps what a server has used, and that names go to   *)
(* the pool the list says, for every set of lists and names.  What         *)
(* parseRules has found after each line is proved by induction over the    *)
(* lines; the induction principle is stated for a set of numbers.          *)
(***************************************************************************)
EXTENDS Router, SequenceTheorems, WellFoundedInduction, TLAPS

-----------------------------------------------------------------------------
(* Induction over the natural numbers *)

Smaller == {ss \in Nat \X Nat : ss[1] < ss[2]}

LEMMA SetInduction ==
    ASSUME NEW T \in SUBSET Nat, 0 \in T, \A n \in T : n + 1 \in T
    PROVE  T = Nat
<1>1. OpToRel(<, Nat) = Smaller
  BY Zenon DEF OpToRel, Smaller
<1>2. IsWellFoundedOn(Smaller, Nat)
  BY Zenon, <1>1, NatLessThanWellFounded
<1> SUFFICES ASSUME Nat \ T # {} PROVE FALSE
  OBVIOUS
<1>3. PICK x \in Nat \ T : \A y \in Nat \ T : <<y, x>> \notin Smaller
  <2>1. Nat \ T \subseteq Nat
    OBVIOUS
  <2> QED
    BY Zenon, <1>2, <2>1, WFMin
<1>4. x - 1 \in Nat /\ x - 1 < x /\ x - 1 + 1 = x
  OBVIOUS
<1>5. x - 1 \notin T
  BY <1>4
<1>6. <<x - 1, x>> \in Smaller
  BY <1>4 DEF Smaller
<1> QED
  BY <1>3, <1>4, <1>5, <1>6

-----------------------------------------------------------------------------
(* What parseRules finds *)

Empty == [over |-> FALSE, found |-> {}]

IsAfter(g, list, n) ==
    g = [i \in 0..n |-> IF i = 0 THEN Empty ELSE AfterLine(g[i - 1], list[i])]

LEMMA AfterExists == ASSUME NEW list PROVE \A n \in Nat : \E g : IsAfter(g, list, n)
<1> DEFINE T == {n \in Nat : \E g : IsAfter(g, list, n)}
<1>1. 0 \in T
  <2> DEFINE g == [i \in 0..0 |-> Empty]
  <2>1. IsAfter(g, list, 0)
    BY DEF IsAfter
  <2> QED
    BY <2>1
<1>2. ASSUME NEW n \in T PROVE n + 1 \in T
  <2>1. PICK g : IsAfter(g, list, n)
    OBVIOUS
  <2> DEFINE h == [i \in 0..n + 1 |-> IF i = n + 1 THEN AfterLine(g[n], list[n + 1]) ELSE g[i]]
  <2>2. \A i \in 0..n : g[i] = IF i = 0 THEN Empty ELSE AfterLine(g[i - 1], list[i])
    BY <2>1 DEF IsAfter
  <2>3. \A i \in 0..n + 1 : h[i] = IF i = 0 THEN Empty ELSE AfterLine(h[i - 1], list[i])
    <3> SUFFICES ASSUME NEW i \in 0..n + 1
                 PROVE  h[i] = IF i = 0 THEN Empty ELSE AfterLine(h[i - 1], list[i])
      OBVIOUS
    <3>1. CASE i = n + 1
      <4>1. h[i] = AfterLine(g[n], list[n + 1]) /\ h[n] = g[n] /\ i # 0 /\ i - 1 = n
        BY <3>1
      <4> QED
        BY <3>1, <4>1
    <3>2. CASE i # n + 1
      <4>1. i \in 0..n /\ h[i] = g[i] /\ (i # 0 => i - 1 \in 0..n /\ h[i - 1] = g[i - 1])
        BY <3>2
      <4> HIDE DEF h
      <4> QED
        BY <2>2, <4>1
    <3> QED
      BY <3>1, <3>2
  <2>4. h = [i \in 0..n + 1 |-> h[i]]
    OBVIOUS
  <2> HIDE DEF h
  <2>5. IsAfter(h, list, n + 1)
    BY <2>3, <2>4 DEF IsAfter
  <2> QED
    BY <2>5
<1> HIDE DEF T
<1>3. T = Nat
  BY <1>1, <1>2, SetInduction DEF T
<1> QED
  BY <1>3 DEF T

\* Line i is ahead of the whitelist.
Ahead(list, i) == \A j \in 1..i : ~list[j].whitelist

\* The rules are those of the lines ahead of the whitelist.
LEMMA Parsed ==
    ASSUME NEW list \in Seq(Lines)
    PROVE  \A rule : rule \in ParseRules(list) <=>
                \E i \in 1..Len(list) : Ahead(list, i) /\ rule \in RulesOf(list[i])
<1> DEFINE N == Len(list)
           g == CHOOSE f : IsAfter(f, list, N)
           Right(n) == /\ g[n].over \in BOOLEAN
                       /\ g[n] = [over |-> g[n].over, found |-> g[n].found]
                       /\ ~g[n].over <=> Ahead(list, n)
                       /\ \A rule : rule \in g[n].found <=>
                             \E i \in 1..n : Ahead(list, i) /\ rule \in RulesOf(list[i])
           T == {n \in Nat : n <= N => Right(n)}
<1>1. N \in Nat /\ \A j \in 1..N : list[j].whitelist \in BOOLEAN
  <2>1. \A j \in 1..N : list[j] \in Lines
    BY ElementOfSeq
  <2>2. \A line \in Lines : line.whitelist \in BOOLEAN
    BY DEF Lines
  <2> QED
    BY <2>1, <2>2, LenProperties
<1>2. IsAfter(g, list, N)
  BY <1>1, AfterExists
<1>3. ParseRules(list) = g[N].found
  BY Zenon DEF ParseRules, IsAfter, Empty
<1> HIDE DEF g
<1>4. g[0] = Empty /\ \A i \in 1..N : g[i] = AfterLine(g[i - 1], list[i])
  <2>1. \A i \in 0..N : g[i] = IF i = 0 THEN Empty ELSE AfterLine(g[i - 1], list[i])
    BY <1>2 DEF IsAfter
  <2> QED
    BY <1>1, <2>1
<1>5. 0 \in T
  <2>1. /\ g[0].over = FALSE /\ g[0].found = {}
        /\ g[0] = [over |-> FALSE, found |-> {}]
    BY <1>4 DEF Empty
  <2>2. Ahead(list, 0)
    BY DEF Ahead
  <2>3. Right(0)
    BY <2>1, <2>2
  <2> HIDE DEF Right
  <2> QED
    BY <2>3
<1>6. ASSUME NEW n \in T PROVE n + 1 \in T
  <2> SUFFICES ASSUME n + 1 <= N PROVE Right(n + 1)
    OBVIOUS
  <2>1. n \in Nat /\ n + 1 \in 1..N /\ n + 1 - 1 = n /\ Right(n)
    BY <1>1
  <2>2. g[n + 1] = AfterLine(g[n], list[n + 1]) /\ list[n + 1].whitelist \in BOOLEAN
    BY <1>1, <1>4, <2>1
  <2>3. Ahead(list, n + 1) <=> Ahead(list, n) /\ ~list[n + 1].whitelist
    BY <2>1 DEF Ahead
  <2>4. \A rule : (\E i \in 1..(n + 1) : Ahead(list, i) /\ rule \in RulesOf(list[i]))
           <=> \/ \E i \in 1..n : Ahead(list, i) /\ rule \in RulesOf(list[i])
               \/ Ahead(list, n + 1) /\ rule \in RulesOf(list[n + 1])
    BY <2>1
  <2>5. CASE g[n].over \/ list[n + 1].whitelist
    <3>1. g[n + 1] = [over |-> TRUE, found |-> g[n].found]
      BY <2>1, <2>2, <2>5 DEF AfterLine
    <3> QED
      BY <2>1, <2>3, <2>4, <2>5, <3>1
  <2>6. CASE ~(g[n].over \/ list[n + 1].whitelist)
    <3>1. g[n + 1] = [over |-> g[n].over, found |-> g[n].found \cup RulesOf(list[n + 1])]
      BY <2>1, <2>2, <2>6 DEF AfterLine
    <3> QED
      BY <2>1, <2>3, <2>4, <2>6, <3>1
  <2> QED
    BY <2>5, <2>6
<1>7. T = Nat
  <2> HIDE DEF T
  <2> QED
    BY <1>5, <1>6, SetInduction DEF T
<1>8. Right(N)
  <2>1. N \in T
    BY Zenon, <1>1, <1>7
  <2> QED
    BY <1>1, <2>1
<1> QED
  BY <1>3, <1>8

-----------------------------------------------------------------------------
(* What the rules say of a name *)

\* A sequence is a suffix of another if it is what is left from some place on.
LEMMA SuffixFromSomePlace ==
    ASSUME NEW S, NEW s \in Seq(S), NEW t \in Seq(S), s # <<>>
    PROVE  IsSuffix(s, t) <=> \E i \in 1..Len(t) : s = SubSeq(t, i, Len(t))
<1> DEFINE m == Len(s)
           n == Len(t)
           rs == Reverse(s)
           rt == Reverse(t)
<1>1. /\ m \in Nat \ {0} /\ n \in Nat /\ DOMAIN s = 1..m /\ DOMAIN t = 1..n
      /\ \A i \in 1..m : s[i] \in S
      /\ \A i \in 1..n : t[i] \in S
  <2>1. m \in Nat /\ n \in Nat /\ DOMAIN s = 1..m /\ DOMAIN t = 1..n
    BY LenProperties
  <2>2. m # 0
    BY EmptySeq
  <2> QED
    BY <2>1, <2>2, ElementOfSeq
<1>2. /\ rs \in Seq(S) /\ Len(rs) = m /\ \A i \in 1..m : rs[i] = s[m - i + 1]
      /\ rt \in Seq(S) /\ Len(rt) = n /\ \A i \in 1..n : rt[i] = t[n - i + 1]
  BY <1>1 DEF Reverse
<1> DEFINE Agree == m <= n /\ \A i \in 1..m : s[i] = t[n - m + i]
<1>3. IsSuffix(s, t) <=> Agree
  <2>1. IsSuffix(s, t) <=> m <= n /\ SubSeq(rs, 1, m) = SubSeq(rt, 1, m)
    BY <1>2 DEF IsSuffix, IsPrefix
  <2> SUFFICES ASSUME m <= n
               PROVE  SubSeq(rs, 1, m) = SubSeq(rt, 1, m)
                        <=> \A i \in 1..m : s[i] = t[n - m + i]
    BY <2>1
  <2>2. /\ SubSeq(rs, 1, m) \in Seq(S) /\ Len(SubSeq(rs, 1, m)) = m
        /\ \A i \in 1..m : SubSeq(rs, 1, m)[i] = s[m - i + 1]
    BY <1>1, <1>2
  <2>3. /\ SubSeq(rt, 1, m) \in Seq(S) /\ Len(SubSeq(rt, 1, m)) = m
        /\ \A i \in 1..m : SubSeq(rt, 1, m)[i] = t[n - i + 1]
    BY <1>1, <1>2
  <2>4. SubSeq(rs, 1, m) = SubSeq(rt, 1, m)
          <=> \A i \in 1..m : SubSeq(rs, 1, m)[i] = SubSeq(rt, 1, m)[i]
    BY <1>1, <2>2, <2>3
  <2>5. SubSeq(rs, 1, m) = SubSeq(rt, 1, m) <=> \A i \in 1..m : s[m - i + 1] = t[n - i + 1]
    BY <2>2, <2>3, <2>4
  <2>6. (\A i \in 1..m : s[m - i + 1] = t[n - i + 1]) <=> \A i \in 1..m : s[i] = t[n - m + i]
    <3>1. ASSUME \A i \in 1..m : s[m - i + 1] = t[n - i + 1], NEW i \in 1..m
          PROVE  s[i] = t[n - m + i]
      <4>1. m - i + 1 \in 1..m /\ m - (m - i + 1) + 1 = i /\ n - (m - i + 1) + 1 = n - m + i
        BY <1>1
      <4> QED
        BY <3>1, <4>1
    <3>2. ASSUME \A i \in 1..m : s[i] = t[n - m + i], NEW i \in 1..m
          PROVE  s[m - i + 1] = t[n - i + 1]
      <4>1. m - i + 1 \in 1..m /\ n - m + (m - i + 1) = n - i + 1
        BY <1>1
      <4> QED
        BY <3>2, <4>1
    <3> QED
      BY <3>1, <3>2
  <2> QED
    BY <2>5, <2>6
<1>4. ASSUME Agree PROVE \E i \in 1..n : s = SubSeq(t, i, n)
  <2>1. n - m + 1 \in 1..n /\ n - (n - m + 1) + 1 = m
    BY <1>1, <1>4
  <2>2. /\ SubSeq(t, n - m + 1, n) \in Seq(S) /\ Len(SubSeq(t, n - m + 1, n)) = m
        /\ \A i \in 1..m : SubSeq(t, n - m + 1, n)[i] = t[n - m + 1 + i - 1]
    BY <1>1, <2>1, SubSeqProperties
  <2>3. \A i \in 1..m : n - m + 1 + i - 1 = n - m + i
    BY <1>1
  <2> DEFINE u == SubSeq(t, n - m + 1, n)
  <2>5. u \in Seq(S) /\ Len(u) = m /\ \A i \in 1..m : u[i] = s[i]
    BY <1>4, <2>2, <2>3
  <2> HIDE DEF u
  <2>6. s = u
    BY <1>1, <2>5
  <2>4. s = SubSeq(t, n - m + 1, n)
    BY <2>6 DEF u
  <2> QED
    BY <2>1, <2>4
<1>5. ASSUME NEW i \in 1..n, s = SubSeq(t, i, n) PROVE Agree
  <2>1. /\ Len(SubSeq(t, i, n)) = n - i + 1
        /\ \A j \in 1..(n - i + 1) : SubSeq(t, i, n)[j] = t[i + j - 1]
    BY <1>1
  <2>2. m = n - i + 1
    BY <1>5, <2>1
  <2>3. \A j \in 1..m : i + j - 1 = n - m + j
    BY <1>1, <2>2
  <2> QED
    BY <1>1, <1>5, <2>1, <2>2, <2>3
<1> QED
  BY <1>3, <1>4, <1>5

LEMMA NormalizeSeq ==
    ASSUME NEW d \in Seq(Labels)
    PROVE  Normalize(d) \in Seq(Labels) /\ Len(Normalize(d)) = Len(d)
<1>1. /\ Len(d) \in Nat /\ DOMAIN d = 1..Len(d) /\ \A i \in 1..Len(d) : d[i] \in Labels
  BY LenProperties, ElementOfSeq
<1>2. \A i \in 1..Len(d) : Lower[d[i]] \in Labels
  BY <1>1, NamesAssumption
<1> HIDE DEF Labels
<1> QED
  BY <1>1, <1>2 DEF Normalize

\* Route finds exactly the names that the list, or a parent of them, is in.
LEMMA RouteIsListed ==
    ASSUME NEW list \in Seq(Lines), domains = ParseRules(list), NEW d \in Seq(Labels)
    PROVE  RouteProxy(d) <=> Listed(list, d)
<1> DEFINE name == Normalize(d)
           n == Len(name)
<1>1. name \in Seq(Labels) /\ n \in Nat /\ DOMAIN list = 1..Len(list)
  BY NormalizeSeq, LenProperties
<1>2. \A i \in 1..Len(list) : list[i].names \subseteq Seq(Labels)
  <2>1. \A j \in 1..Len(list) : list[j] \in Lines
    BY ElementOfSeq
  <2>2. \A line \in Lines : line.names \subseteq Seq(Labels)
    BY DEF Lines
  <2> QED
    BY <2>1, <2>2
<1>3. \A r : r \in domains => r \in Seq(Labels) /\ Len(r) > 1
  <2> SUFFICES ASSUME NEW r, r \in domains PROVE r \in Seq(Labels) /\ Len(r) > 1
    OBVIOUS
  <2>1. PICK i \in 1..Len(list) : r \in RulesOf(list[i])
    BY Parsed
  <2>2. PICK rule \in list[i].names : Len(rule) > 1 /\ r = Normalize(rule)
    BY <2>1 DEF RulesOf
  <2> QED
    BY <1>2, <2>2, NormalizeSeq
<1>4. RouteProxy(d) <=> \E i \in 1..n : SubSeq(name, i, n) \in domains
  <2>1. SubSeq(name, 1, n) = name
    BY <1>1, SubSeqFull
  <2>2. name \in domains => n > 1
    BY <1>3
  <2>3. \A i \in 1..n : i = 1 \/ i \in 2..n
    BY <1>1
  <2>4. \A i \in 2..n : i \in 1..n
    BY <1>1
  <2>5. RouteProxy(d) <=> name \in domains \/ \E i \in 2..n : SubSeq(name, i, n) \in domains
    BY DEF RouteProxy
  <2>6. n > 1 => 1 \in 1..n
    BY <1>1
  <2> HIDE DEF name, n
  <2> QED
    BY <2>1, <2>2, <2>3, <2>4, <2>5, <2>6
<1>5. ASSUME NEW r, r \in domains
      PROVE  (\E i \in 1..n : SubSeq(name, i, n) = r) <=> IsSuffix(r, name)
  <2>1. r \in Seq(Labels) /\ r # <<>>
    BY <1>3, <1>5
  <2> QED
    BY <1>1, <2>1, SuffixFromSomePlace
<1>6. RouteProxy(d) <=> \E r \in domains : IsSuffix(r, name)
  BY <1>4, <1>5
<1>7. \A r : r \in domains <=>
        \E i \in 1..Len(list) :
           /\ Ahead(list, i) /\ ~list[i].comment
           /\ \E rule \in list[i].names : Len(rule) > 1 /\ r = Normalize(rule)
  <2>1. \A i \in 1..Len(list) : \A r : r \in RulesOf(list[i]) <=>
           ~list[i].comment /\ \E rule \in list[i].names : Len(rule) > 1 /\ r = Normalize(rule)
    BY DEF RulesOf
  <2>2. \A r : r \in domains <=>
           \E i \in 1..Len(list) : Ahead(list, i) /\ r \in RulesOf(list[i])
    BY Parsed, Zenon
  <2> DEFINE Found(i, r) == r \in RulesOf(list[i])
             Named(i, r) == /\ ~list[i].comment
                            /\ \E rule \in list[i].names : Len(rule) > 1 /\ r = Normalize(rule)
  <2>3. \A i \in 1..Len(list) : \A r : Found(i, r) <=> Named(i, r)
    BY <2>1
  <2>4. \A r : r \in domains <=> \E i \in 1..Len(list) : Ahead(list, i) /\ Found(i, r)
    BY <2>2
  <2> HIDE DEF Found, Named
  <2>5. \A r : r \in domains <=> \E i \in 1..Len(list) : Ahead(list, i) /\ Named(i, r)
    BY <2>3, <2>4
  <2> QED
    BY <2>5 DEF Named
<1>8. Listed(list, d) <=>
        \E i \in 1..Len(list) :
           /\ Ahead(list, i) /\ ~list[i].comment
           /\ \E rule \in list[i].names : Len(rule) > 1 /\ IsSuffix(Normalize(rule), name)
  BY <1>1 DEF Listed, Ahead
<1> HIDE DEF name
<1> QED
  BY <1>6, <1>7, <1>8

-----------------------------------------------------------------------------
(* The invariant *)

TypeInv ==
    /\ source \in Lists /\ published \in Lists
    /\ unread => content \in Lists

\* A start that got its list from the file carries the list the file was given,
\* and so does any other once the file is open for writing.
Carried ==
    /\ ~cut /\ step \in {"open", "serving"} /\ ~unread => content = source
    /\ ~cut /\ step = "write" => content = source
    /\ ~cut /\ step = "serving" /\ content # <<>> => content = source
    /\ step = "open" => content # <<>>

\* The rules are those of the list it has loaded.
RulesOfContent == step \in {"open", "write", "serving"} => domains = ParseRules(content)

IInv == TypeInv /\ Carried /\ RulesOfContent /\ RulesSurvive

LEMMA InitIInv == Init => IInv
<1> SUFFICES ASSUME Init PROVE IInv
    OBVIOUS
<1>1. file.lines = source /\ source \in Seq(Lines) /\ step = "stopped"
    BY ListsAssumption DEF Init
<1> QED
    BY <1>1, ListsAssumption DEF Init, IInv, TypeInv, Carried, RulesOfContent, RulesSurvive

LEMMA NextIInv == IInv /\ [Next]_vars => IInv'
<1> SUFFICES ASSUME IInv, [Next]_vars PROVE IInv'
    OBVIOUS
<1> USE ListsAssumption DEF IInv, TypeInv, Carried, RulesOfContent, RulesSurvive, config, router, history
<1>1. ASSUME NEW error \in BOOLEAN, LoadFile(error) PROVE IInv'
    BY <1>1 DEF LoadFile, Loaded, ReadFile, GotNothing
<1>2. ASSUME NEW error \in BOOLEAN, Download(error) PROVE IInv'
    BY <1>2 DEF Download, Loaded, ReadFile, GotNothing
<1>3. CASE OpenFails
    BY <1>3 DEF OpenFails, StartFails
<1>4. CASE Truncate
    BY <1>4 DEF Truncate
<1>5. CASE Write
    BY <1>5 DEF Write, Plain
<1>6. CASE WriteCut
    BY <1>6 DEF WriteCut, StartFails
<1>7. CASE Stop
    BY <1>7 DEF Stop, StartFails
<1>8. CASE Publish \/ Configure \/ UNCHANGED vars
    BY <1>8 DEF Publish, Configure, vars
<1>9. CASE Edit
    BY <1>9 DEF Edit
<1> QED
    BY <1>1, <1>2, <1>3, <1>4, <1>5, <1>6, <1>7, <1>8, <1>9 DEF Next

\* Whatever lists there are, and whatever reads, writes and starts fail, the file
\* holds what the user or a download last gave it (router.go:40-56, 109-131).
THEOREM RulesSurviveHolds == Spec => []RulesSurvive
<1>1. IInv => RulesSurvive
    BY DEF IInv
<1> QED
    BY <1>1, InitIInv, NextIInv, PTL DEF Spec

\* In rules mode a name goes to the proxy pool exactly if the list the file was
\* last given has it or a parent of it ahead of the whitelist, for every list and
\* every name, but for a server that has no list (router.go:61-80, 109-131,
\* 156-178; service.go:114-126).
THEOREM RoutedAsListedHolds == Spec => []RoutedAsListed
<1>1. IInv => RoutedAsListed
    <2> SUFFICES ASSUME IInv, step = "serving", ~cut, ~(unread /\ content = <<>>),
                        mode \notin {"direct", "proxy"},
                        NEW d \in Domains
                 PROVE  Pool(d) = "proxy" <=> Listed(source, d)
        BY DEF RoutedAsListed
    <2>1. domains = ParseRules(source) /\ source \in Seq(Lines)
        BY ListsAssumption DEF IInv, TypeInv, Carried, RulesOfContent
    <2>2. d \in Seq(Labels)
        BY NamesAssumption
    <2>3. RouteProxy(d) <=> Listed(source, d)
        BY <2>1, <2>2, RouteIsListed
    <2> QED
        BY <2>3 DEF Pool
<1> QED
    BY <1>1, InitIInv, NextIInv, PTL DEF Spec
=============================================================================
