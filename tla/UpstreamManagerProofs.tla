------------------------ MODULE UpstreamManagerProofs ------------------------
(***************************************************************************)
(* One call of ResolveAll, proved for any pool and any replies.            *)
(*                                                                         *)
(* Loops over sequences need induction.  NatSetInduction states it for a   *)
(* set, T == {n \in Nat : P(n)}, instead of for an operator.               *)
(***************************************************************************)
EXTENDS UpstreamManager, SequenceTheorems, WellFoundedInduction, TLAPS

Below == {ss \in Nat \X Nat : ss[1] < ss[2]}

LEMMA BelowWellFounded == IsWellFoundedOn(Below, Nat)
  <1>1. OpToRel(<, Nat) = Below
    BY Zenon DEF OpToRel, Below
  <1>2. IsWellFoundedOn(OpToRel(<, Nat), Nat)
    BY Zenon, NatLessThanWellFounded
  <1> QED BY Zenon, <1>1, <1>2

LEMMA NatSetInduction ==
  ASSUME NEW T \in SUBSET Nat, 0 \in T, \A n \in T : n + 1 \in T
  PROVE  T = Nat
  <1> SUFFICES ASSUME Nat \ T # {} PROVE FALSE
    OBVIOUS
  <1>1. PICK x \in Nat \ T : \A y \in Nat \ T : <<y, x>> \notin Below
    <2>1. Nat \ T \subseteq Nat
      OBVIOUS
    <2> QED BY Zenon, <2>1, BelowWellFounded, WFMin
  <1>2. x - 1 \in Nat /\ x - 1 < x /\ x - 1 + 1 = x
    OBVIOUS
  <1>3. x - 1 \notin T
    BY <1>2
  <1>4. <<x - 1, x>> \in Below
    BY <1>2 DEF Below
  <1> QED BY <1>1, <1>2, <1>3, <1>4

-----------------------------------------------------------------------------
(* Sequences and their elements *)

\* The elements of u are those of s and then those of t.
IsConcat(u, s, t) ==
    /\ Len(s) \in Nat /\ DOMAIN s \subseteq 1..Len(s) /\ DOMAIN t \subseteq Nat \ {0}
    /\ DOMAIN u \subseteq Nat
    /\ \A i \in DOMAIN s : i \in DOMAIN u /\ u[i] = s[i]
    /\ \A i \in DOMAIN t : i + Len(s) \in DOMAIN u /\ u[i + Len(s)] = t[i]
    /\ \A i \in DOMAIN u : \/ i \in DOMAIN s /\ u[i] = s[i]
                           \/ i - Len(s) \in DOMAIN t /\ u[i] = t[i - Len(s)]

LEMMA ConcatByIndex ==
  ASSUME NEW S, NEW s \in Seq(S), NEW t \in Seq(S), NEW u \in Seq(S),
         Len(u) = Len(s) + Len(t),
         \A i \in 1..Len(s) + Len(t) : u[i] = IF i <= Len(s) THEN s[i] ELSE t[i - Len(s)]
  PROVE  IsConcat(u, s, t)
  <1>1. /\ DOMAIN s = 1..Len(s) /\ DOMAIN t = 1..Len(t) /\ DOMAIN u = 1..Len(s) + Len(t)
        /\ Len(s) \in Nat /\ Len(t) \in Nat
    BY LenProperties
  <1>2. \A i \in DOMAIN s : i \in DOMAIN u /\ u[i] = s[i]
    BY <1>1
  <1>3. \A i \in DOMAIN t : i + Len(s) \in DOMAIN u /\ u[i + Len(s)] = t[i]
    <2> SUFFICES ASSUME NEW i \in DOMAIN t
                 PROVE  i + Len(s) \in DOMAIN u /\ u[i + Len(s)] = t[i]
      OBVIOUS
    <2>1. i + Len(s) \in 1..Len(s) + Len(t) /\ ~(i + Len(s) <= Len(s))
          /\ i + Len(s) - Len(s) = i
      BY <1>1
    <2> QED BY <1>1, <2>1
  <1>4. \A i \in DOMAIN u : \/ i \in DOMAIN s /\ u[i] = s[i]
                            \/ i - Len(s) \in DOMAIN t /\ u[i] = t[i - Len(s)]
    <2> SUFFICES ASSUME NEW i \in DOMAIN u
                 PROVE  \/ i \in DOMAIN s /\ u[i] = s[i]
                        \/ i - Len(s) \in DOMAIN t /\ u[i] = t[i - Len(s)]
      OBVIOUS
    <2>1. i \in 1..Len(s) + Len(t)
      BY <1>1
    <2>2. CASE i <= Len(s)
      BY <1>1, <2>1, <2>2
    <2>3. CASE ~(i <= Len(s))
      <3>1. i - Len(s) \in 1..Len(t)
        BY <1>1, <2>1, <2>3
      <3> QED BY <1>1, <2>1, <2>3, <3>1
    <2> QED BY <2>2, <2>3
  <1>5. DOMAIN s \subseteq 1..Len(s) /\ DOMAIN t \subseteq Nat \ {0} /\ DOMAIN u \subseteq Nat
    BY <1>1
  <1> QED BY Zenon, <1>1, <1>2, <1>3, <1>4, <1>5 DEF IsConcat

LEMMA ConcatElements ==
  ASSUME NEW S, NEW s \in Seq(S), NEW t \in Seq(S)
  PROVE  IsConcat(s \o t, s, t)
  <1>1. /\ s \o t \in Seq(S) /\ Len(s \o t) = Len(s) + Len(t)
        /\ \A i \in 1..Len(s) + Len(t) :
              (s \o t)[i] = IF i <= Len(s) THEN s[i] ELSE t[i - Len(s)]
    BY Zenon, ConcatProperties
  <1> QED BY Zenon, <1>1, ConcatByIndex

LEMMA ToSetOfConcat ==
  ASSUME NEW s, NEW t, NEW u, IsConcat(u, s, t)
  PROVE  ToSet(u) = ToSet(s) \cup ToSet(t)
  <1>1. /\ \A i \in DOMAIN s : \E j \in DOMAIN u : u[j] = s[i]
        /\ \A i \in DOMAIN t : \E j \in DOMAIN u : u[j] = t[i]
        /\ \A i \in DOMAIN u : (\E j \in DOMAIN s : u[i] = s[j]) \/ (\E j \in DOMAIN t : u[i] = t[j])
    BY DEF IsConcat
  <1> QED BY <1>1 DEF ToSet

LEMMA ToSetConcat ==
  ASSUME NEW S, NEW s \in Seq(S), NEW t \in Seq(S)
  PROVE  ToSet(s \o t) = ToSet(s) \cup ToSet(t)
  BY Zenon, ConcatElements, ToSetOfConcat

LEMMA Singleton ==
  ASSUME NEW S, NEW e \in S
  PROVE  <<e>> \in Seq(S) /\ ToSet(<<e>>) = {e} /\ IsInjective(<<e>>)
  <1>1. <<e>> \in Seq(S) /\ Len(<<e>>) = 1 /\ <<e>>[1] = e
    OBVIOUS
  <1>2. DOMAIN <<e>> = {1}
    BY <1>1, LenProperties
  <1> QED BY <1>1, <1>2 DEF ToSet, IsInjective

LEMMA ToSetAppend ==
  ASSUME NEW S, NEW s \in Seq(S), NEW e \in S
  PROVE  ToSet(Append(s, e)) = ToSet(s) \cup {e}
  <1>1. Append(s, e) = s \o <<e>>
    BY AppendIsConcat
  <1>2. ToSet(s \o <<e>>) = ToSet(s) \cup ToSet(<<e>>)
    <2>1. <<e>> \in Seq(S)
      BY Singleton
    <2> QED BY Zenon, <2>1, ToSetConcat
  <1> QED BY <1>1, <1>2, Singleton

LEMMA ToSetTail ==
  ASSUME NEW S, NEW s \in Seq(S), s # <<>>
  PROVE  /\ Head(s) \in S /\ Tail(s) \in Seq(S)
         /\ ToSet(s) = {Head(s)} \cup ToSet(Tail(s))
  <1>1. /\ Head(s) \in S /\ Tail(s) \in Seq(S) /\ Len(Tail(s)) = Len(s) - 1
        /\ \A i \in 1..Len(Tail(s)) : Tail(s)[i] = s[i + 1]
    BY HeadTailProperties
  <1>2. Len(s) \in Nat \ {0} /\ DOMAIN s = 1..Len(s) /\ DOMAIN Tail(s) = 1..Len(s) - 1
    BY <1>1, EmptySeq, LenProperties
  <1>3. Head(s) = s[1]
    OBVIOUS
  <1>4. \A i \in DOMAIN s : i = 1 \/ (i - 1 \in DOMAIN Tail(s) /\ Tail(s)[i - 1] = s[i])
    BY <1>1, <1>2
  <1>5. \A i \in DOMAIN Tail(s) : i + 1 \in DOMAIN s /\ Tail(s)[i] = s[i + 1]
    BY <1>1, <1>2
  <1>6. 1 \in DOMAIN s
    BY <1>2
  <1>7. ToSet(s) \subseteq {Head(s)} \cup ToSet(Tail(s))
    BY <1>3, <1>4 DEF ToSet
  <1>8. {Head(s)} \cup ToSet(Tail(s)) \subseteq ToSet(s)
    BY <1>3, <1>5, <1>6 DEF ToSet
  <1> QED BY <1>1, <1>7, <1>8

LEMMA InjectiveIfConcat ==
  ASSUME NEW s, NEW t, NEW u, IsConcat(u, s, t)
  PROVE  IsInjective(u) <=>
            IsInjective(s) /\ IsInjective(t) /\ ToSet(s) \cap ToSet(t) = {}
  <1>1. ASSUME IsInjective(u)
        PROVE  IsInjective(s) /\ IsInjective(t) /\ ToSet(s) \cap ToSet(t) = {}
    <2>1. IsInjective(s)
      BY <1>1 DEF IsInjective, IsConcat
    <2>2. \A i, j \in DOMAIN t : i + Len(s) = j + Len(s) => i = j
      BY DEF IsConcat
    <2>3. IsInjective(t)
      BY <1>1, <2>2 DEF IsInjective, IsConcat
    <2>4. \A i \in DOMAIN s, j \in DOMAIN t : i # j + Len(s)
      BY DEF IsConcat
    <2>5. \A i \in DOMAIN s, j \in DOMAIN t : s[i] # t[j]
      BY <1>1, <2>4 DEF IsInjective, IsConcat
    <2> QED BY <2>1, <2>3, <2>5 DEF ToSet
  <1>2. ASSUME IsInjective(s), IsInjective(t), ToSet(s) \cap ToSet(t) = {}
        PROVE  IsInjective(u)
    <2>1. \A i \in DOMAIN s, j \in DOMAIN t : s[i] # t[j]
      BY <1>2 DEF ToSet
    <2>2. ASSUME NEW i \in DOMAIN u, NEW j \in DOMAIN u, u[i] = u[j]
          PROVE  i = j
      <3>1. i \in Int /\ j \in Int /\ Len(s) \in Int
        BY DEF IsConcat
      <3>2. \/ i \in DOMAIN s /\ j \in DOMAIN s /\ s[i] = s[j]
            \/ /\ i - Len(s) \in DOMAIN t /\ j - Len(s) \in DOMAIN t
               /\ t[i - Len(s)] = t[j - Len(s)]
        BY <2>1, <2>2 DEF IsConcat
      <3>3. i = j \/ i - Len(s) = j - Len(s)
        BY <1>2, <3>2 DEF IsInjective
      <3> QED BY <3>1, <3>3
    <2> QED BY <2>2 DEF IsInjective
  <1> QED BY <1>1, <1>2

LEMMA InjectiveConcat ==
  ASSUME NEW S, NEW s \in Seq(S), NEW t \in Seq(S)
  PROVE  IsInjective(s \o t) <=>
            IsInjective(s) /\ IsInjective(t) /\ ToSet(s) \cap ToSet(t) = {}
  BY Zenon, ConcatElements, InjectiveIfConcat

LEMMA InjectiveAppend ==
  ASSUME NEW S, NEW s \in Seq(S), NEW e \in S
  PROVE  IsInjective(Append(s, e)) <=> IsInjective(s) /\ e \notin ToSet(s)
  <1>1. Append(s, e) = s \o <<e>>
    BY AppendIsConcat
  <1>2. IsInjective(s \o <<e>>) <=>
           IsInjective(s) /\ IsInjective(<<e>>) /\ ToSet(s) \cap ToSet(<<e>>) = {}
    BY Zenon, Singleton, InjectiveConcat
  <1> QED BY <1>1, <1>2, Singleton

-----------------------------------------------------------------------------
(* The goroutines and the collecting loop *)

\* A reply in the channel or taken out is final.
SentInv == \A r \in ToSet(channel) \cup ToSet(received) : sender[r] = "sent"

\* The records of the servers that have answered.
Answered(rs) == UNION {ToSet(reply[r]) : r \in {q \in rs : Success(q)}}

\* What the loop has counted and collected is what it has taken out.
CollectedInv ==
    /\ ok > 0 <=> \E r \in ToSet(received) : Success(r)
    /\ ToSet(allRecords) = Answered(ToSet(received))

\* An error is returned only when ok is 0, and an answer is the reduced records.
ResultInv ==
    ~Collecting =>
        \/ result.kind = "error" /\ ok = 0
        \/ result = Answer(Reduce(allRecords))

IInv == TypeOK /\ SentInv /\ CollectedInv /\ ResultInv

LEMMA IInvInit == Init => IInv
  <1> SUFFICES ASSUME Init PROVE IInv
    OBVIOUS
  <1> USE DEF Init
  <1>1. ToSet(<<>>) = {} /\ IsInjective(<<>>) /\ <<>> \o <<>> = <<>>
    BY DEF ToSet, IsInjective
  <1>2. <<>> \in Seq(Resolvers) /\ <<>> \in Seq(Record) /\ Len(<<>>) = 0
    OBVIOUS
  <1>3. TypeOK
    <2>1. sender \in [Resolvers -> {"resolving", "sending", "sent"}]
          /\ reply \in [Resolvers -> Replies \cup {Failed}]
      OBVIOUS
    <2>2. channel \in Seq(Resolvers) /\ received \in Seq(Resolvers) /\ allRecords \in Seq(Record)
      BY <1>2
    <2>3. ok \in 0..Len(received)
      BY <1>2
    <2>4. IsInjective(channel \o received)
      BY Zenon, <1>1
    <2> QED BY <2>1, <2>2, <2>3, <2>4 DEF TypeOK
  <1>4. CollectedInv
    BY <1>1 DEF CollectedInv, Answered
  <1> QED BY <1>1, <1>3, <1>4 DEF IInv, SentInv, ResultInv, Collecting

\* The reply of a server is kept from when it is in the channel.
LEMMA ResolvedStep ==
  ASSUME IInv, NEW r \in Resolvers, NEW x \in Replies \cup {Failed}, Resolved(r, x)
  PROVE  IInv'
  <1> USE DEF IInv
  <1>1. UNCHANGED <<channel, received, ok, allRecords, firstErr, expired, result>>
    BY DEF Resolved, collected
  <1>2. r \notin ToSet(channel) \cup ToSet(received)
    BY DEF Resolved, SentInv
  <1>3. TypeOK'
    BY <1>1 DEF Resolved, TypeOK
  <1>4. SentInv'
    BY <1>1, <1>2 DEF Resolved, SentInv, TypeOK
  <1>5. \A q \in ToSet(received) : reply'[q] = reply[q]
    BY <1>2 DEF Resolved, TypeOK
  <1>6. Answered(ToSet(received))' = Answered(ToSet(received))
    BY <1>1, <1>5 DEF Answered, Success
  <1>7. CollectedInv'
    BY <1>1, <1>5, <1>6 DEF CollectedInv, Success
  <1>8. ResultInv'
    <2>1. Answer(Reduce(allRecords))' = Answer(Reduce(allRecords))
      BY <1>1 DEF Answer, Reduce, Deduped
    <2> QED BY <1>1, <2>1 DEF ResultInv, Collecting
  <1> QED BY <1>3, <1>4, <1>7, <1>8

LEMMA SendStep ==
  ASSUME IInv, NEW r \in Resolvers, Send(r)
  PROVE  IInv'
  <1> USE DEF IInv
  <1>1. UNCHANGED <<reply, received, ok, allRecords, firstErr, expired, result>>
    BY DEF Send, collected
  <1>2. channel \in Seq(Resolvers) /\ received \in Seq(Resolvers)
    BY DEF TypeOK
  <1>3. r \notin ToSet(channel) \cup ToSet(received)
    BY DEF Send, SentInv
  <1>4. channel' = Append(channel, r) /\ channel' \in Seq(Resolvers)
        /\ ToSet(channel') = ToSet(channel) \cup {r}
    BY <1>2, ToSetAppend DEF Send
  <1>5. IsInjective(channel' \o received)
    <2>1. IsInjective(channel) /\ IsInjective(received) /\ ToSet(channel) \cap ToSet(received) = {}
      BY <1>2, InjectiveConcat DEF TypeOK
    <2>2. IsInjective(channel')
      BY <1>2, <1>3, <1>4, <2>1, InjectiveAppend
    <2>3. ToSet(channel') \cap ToSet(received) = {}
      BY <1>3, <1>4, <2>1
    <2> QED BY Zenon, <1>2, <1>4, <2>1, <2>2, <2>3, InjectiveConcat
  <1>6. TypeOK'
    BY <1>1, <1>4, <1>5 DEF Send, TypeOK
  <1>7. SentInv'
    BY <1>1, <1>3, <1>4 DEF Send, SentInv, TypeOK
  <1>8. CollectedInv'
    BY <1>1 DEF CollectedInv, Answered, Success
  <1>9. ResultInv'
    <2>1. Answer(Reduce(allRecords))' = Answer(Reduce(allRecords))
      BY <1>1 DEF Answer, Reduce, Deduped
    <2> QED BY <1>1, <2>1 DEF ResultInv, Collecting
  <1> QED BY <1>6, <1>7, <1>8, <1>9

LEMMA ReceiveStep ==
  ASSUME IInv, Receive
  PROVE  IInv'
  <1> DEFINE r == Head(channel)
  <1>1. UNCHANGED <<sender, reply, expired>>
    BY DEF Receive
  <1>2. channel \in Seq(Resolvers) /\ received \in Seq(Resolvers) /\ channel # <<>>
    BY DEF IInv, TypeOK, Receive
  <1>3. r \in Resolvers /\ channel' \in Seq(Resolvers) /\ ToSet(channel) = {r} \cup ToSet(channel')
    BY <1>2, ToSetTail DEF Receive
  <1>4. received' = Append(received, r)
    BY DEF Receive
  <1>5. received' \in Seq(Resolvers) /\ Len(received') = Len(received) + 1
        /\ ToSet(received') = ToSet(received) \cup {r}
    BY <1>2, <1>3, <1>4, ToSetAppend, AppendProperties
  <1>6. r \notin ToSet(channel') /\ r \notin ToSet(received) /\ IsInjective(channel' \o received')
    <2>1. IsInjective(channel) /\ IsInjective(received) /\ ToSet(channel) \cap ToSet(received) = {}
      BY <1>2, InjectiveConcat DEF IInv, TypeOK
    <2>2. channel = <<r>> \o channel' /\ <<r>> \in Seq(Resolvers)
      BY <1>2, <1>3 DEF Receive
    <2>3. IsInjective(channel') /\ ToSet(<<r>>) \cap ToSet(channel') = {}
      <3>1. ASSUME NEW c \in Seq(Resolvers), channel = <<r>> \o c
            PROVE  IsInjective(c) /\ ToSet(<<r>>) \cap ToSet(c) = {}
        <4>1. IsInjective(<<r>> \o c)
          BY Zenon, <2>1, <3>1
        <4> QED BY Zenon, <2>2, <4>1, InjectiveConcat
      <3> QED BY Zenon, <1>3, <2>2, <3>1
    <2>4. r \notin ToSet(channel') /\ r \notin ToSet(received)
      BY <1>3, <2>1, <2>3, Singleton
    <2>5. IsInjective(received')
      BY <1>2, <1>3, <1>4, <2>1, <2>4, InjectiveAppend
    <2>6. ToSet(channel') \cap ToSet(received') = {}
      BY <1>3, <1>5, <2>1, <2>4
    <2> QED BY <1>3, <1>5, <2>3, <2>4, <2>5, <2>6, InjectiveConcat
  <1>7. reply[r] # Failed => reply[r] \in Seq(Record)
    BY <1>3, RepliesAssumption DEF IInv, TypeOK
  <1> HIDE DEF r
  <1>8. \/ /\ Success(r) /\ ok' = ok + 1 /\ allRecords' = allRecords \o reply[r]
           /\ firstErr' = firstErr
        \/ /\ ~Success(r) /\ ok' = ok /\ allRecords' = allRecords
           /\ firstErr' \in {r, firstErr}
    BY DEF Receive, r
  <1>9. TypeOK'
    <2>1. ok' \in 0..Len(received')
      BY <1>2, <1>5, <1>8, LenProperties DEF IInv, TypeOK
    <2>2. allRecords' \in Seq(Record)
      <3>1. allRecords \in Seq(Record)
        BY DEF IInv, TypeOK
      <3>2. Success(r) => allRecords \o reply[r] \in Seq(Record)
        BY <1>7, <3>1, ConcatProperties DEF Success
      <3> QED BY <1>8, <3>1, <3>2
    <2>3. firstErr' \in Resolvers \cup {Nil}
      BY <1>3, <1>8 DEF IInv, TypeOK
    <2> QED BY <1>1, <1>3, <1>5, <1>6, <2>1, <2>2, <2>3 DEF IInv, TypeOK
  <1>10. SentInv'
    BY <1>1, <1>3, <1>5 DEF IInv, SentInv
  <1>11. CollectedInv'
    <2>1. ok \in Nat
      BY DEF IInv, TypeOK
    <2>2. \A q : Success(q)' <=> Success(q)
      BY <1>1 DEF Success
    <2>3. ok' > 0 <=> \E q \in ToSet(received') : Success(q)
      BY <1>5, <1>8, <2>1 DEF IInv, CollectedInv
    <2>4. Answered(ToSet(received))' =
             Answered(ToSet(received)) \cup (IF Success(r) THEN ToSet(reply[r]) ELSE {})
      BY <1>1, <1>5, <2>2 DEF Answered
    <2>5. ToSet(allRecords') = ToSet(allRecords) \cup (IF Success(r) THEN ToSet(reply[r]) ELSE {})
      <3>1. allRecords \in Seq(Record)
        BY DEF IInv, TypeOK
      <3>2. Success(r) => ToSet(allRecords \o reply[r]) = ToSet(allRecords) \cup ToSet(reply[r])
        BY Zenon, <1>7, <3>1, ToSetConcat DEF Success
      <3> QED BY <1>8, <3>2
    <2>6. ToSet(allRecords') = Answered(ToSet(received))'
      BY <2>4, <2>5 DEF IInv, CollectedInv
    <2> QED BY <2>2, <2>3, <2>6 DEF CollectedInv
  <1>12. ResultInv'
    <2>1. \/ result' = Nil
          \/ result' = Answer(Reduce(allRecords'))
          \/ ~(ok' > 0) /\ result' = Error(firstErr')
      BY DEF Receive
    <2>2. ok' \in Nat
      BY <1>9 DEF TypeOK
    <2>3. Answer(Reduce(allRecords))' = Answer(Reduce(allRecords'))
      BY DEF Answer, Reduce, Deduped
    <2> QED BY <2>1, <2>2, <2>3 DEF ResultInv, Collecting, Error
  <1> QED BY <1>9, <1>10, <1>11, <1>12 DEF IInv

LEMMA OtherSteps ==
  ASSUME IInv, GiveUp \/ Expire \/ UNCHANGED vars
  PROVE  IInv'
  <1> USE DEF IInv
  <1>1. UNCHANGED <<sender, reply, channel, received, ok, allRecords, firstErr>>
    BY DEF GiveUp, Expire, vars, collected
  <1>2. TypeOK'
    BY <1>1 DEF TypeOK, GiveUp, Expire, vars
  <1>3. SentInv' /\ CollectedInv'
    BY <1>1 DEF SentInv, CollectedInv, Answered, Success
  <1>4. ResultInv'
    <2>1. \/ result' = result
          \/ result' = Answer(Reduce(allRecords))
          \/ ~(ok > 0) /\ result' = Error("deadline")
      BY DEF GiveUp, Expire, vars
    <2>2. Answer(Reduce(allRecords))' = Answer(Reduce(allRecords))
      BY <1>1 DEF Answer, Reduce, Deduped
    <2>3. ok \in Nat
      BY DEF TypeOK
    <2> QED BY <1>1, <2>1, <2>2, <2>3 DEF ResultInv, Collecting, Error
  <1> QED BY <1>2, <1>3, <1>4

LEMMA IInvHolds == Spec => []IInv
  <1>1. IInv /\ [Next]_vars => IInv'
    BY ResolvedStep, SendStep, ReceiveStep, OtherSteps DEF Next, Resolve
  <1> QED BY <1>1, IInvInit, PTL DEF Spec

\* Every variable keeps its type; no server's reply is put into the channel, or
\* taken out, a second time.
THEOREM TypeCorrect == Spec => []TypeOK
  <1>1. IInv => TypeOK
    BY DEF IInv
  <1> QED BY <1>1, IInvHolds, PTL

\* ResolveAll fails only if nobody whose reply it has taken had answered, in
\* whatever order the replies and the deadline come.
THEOREM AnswerBeatsErrorsHolds == Spec => []AnswerBeatsErrors
  <1>1. IInv => AnswerBeatsErrors
    BY DEF IInv, TypeOK, CollectedInv, ResultInv, AnswerBeatsErrors, Answer
  <1> QED BY <1>1, IInvHolds, PTL

-----------------------------------------------------------------------------
(* reduce *)

Best(all) == {x \in all : \A y \in all : y.id = x.id => x.ttl <= y.ttl}

\* d is what merging has made of a set of records: one record for each identity,
\* that with the smallest TTL.
MergeInv(d, all) ==
    /\ d \in Seq(Record)
    /\ \A i, j \in DOMAIN d : d[i].id = d[j].id => i = j
    /\ \A y \in all : \E i \in DOMAIN d : d[i].id = y.id
    /\ ToSet(d) = Best(all)

LEMMA RecordsEqual ==
  ASSUME NEW x \in Record, NEW y \in Record, x.id = y.id, x.ttl = y.ttl
  PROVE  x = y
  BY DEF Record

LEMMA MergeStep ==
  ASSUME NEW d, NEW all \in SUBSET Record, NEW r \in Record, MergeInv(d, all)
  PROVE  MergeInv(Merge(d, r), all \cup {r})
  <1> DEFINE e == Merge(d, r)
             new == all \cup {r}
  <1>1. d \in Seq(Record) /\ Len(d) \in Nat /\ DOMAIN d = 1..Len(d)
        /\ \A i \in DOMAIN d : d[i] \in Record
    BY LenProperties, ElementOfSeq DEF MergeInv
  <1>2. \A x \in Record : x.ttl \in Nat
    BY DEF Record
  <1>3. CASE \E i \in DOMAIN d : d[i].id = r.id
    <2>1. e = [i \in DOMAIN d |-> IF d[i].id = r.id /\ r.ttl < d[i].ttl THEN r ELSE d[i]]
      BY <1>3 DEF Merge
    <2> HIDE DEF e
    <2>2. DOMAIN e = DOMAIN d
          /\ \A i \in DOMAIN d : e[i] = IF d[i].id = r.id /\ r.ttl < d[i].ttl THEN r ELSE d[i]
      BY <2>1
    <2>3. e \in Seq(Record)
      <3>1. e \in [1..Len(d) -> Record]
        BY <1>1, <2>1
      <3> QED BY <1>1, <3>1, SeqDef
    <2>4. \A i \in DOMAIN d : e[i].id = d[i].id
      BY <2>2
    <2>5. PICK k \in DOMAIN d : d[k].id = r.id
      BY <1>3
    <2>6. \A i \in DOMAIN d : i # k => e[i] = d[i] /\ d[i].id # r.id
      BY <2>2, <2>5 DEF MergeInv
    <2>7. d[k] \in Best(all) /\ \A x \in Best(all) : x.id = r.id => x = d[k]
      BY <2>5 DEF MergeInv, ToSet
    <2>8. e[k] \in new /\ e[k].id = r.id /\ e[k].ttl <= r.ttl /\ e[k].ttl <= d[k].ttl
      BY <1>1, <1>2, <2>2, <2>5, <2>7 DEF Best
    <2>9. \A y \in new : y.id = r.id => e[k].ttl <= y.ttl
      <3> SUFFICES ASSUME NEW y \in new, y.id = r.id PROVE e[k].ttl <= y.ttl
        OBVIOUS
      <3>1. y = r \/ d[k].ttl <= y.ttl
        BY <2>5, <2>7 DEF Best
      <3>2. y.ttl \in Nat /\ d[k].ttl \in Nat /\ e[k].ttl \in Nat
        BY <1>1, <1>2, <2>3, <2>2, LenProperties, ElementOfSeq
      <3> QED BY <2>8, <3>1, <3>2
    <2>10. ToSet(e) = Best(new)
      <3>1. ASSUME NEW x \in ToSet(e) PROVE x \in Best(new)
        <4>1. PICK i \in DOMAIN d : x = e[i]
          BY <2>2, <3>1 DEF ToSet
        <4>2. CASE i = k
          BY <2>8, <2>9, <4>1, <4>2 DEF Best
        <4>3. CASE i # k
          <5>1. x = d[i] /\ x.id # r.id /\ x \in Best(all)
            BY <2>6, <4>1, <4>3 DEF MergeInv, ToSet
          <5> QED BY <5>1 DEF Best
        <4> QED BY <4>2, <4>3
      <3>2. ASSUME NEW x \in Best(new) PROVE x \in ToSet(e)
        <4>1. CASE x.id = r.id
          <5>1. e[k] \in Record /\ x \in Record
            BY <2>2, <2>3, ElementOfSeq, LenProperties DEF Best
          <5>2. x.ttl <= e[k].ttl /\ e[k].ttl <= x.ttl
            BY <2>8, <2>9, <4>1 DEF Best
          <5>3. x = e[k]
            BY <1>2, <2>8, <4>1, <5>1, <5>2, RecordsEqual
          <5> QED BY <2>2, <5>3 DEF ToSet
        <4>2. CASE x.id # r.id
          <5>1. x \in Best(all)
            BY <4>2 DEF Best
          <5>2. PICK i \in DOMAIN d : x = d[i]
            BY <5>1 DEF MergeInv, ToSet
          <5>3. x = e[i]
            BY <2>2, <4>2, <5>2
          <5> QED BY <2>2, <5>2, <5>3 DEF ToSet
        <4> QED BY <4>1, <4>2
      <3> QED BY <3>1, <3>2
    <2>11. \A i, j \in DOMAIN e : e[i].id = e[j].id => i = j
      BY <2>2, <2>4 DEF MergeInv
    <2>12. \A y \in new : \E i \in DOMAIN e : e[i].id = y.id
      BY <2>2, <2>4, <2>5 DEF MergeInv
    <2> QED BY <2>3, <2>10, <2>11, <2>12 DEF MergeInv, e
  <1>4. CASE ~ \E i \in DOMAIN d : d[i].id = r.id
    <2>1. e = Append(d, r)
      BY <1>4 DEF Merge
    <2> HIDE DEF e
    <2>2. e \in Seq(Record) /\ Len(e) = Len(d) + 1 /\ e[Len(d) + 1] = r
          /\ (\A i \in DOMAIN d : e[i] = d[i]) /\ ToSet(e) = ToSet(d) \cup {r}
      BY <1>1, <2>1, AppendProperties, ToSetAppend
    <2>3. DOMAIN e = DOMAIN d \cup {Len(d) + 1}
      BY <1>1, <2>2, LenProperties
    <2>4. \A y \in all : y.id # r.id
      BY <1>4 DEF MergeInv
    <2>5. ToSet(e) = Best(new)
      <3>1. r \in Best(new)
        BY <1>2, <2>4 DEF Best
      <3>2. \A x \in all : x \in Best(new) <=> x \in Best(all)
        BY <2>4 DEF Best
      <3> QED BY <2>2, <3>1, <3>2 DEF MergeInv, Best
    <2>6. \A i, j \in DOMAIN e : e[i].id = e[j].id => i = j
      BY <1>4, <2>2, <2>3 DEF MergeInv
    <2>7. \A y \in new : \E i \in DOMAIN e : e[i].id = y.id
      BY <2>2, <2>3 DEF MergeInv
    <2> QED BY <2>2, <2>5, <2>6, <2>7 DEF MergeInv, e
  <1> QED BY <1>3, <1>4

\* What merging has made of the first records, up to the n-th.
IsUpTo(g, records, n) ==
    g = [i \in 0..n |-> IF i = 0 THEN <<>> ELSE Merge(g[i - 1], records[i])]

LEMMA UpToExists ==
  ASSUME NEW records
  PROVE  \A n \in Nat : \E g : IsUpTo(g, records, n)
  <1> DEFINE T == {n \in Nat : \E g : IsUpTo(g, records, n)}
  <1>1. 0 \in T
    <2> DEFINE g == [i \in 0..0 |-> <<>>]
    <2>1. IsUpTo(g, records, 0)
      BY DEF IsUpTo
    <2> QED BY <2>1
  <1>2. ASSUME NEW n \in T PROVE n + 1 \in T
    <2>1. PICK g : IsUpTo(g, records, n)
      OBVIOUS
    <2> DEFINE h == [i \in 0..n + 1 |-> IF i = n + 1 THEN Merge(g[n], records[n + 1]) ELSE g[i]]
    <2>2. \A i \in 0..n : g[i] = IF i = 0 THEN <<>> ELSE Merge(g[i - 1], records[i])
      BY <2>1 DEF IsUpTo
    <2>3. \A i \in 0..n + 1 : h[i] = IF i = 0 THEN <<>> ELSE Merge(h[i - 1], records[i])
      <3> SUFFICES ASSUME NEW i \in 0..n + 1
                   PROVE  h[i] = IF i = 0 THEN <<>> ELSE Merge(h[i - 1], records[i])
        OBVIOUS
      <3>1. CASE i = n + 1
        <4>1. h[i] = Merge(g[n], records[n + 1]) /\ h[n] = g[n] /\ i # 0 /\ i - 1 = n
          BY <3>1
        <4> QED BY <3>1, <4>1
      <3>2. CASE i # n + 1
        <4>1. i \in 0..n /\ h[i] = g[i] /\ (i # 0 => i - 1 \in 0..n /\ h[i - 1] = g[i - 1])
          BY <3>2
        <4> HIDE DEF h
        <4> QED BY <2>2, <4>1
      <3> QED BY <3>1, <3>2
    <2>4. h = [i \in 0..n + 1 |-> h[i]]
      OBVIOUS
    <2> HIDE DEF h
    <2>5. IsUpTo(h, records, n + 1)
      BY <2>3, <2>4 DEF IsUpTo
    <2> QED BY <2>5
  <1> HIDE DEF T
  <1>3. T = Nat
    BY <1>1, <1>2, NatSetInduction DEF T
  <1> QED BY <1>3 DEF T

LEMMA DedupedInv ==
  ASSUME NEW records \in Seq(Record)
  PROVE  MergeInv(Deduped(records), ToSet(records))
  <1> DEFINE N == Len(records)
             g == CHOOSE f : IsUpTo(f, records, N)
             all(n) == {records[j] : j \in 1..n}
             T == {n \in Nat : n <= N => MergeInv(g[n], all(n))}
  <1>1. N \in Nat /\ \A j \in 1..N : records[j] \in Record
    BY LenProperties, ElementOfSeq
  <1>2. IsUpTo(g, records, N)
    BY <1>1, UpToExists
  <1>3. Deduped(records) = g[N]
    BY Zenon DEF Deduped, IsUpTo
  <1> HIDE DEF g
  <1>4. g[0] = <<>> /\ \A i \in 1..N : g[i] = Merge(g[i - 1], records[i])
    <2>1. \A i \in 0..N : g[i] = IF i = 0 THEN <<>> ELSE Merge(g[i - 1], records[i])
      BY <1>2 DEF IsUpTo
    <2> QED BY <1>1, <2>1
  <1>5. 0 \in T
    <2>1. MergeInv(<<>>, {})
      BY DEF MergeInv, ToSet, Best
    <2>2. all(0) = {}
      OBVIOUS
    <2> QED BY <1>4, <2>1, <2>2
  <1>6. ASSUME NEW n \in T PROVE n + 1 \in T
    <2> SUFFICES ASSUME n + 1 <= N PROVE MergeInv(g[n + 1], all(n + 1))
      OBVIOUS
    <2>1. n \in Nat /\ n + 1 \in 1..N /\ n + 1 - 1 = n
      BY <1>1
    <2>2. g[n + 1] = Merge(g[n], records[n + 1]) /\ records[n + 1] \in Record
      BY <1>1, <1>4, <2>1
    <2>3. all(n + 1) = all(n) \cup {records[n + 1]} /\ all(n) \subseteq Record
      BY <1>1, <2>1
    <2>4. MergeInv(g[n], all(n))
      BY <1>1, <2>1
    <2> HIDE DEF all
    <2> QED BY <2>2, <2>3, <2>4, MergeStep
  <1>7. T = Nat
    <2> HIDE DEF T
    <2> QED BY <1>5, <1>6, NatSetInduction DEF T
  <1>8. MergeInv(g[N], all(N))
    <2>1. N \in T
      BY Zenon, <1>1, <1>7
    <2> QED BY <2>1
  <1>9. all(N) = ToSet(records)
    BY LenProperties DEF ToSet
  <1> QED BY <1>3, <1>8, <1>9

\* What is returned as an answer is what its servers said, merged.
LEMMA AnswerIsReduced == IInv => AnswerIsMerge
  <1> SUFFICES ASSUME IInv, ~Collecting, result.kind = "answer"
               PROVE  LET merged == Merged(ToSet(received))
                      IN  /\ ToSet(result.value.records) = merged.records
                          /\ IsInjective(result.value.records)
                          /\ result.value.ttl = merged.ttl
    BY DEF AnswerIsMerge
  <1> DEFINE d == Deduped(allRecords)
  <1>1. result = Answer(Reduce(allRecords)) /\ allRecords \in Seq(Record)
    BY DEF IInv, TypeOK, ResultInv
  <1>2. MergeInv(d, ToSet(allRecords)) /\ ToSet(allRecords) = Answered(ToSet(received))
    BY <1>1, DedupedInv DEF IInv, CollectedInv
  <1>3. result.value = Reduce(allRecords)
    BY <1>1 DEF Answer
  <1> HIDE DEF d
  <1>4. ToSet(d) = Best(Answered(ToSet(received))) /\ IsInjective(d)
    BY <1>2 DEF MergeInv, IsInjective
  <1>5. {d[i].ttl : i \in DOMAIN d} = {x.ttl : x \in ToSet(d)}
    BY DEF ToSet
  <1>6. result.value.records = d
    BY <1>3 DEF Reduce, d
  <1>7. Merged(ToSet(received)).records = ToSet(d)
    BY <1>4 DEF Merged, Best, Answered
  <1>8. result.value.ttl = Merged(ToSet(received)).ttl
    <2> DEFINE best == Best(Answered(ToSet(received)))
               ttls == {x.ttl : x \in best} \ {0, NoTTL}
    <2>1. {d[i].ttl : i \in DOMAIN d} \ {0, NoTTL} = ttls
      BY <1>4, <1>5
    <2>2. Merged(ToSet(received)).ttl = IF ttls = {} THEN MinimumTTL ELSE Min(ttls)
      BY Zenon DEF Merged, Best, Answered
    <2> HIDE DEF ttls
    <2>3. Reduce(allRecords).ttl = IF ttls = {} THEN MinimumTTL ELSE Min(ttls)
      BY <2>1 DEF Reduce, d
    <2> QED BY <1>3, <2>2, <2>3
  <1> QED BY <1>4, <1>6, <1>7, <1>8

\* The answer depends on who replied in time, never on the order of the replies,
\* and no record is listed twice: for any pool and any replies.
THEOREM AnswerIsMergeHolds == Spec => []AnswerIsMerge
  BY AnswerIsReduced, IInvHolds, PTL
=============================================================================
