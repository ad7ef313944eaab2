--------------------------- MODULE UpstreamManager ---------------------------
(***************************************************************************)
(* One call of Manager.ResolveAll, internal/upstream/manager.go: a         *)
(* goroutine per server asks it and puts the reply into a buffered         *)
(* channel; the caller collects replies until it has all of them or the    *)
(* context is done, and reduces what it has to one result.                 *)
(*                                                                         *)
(* A record is an identity (its name, type and data) and a TTL.  The pool  *)
(* is not empty: ResolveAll fails at once on an empty one.                 *)
(***************************************************************************)
EXTENDS Naturals, Sequences, FiniteSets, SequencesExt

CONSTANTS
    Resolvers,   \* the pool
    Ids,         \* name, type and data of a record
    Replies,     \* record sequences a server may send
    Failed,      \* an error instead
    MinimumTTL,  \* dns.MinimumTTL
    NoTTL,       \* 0xFFFFFFFF, the largest TTL, from which the minimum starts
    Nil          \* no error yet; not returned yet

Record == [id : Ids, ttl : 0..NoTTL]

ASSUME PoolAssumption == Resolvers # {} /\ IsFiniteSet(Resolvers) /\ Nil \notin Resolvers
ASSUME TTLAssumption == NoTTL \in Nat
ASSUME RepliesAssumption == Replies \subseteq Seq(Record) /\ Failed \notin Replies

VARIABLES
    sender,    \* sender[r]: where the goroutine asking r is
    reply,     \* reply[r]: what Resolve returned to it
    channel,   \* the servers whose replies are in the channel
    received,  \* the servers whose replies have been taken out, in order
    expired,   \* the context is done: deadline passed
    ok, allRecords, firstErr,  \* what the loop has counted, collected and kept
    result     \* what ResolveAll returned

vars == <<sender, reply, channel, received, expired, ok, allRecords, firstErr, result>>

collected == <<received, ok, allRecords, firstErr>>

Answer(value) == [kind |-> "answer", value |-> value]
Error(cause)  == [kind |-> "error", cause |-> cause]

TypeOK ==
    /\ sender \in [Resolvers -> {"resolving", "sending", "sent"}]
    /\ reply \in [Resolvers -> Replies \cup {Failed}]
    /\ channel \in Seq(Resolvers) /\ received \in Seq(Resolvers)
    /\ IsInjective(channel \o received)
    /\ expired \in BOOLEAN
    /\ ok \in 0..Len(received)
    /\ allRecords \in Seq(Record)
    /\ firstErr \in Resolvers \cup {Nil}

Init ==
    /\ sender = [r \in Resolvers |-> "resolving"]
    /\ reply = [r \in Resolvers |-> Failed]
    /\ channel = <<>> /\ received = <<>>
    /\ expired = FALSE
    /\ ok = 0 /\ allRecords = <<>> /\ firstErr = Nil
    /\ result = Nil

-----------------------------------------------------------------------------
(* reduce *)

\* Seeded fault: of two equal records the later one's TTL is kept.
MergeLater(deduped, r) ==
    IF \E i \in DOMAIN deduped : deduped[i].id = r.id
    THEN [i \in DOMAIN deduped |-> IF deduped[i].id = r.id THEN r ELSE deduped[i]]
    ELSE Append(deduped, r)

\* A record not seen yet is appended; of equal ones the smaller TTL is kept.
Merge(deduped, r) ==
    IF \E i \in DOMAIN deduped : deduped[i].id = r.id
    THEN [i \in DOMAIN deduped |->
             IF deduped[i].id = r.id /\ r.ttl < deduped[i].ttl
             THEN r ELSE deduped[i]]
    ELSE Append(deduped, r)

Deduped(records) ==
    LET upTo[i \in 0..Len(records)] ==
            IF i = 0 THEN <<>> ELSE Merge(upTo[i - 1], records[i])
    IN  upTo[Len(records)]

Reduce(records) ==
    LET deduped == Deduped(records)
        ttls    == {deduped[i].ttl : i \in DOMAIN deduped} \ {0, NoTTL}
    IN  [records |-> deduped,
         ttl |-> IF ttls = {} THEN MinimumTTL ELSE Min(ttls)]

-----------------------------------------------------------------------------
(* The goroutines *)

Resolved(r, x) ==
    /\ sender[r] = "resolving"
    /\ reply' = [reply EXCEPT ![r] = x]
    /\ sender' = [sender EXCEPT ![r] = "sending"]
    /\ UNCHANGED <<channel, collected, expired, result>>

\* Seeded fault: room for one reply only.
CapacityOne == 1

\* make(chan rpcResult, len(resolvers))
Capacity == Cardinality(Resolvers)

\* Seeded fault: after the error the goroutine goes on and sends a reply again.
SendTwice(r) ==
    /\ sender[r] = "sending"
    /\ Len(channel) < Capacity
    /\ channel' = Append(channel, r)
    /\ sender' = [sender EXCEPT ![r] = IF reply[r] = Failed /\ r \notin ToSet(channel)
                                       THEN "sending" ELSE "sent"]
    /\ UNCHANGED <<reply, collected, expired, result>>

Send(r) ==
    /\ sender[r] = "sending"
    /\ Len(channel) < Capacity
    /\ channel' = Append(channel, r)
    /\ sender' = [sender EXCEPT ![r] = "sent"]
    /\ UNCHANGED <<reply, collected, expired, result>>

-----------------------------------------------------------------------------
(* The collecting loop *)

Collecting == result = Nil

Success(r) == reply[r] # Failed

\* One iteration: a reply is taken out, and the last one ends the loop.
Receive ==
    /\ Collecting
    /\ channel # <<>>
    /\ channel' = Tail(channel)
    /\ LET r == Head(channel)
       IN  /\ received' = Append(received, r)
           /\ IF Success(r)
              THEN /\ ok' = ok + 1
                   /\ allRecords' = allRecords \o reply[r]
                   /\ UNCHANGED firstErr
              ELSE /\ firstErr' = IF firstErr = Nil THEN r ELSE firstErr
                   /\ UNCHANGED <<ok, allRecords>>
    /\ result' = IF Len(received') < Cardinality(Resolvers) THEN Nil
                 ELSE IF ok' > 0 THEN Answer(Reduce(allRecords'))
                 ELSE Error(firstErr')
    /\ UNCHANGED <<sender, reply, expired>>

\* Seeded fault: a call that runs into the deadline fails in any case.
GiveUpEmptyHanded ==
    /\ Collecting
    /\ expired
    /\ result' = Error("deadline")
    /\ UNCHANGED <<sender, reply, channel, collected, expired>>

\* <-ctx.Done(): select may take it although replies are waiting.
GiveUp ==
    /\ Collecting
    /\ expired
    /\ result' = IF ok > 0 THEN Answer(Reduce(allRecords))
                 ELSE Error("deadline")
    /\ UNCHANGED <<sender, reply, channel, collected, expired>>

\* Seeded fault: a call without a deadline.
NoDeadline ==
    /\ FALSE
    /\ UNCHANGED vars

Expire ==
    /\ ~expired
    /\ expired' = TRUE
    /\ UNCHANGED <<sender, reply, channel, collected, result>>

-----------------------------------------------------------------------------

Resolve(r) == \E x \in Replies \cup {Failed} : Resolved(r, x)

Next ==
    \/ \E r \in Resolvers : Resolve(r) \/ Send(r)
    \/ Receive \/ GiveUp \/ Expire

Spec == Init /\ [][Next]_vars

\* The deadline comes; a server call ends once the context is done (expired, or
\* cancelled when ResolveAll returns), and need not end before.
Fairness ==
    /\ WF_vars(Expire) /\ WF_vars(Receive) /\ WF_vars(GiveUp)
    /\ \A r \in Resolvers :
          /\ WF_vars((expired \/ ~Collecting) /\ Resolve(r))
          /\ WF_vars(Send(r))

FairSpec == Spec /\ Fairness

-----------------------------------------------------------------------------
(* Properties *)

\* What a set of servers has answered, merged without regard to order: each
\* record once with its smallest TTL, and the smallest of these that is neither
\* 0 nor NoTTL.  The comments (manager.go:39-40 and 129-130, types.go:41) call
\* Result.TTL the minimum over all records; the loop (manager.go:154-161) leaves
\* out a TTL of 0, and answers a lone 0 with MinimumTTL.
Merged(rs) ==
    LET all  == UNION {ToSet(reply[r]) : r \in {s \in rs : Success(s)}}
        best == {x \in all : \A y \in all : y.id = x.id => x.ttl <= y.ttl}
        ttls == {x.ttl : x \in best} \ {0, NoTTL}
    IN  [records |-> best, ttl |-> IF ttls = {} THEN MinimumTTL ELSE Min(ttls)]

\* The answer depends on who replied in time, never on the order of the replies,
\* and no record is listed twice.  Its TTL is the minimum but for zeros, which is
\* what the code computes and not what its comments say (see Merged).
AnswerIsMerge ==
    ~Collecting /\ result.kind = "answer" =>
        LET merged == Merged(ToSet(received))
        IN  /\ ToSet(result.value.records) = merged.records
            /\ IsInjective(result.value.records)
            /\ result.value.ttl = merged.ttl

\* One server's answer outweighs every failure and the deadline: ResolveAll
\* fails only if nobody whose reply it has taken had answered.
AnswerBeatsErrors ==
    ~Collecting /\ result.kind = "error" =>
        \A r \in ToSet(received) : ~Success(r)

\* No goroutine is left behind: each delivers its reply, also when the caller
\* has gone at the deadline.
SendersEnd == \A r \in Resolvers : <>(sender[r] = "sent")

\* ResolveAll returns, whatever the servers do.
Returns == <>~Collecting
=============================================================================
