---------------------------- MODULE QueryService ----------------------------
(***************************************************************************)
(* The query pipeline of internal/query/service.go: Service.Handle, run by *)
(* one goroutine per packet, and the background refreshes it starts.       *)
(*                                                                         *)
(* A handler is one call of Handle.  The channel it may put into the       *)
(* inflight map is named after the handler, so "prev" is the handler whose *)
(* channel is waited on.  Everything between two accesses to shared state  *)
(* (inflight, caches, overrides, a channel) is one action.  The clock is   *)
(* abstracted to what the pipeline asks of it, fresh or stale, and records *)
(* to the fact that there are some.  Routing only chooses the pool that    *)
(* ResolveAll is given; the pool's replies are those of Upstream.          *)
(***************************************************************************)
EXTENDS Naturals, FiniteSets

CONSTANTS
    Handlers,        \* calls of Handle; one goroutine each
    NoHandler,       \* "no channel"
    Domains,         \* spellings of names, as they appear in questions
    QTypes,          \* record types
    AddrTypes,       \* the types overrides apply to: A and AAAA
    Lower,           \* strings.ToLower on the spellings
    BootstrapHosts,  \* spellings equal to the host name of a DoH server
    NonExistent      \* names every server denies

ASSUME NoHandlerAssumption == NoHandler \notin Handlers

\* A process handles finitely many packets; the counters count them.
ASSUME HandlersAssumption == IsFiniteSet(Handlers)

ASSUME NamesAssumption ==
    /\ Domains # {} /\ QTypes # {}
    /\ Lower \in [Domains -> Domains]
    /\ AddrTypes \subseteq QTypes
    /\ BootstrapHosts \subseteq Domains
    /\ NonExistent \subseteq Domains

Keys == Domains \X QTypes

VARIABLES
    pc,        \* pc[h]: where handler h is
    key,       \* key[h]: the parsed question, <<Domain, Type>>
    waitOn,    \* waitOn[h]: whose channel LoadOrStore returned; NoHandler: own
    answer,    \* answer[h]: what Handle returned
    refresh,   \* refresh[h]: the goroutine h started to refresh a stale entry
    inflight,  \* inflight[k]: the handler whose channel is stored under k
    closed,    \* handlers whose channel is closed
    cache,     \* cache[k]: the main cache's entry
    neg,       \* names in the negative cache
    custom,    \* <<name, type>> pairs that an override has addresses for
    stats      \* the four counters

vars == <<pc, key, waitOn, answer, refresh, inflight, closed, cache, neg,
          custom, stats>>

Steps == {"new", "custom", "dedup", "wait", "recheck", "negcheck", "lookup",
          "bootstrap", "resolve", "store", "close", "delete", "done"}

Answers == {"none", "override", "nxdomain", "servfail", "fresh", "expired",
            "resolved", "dropped"}

CacheStates == {"absent", "fresh", "stale"}

Counters == {"total", "hits", "misses", "errors"}

TypeOK ==
    /\ pc \in [Handlers -> Steps]
    /\ key \in [Handlers -> Keys]
    /\ waitOn \in [Handlers -> Handlers \cup {NoHandler}]
    /\ answer \in [Handlers -> Answers]
    /\ refresh \in [Handlers -> {"none", "resolve", "store", "done"}]
    /\ inflight \in [Keys -> Handlers \cup {NoHandler}]
    /\ closed \subseteq Handlers
    /\ cache \in [Keys -> CacheStates]
    /\ neg \subseteq Domains
    /\ custom \subseteq Domains \X AddrTypes
    /\ stats \in [Counters -> Nat]

Init ==
    /\ pc = [h \in Handlers |-> "new"]
    /\ key = [h \in Handlers |-> CHOOSE k \in Keys : TRUE]   \* no question yet
    /\ waitOn = [h \in Handlers |-> NoHandler]
    /\ answer = [h \in Handlers |-> "none"]
    /\ refresh = [h \in Handlers |-> "none"]
    /\ inflight = [k \in Keys |-> NoHandler]
    /\ closed = {}
    /\ cache \in [Keys -> CacheStates]   \* what an earlier run left on disk
    /\ neg = {}
    /\ custom = {}
    /\ stats = [c \in Counters |-> 0]

-----------------------------------------------------------------------------
(* Helpers *)

Goto(h, step) == pc' = [pc EXCEPT ![h] = step]

Count(c) == stats' = [stats EXCEPT ![c] = @ + 1]

\* LoadOrStore stored this handler's own channel.
Owner(h) == waitOn[h] = NoHandler

\* Seeded fault: the owner leaves the map without closing its channel.
ReturnWithoutClose(h, ans) ==
    /\ answer' = [answer EXCEPT ![h] = ans]
    /\ Goto(h, IF Owner(h) THEN "delete" ELSE "done")

\* Return from Handle: the deferred clean-up runs only in the channel's owner.
Return(h, ans) ==
    /\ answer' = [answer EXCEPT ![h] = ans]
    /\ Goto(h, IF Owner(h) THEN "close" ELSE "done")

\* What a pool of servers can reply about a name; a failure covers an empty
\* pool, errors, timeouts and a cancelled context.
Upstream(d) ==
    {"failure"} \cup IF d \in NonExistent THEN {"nxdomain"} ELSE {"records"}

\* ResolveAll copies records and TTL of each reply, and drops its NXDomain.
ResolveAllResult(reply) == IF reply = "nxdomain" THEN "records" ELSE reply

\* Seeded fault: the result is not written to the cache.
StoreNothing(k) == UNCHANGED cache

StoreFresh(k) == cache' = [cache EXCEPT ![k] = "fresh"]

-----------------------------------------------------------------------------
(* Handle, step by step *)

\* A packet that parses: one question.
Arrive(h, k) ==
    /\ pc[h] = "new"
    /\ key' = [key EXCEPT ![h] = k]
    /\ Count("total")
    /\ Goto(h, "custom")
    /\ UNCHANGED <<waitOn, answer, refresh, inflight, closed, cache, neg, custom>>

\* A packet that does not parse gets no reply.
ArriveMalformed(h) ==
    /\ pc[h] = "new"
    /\ stats' = [stats EXCEPT !["total"] = @ + 1, !["errors"] = @ + 1]
    /\ answer' = [answer EXCEPT ![h] = "dropped"]
    /\ Goto(h, "done")
    /\ UNCHANGED <<key, waitOn, refresh, inflight, closed, cache, neg, custom>>

\* Overrides are stored in lower case and only consulted for A and AAAA.
Overridden(k) == <<Lower[k[1]], k[2]>> \in custom

CheckOverride(h) ==
    /\ pc[h] = "custom"
    /\ IF Overridden(key[h])
       THEN /\ Count("hits")
            /\ answer' = [answer EXCEPT ![h] = "override"]
            /\ Goto(h, "done")
       ELSE /\ Goto(h, "dedup")
            /\ UNCHANGED <<answer, stats>>
    /\ UNCHANGED <<key, waitOn, refresh, inflight, closed, cache, neg, custom>>

\* LoadOrStore finds nothing: this handler resolves for the others.
Own(h) ==
    /\ pc[h] = "dedup"
    /\ inflight[key[h]] = NoHandler
    /\ inflight' = [inflight EXCEPT ![key[h]] = h]
    /\ Goto(h, "negcheck")
    /\ UNCHANGED <<key, waitOn, answer, refresh, closed, cache, neg, custom, stats>>

\* LoadOrStore finds a channel.
Join(h) ==
    /\ pc[h] = "dedup"
    /\ inflight[key[h]] # NoHandler
    /\ waitOn' = [waitOn EXCEPT ![h] = inflight[key[h]]]
    /\ Goto(h, "wait")
    /\ UNCHANGED <<key, answer, refresh, inflight, closed, cache, neg, custom, stats>>

\* <-prev: the receive returns once the channel is closed, and only then.
Awake(h) ==
    /\ pc[h] = "wait"
    /\ waitOn[h] \in closed
    /\ Goto(h, "recheck")
    /\ UNCHANGED <<key, waitOn, answer, refresh, inflight, closed, cache, neg,
                   custom, stats>>

\* What the code answers from a cached entry it has found.
Served(k) == IF cache[k] = "fresh" THEN "fresh" ELSE "expired"

\* Seeded fault: the waiter counts a hit before it knows that there is one.
RecheckCountsFirst(h) ==
    /\ pc[h] = "recheck"
    /\ Count("hits")
    /\ IF cache[key[h]] # "absent"
       THEN Return(h, Served(key[h]))
       ELSE Goto(h, "negcheck") /\ UNCHANGED answer
    /\ UNCHANGED <<key, waitOn, refresh, inflight, closed, cache, neg, custom>>

\* The second look at the cache does not ask whether the entry has expired.
Recheck(h) ==
    /\ pc[h] = "recheck"
    /\ IF cache[key[h]] # "absent"
       THEN Count("hits") /\ Return(h, Served(key[h]))
       ELSE Goto(h, "negcheck") /\ UNCHANGED <<answer, stats>>
    /\ UNCHANGED <<key, waitOn, refresh, inflight, closed, cache, neg, custom>>

NegCheck(h) ==
    /\ pc[h] = "negcheck"
    /\ IF key[h][1] \in neg
       THEN Count("hits") /\ Return(h, "nxdomain")
       ELSE Goto(h, "lookup") /\ UNCHANGED <<answer, stats>>
    /\ UNCHANGED <<key, waitOn, refresh, inflight, closed, cache, neg, custom>>

\* A fresh entry is served; a stale one is served and refreshed behind it.
Hit(h) ==
    /\ pc[h] = "lookup"
    /\ cache[key[h]] # "absent"
    /\ Count("hits")
    /\ Return(h, Served(key[h]))
    /\ refresh' = IF cache[key[h]] = "stale"
                  THEN [refresh EXCEPT ![h] = "resolve"] ELSE refresh
    /\ UNCHANGED <<key, waitOn, inflight, closed, cache, neg, custom>>

\* Seeded fault: a stale entry is treated as a miss.
MissOnStale(h) ==
    /\ pc[h] = "lookup"
    /\ cache[key[h]] # "fresh"
    /\ Count("misses")
    /\ Goto(h, IF key[h][1] \in BootstrapHosts THEN "bootstrap" ELSE "resolve")
    /\ UNCHANGED <<key, waitOn, answer, refresh, inflight, closed, cache, neg, custom>>

Miss(h) ==
    /\ pc[h] = "lookup"
    /\ cache[key[h]] = "absent"
    /\ Count("misses")
    /\ Goto(h, IF key[h][1] \in BootstrapHosts THEN "bootstrap" ELSE "resolve")
    /\ UNCHANGED <<key, waitOn, answer, refresh, inflight, closed, cache, neg, custom>>

\* The upstream call has returned r; an error is answered with SERVFAIL.
Resolved(h, r) ==
    IF r = "failure"
    THEN Count("errors") /\ Return(h, "servfail") /\ UNCHANGED neg
    ELSE IF r = "nxdomain"
    THEN /\ neg' = neg \cup {key[h][1]}
         /\ Return(h, "nxdomain")
         /\ UNCHANGED stats
    ELSE Goto(h, "store") /\ UNCHANGED <<answer, neg, stats>>

ResolveAll(h) ==
    /\ pc[h] = "resolve"
    /\ \E reply \in Upstream(key[h][1]) : Resolved(h, ResolveAllResult(reply))
    /\ UNCHANGED <<key, waitOn, refresh, inflight, closed, cache, custom>>

\* The bootstrap resolver's NXDomain is not looked at: the empty reply is
\* cached and answered like any other.
BootstrapResolve(h) ==
    /\ pc[h] = "bootstrap"
    /\ \E reply \in Upstream(key[h][1]) :
          Resolved(h, IF reply = "failure" THEN reply ELSE "records")
    /\ UNCHANGED <<key, waitOn, refresh, inflight, closed, cache, custom>>

Store(h) ==
    /\ pc[h] = "store"
    /\ StoreFresh(key[h])
    /\ Return(h, "resolved")
    /\ UNCHANGED <<key, waitOn, refresh, inflight, closed, neg, custom, stats>>

\* Seeded fault: an early return on the error path skips close(ch).
CloseOnSuccess(h) ==
    /\ pc[h] = "close"
    /\ closed' = IF answer[h] = "servfail" THEN closed ELSE closed \cup {h}
    /\ Goto(h, "delete")
    /\ UNCHANGED <<key, waitOn, answer, refresh, inflight, cache, neg, custom, stats>>

\* The owner's deferred function: close(ch), then inflight.Delete.
Close(h) ==
    /\ pc[h] = "close"
    /\ closed' = closed \cup {h}
    /\ Goto(h, "delete")
    /\ UNCHANGED <<key, waitOn, answer, refresh, inflight, cache, neg, custom, stats>>

\* Seeded fault: the dedup entry is deleted by name, whatever its type.
DeleteByName(h) ==
    /\ pc[h] = "delete"
    /\ inflight' = [k \in Keys |-> IF k[1] = key[h][1] THEN NoHandler ELSE inflight[k]]
    /\ Goto(h, "done")
    /\ UNCHANGED <<key, waitOn, answer, refresh, closed, cache, neg, custom, stats>>

Delete(h) ==
    /\ pc[h] = "delete"
    /\ inflight' = [inflight EXCEPT ![key[h]] = NoHandler]
    /\ Goto(h, "done")
    /\ UNCHANGED <<key, waitOn, answer, refresh, closed, cache, neg, custom, stats>>

-----------------------------------------------------------------------------
(* refreshInBackground, the goroutine started by handler h *)

RefreshResolve(h) ==
    /\ refresh[h] = "resolve"
    /\ \E reply \in Upstream(key[h][1]) :
          refresh' = [refresh EXCEPT ![h] =
             IF ResolveAllResult(reply) = "failure" THEN "done" ELSE "store"]
    /\ UNCHANGED <<pc, key, waitOn, answer, inflight, closed, cache, neg, custom,
                   stats>>

RefreshStore(h) ==
    /\ refresh[h] = "store"
    /\ StoreFresh(key[h])
    /\ refresh' = [refresh EXCEPT ![h] = "done"]
    /\ UNCHANGED <<pc, key, waitOn, answer, inflight, closed, neg, custom, stats>>

-----------------------------------------------------------------------------
(* The environment: time, and the user editing overrides *)

Expire(k) ==
    /\ cache[k] = "fresh"
    /\ cache' = [cache EXCEPT ![k] = "stale"]
    /\ UNCHANGED <<pc, key, waitOn, answer, refresh, inflight, closed, neg, custom,
                   stats>>

\* CustomSet replaces the whole entry of the lower-cased name.
SetOverride(d, types) ==
    /\ custom' = {c \in custom : c[1] # Lower[d]} \cup {<<Lower[d], t>> : t \in types}
    /\ UNCHANGED <<pc, key, waitOn, answer, refresh, inflight, closed, cache, neg,
                   stats>>

DeleteOverride(d) ==
    /\ custom' = {c \in custom : c[1] # Lower[d]}
    /\ UNCHANGED <<pc, key, waitOn, answer, refresh, inflight, closed, cache, neg,
                   stats>>

-----------------------------------------------------------------------------

Receive(h) == ArriveMalformed(h) \/ \E k \in Keys : Arrive(h, k)

\* What handler h does by itself once its packet is there.
Step(h) ==
    \/ CheckOverride(h) \/ Own(h) \/ Join(h) \/ Awake(h) \/ Recheck(h)
    \/ NegCheck(h) \/ Hit(h) \/ Miss(h) \/ ResolveAll(h) \/ BootstrapResolve(h)
    \/ Store(h) \/ Close(h) \/ Delete(h)

RefreshStep(h) == RefreshResolve(h) \/ RefreshStore(h)

Environment ==
    \/ \E k \in Keys : Expire(k)
    \/ \E d \in Domains : DeleteOverride(d)
    \/ \E d \in Domains, types \in SUBSET AddrTypes \ {{}} : SetOverride(d, types)

Next ==
    \/ \E h \in Handlers : Receive(h) \/ Step(h) \/ RefreshStep(h)
    \/ Environment

Spec == Init /\ [][Next]_vars

\* A runnable goroutine is scheduled; upstream calls end, with an error at the
\* latest, because each of them carries a deadline.
Fairness ==
    \A h \in Handlers : WF_vars(Step(h)) /\ WF_vars(RefreshStep(h))

FairSpec == Spec /\ Fairness

-----------------------------------------------------------------------------
(* Properties *)

\* The handler is the one that resolves its key for everybody else.
Owning(h) == Owner(h) /\ pc[h] \in {"negcheck", "lookup", "bootstrap", "resolve",
                                    "store", "close", "delete"}

\* At any time at most one handler owns a key, and the inflight map says which:
\* no Delete ever removes the channel of another handler, and no channel is
\* left behind by a finished one (which would block its key for good).
SingleFlight ==
    /\ \A h \in Handlers : Owning(h) => inflight[key[h]] = h
    /\ \A k \in Keys : inflight[k] # NoHandler =>
          Owning(inflight[k]) /\ key[inflight[k]] = k

\* A handler blocked in <-prev (a receive without a timeout) waits for a
\* handler of its own question that still owns it, or whose channel is already
\* closed; it never waits for one that is itself waiting.
NoOrphanWaiter ==
    \A h \in Handlers : pc[h] = "wait" =>
        LET o == waitOn[h]
        IN  /\ o # h
            /\ key[o] = key[h]
            /\ o \in closed \/ Owning(o)

\* A handler that waited goes upstream itself only if the handler it waited for
\* had answered SERVFAIL: every other outcome has left an entry in the cache.
DuplicateOnlyAfterFailure ==
    \A h \in Handlers :
        pc[h] \in {"bootstrap", "resolve", "store"} /\ ~Owner(h)
            => answer[waitOn[h]] = "servfail"

\* The statistics agree with the work done: each query that is past the caches
\* was counted as exactly one of hit, miss or parse error, and the error counter
\* is the number of queries dropped or answered SERVFAIL.
CountersAgree ==
    LET arrived   == {h \in Handlers : pc[h] # "new"}
        malformed == {h \in Handlers : answer[h] = "dropped"}
        undecided == {h \in Handlers : pc[h] \in {"custom", "dedup", "wait",
                                         "recheck", "negcheck", "lookup"}}
        failed    == {h \in Handlers : answer[h] = "servfail"}
    IN  /\ stats["total"] = Cardinality(arrived)
        /\ stats["hits"] + stats["misses"] =
              Cardinality(arrived) - Cardinality(malformed \cup undecided)
        /\ stats["errors"] = Cardinality(malformed) + Cardinality(failed)

\* Serving stale hides upstream failures: a query whose answer is cached, at
\* whatever age, when it arrives is never answered SERVFAIL later on, whatever
\* happens to the entry, to the handler it waits for or to the upstream servers.
CachedAtArrival(h) == pc[h] = "custom" /\ cache[key[h]] # "absent"
ServeStaleFor(h) == [](CachedAtArrival(h) => [](answer[h] # "servfail"))
ServeStale == \A h \in Handlers : ServeStaleFor(h)

\* Every query that parses is answered, waiting ones included.
EveryQueryAnswered ==
    \A h \in Handlers : pc[h] = "custom" ~> pc[h] = "done"

\* What is seen of the pipeline from outside: a handler is pending until it
\* leaves the caches, upstream until it has a result to return, and answered
\* from then on; an entry's age and the origin of records are not visible.
Phase(step) ==
    IF step = "new" THEN "new"
    ELSE IF step \in {"bootstrap", "resolve", "store"} THEN "upstream"
    ELSE IF step \in {"close", "delete", "done"} THEN "answered"
    ELSE "pending"

Outcome(ans) ==
    IF ans \in {"fresh", "expired", "resolved"} THEN "records" ELSE ans

Service == INSTANCE DnsService WITH
    phase <- [h \in Handlers |-> Phase(pc[h])],
    question <- key,
    outcome <- [h \in Handlers |-> Outcome(answer[h])],
    cached <- {k \in Keys : cache[k] # "absent"},
    overridden <- {k \in Keys : Overridden(k)}

\* Seen from outside, the pipeline asks upstream only for what it does not have,
\* once per question unless a query of it has failed, and reports a failure only
\* of a query that was upstream.
ImplementsService == Service!Spec

\* .ai/memory.md:298 says that NXDOMAIN is put into the negative cache and
\* answered as such: a name that does not exist is not answered with records.
NXDomainReported ==
    \A h \in Handlers : key[h][1] \in NonExistent => answer[h] # "resolved"
=============================================================================
