------------------------ MODULE QueryServiceProofs ------------------------
(***************************************************************************)
(* Safety of the query pipeline for any number of handlers, names and      *)
(* types.  The invariants of QueryService are not inductive: what makes    *)
(* them so is the life of a channel, from the LoadOrStore that puts it in  *)
(* the map to the close that the waiters see, stated in ChannelInv, and    *)
(* what its owner has left behind at that moment, stated in OutcomeInv.    *)
(***************************************************************************)
EXTENDS QueryService, FiniteSetTheorems, TLAPS

BeforeDedup == {"new", "custom", "dedup"}
Closing == {"close", "delete"}
Upstreaming == {"bootstrap", "resolve", "store"}

Waits(h) == waitOn[h] # NoHandler

ChannelInv ==
    /\ \A h \in Handlers : pc[h] \in BeforeDedup \cup Closing => ~Waits(h)
    /\ \A h \in Handlers : pc[h] \in {"wait", "recheck"} => Waits(h)
    /\ \A h \in closed : pc[h] \in {"delete", "done"}
    /\ \A h \in Handlers : pc[h] = "delete" => h \in closed
    /\ \A h \in Handlers : Waits(h) =>
          /\ ~Waits(waitOn[h])
          /\ key[waitOn[h]] = key[h]
          /\ waitOn[h] \in closed \/ Owning(waitOn[h])
    /\ \A h \in Handlers : Waits(h) /\ pc[h] # "wait" => waitOn[h] \in closed

OutcomeInv ==
    /\ neg = {}
    /\ \A h \in Handlers : pc[h] \in Closing \/ h \in closed =>
          answer[h] = "servfail" \/ cache[key[h]] # "absent"
    /\ \A h \in Handlers : pc[h] \in BeforeDedup => answer[h] # "servfail"
    /\ DuplicateOnlyAfterFailure

IInv == TypeOK /\ SingleFlight /\ ChannelInv /\ OutcomeInv

-----------------------------------------------------------------------------

LEMMA InitTypeOK == Init => TypeOK
<1>1. Keys # {}
  <2>1. PICK d \in Domains, t \in QTypes : TRUE
    BY NamesAssumption
  <2>2. <<d, t>> \in Keys
    BY <2>1 DEF Keys
  <2> QED
    BY <2>2
<1>2. (CHOOSE k \in Keys : TRUE) \in Keys
  BY <1>1
<1> QED
  BY <1>2 DEF Init, TypeOK, Steps, Answers, CacheStates, Counters

LEMMA InitIInv == Init => IInv
<1> SUFFICES ASSUME Init PROVE IInv
  OBVIOUS
<1>1. TypeOK
  BY InitTypeOK
<1>2. SingleFlight
  BY <1>1 DEF Init, SingleFlight, Owning
<1>3. ChannelInv
  BY DEF Init, ChannelInv, Waits, BeforeDedup, Closing
<1>4. OutcomeInv
  BY DEF Init, OutcomeInv, Closing, BeforeDedup, DuplicateOnlyAfterFailure
<1> QED
  BY <1>1, <1>2, <1>3, <1>4 DEF IInv

LEMMA KeyName == \A k \in Keys : k[1] \in Domains
  BY DEF Keys

(* Types are preserved by every step. *)
LEMMA TypeStep == TypeOK /\ [Next]_vars => TypeOK'
<1> SUFFICES ASSUME TypeOK, [Next]_vars PROVE TypeOK'
  OBVIOUS
<1> USE NamesAssumption DEF TypeOK, Steps, Answers, CacheStates, Counters
<1>1. ASSUME NEW h \in Handlers, Receive(h) PROVE TypeOK'
  BY <1>1 DEF Receive, Arrive, ArriveMalformed, Goto, Count
<1>2. ASSUME NEW h \in Handlers, Step(h) PROVE TypeOK'
  <2>1. CASE CheckOverride(h)
    BY <2>1 DEF CheckOverride, Goto, Count
  <2>2. CASE Own(h) \/ Join(h) \/ Awake(h)
    BY <2>2 DEF Own, Join, Awake, Goto
  <2>3. CASE Recheck(h)
    BY <2>3 DEF Recheck, Goto, Count, Return, Served
  <2>4. CASE NegCheck(h)
    BY <2>4 DEF NegCheck, Goto, Count, Return
  <2>5. CASE Hit(h)
    BY <2>5 DEF Hit, Goto, Count, Return, Served
  <2>6. CASE Miss(h)
    BY <2>6 DEF Miss, Goto, Count
  <2>7. CASE ResolveAll(h)
    <3>1. key[h][1] \in Domains
      BY KeyName
    <3>2. PICK r \in {"failure", "nxdomain", "records"} : Resolved(h, r)
      BY <2>7 DEF ResolveAll, Upstream, ResolveAllResult
    <3> QED
      BY <2>7, <3>1, <3>2 DEF ResolveAll, Resolved, Goto, Count, Return
  <2>8. CASE BootstrapResolve(h)
    <3>1. PICK r \in {"failure", "records"} : Resolved(h, r)
      BY <2>8 DEF BootstrapResolve, Upstream
    <3> QED
      BY <2>8, <3>1 DEF BootstrapResolve, Resolved, Goto, Count, Return
  <2>9. CASE Store(h)
    BY <2>9 DEF Store, StoreFresh, Goto, Return
  <2>10. CASE Close(h) \/ Delete(h)
    BY <2>10 DEF Close, Delete, Goto
  <2> QED
    BY <1>2, <2>1, <2>2, <2>3, <2>4, <2>5, <2>6, <2>7, <2>8, <2>9, <2>10 DEF Step
<1>3. ASSUME NEW h \in Handlers, RefreshStep(h) PROVE TypeOK'
  BY <1>3 DEF RefreshStep, RefreshResolve, RefreshStore, StoreFresh
<1>4. ASSUME Environment PROVE TypeOK'
  <2>1. ASSUME NEW k \in Keys, Expire(k) PROVE TypeOK'
    BY <2>1 DEF Expire
  <2>2. ASSUME NEW d \in Domains, DeleteOverride(d) PROVE TypeOK'
    BY <2>2 DEF DeleteOverride
  <2>3. ASSUME NEW d \in Domains, NEW types \in SUBSET AddrTypes \ {{}},
               SetOverride(d, types)
        PROVE TypeOK'
    BY <2>3 DEF SetOverride
  <2> QED
    BY <1>4, <2>1, <2>2, <2>3 DEF Environment
<1>5. CASE UNCHANGED vars
  BY <1>5 DEF vars
<1> QED
  BY <1>1, <1>2, <1>3, <1>4, <1>5 DEF Next

(* The rest of the invariant is preserved by every step. *)
LEMMA InvStep == IInv /\ TypeOK' /\ [Next]_vars =>
                    SingleFlight' /\ ChannelInv' /\ OutcomeInv'
<1> SUFFICES ASSUME IInv, TypeOK', [Next]_vars
             PROVE SingleFlight' /\ ChannelInv' /\ OutcomeInv'
  OBVIOUS
<1> USE NoHandlerAssumption DEF IInv, TypeOK, Steps, Answers, CacheStates, Counters,
        SingleFlight, ChannelInv, OutcomeInv, DuplicateOnlyAfterFailure,
        Owning, Owner, Waits, BeforeDedup, Closing, Upstreaming, Goto
<1>1. ASSUME NEW h \in Handlers, Receive(h)
      PROVE SingleFlight' /\ ChannelInv' /\ OutcomeInv'
  <2>1. CASE ArriveMalformed(h)
    <3>1. SingleFlight'
      BY <2>1 DEF ArriveMalformed
    <3>2. ChannelInv'
      BY <2>1 DEF ArriveMalformed
    <3>3. OutcomeInv'
      BY <2>1 DEF ArriveMalformed
    <3> QED
      BY <3>1, <3>2, <3>3
  <2>2. ASSUME NEW k \in Keys, Arrive(h, k)
        PROVE SingleFlight' /\ ChannelInv' /\ OutcomeInv'
    <3>1. SingleFlight'
      BY <2>2 DEF Arrive
    <3>2. ChannelInv'
      BY <2>2 DEF Arrive
    <3>3. OutcomeInv'
      BY <2>2 DEF Arrive
    <3> QED
      BY <3>1, <3>2, <3>3
  <2> QED
    BY <1>1, <2>1, <2>2 DEF Receive
<1>2. ASSUME NEW h \in Handlers, Step(h)
      PROVE SingleFlight' /\ ChannelInv' /\ OutcomeInv'
  <2>1. CASE CheckOverride(h)
    <3>1. SingleFlight'
      BY <2>1 DEF CheckOverride
    <3>2. ChannelInv'
      BY <2>1 DEF CheckOverride
    <3>3. OutcomeInv'
      BY <2>1 DEF CheckOverride
    <3> QED
      BY <3>1, <3>2, <3>3
  <2>2. CASE Own(h)
    <3>1. SingleFlight'
      BY <2>2 DEF Own
    <3>2. ChannelInv'
      BY <2>2 DEF Own
    <3>3. OutcomeInv'
      BY <2>2 DEF Own
    <3> QED
      BY <3>1, <3>2, <3>3
  <2>3. CASE Join(h)
    <3>1. SingleFlight'
      BY <2>3 DEF Join
    <3>2. ChannelInv'
      BY <2>3 DEF Join
    <3>3. OutcomeInv'
      BY <2>3 DEF Join
    <3> QED
      BY <3>1, <3>2, <3>3
  <2>4. CASE Awake(h)
    <3>1. SingleFlight'
      BY <2>4 DEF Awake
    <3>2. ChannelInv'
      BY <2>4 DEF Awake
    <3>3. OutcomeInv'
      BY <2>4 DEF Awake
    <3> QED
      BY <3>1, <3>2, <3>3
  <2>5. CASE Recheck(h)
    <3>1. SingleFlight'
      BY <2>5 DEF Recheck, Return
    <3>2. ChannelInv'
      BY <2>5 DEF Recheck, Return
    <3>3. OutcomeInv'
      BY <2>5 DEF Recheck, Return
    <3> QED
      BY <3>1, <3>2, <3>3
  <2>6. CASE NegCheck(h)
    <3>1. SingleFlight'
      BY <2>6 DEF NegCheck, Return
    <3>2. ChannelInv'
      BY <2>6 DEF NegCheck, Return
    <3>3. OutcomeInv'
      BY <2>6 DEF NegCheck, Return
    <3> QED
      BY <3>1, <3>2, <3>3
  <2>7. CASE Hit(h)
    <3>1. SingleFlight'
      BY <2>7 DEF Hit, Return
    <3>2. ChannelInv'
      BY <2>7 DEF Hit, Return
    <3>3. OutcomeInv'
      BY <2>7 DEF Hit, Return
    <3> QED
      BY <3>1, <3>2, <3>3
  <2>8. CASE Miss(h)
    <3>1. SingleFlight'
      BY <2>8 DEF Miss
    <3>2. ChannelInv'
      BY <2>8 DEF Miss
    <3>3. OutcomeInv'
      BY <2>8 DEF Miss
    <3> QED
      BY <3>1, <3>2, <3>3
  <2>9. CASE ResolveAll(h)
    <3>0. PICK r \in {"failure", "records"} : Resolved(h, r)
      BY <2>9 DEF ResolveAll, Upstream, ResolveAllResult
    <3>1. SingleFlight'
      BY <2>9, <3>0 DEF ResolveAll, Resolved, Return
    <3>2. ChannelInv'
      BY <2>9, <3>0 DEF ResolveAll, Resolved, Return
    <3>3. OutcomeInv'
      BY <2>9, <3>0 DEF ResolveAll, Resolved, Return
    <3> QED
      BY <3>1, <3>2, <3>3
  <2>10. CASE BootstrapResolve(h)
    <3>0. PICK r \in {"failure", "records"} : Resolved(h, r)
      BY <2>10 DEF BootstrapResolve, Upstream
    <3>1. SingleFlight'
      BY <2>10, <3>0 DEF BootstrapResolve, Resolved, Return
    <3>2. ChannelInv'
      BY <2>10, <3>0 DEF BootstrapResolve, Resolved, Return
    <3>3. OutcomeInv'
      BY <2>10, <3>0 DEF BootstrapResolve, Resolved, Return
    <3> QED
      BY <3>1, <3>2, <3>3
  <2>11. CASE Store(h)
    <3>1. SingleFlight'
      BY <2>11 DEF Store, StoreFresh, Return
    <3>2. ChannelInv'
      BY <2>11 DEF Store, StoreFresh, Return
    <3>3. OutcomeInv'
      BY <2>11 DEF Store, StoreFresh, Return
    <3> QED
      BY <3>1, <3>2, <3>3
  <2>12. CASE Close(h)
    <3>1. SingleFlight'
      BY <2>12 DEF Close
    <3>2. ChannelInv'
      BY <2>12 DEF Close
    <3>3. OutcomeInv'
      BY <2>12 DEF Close
    <3> QED
      BY <3>1, <3>2, <3>3
  <2>13. CASE Delete(h)
    <3>1. SingleFlight'
      BY <2>13 DEF Delete
    <3>2. ChannelInv'
      BY <2>13 DEF Delete
    <3>3. OutcomeInv'
      BY <2>13 DEF Delete
    <3> QED
      BY <3>1, <3>2, <3>3
  <2> QED
    BY <1>2, <2>1, <2>2, <2>3, <2>4, <2>5, <2>6, <2>7, <2>8, <2>9, <2>10, <2>11,
       <2>12, <2>13 DEF Step
<1>3. ASSUME NEW h \in Handlers, RefreshStep(h)
      PROVE SingleFlight' /\ ChannelInv' /\ OutcomeInv'
  BY <1>3 DEF RefreshStep, RefreshResolve, RefreshStore, StoreFresh
<1>4. ASSUME Environment
      PROVE SingleFlight' /\ ChannelInv' /\ OutcomeInv'
  BY <1>4 DEF Environment, Expire, DeleteOverride, SetOverride
<1>5. CASE UNCHANGED vars
  BY <1>5 DEF vars
<1> QED
  BY <1>1, <1>2, <1>3, <1>4, <1>5 DEF Next

LEMMA Inductive == Spec => []IInv
<1>1. IInv /\ [Next]_vars => IInv'
  BY TypeStep, InvStep DEF IInv
<1> QED
  BY InitIInv, <1>1, PTL DEF Spec

-----------------------------------------------------------------------------

(* Every variable of Handle's shared and local state keeps its type. *)
THEOREM TypeCorrect == Spec => []TypeOK
<1>1. IInv => TypeOK
  BY DEF IInv
<1> QED
  BY Inductive, <1>1, PTL

(* LoadOrStore / close / Delete (service.go:134, 150-153): a key has at most *)
(* one owner, the map names it, and no channel outlives its owner.           *)
THEOREM SingleFlightHolds == Spec => []SingleFlight
<1>1. IInv => SingleFlight
  BY DEF IInv
<1> QED
  BY Inductive, <1>1, PTL

(* <-prev (service.go:136) is always a wait for a handler of the same key    *)
(* that still owns it, or for a channel that is closed already.              *)
THEOREM NoOrphanWaiterHolds == Spec => []NoOrphanWaiter
<1>1. IInv => NoOrphanWaiter
  <2> SUFFICES ASSUME IInv, NEW h \in Handlers, pc[h] = "wait"
               PROVE LET o == waitOn[h]
                     IN  /\ o # h
                         /\ key[o] = key[h]
                         /\ o \in closed \/ Owning(o)
    BY DEF NoOrphanWaiter
  <2>1. Waits(h)
    BY DEF IInv, ChannelInv
  <2> QED
    BY <2>1 DEF IInv, ChannelInv, Waits
<1> QED
  BY Inductive, <1>1, PTL

(* The fall-through of a waiter (service.go:138-148) reaches the upstream    *)
(* servers only behind a SERVFAIL of the handler it waited for.              *)
THEOREM DuplicateOnlyAfterFailureHolds == Spec => []DuplicateOnlyAfterFailure
<1>1. IInv => DuplicateOnlyAfterFailure
  BY DEF IInv, OutcomeInv
<1> QED
  BY Inductive, <1>1, PTL

(* Once a handler has arrived with its answer cached, it stays out of the    *)
(* steps that can fail, because no step removes an entry.                    *)
OutOfDanger(h) ==
    /\ cache[key[h]] # "absent"
    /\ pc[h] \notin Upstreaming \cup {"new"}
    /\ answer[h] # "servfail"

LEMMA DangerInitially ==
    \A h \in Handlers : IInv /\ CachedAtArrival(h) => OutOfDanger(h)
  BY DEF IInv, OutcomeInv, CachedAtArrival, OutOfDanger, BeforeDedup, Upstreaming

LEMMA DangerStable ==
    \A h \in Handlers : IInv /\ OutOfDanger(h) /\ [Next]_vars => OutOfDanger(h)'
<1> SUFFICES ASSUME NEW h \in Handlers, IInv, OutOfDanger(h), [Next]_vars
             PROVE OutOfDanger(h)'
  OBVIOUS
<1> USE DEF IInv, TypeOK, Steps, Answers, CacheStates, OutOfDanger, Upstreaming, Goto
<1>1. ASSUME NEW g \in Handlers, Receive(g) PROVE OutOfDanger(h)'
  BY <1>1 DEF Receive, Arrive, ArriveMalformed
<1>2. ASSUME NEW g \in Handlers, Step(g) PROVE OutOfDanger(h)'
  <2>1. CASE CheckOverride(g) \/ Own(g) \/ Join(g) \/ Awake(g)
    BY <2>1 DEF CheckOverride, Own, Join, Awake
  <2>2. CASE Recheck(g) \/ NegCheck(g) \/ Hit(g) \/ Miss(g)
    BY <2>2 DEF Recheck, NegCheck, Hit, Miss, Return, Served
  <2>3. CASE ResolveAll(g) \/ BootstrapResolve(g)
    BY <2>3 DEF ResolveAll, BootstrapResolve, Resolved, Return
  <2>4. CASE Store(g) \/ Close(g) \/ Delete(g)
    BY <2>4 DEF Store, Close, Delete, StoreFresh, Return
  <2> QED
    BY <1>2, <2>1, <2>2, <2>3, <2>4 DEF Step
<1>3. ASSUME NEW g \in Handlers, RefreshStep(g) PROVE OutOfDanger(h)'
  BY <1>3 DEF RefreshStep, RefreshResolve, RefreshStore, StoreFresh
<1>4. ASSUME Environment PROVE OutOfDanger(h)'
  BY <1>4 DEF Environment, Expire, DeleteOverride, SetOverride
<1>5. CASE UNCHANGED vars
  BY <1>5 DEF vars
<1> QED
  BY <1>1, <1>2, <1>3, <1>4, <1>5 DEF Next

(* A query that finds its answer cached on arrival, fresh or stale, is not   *)
(* answered SERVFAIL, whatever expires or fails while it is handled          *)
(* (service.go:138-147, 163-183).                                            *)
THEOREM ServeStaleHolds == Spec => ServeStale
<1>1. ASSUME NEW h \in Handlers PROVE Spec => ServeStaleFor(h)
  <2>1. IInv /\ CachedAtArrival(h) => OutOfDanger(h)
    BY DangerInitially
  <2>2. IInv /\ OutOfDanger(h) /\ [Next]_vars => OutOfDanger(h)'
    BY DangerStable
  <2>3. OutOfDanger(h) => answer[h] # "servfail"
    BY DEF OutOfDanger
  <2> QED
    BY Inductive, <2>1, <2>2, <2>3, PTL DEF Spec, ServeStaleFor
<1> QED
  BY <1>1 DEF ServeStale

-----------------------------------------------------------------------------

(* QueryService implements DnsService.  Beyond the invariant above it takes  *)
(* that an outcome is there only once the handler has been answered, and     *)
(* that a refresh is of an entry that is there.                              *)
AnsweredInv ==
    \A h \in Handlers :
        /\ refresh[h] # "none" => cache[key[h]] # "absent" /\ pc[h] # "new"
        /\ pc[h] \notin Closing \cup {"done"} => answer[h] = "none"
        /\ answer[h] # "nxdomain"

LEMMA InitAnswered == Init => AnsweredInv
  BY DEF Init, AnsweredInv

LEMMA AnsweredStep == IInv /\ AnsweredInv /\ [Next]_vars => AnsweredInv'
<1> SUFFICES ASSUME IInv, AnsweredInv, [Next]_vars PROVE AnsweredInv'
  OBVIOUS
<1> USE DEF AnsweredInv, IInv, TypeOK, Steps, CacheStates, OutcomeInv,
        Closing, Goto
<1>1. ASSUME NEW g \in Handlers, Receive(g) PROVE AnsweredInv'
  BY <1>1 DEF Receive, Arrive, ArriveMalformed
<1>2. ASSUME NEW g \in Handlers, Step(g) PROVE AnsweredInv'
  <2>1. CASE CheckOverride(g) \/ Own(g) \/ Join(g) \/ Awake(g)
    BY <2>1 DEF CheckOverride, Own, Join, Awake
  <2>2. CASE Recheck(g) \/ NegCheck(g) \/ Hit(g) \/ Miss(g)
    BY <2>2 DEF Recheck, NegCheck, Hit, Miss, Return, Served
  <2>3. CASE ResolveAll(g)
    <3>1. PICK r \in {"failure", "records"} : Resolved(g, r)
      BY <2>3 DEF ResolveAll, Upstream, ResolveAllResult
    <3> QED
      BY <2>3, <3>1 DEF ResolveAll, Resolved, Return
  <2>4. CASE BootstrapResolve(g)
    <3>1. PICK r \in {"failure", "records"} : Resolved(g, r)
      BY <2>4 DEF BootstrapResolve, Upstream
    <3> QED
      BY <2>4, <3>1 DEF BootstrapResolve, Resolved, Return
  <2>5. CASE Store(g) \/ Close(g) \/ Delete(g)
    BY <2>5 DEF Store, Close, Delete, StoreFresh, Return
  <2> QED
    BY <1>2, <2>1, <2>2, <2>3, <2>4, <2>5 DEF Step
<1>3. ASSUME NEW g \in Handlers, RefreshStep(g) PROVE AnsweredInv'
  BY <1>3 DEF RefreshStep, RefreshResolve, RefreshStore, StoreFresh
<1>4. ASSUME Environment PROVE AnsweredInv'
  BY <1>4 DEF Environment, Expire, DeleteOverride, SetOverride
<1>5. CASE UNCHANGED vars
  BY <1>5 DEF vars
<1> QED
  BY <1>1, <1>2, <1>3, <1>4, <1>5 DEF Next

LEMMA InitImplements == Init => Service!Init
<1> SUFFICES ASSUME Init PROVE Service!Init
  OBVIOUS
<1>1. key \in [Handlers -> Keys]
  BY InitTypeOK DEF TypeOK
<1>2. [h \in Handlers |-> Phase(pc[h])] = [h \in Handlers |-> "new"]
  BY DEF Init, Phase
<1>3. [h \in Handlers |-> Outcome(answer[h])] = [h \in Handlers |-> "none"]
  BY DEF Init, Outcome
<1>4. {k \in Keys : Overridden(k)} = {}
  BY DEF Init, Overridden
<1> QED
  BY <1>1, <1>2, <1>3, <1>4 DEF Service!Init

\* A step of the pipeline that cannot be seen.
LEMMA Unseen ==
    ASSUME TypeOK,
           \A h \in Handlers : Phase(pc'[h]) = Phase(pc[h]),
           \A h \in Handlers : Outcome(answer'[h]) = Outcome(answer[h]),
           \A k \in Keys : cache'[k] # "absent" <=> cache[k] # "absent",
           key' = key, custom' = custom
    PROVE  UNCHANGED Service!vars
<1>1. UNCHANGED [h \in Handlers |-> Phase(pc[h])]
  OBVIOUS
<1>2. UNCHANGED [h \in Handlers |-> Outcome(answer[h])]
  OBVIOUS
<1>3. UNCHANGED {k \in Keys : cache[k] # "absent"}
  OBVIOUS
<1>4. UNCHANGED {k \in Keys : Overridden(k)}
  BY DEF Overridden
<1> QED
  BY <1>1, <1>2, <1>3, <1>4 DEF Service!vars

\* How two assignments look from outside.
LEMMA Moved ==
    ASSUME TypeOK, NEW h \in Handlers, NEW step, Goto(h, step)
    PROVE  [g \in Handlers |-> Phase(pc'[g])]
             = [[g \in Handlers |-> Phase(pc[g])] EXCEPT ![h] = Phase(step)]
  BY DEF TypeOK, Goto

LEMMA AnswerSeen ==
    ASSUME TypeOK, NEW h \in Handlers, NEW ans, Return(h, ans)
    PROVE  Service!Answer(h, Outcome(ans))
<1>1. PICK step \in {"close", "done"} : Goto(h, step)
  BY DEF Return
<1>2. Phase(step) = "answered"
  BY DEF Phase
<1>3. [g \in Handlers |-> Outcome(answer'[g])]
        = [[g \in Handlers |-> Outcome(answer[g])] EXCEPT ![h] = Outcome(ans)]
  BY DEF TypeOK, Return
<1> QED
  BY <1>1, <1>2, <1>3, Moved DEF Service!Answer

\* Why a second query of a question may go upstream: the handlers that are
\* upstream own the question, or waited for one that was answered SERVFAIL.
LEMMA MayGo ==
    ASSUME IInv, AnsweredInv, NEW h \in Handlers, pc[h] = "lookup",
           Owner(h) \/ answer[waitOn[h]] = "servfail"
    PROVE  Service!MayGoUpstream(h)
<1> SUFFICES ASSUME NEW g \in Handlers, g # h, key[g] = key[h],
                    Phase(pc[g]) = "upstream"
             PROVE  \E f \in Handlers : /\ f # h /\ key[f] = key[h]
                                        /\ Outcome(answer[f]) = "servfail"
  BY DEF Service!MayGoUpstream, Service!Alike
<1> USE NoHandlerAssumption DEF IInv, TypeOK, Steps
<1>1. pc[g] \in {"bootstrap", "resolve", "store"}
  BY DEF Phase
<1>2. ASSUME NEW f \in Handlers, Waits(f), answer[waitOn[f]] = "servfail",
             pc[f] \in {"lookup", "bootstrap", "resolve", "store"}, key[f] = key[h]
      PROVE  /\ waitOn[f] \in Handlers /\ waitOn[f] # h
             /\ key[waitOn[f]] = key[h] /\ Outcome(answer[waitOn[f]]) = "servfail"
  BY <1>2 DEF ChannelInv, AnsweredInv, Closing, Outcome, Waits
<1>3. CASE Waits(h)
  BY <1>2, <1>3 DEF Owner, Waits
<1>4. CASE Waits(g)
  BY <1>1, <1>2, <1>4 DEF OutcomeInv, DuplicateOnlyAfterFailure, Owner, Waits
<1>5. CASE ~Waits(h) /\ ~Waits(g)
  BY <1>1, <1>5 DEF SingleFlight, Owning, Owner, Waits
<1> QED
  BY <1>3, <1>4, <1>5

LEMMA ReceiveImplements ==
    ASSUME TypeOK, NEW h \in Handlers, Receive(h)
    PROVE  Service!Next
<1>1. CASE ArriveMalformed(h)
  <2>1. Service!Drop(h)
    BY <1>1, Moved DEF ArriveMalformed, TypeOK, Phase, Outcome, Service!Drop,
       Service!Answer, Overridden
  <2> QED
    BY <2>1 DEF Service!Next
<1>2. ASSUME NEW k \in Keys, Arrive(h, k) PROVE Service!Next
  <2>1. Service!Ask(h, k)
    BY <1>2, Moved DEF Arrive, Phase, Service!Ask, Overridden
  <2> QED
    BY <2>1 DEF Service!Next
<1> QED
  BY <1>1, <1>2 DEF Receive

LEMMA StepImplements ==
    ASSUME IInv, IInv', AnsweredInv, NEW h \in Handlers, Step(h)
    PROVE  Service!Next \/ UNCHANGED Service!vars
<1> USE DEF IInv, TypeOK, Steps, Answers, CacheStates
<1>1. CASE CheckOverride(h)
  <2>1. CASE Overridden(key[h])
    <3>1. Service!Answer(h, "override")
      <4>1. Goto(h, "done") /\ answer' = [answer EXCEPT ![h] = "override"]
        BY <1>1, <2>1 DEF CheckOverride
      <4>2. [g \in Handlers |-> Outcome(answer'[g])]
              = [[g \in Handlers |-> Outcome(answer[g])] EXCEPT ![h] = "override"]
        BY <4>1 DEF Outcome
      <4> QED
        BY <4>1, <4>2, Moved DEF Service!Answer, Phase
    <3>2. Service!AnswerOverride(h)
      BY <1>1, <2>1, <3>1 DEF CheckOverride, Service!AnswerOverride, Phase, Overridden
    <3> QED
      BY <3>2 DEF Service!Next
  <2>2. CASE ~Overridden(key[h])
    BY <1>1, <2>2, Unseen DEF CheckOverride, Goto, Phase
  <2> QED
    BY <2>1, <2>2
<1>2. CASE Own(h) \/ Join(h) \/ Awake(h)
  BY <1>2, Unseen DEF Own, Join, Awake, Goto, Phase
<1>3. ASSUME NEW ans \in {"fresh", "expired"}, Return(h, ans), pc[h] \in {"recheck", "lookup"},
             cache[key[h]] # "absent", UNCHANGED <<key, cache, custom>>
      PROVE  Service!Next
  <2>1. Service!Answer(h, "records")
    BY <1>3, AnswerSeen DEF Outcome
  <2>2. Service!AnswerCached(h)
    BY <1>3, <2>1 DEF Service!AnswerCached, Phase, Overridden
  <2> QED
    BY <2>2 DEF Service!Next
<1>4. CASE Recheck(h)
  <2>1. CASE cache[key[h]] # "absent"
    BY <1>3, <1>4, <2>1 DEF Recheck, Served
  <2>2. CASE cache[key[h]] = "absent"
    BY <1>4, <2>2, Unseen DEF Recheck, Goto, Phase
  <2> QED
    BY <2>1, <2>2
<1>5. CASE NegCheck(h)
  BY <1>5, Unseen DEF NegCheck, Goto, Phase, OutcomeInv
<1>6. CASE Hit(h)
  BY <1>3, <1>6 DEF Hit, Served
<1>7. CASE Miss(h)
  <2>1. Owner(h) \/ answer[waitOn[h]] = "servfail"
    BY <1>7 DEF Miss, Goto, OutcomeInv, DuplicateOnlyAfterFailure, Owner
  <2>2. Service!MayGoUpstream(h)
    BY <1>7, <2>1, MayGo DEF Miss
  <2>3. PICK step \in {"bootstrap", "resolve"} : Goto(h, step)
    BY <1>7 DEF Miss
  <2>4. Service!GoUpstream(h)
    BY <1>7, <2>2, <2>3, Moved DEF Miss, Service!GoUpstream, Phase, Overridden
  <2> QED
    BY <2>4 DEF Service!Next
<1>8. ASSUME NEW r \in {"failure", "records"}, Resolved(h, r), pc[h] \in {"resolve", "bootstrap"},
             UNCHANGED <<key, cache, custom>>
      PROVE  Service!Next \/ UNCHANGED Service!vars
  <2>1. CASE r = "failure"
    <3>1. Service!Answer(h, "servfail")
      BY <1>8, <2>1, AnswerSeen DEF Resolved, Outcome
    <3>2. Service!Fail(h)
      BY <1>8, <3>1 DEF Service!Fail, Phase, Overridden
    <3> QED
      BY <3>2 DEF Service!Next
  <2>2. CASE r = "records"
    BY <1>8, <2>2, Unseen DEF Resolved, Goto, Phase
  <2> QED
    BY <2>1, <2>2
<1>9. CASE ResolveAll(h)
  BY <1>8, <1>9 DEF ResolveAll, Upstream, ResolveAllResult
<1>10. CASE BootstrapResolve(h)
  BY <1>8, <1>10 DEF BootstrapResolve, Upstream
<1>11. CASE Store(h)
  <2>1. Service!Answer(h, "records")
    BY <1>11, AnswerSeen DEF Store, Outcome
  <2>2. {k \in Keys : cache'[k] # "absent"} = {k \in Keys : cache[k] # "absent"} \cup {key[h]}
    BY <1>11 DEF Store, StoreFresh
  <2>3. Service!AnswerUpstream(h)
    BY <1>11, <2>1, <2>2 DEF Store, Service!AnswerUpstream, Phase, Overridden
  <2> QED
    BY <2>3 DEF Service!Next
<1>12. CASE Close(h) \/ Delete(h)
  BY <1>12, Unseen DEF Close, Delete, Goto, Phase
<1> QED
  BY <1>1, <1>2, <1>4, <1>5, <1>6, <1>7, <1>9, <1>10, <1>11, <1>12 DEF Step

LEMMA NextImplements ==
    ASSUME IInv, IInv', AnsweredInv, [Next]_vars
    PROVE  [Service!Next]_(Service!vars)
<1> USE DEF IInv
<1>1. ASSUME NEW h \in Handlers, Receive(h) PROVE Service!Next
  BY <1>1, ReceiveImplements
<1>2. ASSUME NEW h \in Handlers, Step(h) PROVE Service!Next \/ UNCHANGED Service!vars
  BY <1>2, StepImplements
<1>3. ASSUME NEW h \in Handlers, RefreshResolve(h) PROVE UNCHANGED Service!vars
  BY <1>3, Unseen DEF RefreshResolve
<1>4. ASSUME NEW h \in Handlers, RefreshStore(h) PROVE UNCHANGED Service!vars
  <2>1. cache[key[h]] # "absent"
    BY <1>4 DEF RefreshStore, AnsweredInv
  <2> QED
    BY <1>4, <2>1, Unseen DEF RefreshStore, StoreFresh, TypeOK
<1>5. ASSUME Environment PROVE Service!Next \/ UNCHANGED Service!vars
  <2>1. ASSUME NEW k \in Keys, Expire(k) PROVE UNCHANGED Service!vars
    BY <2>1, Unseen DEF Expire, TypeOK
  <2>2. ASSUME UNCHANGED <<pc, key, answer, cache>> PROVE Service!Edit
    BY <2>2 DEF Service!Edit
  <2> QED
    BY <1>5, <2>1, <2>2 DEF Environment, SetOverride, DeleteOverride, Service!Next
<1>6. CASE UNCHANGED vars
  BY <1>6, Unseen DEF vars
<1> QED
  BY <1>1, <1>2, <1>3, <1>4, <1>5, <1>6 DEF Next, RefreshStep

(* Handle (service.go:85-224) keeps the promise of DnsService: it goes       *)
(* upstream only for what the cache does not have, for one query of a        *)
(* question at a time unless one has failed, and reports no other failure.   *)
THEOREM ImplementsServiceHolds == Spec => ImplementsService
<1>1. IInv /\ AnsweredInv /\ [Next]_vars => IInv' /\ AnsweredInv'
  BY TypeStep, InvStep, AnsweredStep DEF IInv
<1>2. IInv /\ IInv' /\ AnsweredInv /\ [Next]_vars => [Service!Next]_(Service!vars)
  BY NextImplements
<1> QED
  BY InitIInv, InitAnswered, InitImplements, Inductive, <1>1, <1>2, PTL
     DEF Spec, ImplementsService, Service!Spec


-----------------------------------------------------------------------------

(* The counters.  CountersAgree is inductive once an answer is known to be   *)
(* there only for a handler that has returned: each step that counts moves   *)
(* one handler into or out of one of these sets, and no other step does.     *)
Arrived   == {h \in Handlers : pc[h] # "new"}
Malformed == {h \in Handlers : answer[h] = "dropped"}
Undecided == {h \in Handlers : pc[h] \in {"custom", "dedup", "wait", "recheck",
                                          "negcheck", "lookup"}}
Failed    == {h \in Handlers : answer[h] = "servfail"}
Uncounted == Malformed \cup Undecided

LEMMA AgreeDef ==
    CountersAgree <=>
        /\ stats["total"] = Cardinality(Arrived)
        /\ stats["hits"] + stats["misses"] = Cardinality(Arrived) - Cardinality(Uncounted)
        /\ stats["errors"] = Cardinality(Malformed) + Cardinality(Failed)
  BY DEF CountersAgree, Arrived, Malformed, Undecided, Failed, Uncounted

LEMMA CardinalityNat == \A S \in SUBSET Handlers : Cardinality(S) \in Nat
  BY HandlersAssumption, FS_Subset, FS_CardinalityType

LEMMA OneMore ==
    ASSUME NEW S \in SUBSET Handlers, NEW h \in Handlers, h \notin S
    PROVE  Cardinality(S \cup {h}) = Cardinality(S) + 1
  BY HandlersAssumption, FS_Subset, FS_AddElement

LEMMA OneLess ==
    ASSUME NEW S \in SUBSET Handlers, NEW h \in S
    PROVE  Cardinality(S \ {h}) = Cardinality(S) - 1
  BY HandlersAssumption, FS_Subset, FS_RemoveElement

LEMMA SetsOfHandlers ==
    /\ Arrived \in SUBSET Handlers /\ Malformed \in SUBSET Handlers
    /\ Failed \in SUBSET Handlers /\ Uncounted \in SUBSET Handlers
  BY DEF Arrived, Malformed, Undecided, Failed, Uncounted

LEMMA InitAgree == Init => CountersAgree
<1> SUFFICES ASSUME Init PROVE CountersAgree
  OBVIOUS
<1>1. Arrived = {} /\ Malformed = {} /\ Failed = {} /\ Uncounted = {}
  BY DEF Init, Arrived, Malformed, Undecided, Failed, Uncounted
<1>2. \A c \in Counters : stats[c] = 0
  BY DEF Init
<1>3. Cardinality({}) = 0
  BY FS_EmptySet
<1> QED
  BY <1>1, <1>2, <1>3, AgreeDef DEF Counters

\* The sets and the counters after a step.
LEMMA AgreeNext ==
    CountersAgree' <=>
        /\ stats'["total"] = Cardinality(Arrived')
        /\ stats'["hits"] + stats'["misses"]
             = Cardinality(Arrived') - Cardinality(Uncounted')
        /\ stats'["errors"] = Cardinality(Malformed') + Cardinality(Failed')
  BY DEF CountersAgree, Arrived, Malformed, Undecided, Failed, Uncounted

\* The ways in which a step counts, or does not count, handler h.
NoneMoves == Arrived' = Arrived /\ Malformed' = Malformed /\ Failed' = Failed
             /\ Uncounted' = Uncounted

LEMMA AgreeKept ==
    ASSUME CountersAgree, NoneMoves, stats' = stats
    PROVE  CountersAgree'
  BY AgreeDef, AgreeNext DEF NoneMoves

LEMMA AgreeArrives ==
    ASSUME CountersAgree, TypeOK, NEW h \in Handlers,
           h \notin Arrived, h \notin Uncounted,
           Arrived' = Arrived \cup {h}, Uncounted' = Uncounted \cup {h},
           \/ Malformed' = Malformed /\ Count("total")
           \/ /\ h \notin Malformed /\ Malformed' = Malformed \cup {h}
              /\ stats' = [stats EXCEPT !["total"] = @ + 1, !["errors"] = @ + 1],
           Failed' = Failed
    PROVE  CountersAgree'
<1>1. /\ Cardinality(Arrived') = Cardinality(Arrived) + 1
      /\ Cardinality(Uncounted') = Cardinality(Uncounted) + 1
  BY OneMore, SetsOfHandlers
<1>2. \/ /\ Cardinality(Malformed') = Cardinality(Malformed)
         /\ stats' = [stats EXCEPT !["total"] = @ + 1]
      \/ /\ Cardinality(Malformed') = Cardinality(Malformed) + 1
         /\ stats' = [stats EXCEPT !["total"] = @ + 1, !["errors"] = @ + 1]
  BY OneMore, SetsOfHandlers DEF Count
<1>3. /\ Cardinality(Arrived) \in Nat /\ Cardinality(Uncounted) \in Nat
      /\ Cardinality(Malformed) \in Nat /\ Cardinality(Failed) \in Nat
  BY CardinalityNat, SetsOfHandlers
<1>4. /\ stats["total"] = Cardinality(Arrived)
      /\ stats["hits"] + stats["misses"] = Cardinality(Arrived) - Cardinality(Uncounted)
      /\ stats["errors"] = Cardinality(Malformed) + Cardinality(Failed)
  BY AgreeDef
<1>5. stats \in [Counters -> Nat]
  BY DEF TypeOK
<1> HIDE DEF Arrived, Uncounted, Malformed, Failed
<1>6. /\ stats'["total"] = Cardinality(Arrived')
      /\ stats'["hits"] + stats'["misses"] = Cardinality(Arrived') - Cardinality(Uncounted')
      /\ stats'["errors"] = Cardinality(Malformed') + Cardinality(Failed')
  BY <1>1, <1>2, <1>3, <1>4, <1>5 DEF Counters
<1> QED
  BY <1>6, AgreeNext

LEMMA AgreeDecided ==
    ASSUME CountersAgree, TypeOK, NEW h \in Handlers, h \in Uncounted,
           NEW c \in {"hits", "misses"}, Count(c),
           Arrived' = Arrived, Malformed' = Malformed, Failed' = Failed,
           Uncounted' = Uncounted \ {h}
    PROVE  CountersAgree'
<1>1. Cardinality(Uncounted') = Cardinality(Uncounted) - 1
  BY OneLess, SetsOfHandlers
<1>2. Cardinality(Arrived) \in Nat /\ Cardinality(Uncounted) \in Nat
  BY CardinalityNat, SetsOfHandlers
<1>3. /\ stats["total"] = Cardinality(Arrived)
      /\ stats["hits"] + stats["misses"] = Cardinality(Arrived) - Cardinality(Uncounted)
      /\ stats["errors"] = Cardinality(Malformed) + Cardinality(Failed)
  BY AgreeDef
<1>4. stats \in [Counters -> Nat] /\ stats' = [stats EXCEPT ![c] = @ + 1]
  BY DEF TypeOK, Count
<1>5. /\ stats'["total"] = Cardinality(Arrived')
      /\ stats'["hits"] + stats'["misses"] = Cardinality(Arrived') - Cardinality(Uncounted')
      /\ stats'["errors"] = Cardinality(Malformed') + Cardinality(Failed')
  BY <1>1, <1>2, <1>3, <1>4 DEF Counters
<1> QED
  BY <1>5, AgreeNext

LEMMA AgreeFailed ==
    ASSUME CountersAgree, TypeOK, NEW h \in Handlers, h \notin Failed,
           Count("errors"), Failed' = Failed \cup {h},
           Arrived' = Arrived, Malformed' = Malformed, Uncounted' = Uncounted
    PROVE  CountersAgree'
<1>1. Cardinality(Failed') = Cardinality(Failed) + 1
  BY OneMore, SetsOfHandlers
<1>2. Cardinality(Malformed) \in Nat /\ Cardinality(Failed) \in Nat
  BY CardinalityNat, SetsOfHandlers
<1>3. /\ stats["total"] = Cardinality(Arrived)
      /\ stats["hits"] + stats["misses"] = Cardinality(Arrived) - Cardinality(Uncounted)
      /\ stats["errors"] = Cardinality(Malformed) + Cardinality(Failed)
  BY AgreeDef
<1>4. stats \in [Counters -> Nat] /\ stats' = [stats EXCEPT !["errors"] = @ + 1]
  BY DEF TypeOK, Count
<1>5. /\ stats'["total"] = Cardinality(Arrived')
      /\ stats'["hits"] + stats'["misses"] = Cardinality(Arrived') - Cardinality(Uncounted')
      /\ stats'["errors"] = Cardinality(Malformed') + Cardinality(Failed')
  BY <1>1, <1>2, <1>3, <1>4 DEF Counters
<1> QED
  BY <1>5, AgreeNext

\* A step that does not count moves no handler between the sets.
LEMMA AgreeStep == IInv /\ AnsweredInv /\ CountersAgree /\ [Next]_vars => CountersAgree'
<1> SUFFICES ASSUME IInv, AnsweredInv, CountersAgree, [Next]_vars
             PROVE  CountersAgree'
  OBVIOUS
<1> TypeOK
  BY DEF IInv
<1>1. ASSUME NEW h \in Handlers, Receive(h) PROVE CountersAgree'
  <2> USE DEF TypeOK, Steps, Answers, AnsweredInv, Closing, Goto,
          Arrived, Malformed, Undecided, Failed, Uncounted
  <2>1. CASE ArriveMalformed(h)
    <3>1. h \notin Arrived /\ h \notin Uncounted /\ h \notin Malformed
      BY <2>1 DEF ArriveMalformed
    <3>2. /\ Arrived' = Arrived \cup {h} /\ Uncounted' = Uncounted \cup {h}
          /\ Malformed' = Malformed \cup {h} /\ Failed' = Failed
      BY <2>1 DEF ArriveMalformed
    <3> QED
      BY <2>1, <3>1, <3>2, AgreeArrives DEF ArriveMalformed
  <2>2. ASSUME NEW k \in Keys, Arrive(h, k) PROVE CountersAgree'
    <3>1. h \notin Arrived /\ h \notin Uncounted
      BY <2>2 DEF Arrive
    <3>2. /\ Arrived' = Arrived \cup {h} /\ Uncounted' = Uncounted \cup {h}
          /\ Malformed' = Malformed /\ Failed' = Failed
      BY <2>2 DEF Arrive
    <3> QED
      BY <2>2, <3>1, <3>2, AgreeArrives DEF Arrive
  <2> QED
    BY <1>1, <2>1, <2>2 DEF Receive
\* h leaves the caches with an answer, or for the upstream servers, and is counted.
<1>2. ASSUME NEW h \in Handlers, NEW c \in {"hits", "misses"}, Count(c),
             pc[h] \in {"custom", "recheck", "negcheck", "lookup"},
             NEW step \in {"close", "done", "bootstrap", "resolve"}, Goto(h, step),
             NEW ans \in {"none", "override", "nxdomain", "fresh", "expired"},
             answer' = [answer EXCEPT ![h] = ans]
      PROVE  CountersAgree'
  <2> USE DEF TypeOK, Steps, Answers, AnsweredInv, Closing, Goto,
          Arrived, Malformed, Undecided, Failed, Uncounted
  <2>1. h \in Uncounted
    BY <1>2
  <2>2. /\ Arrived' = Arrived /\ Malformed' = Malformed /\ Failed' = Failed
        /\ Uncounted' = Uncounted \ {h}
    BY <1>2
  <2> QED
    BY <1>2, <2>1, <2>2, AgreeDecided
\* h takes a step that is not counted, on either side of the counting.
<1>3. ASSUME NEW h \in Handlers, stats' = stats,
             NEW step, Goto(h, step), NEW ans, answer' = [answer EXCEPT ![h] = ans],
             pc[h] # "new",
             ans \in {answer[h], "nxdomain", "resolved"},
             \/ {pc[h], step} \subseteq {"custom", "dedup", "wait", "recheck",
                                         "negcheck", "lookup"}
             \/ {pc[h], step} \subseteq {"bootstrap", "resolve", "store", "close",
                                         "delete", "done"},
             pc[h] \in Closing \cup {"done"} => ans = answer[h]
      PROVE  CountersAgree'
  <2> USE DEF TypeOK, Steps, Answers, AnsweredInv, Closing, Goto,
          Arrived, Malformed, Undecided, Failed, Uncounted
  <2>1. Arrived' = Arrived
    BY <1>3
  <2>2. Malformed' = Malformed /\ Failed' = Failed
    BY <1>3
  <2>3. Uncounted' = Uncounted
    BY <1>3
  <2> QED
    BY <1>3, <2>1, <2>2, <2>3, AgreeKept DEF NoneMoves
\* h leaves the upstream servers without a result.
<1>4. ASSUME NEW h \in Handlers, Count("errors"), pc[h] \in {"bootstrap", "resolve"},
             Return(h, "servfail")
      PROVE  CountersAgree'
  <2> USE DEF TypeOK, Steps, Answers, AnsweredInv, Closing, Goto, Return,
          Arrived, Malformed, Undecided, Failed, Uncounted
  <2>1. h \notin Failed
    BY <1>4
  <2>2. /\ Arrived' = Arrived /\ Malformed' = Malformed
        /\ Failed' = Failed \cup {h} /\ Uncounted' = Uncounted
    BY <1>4
  <2> QED
    BY <1>4, <2>1, <2>2, AgreeFailed
<1>5. ASSUME UNCHANGED <<pc, answer, stats>> PROVE CountersAgree'
  BY <1>5, AgreeKept DEF NoneMoves, Arrived, Malformed, Undecided, Failed, Uncounted
<1>6. ASSUME NEW h \in Handlers, Resolved(h, "failure") \/ Resolved(h, "records"),
             pc[h] \in {"bootstrap", "resolve"}
      PROVE  CountersAgree'
  <2>1. CASE Resolved(h, "failure")
    BY <1>4, <1>6, <2>1 DEF Resolved
  <2>2. CASE Resolved(h, "records")
    <3>1. answer' = [answer EXCEPT ![h] = answer[h]]
      BY <2>2 DEF Resolved, TypeOK
    <3>2. Goto(h, "store") /\ stats' = stats
      BY <2>2 DEF Resolved
    <3> QED
      BY <1>3, <1>6, <3>1, <3>2
  <2> QED
    BY <1>6, <2>1, <2>2
<1>7. ASSUME NEW h \in Handlers, Step(h) PROVE CountersAgree'
  <2>0. answer = [answer EXCEPT ![h] = answer[h]]
    BY DEF TypeOK
  <2>1. CASE CheckOverride(h)
    <3>1. CASE Overridden(key[h])
      BY <2>1, <3>1, <1>2 DEF CheckOverride
    <3>2. CASE ~Overridden(key[h])
      BY <2>0, <2>1, <3>2, <1>3 DEF CheckOverride, Closing
    <3> QED
      BY <3>1, <3>2
  <2>2. CASE Own(h)
    BY <2>0, <2>2, <1>3 DEF Own, Closing
  <2>3. CASE Join(h)
    BY <2>0, <2>3, <1>3 DEF Join, Closing
  <2>4. CASE Awake(h)
    BY <2>0, <2>4, <1>3 DEF Awake, Closing
  <2>5. CASE Recheck(h)
    <3>1. CASE cache[key[h]] # "absent"
      BY <2>5, <3>1, <1>2 DEF Recheck, Return, Served
    <3>2. CASE cache[key[h]] = "absent"
      BY <2>0, <2>5, <3>2, <1>3 DEF Recheck, Closing
    <3> QED
      BY <3>1, <3>2
  <2>6. CASE NegCheck(h)
    <3>1. CASE key[h][1] \in neg
      BY <2>6, <3>1, <1>2 DEF NegCheck, Return
    <3>2. CASE key[h][1] \notin neg
      BY <2>0, <2>6, <3>2, <1>3 DEF NegCheck, Closing
    <3> QED
      BY <3>1, <3>2
  <2>7. CASE Hit(h)
    BY <2>7, <1>2 DEF Hit, Return, Served
  <2>8. CASE Miss(h)
    <3>1. answer[h] = "none"
      BY <2>8 DEF Miss, AnsweredInv, Closing
    <3> QED
      BY <2>0, <2>8, <3>1, <1>2 DEF Miss
  <2>9. CASE ResolveAll(h)
    <3>1. PICK r \in {"failure", "records"} : Resolved(h, r)
      BY <2>9 DEF ResolveAll, Upstream, ResolveAllResult
    <3> QED
      BY <2>9, <3>1, <1>6 DEF ResolveAll
  <2>10. CASE BootstrapResolve(h)
    <3>1. PICK r \in {"failure", "records"} : Resolved(h, r)
      BY <2>10 DEF BootstrapResolve, Upstream
    <3> QED
      BY <2>10, <3>1, <1>6 DEF BootstrapResolve
  <2>11. CASE Store(h)
    BY <2>11, <1>3 DEF Store, Return, Closing
  <2>12. CASE Close(h)
    BY <2>0, <2>12, <1>3 DEF Close
  <2>13. CASE Delete(h)
    BY <2>0, <2>13, <1>3 DEF Delete
  <2> QED
    BY <1>7, <2>1, <2>2, <2>3, <2>4, <2>5, <2>6, <2>7, <2>8, <2>9, <2>10, <2>11,
       <2>12, <2>13 DEF Step
<1>8. ASSUME NEW h \in Handlers, RefreshStep(h) PROVE CountersAgree'
  BY <1>5, <1>8 DEF RefreshStep, RefreshResolve, RefreshStore
<1>9. ASSUME Environment PROVE CountersAgree'
  BY <1>5, <1>9 DEF Environment, Expire, DeleteOverride, SetOverride
<1>10. CASE UNCHANGED vars
  BY <1>5, <1>10 DEF vars
<1> QED
  BY <1>1, <1>7, <1>8, <1>9, <1>10 DEF Next

(* The counters of Service.Stats (service.go:87, 97, 106, 140, 158, 166, 175,*)
(* 186, 196, 281) agree with the queries handled: total counts those that   *)
(* have arrived, hits and misses those past the caches, and errors those     *)
(* dropped or answered SERVFAIL.                                             *)
THEOREM CountersAgreeHolds == Spec => []CountersAgree
<1>1. IInv /\ AnsweredInv /\ CountersAgree /\ [Next]_vars
        => IInv' /\ AnsweredInv' /\ CountersAgree'
  BY TypeStep, InvStep, AnsweredStep, AgreeStep DEF IInv
<1> QED
  BY InitIInv, InitAnswered, InitAgree, <1>1, PTL DEF Spec
=============================================================================
