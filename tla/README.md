# A TLA+ verification of DNSforVPN

DNSforVPN is a local DNS server: it receives queries over UDP, answers them from
user overrides or a two-level cache, and otherwise asks DNS-over-HTTPS servers,
directly or through a proxy as a domain list decides. A small web interface
starts and stops the server and edits configuration and overrides. This
directory holds TLA+ models of its concurrent core, the TLC configurations that
check them and TLAPS proofs of what matters most.

All source paths below are relative to `src/`.

## 1. Inventory of the system

| Component | Source | State | Operations | What is hard |
|---|---|---|---|---|
| Query pipeline | `internal/query/service.go` | `inflight` map of channels, counters | `Handle` (one goroutine per packet), `refreshInBackground` | concurrent queries of one key, waiters, stale answers, failing upstream |
| Main cache | `internal/cache/boltdb.go`, `cache.go` | `hot` (memory), the `dns` bucket (disk), counters | `Get`, `Set`, `Del`, `List`, `Close`, `New` | two layers written one after the other, promotion, close and crash |
| Overrides | `internal/cache/custom.go`, `boltdb.go:267-328` | the `custom` bucket | `CustomGet/Set/Del/List` | written while the server stops |
| Negative cache | `internal/cache/negative.go` | map name to expiry | `Get`, `Set`, `Sweep` | expiry; never filled (section 6) |
| Upstream manager | `internal/upstream/manager.go` | none between calls | `ResolveAll`, `reduce` | fan-out, deadline, partial results |
| DoH client | `internal/upstream/doh/client.go` | latency ring buffer, HTTP client | `Resolve`, `HealthCheck`, `Stats` | ring buffer shared by goroutines without a lock |
| Bootstrap client | `internal/upstream/udp/client.go` | none | `Resolve` | deadline |
| Router | `internal/router/router.go` | set of proxied domains | `New`, `Route`, `Reload` | suffix match, fall-back from download to file |
| UDP transport | `internal/transport/udp.go` | socket, WaitGroup | `Start`, `Close` | shutdown while packets arrive |
| Control | `internal/control/control.go` | mutex, running server's handles, configuration, probe clients | `Start`, `Stop`, `SaveConfig`, `withStore` and its users, latency checks | calls racing with Start and Stop |
| DNS messages | `internal/dns/*.go` | none | `ParseQuery`, `ParseResponse`, `BuildResponse` | compression pointers, TTLs |
| Latency checks | `internal/control/control.go:296-392` | map of probe clients | `CheckLatency`, `CheckServersLatency` | the configuration changes while a check runs |
| Program, web API | `cmd/dnsforvpn/main.go`, `internal/web/server.go` | HTTP server, `p.web` | `work`, `Stop`, handlers that call Control | the stop signal at any step of start-up, requests during shutdown |
| Frontend, service worker | `frontend` | caches of the browser | forms, status poll | old page with new assets |

**Interactions.** `transport` calls `query.Service.Handle` in a goroutine per
packet; `Handle` reads overrides, waits on or owns a channel in `inflight`, reads
and writes the cache and calls the upstream manager, which starts one goroutine
per server. Stale answers leave a refresh goroutine behind that nobody waits
for. `control` owns all of it: `Start` builds cache, router, resolvers, service
and socket under one mutex, `Stop` takes them down under it, and the web handlers
reach the live objects through `control`, some of them after releasing the mutex.
`main` runs `work`, which starts the web server and then the DNS server, beside the
service manager's `Stop`, which takes both down.

**What makes each part correct.** Pipeline: every query is answered once; one
owner per key; waiters never hang; an answer that is cached shields from upstream
failures; the counters add up. Cache: disk and memory agree when nothing runs;
what was written survives a restart. Manager: the merged answer does not depend on
the order of replies; a partial answer beats an error. Control: nothing opened is
lost; status tells the truth; an acknowledged change is stored. Router: a name goes
where the list says, and a list once obtained is there for the next start. Latency
checks: a probe goes the way its target says. Program: a stop signal ends it, with
the server taken down.

## 2. Modules

Each component is a module that declares its parameters as `CONSTANTS` with named
assumptions, its state as variables, one action per atomic step of the code and
its properties at the end. `MC<Module>` gives TLC its small instance,
`<Module>Proofs` holds theorems (those of ConfigStore are in HealthClientsProofs), and a
run's configuration is `<run>.cfg`.
Operators marked "Seeded fault" are plausible bugs: putting one in the place of
the definition below it breaks the property it is meant to break. They show that
the properties depend on the code and are no part of the model.

What counts as a step. The unit is the access to shared state: what a goroutine
does between two of them is invisible to the others and belongs to one action. A
`sync.Map` operation, a bbolt transaction, a channel operation and a critical
section that calls nothing that blocks are atomic. Unsynchronised fields (the
latency tracker) are loaded and stored in separate steps, and where the Go
compiler may keep a value in a register or load it again the model does either.

### QueryService (`internal/query/service.go`)

A *handler* is one call of `Handle`; `pc[h]` names where it is. The channel a
handler puts into `inflight` is named after it, so `waitOn[h]` is both the channel
and the handler that owns it.

| Code | Model |
|---|---|
| `s.inflight` (sync.Map) | `inflight[k]`, `LoadOrStore` is `Own` or `Join`, `Delete` is `Delete` |
| `close(ch)`, `<-prev` | `closed`, `Close` and `Awake` |
| override lookup, lower-cased, A and AAAA only | `CheckOverride` |
| second look after waiting, which ignores expiry | `Recheck` |
| negative cache, cache, stale answer plus refresh | `NegCheck`, `Hit`, `Miss` |
| bootstrap of a server's own host name | `BootstrapResolve` |
| `ResolveAll`, `Set`, response or SERVFAIL | `ResolveAll`, `Resolved`, `Store` |
| deferred clean-up, in the owner only | `Return`, then `Close`, `Delete` |
| `refreshInBackground` | `RefreshResolve`, `RefreshStore` |
| the clock; the user's edits | `Expire`, `SetOverride`, `DeleteOverride` |

Records are reduced to their existence and times to fresh or stale. Which pool of
servers the router chooses makes no difference here: a pool answers, denies the name
or fails. `ResolveAllResult` carries the code's loss of NXDOMAIN (section 6).

**DnsService** is the pipeline seen from outside, without channels, goroutines and
expiry: a query is pending, upstream or answered; it may go upstream only if the
question is not cached and no other query of it is there, unless one of them has
failed; a failure is reported only of a query that was upstream. `QueryService`
implements it (`ImplementsService`) under the mapping `Phase`, `Outcome`, the set of
cached questions and the set of overridden ones.

### ControlLifecycle (`internal/control/control.go`, `internal/transport/udp.go`)

A *server* is what one `Start` that gets as far as the database creates, with the
configuration it found (`setup[s]`). That configuration is any of `Configs`, because
`SaveConfig` may have been called at any time, and so it is no variable. `mu` is Control's
mutex, `live` the server its fields belong to. Critical sections that do not wait are one
action (`WithStore`, `ServerReturned`). `Start` can take arbitrarily long, because it may
download the rule list in the middle: it is `StartOpen`, which has the mutex and opens the
configured database, and then `StartListen` on the configured port or `StartFails`, which
gives everything back. A `Start` that finds the server reported as running, or its database
locked, changes nothing and is no step. `Stop` waits for handlers under the mutex and is
four: `StopBegin` cancels the context, `StopWait` is `wg.Wait`, `StopClose` is `conn.Close`,
`StopShutdown` closes the cache and resets the fields. `Check`, `ReadNothing`, `ReadPacket`,
`Spawn`, `Drain` and `ServerReturned` follow the loop of `UDPServer.Start` and the
goroutine that calls it; `wg[s]` is the WaitGroup. Between `ReadPacket` and `Spawn` lies the
moment before `wg.Add` in which `wg.Wait` does not see a packet, and between `StopWait` and
`StopClose` the loop may still read one.

`withStore` captures the live handle under the mutex and uses it without (`ApplyLive`),
or opens a temporary one (`OpenTemporary`, `ApplyTemporary`, `TemporaryFails`);
`Locked(d)` is the lock bbolt takes on the file of a database. Its users set, delete or read
an override (`Use`). A write may be refused, by a closed database (`WriteClosed`) or for any
other reason (`Write`), and is acknowledged all the same. History: `expected[e]` is what the
last acknowledged edit of an override has promised, `overtaken` holds the callers whose
captured handle a Stop has since begun to close, and `disowned` the servers that were live
when the goroutine of another one cleared `running`.

**DnsServer** is what callers of Start and Stop are promised: a call at a time (`call`), a
server or none (`serving`), and what is reported of it (`reported`). Its action `OldReturns`
is what they have to live with (section 6): while a goroutine of a stopped server is there
(`lingering`), the report can go although the server stays; Stop then passes it over, and the
next Start may succeed beside it and leave it to itself (`abandoned`). `ControlLifecycle`
implements it (`ImplementsDnsServer`): whoever holds the mutex is in a call (`Call`),
`Lingering` and `Abandoned` are read off the loops.

### BoltCache (`internal/cache/boltdb.go`)

`hot` and `disk` are the layers. `Get` is `GetHot`, `GetDisk`, `Promote`; `Set` is
`SetHot`, `SetDisk`; `Close` walks the hot entries, each read (`FlushRead`) and
written back (`FlushWrite`) separately, and then closes. Every write to the disk is a `Save`,
which may fail at any time without anybody being told: the code ignores the error. `Crash`
may happen at any step and `Reopen` starts on what the disk holds. `unsaved` and `lost`
record the keys whose last write failed in this run and in earlier ones. A value is named after the Set
that wrote it, and `before[c]` records which Sets were complete when `c` began, so
that the property can speak of real time.

### UpstreamManager (`internal/upstream/manager.go`)

One call of `ResolveAll`: a goroutine per server (`Resolve`, `Send`), the buffered
channel, the collecting loop (`Receive`, with the code's `ok`, `allRecords` and
`firstErr`), the deadline (`Expire`, `GiveUp`) and `reduce`, whose loop is a recursive
function (`Merge`, `Deduped`, `Reduce`), against a set-based definition that knows no
order (`Merged`). `NoTTL` is the largest TTL, from which `reduce` starts its minimum.
QueryService takes the outcome as "records or failure".

### LatencyTracker (`internal/upstream/doh/client.go:27-90`)

The ring buffer behind the latency display: `add` as `Add`, `Write`, `Load`,
`Increment`, `Check`, `Wrap`, `Fill`, and `percentiles` as `ReadIdx`, `Report`. The
insertion sort is taken by what it computes: element k of the sorted window is the one
that has at most k smaller ones and more than k that are not larger (`Sorted`).

### ConfigStore (`internal/control/control.go`: `New`, `GetConfig`, `SaveConfig`)

The file is a sequence of blocks and a configuration takes one or two of them.
`os.WriteFile` is `Truncate` and `Write`, each of which may fail; several saves may
overlap, because the file is written before the mutex is taken (`SetConfig`).

### HealthClients (`internal/control/control.go:296-392`), on top of ConfigStore

`CheckLatency` reads the configuration for its targets; `CheckServersLatency` reads it
again and prunes the clients, makes the missing ones and hands them out in one
critical section; `EndCheck` follows the probes, which run without the mutex.
`Configure` is any step of ConfigStore, so that saves, failures, crashes and restarts
come between the two reads. `Key`, `Want`, `Probed` and `Clients` are the code's key
`serverURL|proxyURL`, its map `want`, the targets that are probed at all, and the map
after the loop. `NewClient` is `doh.New`, where a proxy that does not parse is left out
(`Applied`). `warm` records which configured keys have been probed.

### Router (`internal/router/router.go`, step 2 of `Service.Handle`)

`LoadFile` and `Download` are `loadContent` with `parseRules`, whose loop is a recursive
function (`AfterLine` is its body, `ParseRules` the whole); in each the read of the file may
fail (`ReadFile`), which the code takes for a missing file. `OpenFails`, `Truncate`,
`Write` and `WriteCut` are the `os.WriteFile` at the end of `New`; `Stop` is also the
end of the process. Between servers the configuration is changed (`Configure`) or the user
edits the file (`Edit`). `RouteProxy` is the walk over parent domains, `Pool` the choice in
`Handle`. A list is a sequence of lines, a line a set of names with two marks (comment,
whitelist), a name a sequence of labels. `Publish` is the list changing at the URL.
`source` (what the file was last given), `unread` (this start got nothing from it) and `cut`
are history, for the properties.

### Program (`cmd/dnsforvpn/main.go:48-81`, `internal/web/server.go`), on top of DnsServer

Three kinds of actors call Control: `work`, `program.Stop` and requests. `StartCalled`,
`StartReturns`, `StartEnds` and their counterparts for Stop are the calls, made of the
actions of DnsServer; `WebStart`, `WebFails`, `Publish` are `work`; `Signal`, `ReadWeb`,
`Drain`, `Exit` are Stop and the return of main. `p.web` is written and read without a
lock (`published`); it is a word, so a read has the value or nil.

### DnsMessage (`internal/dns/parse.go`, `build.go`)

Pure functions on octets, one operator per function and under its name in capitals:
`UnpackName`, `ParseQuery`, `UnpackRRSection`, `ParseResponse`, `BuildQuery`,
`BuildResponse` and so on. The code's loops are recursive functions: `UnpackName` is a
function of where a name starts, whose values are functions of how far it has been read, since a
pointer has to lead to an earlier start and everything else leads further on. A domain
is a sequence of labels; octet 46 (the dot) is kept out of labels. The state
machine (`MessageSpec`) only supplies inputs: a packet growing octet by octet behind a query
header, and complete responses that are cut at every length. `ReferenceNames` is the
definition after RFC 1035 that names are compared with: a walk from offset to offset. Its
bound, twice the length of the packet, only makes it a total function. The theorems are in
DohClientProofs, together with those of LatencyTracker.

### How the modules fit together

`Program` uses `DnsServer` for the server it controls, by calling that module's
actions; `ControlLifecycle` is shown to implement the same module, so that what
Program's properties say of the server holds for the code's Start and Stop.
`HealthClients` contains `ConfigStore`. The others meet at narrow interfaces,
and each assumes of its neighbour what that one's module shows. QueryService takes an
upstream call to end with records or a failure: UpstreamManager shows that it
returns (`Returns`) and what the records are. It takes a cache entry as one atomic
value: BoltCache shows how far that is true of two layers (`ReadsNotSuperseded`).
ControlLifecycle takes handlers to end: QueryService shows it (`EveryQueryAnswered`).
Router takes starts to come one at a time: ControlLifecycle shows that the mutex
makes them. LatencyTracker is touched by the senders of UpstreamManager and the probes
of HealthClients, and can end the process. These last are informal arguments.

## 3. Runs

| Run | What it asks | Bounds | States |
|---|---|---|---|
| `QueryService_crowd` | queries of one key arriving together: no orphaned waiter, duplicates only after a failure, counters, stale answers, every query answered, DnsService implemented | 3 handlers, 1 key | 31 thousand |
| `QueryService_names` | one owner per key, for two spellings, two types and a host name that is bootstrapped | 2 handlers, 4 keys, handlers symmetric | 278 thousand |
| `QueryService_nxdomain` | **violated:** a name that does not exist is answered as such | 2 handlers, 1 name | |
| `ControlLifecycle_calls` | Start, Stop, saved configurations, edits of overrides, refused writes, packets in any order: types, nothing leaks, the status does not overstate, late handlers, acknowledged overrides are kept, Stop returns, loops end, DnsServer implemented | 3 servers, an operator, an editor, 2 handlers, 2 configurations with a database and a port each, 1 override | 241 thousand |
| `BoltCache_safety` | types, no read of a value that was replaced, Close leaves on disk what was hot | 4 calls on 1 key, one value from before, calls symmetric, failing writes, crashes | 361 thousand |
| `UpstreamManager_call` | the merged answer, errors, termination of the call and its goroutines | 3 servers, 3 replies or an error each | 11 thousand |
| `LatencyTracker_serial` | the ring for uses that do not overlap: its bounds, and its percentiles against the latest measurements | size 3, 7 additions, 3 latencies | 143 thousand |
| `LatencyTracker_shared` | **violated:** no index out of range with two users | size 3, 2 goroutines, 4 additions | |
| `HealthClients_checks` | probes go the way their targets say unless the proxy does not parse, configured servers keep their clients, a lone successful save repairs what faults left | 2 checks, 2 savers, a short and a long configuration with different proxies, failing calls, crashes, callers and checks symmetric | 254 thousand |
| `Router_starts` | names go to the pool the list says; a start leaves the list in the file as it was | 4 lists, 7 names, a file in either encoding or none, with and without URL, read and write errors | 2.4 thousand |
| `Program_shutdown` | the process leaves the server in order, and a signal ends it | 2 requests at a time | 5.9 thousand |
| `DnsMessage_octets` | names, answers, forwarded questions, cut responses | 7 octets out of 6 behind the header; 3 responses of 53 to 97 octets cut everywhere | 336 thousand |

Deadlock is checked except in three runs that are meant to end: one call of
`ResolveAll`, a packet that has reached its bound, and a process that has ended. QueryService never
deadlocks formally because the environment always has a step; that handlers do
not hang is what `EveryQueryAnswered` checks.

**Why the bounds suffice.** *Three handlers of a key* are an owner, a waiter that
finds the cache empty after a failure, and a third that becomes the next owner
while the second still runs as a non-owner; the proofs of section 5 remove the
bound for the safety properties. *Three servers* are one whose goroutine clears the
report late, the successor it is cleared of, and one that is started beside that; *one
operator* is enough because Start and Stop hold the mutex throughout, so that a second would
only wait; *two handlers* are one that is late and one that is waited for; *two configurations*
with their own database and port do not get in each other's way, and two servers of the
same configuration do. *Four cache calls* allow
two Sets, the Get that promotes and the Get that observes. *Ring size 3 with 7
additions* wraps around twice; percentile indexes of 1, 2 and 3 elements include
both ends. *Two configurations* that share a server and differ in the proxy, with an
empty third that a lost file reads as, make a client's key change while the server stays, and the
reverse; *two checks* let one prune between the two reads of the other. *Four lists*
are none, one with a whitelist, one with a comment and a lone label that name something
and one that names a subdomain in capitals; the names asked for lie on, above, below
and beside them. *Two requests* are one that Shutdown waits for and one it gives up on.
*Three replies* (none, a record, the same record with a larger TTL and
another one with TTL 0) contain every case of `Merge` and of the minimum. *A body
of 7 octets* is the shortest that holds a question with a label and, with other
octets, a name behind a pointer behind a label and a pointer to a pointer; the
messages add CNAME data compressed into the question, and all three sections.

**What the states are not.** A run with symmetry has no liveness property.
Counters in TypeOK are naturals; they are bounded by the number of handlers.

## 4. Fairness

| Module | Assumed | Because |
|---|---|---|
| QueryService | weak, per handler and per refresh | Go schedules runnable goroutines; every upstream call is under a deadline (20 s, `manager.go:46` and `service.go:254`; 5 s for a bootstrap query, `udp/client.go:45-49`), bbolt and map operations end. Waiting is not assumed to end: `Awake` is enabled only once the channel is closed. New packets and expiry are not assumed. |
| ControlLifecycle | weak for Stop and for callers that need no mutex, for the loop and for handlers; strong for `ServerReturned`; **none** for the rest of `Start` | The read deadline of one second makes the loop come round. Handlers end by the deadline of their upstream calls. Other callers may take the mutex again and again; Go's mutex hands itself to a waiter that has waited for a millisecond (starvation mode), hence strong fairness. Nobody has to call Start or Stop, and a Start need not end: its `http.Get` (`router.go:133-149`) has no timeout. `LoopEnds` is therefore about runs in which no Start keeps the mutex for ever. |
| UpstreamManager | weak for `Expire`, `Receive`, `GiveUp`, `Send`; for a server's answer only once the context is done | The context has a deadline; HTTP and UDP calls are bound to the context and return when it ends, and need not before. |
| Program | weak for `work`, `program.Stop` and a Stop that holds the mutex; strong for whoever waits for the mutex | As above. A Start need not end here either, which is the condition of `SignalEndsProgram`. Requests and the signal need not come. |
| others | none | safety only |

## 5. Proofs

All are checked by TLAPS for every value of the constants (any number of handlers,
keys, servers, callers, packets, configurations) under the named assumptions only:
special values are not elements of the sets they are kept apart from
(`NoHandlerAssumption`, `NobodyAssumption`, `ConfigAssumption`, `RequestsAssumption`,
`ValuesAssumption`), the calls of Handle are finitely many (`HandlersAssumption`, for the
counters only), there are names and types and `Lower` is a function on names
(`NamesAssumption`), servers are numbered (`BoundsAssumption`), there is a configuration, of a
database and a port (`ConfigsAssumption`), every configuration has its servers and its proxy
(`ServersAssumption`), a pool is finite and not empty and its replies are sequences of records
(`PoolAssumption`, `RepliesAssumption`, `TTLAssumption`), a ring has room for a measurement and
measurements are positive numbers (`SizeAssumption`, `LatencyAssumption`), a list is a
sequence of lines, having none being one of the possibilities (`ListsAssumption`), messages
are made of octets (`MessagesAssumption`, `OctetAssumption`; the second keeps the dot out of
labels for the model's sake and no proof uses it), and the records to answer with are such as
`parseRData` yields, fewer than 65536 and their data shorter than that (`AnswersAssumption`:
both lengths travel in two octets). One theorem on DnsMessage, `AnswersAreCutWhole`, has a
hypothesis besides, which is discussed there. All theorems
are about the specification without fairness.

Loops over sequences need induction, and the library's induction theorems cannot be
used, because they take a predicate as a parameter. Where a proof needs one it is stated for
a set instead: a set of numbers that contains 0 and the successor of each of its elements is
Nat (`NatSetInduction` in UpstreamManagerProofs, `SetInduction` in RouterProofs), or one
that is not empty has a least element (`LeastElement` in DohClientProofs). They follow
from the well-foundedness of < on the naturals, and also give that a recursive function
exists, without which nothing can be said of its values.

**QueryServiceProofs**: `TypeCorrect`, `SingleFlightHolds`, `NoOrphanWaiterHolds`,
`DuplicateOnlyAfterFailureHolds`, `ServeStaleHolds`, `CountersAgreeHolds`. The invariant is
`TypeOK /\ SingleFlight /\ ChannelInv /\ OutcomeInv`. SingleFlight alone is not
inductive: that a deletion removes one's own channel needs to know that only owners
come to the clean-up, and that owners do not wait (`ChannelInv`). ChannelInv also
says that the handler waited for is not itself a waiter, has the same key and
either still owns it or has closed its channel, which gives NoOrphanWaiter.
`OutcomeInv` ties outcomes to the cache: whoever is about to close its channel has
answered SERVFAIL or left an entry, and an entry never becomes absent again; from
it follows what a waiter can find. ServeStale is a temporal property of each
handler: `OutOfDanger`, that the key is cached and the handler not at an upstream
step nor answered with SERVFAIL, holds when the query arrives and is preserved by
every step of every handler. The conjunct `neg = {}` of OutcomeInv states the
finding of section 6: no step ever fills the negative cache. `ImplementsServiceHolds` is
the refinement: initial states map to initial states, and every step of a handler, a
refresh or the environment to the action of DnsService it stands for, or to none. It
adds `AnsweredInv`, which says what a handler has answered at each step; that a handler
may go upstream is DuplicateOnlyAfterFailure for those that waited, and SingleFlight for
those that did not. `CountersAgreeHolds` names the sets of handlers
that the counters count (`Arrived`, `Malformed`, `Undecided`, `Failed`): every step either
counts and moves exactly one handler into or out of one of them, or does neither. That a
handler is not counted as failed before it is, or twice, is AnsweredInv.

**ControlLifecycleProofs**: `TypeCorrect`, `NothingLeaksHolds`,
`RunningMeansServingHolds`, `AtMostOneLateHandlerHolds`, `OverridesKeptHolds`,
`ImplementsDnsServerHolds`. `MutexInv`: who is in the middle of Start or Stop holds the
mutex. `HeldInv`: a cache that is open belongs to the live server, to a disowned one or to a
Start under way, a socket to the live server or to a disowned one, and `running` says exactly
that there is a live server that was not disowned. NothingLeaks is its first two lines with the
mutex free. `LoopInv`: a server that was not cancelled has its loop running, unless it was
never started. `PacketInv`: of a server that was cancelled, once Stop is past `wg.Wait`, at
most one handler runs, and none while the loop can still bring one: the pass
that was past its look at the context when it was cancelled is the only one. That covers
the time up to `conn.Close`. OverridesKept adds `HandleInv`: a captured handle
that no Stop has overtaken belongs to a server whose cache is open. The refinement goes through
the actions one by one: those of Start and Stop are DnsServer's, `ServerReturned` is `OldReturns`,
and all others leave what DnsServer sees alone; that the goroutine of the live server is never the
one that clears `running` is LoopInv.

**BoltCacheProofs**: `TypeCorrect`, `ReadsNotSupersededHolds`, `CloseSettlesHolds`, over any
number of calls, keys, failed writes, closes, crashes and restarts. A value is *current*
(`Current`) if no completed Set had begun after the writing of that value was over. For a key
that has not raced, `KeyInv` says: unless an earlier run has lost a write, what is hot, on disk,
in Close's hands and in a promotion is current (`AllCurrent`), except that the disk may be behind
after a failed write, while the key is hot and nobody reads the disk (`Behind`); a cold read and a
Set exclude each other, and what is hot while Sets are under way was not complete when they began
(`Apart`); during a cold read the layers agree, so that a promotion changes nothing (`Agree`);
and Close has written an entry, has failed to, has it in hand or has it before it (`Settling`).
Both properties need all of it: that Close may write back a hot value is that it is current, and
that it leaves what was hot is that nobody moves behind it. `Behind` is why a failed write does
no harm before the process ends.

**UpstreamManagerProofs**: `TypeCorrect`, `AnswerBeatsErrorsHolds`, `AnswerIsMergeHolds`, for
any pool and any replies. `SentInv`: a reply on its way is final, since its goroutine has
ended. `CollectedInv`: `ok` is positive exactly if an answer was taken out, and the
collected records are those of the servers that answered. `ResultInv`: what is returned is an
error while `ok` is 0, or the reduced records. The rest is about `reduce`, by induction over its
loop (`DedupedInv`): after each record the result has each identity once, with the
smallest TTL so far (`MergeStep`), which is what `Merged` says without an order.

**DohClientProofs** is about what a DoH client does with a query: its latency window and the
messages it reads and builds. For LatencyTracker, `BoundsUntilFullHolds` and
`ReportsMeasuredHolds`, for any size, any measurements and any number of callers in every
interleaving: what is true although nothing orders their accesses. Until the window is full for
the first time no index is out of range, and what Stats reports is a measurement or 0, with the p50
not above the p99. More is not true: with one measurement more than the window has room for,
`LatencyTracker_shared` panics. `CountInv`: no copy of the index, in the field or in
a register, is ahead of the calls of `add` that have counted (`Counted`, those begun less those
`Pending`), since two that count at once count as one; a call that is about to write has not
counted, so it finds an index below the size. `MeasuredInv`: the ring holds nothing but
measurements and zeros, so that neither does a window. `SortedElement` shows that
the element `percentiles` picks exists, for any window, and `SortedInOrder` that a later one is
not smaller. That the ring is right about the latest measurements when its uses are ordered
(`WithinBounds`, `PercentilesOfLatest`) stays with the run `LatencyTracker_serial`.

For DnsMessage, `NamesAreReadAsWritten`, `QuestionIsForwarded`, `AnswersAreReadBack` and
`AnswersAreCutWhole`: for packets of any length made of any octets, not the seven out of six of
the run. The state machine only supplies packets, so the inductive invariants are short (a packet
is a sequence of octets, `Received`; it is a prefix of the message it is cut off from, `CutInv`)
and the work is in the functions:

- *Reading a name ends.* `UnpackName` recurses over where a name starts and how far it has
  been read. `RecursiveFunction` shows that such functions exist, given a rank that every call
  lowers; it is used for the rest of a name (`ReadDefined`), then for all names up to
  an offset (`NamesToDefined`), which gives `UnpackNameRecursion`: one step of the loop as an
  equation. `LeftCases` splits it into end of packet, zero, label, refused pointer and pointer.
- *A row of labels* (`LabelsAt`) is what the property, the reader and the writer have in
  common: a name that was encoded is such a row (`EncodedStands`), a row is read as its labels
  (`LabelsRead`), and what a question is read as is a row (`QuestionLabels`), because no pointer is
  accepted there. `QuestionIsForwarded` is these three one after the other.
- *NamesAreRead* compares the code's recursion with the hops of the definition after
  RFC 1035. The walk visits offsets until it is stuck, and pointers lead to
  before all that was visited, so it ends before its bound; from the last hop back
  to the first, what is left of the name is what the code reads from there.
- *AnswersReadBack* lays the records of a response one after another (`FlattenLayout`), the
  six parts of a record likewise (`SixParts`, `RecordParts`), and follows `unpackRRSection`
  from one to the next (`RecordRead`, `AnswerSection`). The owner of each is a pointer to the question,
  which is copied octet by octet (`QuestionRepeated`).
- *WholeSections* is proved of messages that end with their answer section and have no
  other (`WholeAnswers`), as the answers to the bootstrap client's queries usually are; names,
  types and data of the records are arbitrary. A name that can be read both in the
  message and in what it is cut down to ends at the same place or at the cut (`NameCut`), so
  records, and the section, end at the same place (`SectionCut`); a section that is read
  thus has all of the message before it. Of messages with several sections it is not true without a condition on their
  data: after a cut in the middle of a record the code looks for the next section in what is left of the
  data, which may itself have the form of a record. There the property stays with the run.

**HealthClientsProofs** is about both modules. For ConfigStore, `ConfigTypeCorrect` and
`SettledIsStoredHolds`. `AloneInv`: nobody is in the middle of a save next to one that is alone,
and that one finds the empty file it has truncated; `SettledInv`: after it, the file
and memory are its configuration until somebody opens the file. It rests on two lemmas on
the file: writing to an empty file leaves what was written, and what was encoded decodes to
itself. The type of the file (`FileStep`) is the one that is not obvious: overlapping writes
never leave more blocks than an encoding has. For the checks, `ProbedAsAskedHolds`,
`ConfiguredStayWarmHolds`, `SettledUnderChecks`, `TypeCorrectUnderChecks`. `Keyed`: the client
stored under a key is the one the key names, which is what lets clients outlive the
configuration they were made for. `WarmInv`: warm keys are configured and have their
client. `ProbesInv`: a probe carries the client of its own key. The last two theorems carry
the properties of ConfigStore over: the steps of a check leave its variables alone
(`ChecksOnlyRead`).

**RouterProofs**: `RulesSurviveHolds`, `RoutedAsListedHolds`, for all lists and names, with reads
and writes that fail at any time. `Carried`: what a start is about to write back is the source,
or the file gave it nothing and the download becomes the source. `RulesOfContent`: the rules
are those parsed from what was loaded. RulesSurvive itself is the third part of the invariant:
outside the write, and unless one was cut short, the file holds the source. RoutedAsListed then is
a statement about pure functions: by induction over the lines, `ParseRules` yields the normalised
names of the lines ahead of the whitelist that are no comments (`Parsed`), and the walk over
parent domains finds one of them exactly if it is a suffix of the name
(`SuffixFromSomePlace`, `RouteIsListed`).

**ProgramProofs**: `OrderlyExitHolds`. The argument follows the signal. Once it has come
after `work` is done (`Worked`, `Stopped`), only requests can reach the server;
Shutdown closes the listener, so no new one comes (`Requested`); if it has not timed out,
none is left, and `program.Stop` is alone with the server from then on (`Alone`), so that
what it finds after its own call (`TakenDown`) stays. `Called` says that the server is
in the middle of a call only while somebody is.

**Model-checked only.** Liveness (`EveryQueryAnswered`, `StopReturns`, `LoopEnds`,
`SignalEndsProgram`, `SendersEnd`, `Returns`) is out of TLAPS's reach, since it needs ENABLED.
`WithinBounds` and `PercentilesOfLatest` are checked for one caller, where they hold; for several
the first is false, and what is proved for several is `BoundsUntilFull` and `ReportsMeasured`.
WholeSections is model-checked only for messages with authority or additional records, for the
reason above: it depends on what the data of the records look like. Every other safety
property of a passing run is a theorem.

## 6. Findings

Two places where the code departs from what its documentation says, each with a run that
ends in a counterexample.

1. **NXDOMAIN is lost** (`QueryService_nxdomain`; `manager.go:49-63`). The result
   passed through the channel has no NXDomain field. A denied name is answered
   NOERROR with no records and cached as such; the negative cache stays empty.
2. **Latency window** (`LatencyTracker_shared`; `doh/client.go:45-48`). Two adders at the
   end of the ring: one finds the index past the end and panics.

Seven more are written into the models, as what the abstract specification or a property
has to allow:

- **Status after a quick restart** (`control.go:252`; `DnsServer!OldReturns`, `disowned`). The
  goroutine of the old server clears `running` after the new server has set it. The new server
  serves, but is reported as stopped, and Stop does nothing. A Start fails on the locked
  database; but after a change of database and port it succeeds and overwrites the fields, and
  the server that was there serves beside the new one until the process ends. Line 175 promises
  that "Calling Start on an already running server is a no-op". NothingLeaks shows that this
  is the only way to lose hold of a cache or a socket.
- **Override lost without a word** (`control.go:587-592`, `boltdb.go:289-302`; `overtaken`,
  `Write`). Stop closes the database between the capture of the handle and its use, or the
  database refuses the write (full disk, key too long): the error is ignored, the edit is
  acknowledged and not stored. OverridesKept shows that an edit is lost in no other way.
- **Old value back after a failed write** (`boltdb.go:151, 255`; `lost`, `unsaved`). The error of
  the write in Set and in Close is ignored. The value stays in memory, so nobody notices until
  the next run reads from disk what the Set had replaced.
- **A packet behind the last wait** (`udp.go:75, 96-97`). Between `wg.Wait` and
  `conn.Close`, and before `wg.Add`, the loop may hold a packet that the wait does not see: its
  handler runs while the cache is closed, where 16-17 promise a graceful shutdown.
  AtMostOneLateHandler shows that there is at most one per server.
- **A proxy that does not parse** (`doh/client.go:109-112`; `Applied`). The client is built
  without a proxy and goes directly, where `control.go:311-316` promises an error "instead of
  silently going direct" (of the case without a proxy). The same client is used for queries.
- **Exits that are not orderly** (`main.go:54-81`; the disjuncts of OrderlyExit). The
  signal comes while `work` has yet to start the server, or to publish `p.web`, in which case
  requests keep coming in; Shutdown gives up after three seconds on a request that
  then starts the server behind Stop's back; or the report was cleared as above, so that
  Stop does nothing.
- **A list cut short, or not read** (`router.go:51, 121-124`; `cut`, `unread`). Every start
  truncates and rewrites the rule file. If the write is cut, what is left of the list is read as
  the list from then on, without a new download; the names after the cut go directly. A file
  that cannot be read, for whatever reason, is taken for a missing one (line 39: "If the local
  file is missing it will attempt to download"): the server then starts without rules, or
  downloads a list and writes it over the user's. RoutedAsListed and RulesSurvive show that
  nothing else makes the rules differ from what the file was last given.

Further divergences met while modelling, without a run of their own:

- `service.go:173` starts a refresh for every stale hit; the comment at 48-50 speaks
  of deduplication, which covers the foreground only.
- `service.go:139`, the look at the cache after waiting, does not check `Expired`
  (`cache.go:42-44`) and starts no refresh.
- `boltdb.go:147-157`: two Sets of a key can reach memory and disk in opposite orders
  until Close writes the hot value back; a crash before that keeps the other one.
  The read property holds all the same, as both were written concurrently.
- `boltdb.go:132`: a cold read can promote an older value over one that was set
  meanwhile (exempted in `ReadsNotSuperseded`).
- `boltdb.go:77` counts the entries once, in New.
- `manager.go:76` returns the first error, the comment at 40 says the last.
  `manager.go:83`: with the deadline passed, `select` may give up although a success is
  in the channel (39-40 promise partial results). AnswerBeatsErrors is therefore
  about the replies taken out.
- `manager.go:154-161` leaves a TTL of 0 out of the minimum, and answers a lone 0 with
  `MinimumTTL`, where 39-40, 129-130 and `types.go:41` speak of the minimum over all
  records. `Merged` is about the code's minimum.
- `control.go:154` writes the file before the mutex is taken: two overlapping saves
  can leave one configuration in the file and the other in memory, which line 140
  ("as stored in the config file") does not foresee.
- `build.go`: TTLs are written as stored (`types.go:15-16` and the comment of
  `answerCount` promise a floor). `BuildQuery("")`, the root, emits two zero octets
  in place of one. An SOA record is turned into an answer with empty data, and a
  denial that carries one in its authority section is not taken as NXDOMAIN.
- `parse.go:72-76` resumes after a failed section where it failed, in the middle of
  a record if that was cut. For addresses, aliases and SOA, what is left is too
  short to be a record, as `WholeSections` shows on two responses with such sections; for
  long opaque data there is no such bound.
- `router.go:52` returns an error, with the comment "best-effort, rules are already loaded",
  when the rules cannot be written back; Control.Start then fails, on a read-only rule
  file every time. A list is never downloaded again once there is a file, since the
  uncalled Reload is the only way. With a URL configured and none reachable, a first
  start fails for good, and with it the server. Exceptions ("@@") ahead of the whitelist
  marker count as proxy rules.
- `control.go:199` to `router.go:133-149`: the download has no timeout and Start holds
  the mutex, so every call of Control, and program.Stop, waits for it (the conditions
  of LoopEnds and SignalEndsProgram).
- `doh/client.go:194-218`: when a probe through the proxy fails, HealthCheck falls back to a
  TCP dial that knows no proxy and reports "ok", where `control.go:311-316` promises an
  error "instead of silently going direct" (of the case without a proxy).
  ProbedAsAsked is about the client a probe is given, not about this fall-back.

## 7. What is not modelled, and why

`PROJECT.json` lists every component with its state. Left out for good: pure I/O with
nothing shared (TCP ping, the bootstrap client's one datagram, the browser opener, the
HTTP exchange), display and forms, flags and the service subcommands, authentication and
static files of the web server, scripts and developer tools, the text of messages and
logs. In modelled components: `HealthCheckAll` and `StatsAll`, `Del` of the main cache and
`Router.Reload` (no caller outside tests), `List` and the hit counters of the cache, what a
probe returns, the getters of Control that read one pointer under the mutex, the JSON
encoding of entries, expiry times as numbers. Overrides are one bbolt transaction per
operation, and appear as `stored` in ControlLifecycle and `custom` in QueryService. Writes to
the negative cache never happen (finding 1). The service worker is planned.

## 8. Plan

In order of weight; the set of runs stays at about a dozen.

1. **QueryCache**: QueryService with BoltCache in the place of the atomic `cache`;
   an abstract specification of a cache whose entries only get newer, which BoltCache
   implements except where keys race, shown with `INSTANCE ... WITH`. It would cover the
   refreshes that outlive Stop and the Sets during Close.
2. **AnswerTtl**: a TTL on its way from reply over entry to answer, with its width.
3. **ServiceWorker** (`sw.js`): old page, new assets.
4. **NegativeCache** (`negative.go`): Get, Set, Sweep against a timed set, once
   something fills it.
