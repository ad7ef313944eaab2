-------------------------- MODULE ControlLifecycle --------------------------
(***************************************************************************)
(* The life cycle of the DNS server inside internal/control: Start, Stop   *)
(* and withStore, called concurrently by the web API and the service       *)
(* manager, the goroutine Start leaves behind, and the loop and handlers   *)
(* of transport.UDPServer.                                                 *)
(*                                                                         *)
(* A server is what one successful Start creates: a cache with its         *)
(* database handle, a socket, a context and a loop goroutine, set up from  *)
(* Control.config, which SaveConfig may have changed at any time: a call   *)
(* that reads it finds some member of Configs.  mu is Control's mutex; a   *)
(* critical section that calls nothing that waits is one action; Start,    *)
(* which may download the rule list under the mutex, is two, and Stop,     *)
(* which waits for handlers, four.  The file lock bbolt takes keeps all    *)
(* handles of a database apart, those of one process too; a call that      *)
(* cannot have it gives up after one second.                               *)
(***************************************************************************)
EXTENDS Naturals, Functions

CONSTANTS
    Servers,    \* the servers that can be created, numbered: the bound on restarts
    Operators,  \* goroutines that call Start and Stop
    Editors,    \* goroutines that use the store
    Handlers,   \* bound: handlers at a time
    Databases, Ports, Names,
    Configs,    \* the configurations the user saves
    Entries,    \* the overrides the user edits, each for a name in a database
    Nobody

Callers == Operators \cup Editors

ASSUME NobodyAssumption == Nobody \notin Servers \cup Callers \cup Databases

ASSUME BoundsAssumption == Servers \subseteq Nat /\ Handlers \in Nat

ASSUME ConfigsAssumption ==
    /\ Configs \subseteq [db: Databases, port: Ports] /\ Configs # {}
    /\ Entries \subseteq [db: Databases, name: Names]

VARIABLES
    mu,         \* who holds Control.mu across steps, or Nobody
    running,    \* Control.running
    live,       \* the server Control.svc, srv, cache, custom and cancel belong to
    loop,       \* loop[s]: where the goroutine of server s is
    setup,      \* setup[s]: the configuration s was created with, while its cache is open
    cancelled,  \* servers whose context is cancelled
    listening,  \* servers whose socket is open
    opened,     \* servers whose cache is open
    wg,         \* wg[s]: the WaitGroup of s, the handlers that run
    pc,         \* pc[c]: what caller c is doing
    handle,     \* handle[c]: the server c works on, or Nobody
    file,       \* file[c]: the database c edits
    stored,     \* overrides in the databases
    disowned,   \* history: servers that were live when another's goroutine cleared running
    overtaken,  \* history: callers whose captured handle a Stop has begun to close
    expected    \* history: the last edit of an override that returned, if it is certain

control == <<mu, running, live, disowned>>
server == <<loop, setup, cancelled, listening, opened, wg>>
caller == <<pc, handle, file, overtaken>>
overrides == <<stored, expected>>

vars == <<control, server, caller, overrides>>

\* That of a server without a cache.
NoSetup == CHOOSE cfg \in Configs : TRUE

TypeOK ==
    /\ mu \in Callers \cup {Nobody}
    /\ running \in BOOLEAN
    /\ live \in Servers \cup {Nobody}
    /\ loop \in [Servers -> {"unborn", "check", "read", "packet", "drain",
                             "return", "gone"}]
    /\ setup \in [Servers -> Configs]
    /\ cancelled \subseteq Servers
    /\ listening \subseteq Servers
    /\ opened \subseteq Servers
    /\ wg \in [Servers -> Nat]
    /\ pc \in [Callers -> {"idle", "rules", "wait", "close", "shutdown", "apply",
                           "temporary"}]
    /\ handle \in [Callers -> Servers \cup {Nobody}]
    /\ file \in [Callers -> Databases \cup {Nobody}]
    /\ stored \subseteq Entries
    /\ disowned \subseteq Servers
    /\ overtaken \subseteq Callers
    /\ expected \in [Entries -> {"unknown", "set", "delete"}]

Init ==
    /\ mu = Nobody /\ running = FALSE /\ live = Nobody
    /\ loop = [s \in Servers |-> "unborn"]
    /\ setup = [s \in Servers |-> NoSetup]
    /\ cancelled = {} /\ listening = {} /\ opened = {}
    /\ wg = [s \in Servers |-> 0]
    /\ pc = [c \in Callers |-> "idle"]
    /\ handle = [c \in Callers |-> Nobody]
    /\ file = [c \in Callers |-> Nobody]
    /\ stored \in SUBSET Entries
    /\ disowned = {} /\ overtaken = {}
    /\ expected = [e \in Entries |-> "unknown"]

Goto(c, step) == pc' = [pc EXCEPT ![c] = step]

\* A call returns; its local variables are gone.
Return(c) ==
    /\ Goto(c, "idle")
    /\ handle' = [handle EXCEPT ![c] = Nobody]
    /\ file' = [file EXCEPT ![c] = Nobody]
    /\ overtaken' = overtaken \ {c}

\* Some handle of database d is open.
Locked(d) ==
    \/ \E s \in opened : setup[s].db = d
    \/ \E c \in Callers : pc[c] = "temporary" /\ file[c] = d

-----------------------------------------------------------------------------
(* Control.Start *)

\* The database configured now is there to be had.  On a server that is reported
\* running, and when the database cannot be opened, Start changes nothing and is
\* no step.
StartOpen(c, s, cfg) ==
    /\ pc[c] = "idle" /\ mu = Nobody
    /\ ~running
    /\ loop[s] = "unborn" /\ \A t \in Servers : t < s => loop[t] # "unborn"
    /\ ~Locked(cfg.db)
    /\ mu' = c
    /\ setup' = [setup EXCEPT ![s] = cfg]
    /\ opened' = opened \cup {s}
    /\ handle' = [handle EXCEPT ![c] = s]
    /\ Goto(c, "rules")
    /\ UNCHANGED <<running, live, disowned, loop, cancelled, listening, wg,
                   file, overtaken, overrides>>

\* Seeded fault: the error path forgets the cache.
StartFailsOpen(c) ==
    /\ pc[c] = "rules"
    /\ mu' = Nobody
    /\ Return(c)
    /\ UNCHANGED <<running, live, disowned, server, overrides>>

\* router.New cannot have the rules, or the port is taken: the cache is closed.
StartFails(c) ==
    /\ pc[c] = "rules"
    /\ opened' = opened \ {handle[c]}
    /\ setup' = [setup EXCEPT ![handle[c]] = NoSetup]
    /\ mu' = Nobody
    /\ Return(c)
    /\ UNCHANGED <<running, live, disowned, loop, cancelled, listening,
                   wg, overrides>>

\* Control's fields are overwritten, whatever they were.
StartListen(c) ==
    /\ pc[c] = "rules"
    /\ \A s \in listening : setup[s].port # setup[handle[c]].port
    /\ listening' = listening \cup {handle[c]}
    /\ loop' = [loop EXCEPT ![handle[c]] = "check"]
    /\ live' = handle[c]
    /\ running' = TRUE
    /\ mu' = Nobody
    /\ Return(c)
    /\ UNCHANGED <<disowned, setup, cancelled, opened, wg, overrides>>

-----------------------------------------------------------------------------
(* Control.Stop *)

\* Callers that have captured the live handle and not used it yet.
Holding == {c \in Callers : pc[c] = "apply" /\ handle[c] = live}

\* Seeded fault: the context is cancelled without asking whether there is one.
StopBeginUnchecked(c) ==
    /\ pc[c] = "idle" /\ mu = Nobody
    /\ mu' = c
    /\ cancelled' = cancelled \cup {live}
    /\ overtaken' = overtaken \cup Holding
    /\ Goto(c, "wait")
    /\ UNCHANGED <<running, live, disowned, loop, setup, listening, opened, wg,
                   handle, file, overrides>>

StopBegin(c) ==
    /\ pc[c] = "idle" /\ mu = Nobody
    /\ running
    /\ mu' = c
    /\ cancelled' = cancelled \cup {live}
    /\ overtaken' = overtaken \cup Holding
    /\ Goto(c, "wait")
    /\ UNCHANGED <<running, live, disowned, loop, setup, listening, opened, wg,
                   handle, file, overrides>>

\* Seeded fault: UDPServer.Close does not wait for the handlers.
StopDoesNotWait(c) ==
    /\ pc[c] = "wait"
    /\ Goto(c, "close")
    /\ UNCHANGED <<control, server, handle, file, overtaken, overrides>>

\* UDPServer.Close: wg.Wait.
StopWait(c) ==
    /\ pc[c] = "wait"
    /\ wg[live] = 0
    /\ Goto(c, "close")
    /\ UNCHANGED <<control, server, handle, file, overtaken, overrides>>

\* UDPServer.Close: conn.Close.  The loop may have read and spawned meanwhile.
StopClose(c) ==
    /\ pc[c] = "close"
    /\ listening' = listening \ {live}
    /\ Goto(c, "shutdown")
    /\ UNCHANGED <<control, loop, setup, cancelled, opened, wg, handle, file, overtaken,
                   overrides>>

\* Seeded fault: clearing running is left to the server's goroutine.
StopForgetsRunning(c) ==
    /\ pc[c] = "shutdown"
    /\ opened' = opened \ {live}
    /\ setup' = [setup EXCEPT ![live] = NoSetup]
    /\ live' = Nobody
    /\ mu' = Nobody
    /\ Goto(c, "idle")
    /\ UNCHANGED <<running, disowned, loop, cancelled, listening, wg,
                   handle, file, overtaken, overrides>>

\* Seeded fault: Stop waits, holding mu, for the server's goroutine.
StopJoinsLoop(c) ==
    /\ pc[c] = "shutdown"
    /\ loop[live] = "gone"
    /\ opened' = opened \ {live}
    /\ setup' = [setup EXCEPT ![live] = NoSetup]
    /\ live' = Nobody
    /\ running' = FALSE
    /\ mu' = Nobody
    /\ Goto(c, "idle")
    /\ UNCHANGED <<disowned, loop, cancelled, listening, wg, handle, file,
                   overtaken, overrides>>

\* Service.Shutdown closes the cache; then the fields are reset.
StopShutdown(c) ==
    /\ pc[c] = "shutdown"
    /\ opened' = opened \ {live}
    /\ setup' = [setup EXCEPT ![live] = NoSetup]
    /\ live' = Nobody
    /\ running' = FALSE
    /\ mu' = Nobody
    /\ Goto(c, "idle")
    /\ UNCHANGED <<disowned, loop, cancelled, listening, wg, handle, file,
                   overtaken, overrides>>

-----------------------------------------------------------------------------
(* withStore and its users *)

Capture(c) ==
    /\ pc[c] = "idle"
    /\ handle' = [handle EXCEPT ![c] = live]
    /\ \E cfg \in Configs :
          file' = [file EXCEPT ![c] = IF live = Nobody THEN cfg.db ELSE setup[live].db]
    /\ Goto(c, "apply")
    /\ UNCHANGED <<control, server, overtaken, overrides>>

\* Seeded fault: the handles are read without the mutex.
WithStoreUnlocked(c) == Capture(c)

\* The live handle, or the path of the database, is captured under mu and used
\* without it.
WithStore(c) == mu = Nobody /\ Capture(c)

\* The call returns without an error.
Acknowledge(entry, kind) == expected' = [expected EXCEPT ![entry] = kind]

\* CustomSet or CustomDel on an open database: every error of the write (a full
\* disk, a key that is too long) is ignored.
Write(entry, kind) ==
    \/ /\ stored' = IF kind = "set" THEN stored \cup {entry} ELSE stored \ {entry}
       /\ Acknowledge(entry, kind)
    \/ stored' = stored /\ Acknowledge(entry, "unknown")

\* So is the error of a database that is closed.
WriteClosed(c, entry, kind) ==
    /\ stored' = stored
    /\ Acknowledge(entry, IF c \in overtaken THEN "unknown" ELSE kind)

\* GetCustomDNS and the cache listings read, SetCustomDNS and DeleteCustomDNS write.
Use(c) ==
    \/ UNCHANGED overrides
    \/ \E e \in Entries, kind \in {"set", "delete"} :
          /\ e.db = file[c]
          /\ IF handle[c] \notin opened \cup {Nobody}
             THEN WriteClosed(c, e, kind)
             ELSE Write(e, kind)

ApplyLive(c) ==
    /\ pc[c] = "apply"
    /\ handle[c] # Nobody
    /\ Use(c)
    /\ Return(c)
    /\ UNCHANGED <<control, server>>

\* No live handle: a temporary one, or an error if the file cannot be locked in
\* time or not be opened.
OpenTemporary(c) ==
    /\ pc[c] = "apply"
    /\ handle[c] = Nobody
    /\ ~Locked(file[c])
    /\ Goto(c, "temporary")
    /\ UNCHANGED <<control, server, handle, file, overtaken, overrides>>

TemporaryFails(c) ==
    /\ pc[c] = "apply"
    /\ handle[c] = Nobody
    /\ Return(c)
    /\ UNCHANGED <<control, server, overrides>>

ApplyTemporary(c) ==
    /\ pc[c] = "temporary"
    /\ Use(c)
    /\ Return(c)
    /\ UNCHANGED <<control, server>>

-----------------------------------------------------------------------------
(* UDPServer.Start, the goroutine that runs it, and the handlers *)

LoopAt(s, from, to) ==
    /\ loop[s] = from
    /\ loop' = [loop EXCEPT ![s] = to]

Check(s) ==
    /\ LoopAt(s, "check", IF s \in cancelled THEN "drain" ELSE "read")
    /\ UNCHANGED <<control, setup, cancelled, listening, opened, wg, caller, overrides>>

\* The read deadline has passed: the loop goes on, as it does after any other
\* error before the cancellation.  Later such an error, the closed socket first
\* of all, ends it.
ReadNothing(s) ==
    /\ \/ s \in listening /\ LoopAt(s, "read", "check")
       \/ s \in cancelled /\ LoopAt(s, "read", "return")
    /\ UNCHANGED <<control, setup, cancelled, listening, opened, wg, caller, overrides>>

ReadPacket(s) ==
    /\ s \in listening
    /\ SumFunction(wg) < Handlers
    /\ LoopAt(s, "read", "packet")
    /\ UNCHANGED <<control, setup, cancelled, listening, opened, wg, caller, overrides>>

\* wg.Add and the go statement: the context is not looked at in between.
Spawn(s) ==
    /\ LoopAt(s, "packet", "check")
    /\ wg' = [wg EXCEPT ![s] = @ + 1]
    /\ UNCHANGED <<control, setup, cancelled, listening, opened, caller, overrides>>

\* Seeded fault: a handler asks Control for something under mu.
HandlerNeedsMu(s) ==
    /\ wg[s] > 0
    /\ mu = Nobody
    /\ wg' = [wg EXCEPT ![s] = @ - 1]
    /\ UNCHANGED <<control, loop, setup, cancelled, listening, opened, caller, overrides>>

HandlerReturns(s) ==
    /\ wg[s] > 0
    /\ wg' = [wg EXCEPT ![s] = @ - 1]
    /\ UNCHANGED <<control, loop, setup, cancelled, listening, opened, caller, overrides>>

\* ctx.Done in the loop: wg.Wait, then return.
Drain(s) ==
    /\ wg[s] = 0
    /\ LoopAt(s, "drain", "return")
    /\ UNCHANGED <<control, setup, cancelled, listening, opened, wg, caller, overrides>>

\* After srv.Start the goroutine of Control.Start clears running, whichever
\* server that is about.
ServerReturned(s) ==
    /\ mu = Nobody
    /\ LoopAt(s, "return", "gone")
    /\ running' = FALSE
    /\ disowned' = IF running THEN disowned \cup ({live} \ {s}) ELSE disowned
    /\ UNCHANGED <<mu, live, setup, cancelled, listening, opened, wg, caller,
                   overrides>>

-----------------------------------------------------------------------------

CallerBegins(c) ==
    \/ c \in Operators /\ \E s \in Servers, cfg \in Configs : StartOpen(c, s, cfg)
    \/ c \in Operators /\ StopBegin(c)
    \/ c \in Editors /\ WithStore(c)

\* The rest of Start, which need not come: the download has no timeout.
StartProceeds(c) == StartListen(c) \/ StartFails(c)

CallerProceeds(c) ==
    \/ StopWait(c) \/ StopClose(c) \/ StopShutdown(c)
    \/ ApplyLive(c) \/ OpenTemporary(c) \/ TemporaryFails(c) \/ ApplyTemporary(c)

LoopStep(s) == Check(s) \/ ReadNothing(s) \/ ReadPacket(s) \/ Spawn(s) \/ Drain(s)

Next ==
    \/ \E c \in Callers : CallerBegins(c) \/ StartProceeds(c) \/ CallerProceeds(c)
    \/ \E s \in Servers : LoopStep(s) \/ ServerReturned(s) \/ HandlerReturns(s)

Spec == Init /\ [][Next]_vars

\* Goroutines are scheduled, handlers end (their upstream calls carry a
\* deadline), and Go's mutex passes to a waiter that has waited long enough.
\* Nothing makes a Start that has the mutex come to its end.
Fairness ==
    /\ \A c \in Callers : WF_vars(CallerProceeds(c))
    /\ \A s \in Servers :
          WF_vars(LoopStep(s)) /\ SF_vars(ServerReturned(s)) /\ WF_vars(HandlerReturns(s))

FairSpec == Spec /\ Fairness

-----------------------------------------------------------------------------
(* Properties *)

\* Control keeps hold of what it started: whenever mu is free, every open cache
\* and socket is that of the live server, so that a Stop gives it back.  The
\* exception are servers disowned by an older server's goroutine, which cleared
\* running: Stop passes them over, and a Start with another database and another
\* port goes through beside them.
NothingLeaks ==
    mu = Nobody => opened \cup listening \subseteq {live} \cup disowned

\* "running" never overstates: when Control says so and mu is free, the live
\* server's cache and socket are open and its loop has not been told to stop.
RunningMeansServing ==
    running /\ mu = Nobody =>
        /\ live \in opened \cap listening
        /\ live \notin cancelled
        /\ loop[live] \in {"check", "read", "packet"}

\* At most one handler per server is on a closed cache: a pass of the loop that
\* looked at the context before Stop cancelled it may take one more packet, even
\* after wg.Wait has returned and until the socket is closed, and the next pass
\* ends the loop.
AtMostOneLateHandler ==
    \A s \in Servers : s \notin opened => wg[s] <= 1

\* An override edit that was acknowledged is in the database, whatever servers
\* are started, stopped and read around it, until another edit of the name.  Two
\* edits can be lost without a word: one whose captured handle a Stop began to
\* close, and one whose write the database refused.
OverridesKept ==
    \A e \in Entries :
        /\ expected[e] = "set" => e \in stored
        /\ expected[e] = "delete" => e \notin stored

\* What callers of Start and Stop see: who holds the mutex is starting or
\* stopping a server.
Call ==
    IF mu = Nobody THEN "none" ELSE IF pc[mu] = "rules" THEN "starting" ELSE "stopping"

\* The goroutine of a stopped server is still there.
Lingering == \E s \in cancelled : s # live /\ loop[s] # "gone"

\* A server nobody stopped and nobody can stop.
Abandoned ==
    \E s \in Servers : s # live /\ s \notin cancelled /\ loop[s] # "unborn"

\* Stop returns, though it waits for the handlers while holding mu.
StopReturns == Call = "stopping" ~> Call = "none"

\* The goroutines of the servers that were told to stop end, unless from some time
\* on a Start keeps the mutex they need.
LoopEnds ==
    []<>(Call # "starting") => []<>(\A s \in cancelled : loop[s] = "gone")

DnsServer == INSTANCE DnsServer WITH
    call <- Call, serving <- (live # Nobody), reported <- running,
    lingering <- Lingering, abandoned <- Abandoned

\* Start and Stop take the server through its states one call at a time; the
\* one thing that comes between is the report that an older goroutine clears.
ImplementsDnsServer == DnsServer!Spec
=============================================================================
