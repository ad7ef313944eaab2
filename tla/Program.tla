------------------------------- MODULE Program -------------------------------
(***************************************************************************)
(* The program around the DNS server: program.Start, work and Stop of      *)
(* cmd/dnsforvpn/main.go, run by the service manager, and the requests of  *)
(* internal/web/server.go that start and stop the server.  The server is   *)
(* DnsServer, which ControlLifecycle implements; whoever takes it through  *)
(* a state in which Control.mu is held keeps the others out of Control.    *)
(*                                                                         *)
(* work runs in a goroutine of its own, so that the service manager's      *)
(* Stop may come at any of its steps.  p.web is written by the one and     *)
(* read by the other without a lock; it is one word, and a read has it or  *)
(* has it not.                                                             *)
(***************************************************************************)
CONSTANT Requests   \* HTTP requests that are handled at a time

ASSUME RequestsAssumption == {"worker", "stopper"} \cap Requests = {}

VARIABLES
    call, serving, reported, lingering, abandoned,   \* of DnsServer
    pc,        \* pc[a]: the step of work, of program.Stop, of a request
    web,       \* the web server: "off", "listening" or "closed"
    published, \* p.web is set
    early,     \* the stop signal came before work was done
    timedOut   \* Shutdown gave up on a request

vars == <<call, serving, reported, lingering, abandoned, pc, web, published, early, timedOut>>

server == <<call, serving, reported, lingering, abandoned>>
shell == <<web, published, early, timedOut>>

Server == INSTANCE DnsServer

Actors == {"worker", "stopper"} \cup Requests

Steps == {"listen", "publish", "idle", "start", "starting", "stop", "stopping",
          "run", "web", "drain", "exit", "done"}

Init ==
    /\ Server!Init
    /\ pc = [a \in Actors |->
                IF a = "worker" THEN "listen" ELSE IF a = "stopper" THEN "run" ELSE "idle"]
    /\ web = "off" /\ published = FALSE
    /\ early = FALSE /\ timedOut = FALSE

-----------------------------------------------------------------------------

\* The process runs until main returns.
At(a, step) == pc["stopper"] # "done" /\ pc[a] = step

Goto(a, step) == pc' = [pc EXCEPT ![a] = step]

\* The call into Control has returned.
Return(a) ==
    Goto(a, IF a = "worker" THEN "done" ELSE IF a = "stopper" THEN "exit" ELSE "idle")

MutexFree == call = "none"

-----------------------------------------------------------------------------
(* Calls of Control.Start and Control.Stop *)

StartCalled(a) ==
    /\ At(a, "start")
    /\ Server!BeginStart
    /\ Goto(a, "starting")
    /\ UNCHANGED shell

\* Start on a server that is reported running is a no-op; it fails if the
\* database is locked, as by a server that is not reported, or cannot be opened
\* for another reason.
StartReturns(a) ==
    /\ At(a, "start")
    /\ MutexFree
    /\ Return(a)
    /\ UNCHANGED <<server, shell>>

StartEnds(a) ==
    /\ At(a, "starting")
    /\ Server!EndStart \/ Server!FailStart
    /\ Return(a)
    /\ UNCHANGED shell

StopCalled(a) ==
    /\ At(a, "stop")
    /\ Server!BeginStop
    /\ Goto(a, "stopping")
    /\ UNCHANGED shell

StopReturns(a) ==
    /\ At(a, "stop")
    /\ MutexFree /\ ~reported
    /\ Return(a)
    /\ UNCHANGED <<server, shell>>

StopEnds(a) ==
    /\ At(a, "stopping")
    /\ Server!EndStop
    /\ Return(a)
    /\ UNCHANGED shell

\* The goroutine of an earlier server.
OldReturns ==
    /\ pc["stopper"] # "done"
    /\ Server!OldReturns
    /\ UNCHANGED <<pc, shell>>

-----------------------------------------------------------------------------
(* work *)

\* From net.Listen on, requests are served.
WebStart ==
    /\ At("worker", "listen")
    /\ web' = "listening"
    /\ Goto("worker", "publish")
    /\ UNCHANGED <<server, published, early, timedOut>>

\* The web server cannot have its port: work goes on without it.
WebFails ==
    /\ At("worker", "listen")
    /\ Goto("worker", "start")
    /\ UNCHANGED <<server, shell>>

Publish ==
    /\ At("worker", "publish")
    /\ published' = TRUE
    /\ Goto("worker", "start")
    /\ UNCHANGED <<server, web, early, timedOut>>

-----------------------------------------------------------------------------
(* Requests of the web API that reach handleStart or handleStop *)

Request(r) ==
    /\ At(r, "idle")
    /\ web = "listening"
    /\ \E step \in {"start", "stop"} : Goto(r, step)
    /\ UNCHANGED <<server, shell>>

-----------------------------------------------------------------------------
(* The service manager calls program.Stop, and main returns after it *)

Signal ==
    /\ At("stopper", "run")
    /\ early' = (pc["worker"] # "done")
    /\ Goto("stopper", "web")
    /\ UNCHANGED <<server, web, published, timedOut>>

\* Seeded fault: the DNS server is stopped before the web server.
ReadWebLate ==
    /\ At("stopper", "web")
    /\ Goto("stopper", "stop")
    /\ UNCHANGED <<server, shell>>

\* Seeded fault: Stop waits for the web server to be there.
ReadWebWaits ==
    /\ At("stopper", "web")
    /\ published
    /\ web' = "closed"
    /\ Goto("stopper", "drain")
    /\ UNCHANGED <<server, published, early, timedOut>>

\* p.web is read; Shutdown closes the listener first.
ReadWeb ==
    /\ At("stopper", "web")
    /\ IF published
       THEN web' = "closed" /\ Goto("stopper", "drain")
       ELSE Goto("stopper", "stop") /\ UNCHANGED web
    /\ UNCHANGED <<server, published, early, timedOut>>

\* Shutdown returns once no request is being handled, or after three seconds.
Drain ==
    /\ At("stopper", "drain")
    /\ timedOut' = \E r \in Requests : pc[r] # "idle"
    /\ Goto("stopper", "stop")
    /\ UNCHANGED <<server, web, published, early>>

Exit ==
    /\ At("stopper", "exit")
    /\ Goto("stopper", "done")
    /\ UNCHANGED <<server, shell>>

-----------------------------------------------------------------------------

Enter(a) == StartCalled(a) \/ StartReturns(a) \/ StopCalled(a) \/ StopReturns(a)

Work == WebStart \/ WebFails \/ Publish

Stop == ReadWeb \/ Drain \/ Exit

Next ==
    \/ Work \/ Signal \/ Stop \/ OldReturns
    \/ \E a \in Actors : Enter(a) \/ StartEnds(a) \/ StopEnds(a)
    \/ \E r \in Requests : Request(r)

Spec == Init /\ [][Next]_vars

\* Goroutines are scheduled, Control.Stop returns (ControlLifecycle), and Go's
\* mutex passes to a waiter that has waited long enough.  Control.Start need not
\* return: its download has no timeout.
Fairness ==
    /\ WF_vars(Work) /\ WF_vars(Stop)
    /\ \A a \in Actors : SF_vars(Enter(a)) /\ WF_vars(StopEnds(a))

FairSpec == Spec /\ Fairness

-----------------------------------------------------------------------------
(* Properties *)

\* When the process ends, no call is under way and the DNS server has been taken
\* down in order, whatever requests came in between, unless the signal came while
\* work was still setting up or Shutdown left a request behind.  A server that
\* is not reported, or abandoned, is one that Control has lost track of: the
\* process ends with it.
OrderlyExit ==
    pc["stopper"] = "done" /\ ~early /\ ~timedOut =>
        call = "none" /\ (serving => ~reported)

\* A stop signal ends the process, wherever work and the requests are, unless
\* from some time on a Start keeps the mutex.
SignalEndsProgram ==
    []<>(call # "starting") => (pc["stopper"] = "web" ~> pc["stopper"] = "done")
=============================================================================
