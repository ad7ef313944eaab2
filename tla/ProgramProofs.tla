---------------------------- MODULE ProgramProofs ----------------------------
(***************************************************************************)
(* That the process leaves in order, for any number of requests handled at *)
(* a time.  The argument follows the signal: once it has come after work,  *)
(* nothing but requests can reach the server, Shutdown lets no new one in, *)
(* and if it has waited for those under way, program.Stop is alone with    *)
(* the server when it stops it.                                            *)
(***************************************************************************)
EXTENDS Program, TLAPS

\* What the steps need of the types.
Types ==
    /\ web \in {"off", "listening", "closed"}
    /\ call \in {"none", "starting", "stopping"}
    /\ serving \in BOOLEAN /\ reported \in BOOLEAN
    /\ pc \in [Actors -> Steps]
    /\ early \in BOOLEAN /\ timedOut \in BOOLEAN

\* The mutex is held by a call that somebody is in.
Called ==
    /\ call = "starting" => \E a \in Actors : pc[a] = "starting"
    /\ call = "stopping" => \E a \in Actors : pc[a] = "stopping"

\* Where work is, and what it has published.
Worked ==
    /\ pc["worker"] \in {"listen", "publish", "start", "starting", "done"}
    /\ web = "listening" => published \/ pc["worker"] = "publish"
    /\ published => pc["worker"] \notin {"listen", "publish"}

\* Where Stop is, and what it has seen of work and the web server.
Stopped ==
    /\ pc["stopper"] \in {"run", "web", "drain", "stop", "stopping", "exit", "done"}
    /\ pc["stopper"] # "run" => early \/ pc["worker"] = "done"
    /\ pc["stopper"] = "drain" => web = "closed" /\ published
    /\ web = "closed" => pc["stopper"] \notin {"run", "web"}

\* Requests come through a web server that listens, and call Start or Stop.
Requested ==
    \A r \in Requests :
        /\ pc[r] \in {"idle", "start", "starting", "stop", "stopping"}
        /\ web = "off" => pc[r] = "idle"

Left == pc["stopper"] \in {"stop", "stopping", "exit", "done"} /\ ~early /\ ~timedOut

\* From then on nobody else calls Control.
Alone == Left => web # "listening" /\ \A r \in Requests : pc[r] = "idle"

TakenDown ==
    Left /\ pc["stopper"] \in {"exit", "done"} =>
        call = "none" /\ (serving => ~reported)

IInv == Types /\ Called /\ Worked /\ Stopped /\ Requested /\ Alone /\ TakenDown

LEMMA InitIInv == Init => IInv
BY RequestsAssumption
   DEF Init, Server!Init, IInv, Types, Called, Worked, Stopped, Requested, Alone, Left,
       TakenDown, Actors, Steps

\* What a step of one actor leaves of the others.
LEMMA GotoFrame ==
    ASSUME NEW a \in Actors, NEW step \in Steps, pc \in [Actors -> Steps], Goto(a, step)
    PROVE  /\ pc' \in [Actors -> Steps]
           /\ pc'[a] = step
           /\ \A b \in Actors \ {a} : pc'[b] = pc[b]
BY DEF Goto

LEMMA ActorsAre ==
    /\ "worker" \in Actors /\ "stopper" \in Actors
    /\ \A r \in Requests : r \in Actors /\ r # "worker" /\ r # "stopper"
    /\ \A a \in Actors : a = "worker" \/ a = "stopper" \/ a \in Requests
BY RequestsAssumption DEF Actors

LEMMA ReturnFrame ==
    ASSUME NEW a \in Actors, pc \in [Actors -> Steps], Return(a)
    PROVE  /\ pc' \in [Actors -> Steps]
           /\ a = "worker" => pc'[a] = "done"
           /\ a = "stopper" => pc'[a] = "exit"
           /\ a \in Requests => pc'[a] = "idle"
           /\ \A b \in Actors \ {a} : pc'[b] = pc[b]
BY ActorsAre, SMT DEF Return, Goto, Steps

\* A call that returns leaves the mutex free; after a Stop no server is left that
\* is known to run.
LEMMA ReturnIInv ==
    ASSUME IInv, NEW a \in Actors, Return(a),
           pc["stopper"] # "done",
           pc[a] \in {"start", "starting", "stop", "stopping"},
           UNCHANGED shell,
           call' = "none", serving' \in BOOLEAN, reported' \in BOOLEAN,
           pc[a] \in {"stop", "stopping"} => ~serving' \/ ~reported'
    PROVE  IInv'
<1>0. Types /\ Called /\ Worked /\ Stopped /\ Requested /\ Alone /\ TakenDown
    BY DEF IInv
<1>1. /\ pc' \in [Actors -> Steps]
      /\ a = "worker" => pc'[a] = "done"
      /\ a = "stopper" => pc'[a] = "exit"
      /\ a \in Requests => pc'[a] = "idle"
      /\ \A b \in Actors \ {a} : pc'[b] = pc[b]
    BY <1>0, ReturnFrame DEF Types
<1>2. UNCHANGED <<web, published, early, timedOut>>
    BY DEF shell
<1>3. Types' /\ Called'
    BY <1>0, <1>1, <1>2 DEF Types, Called
<1>4. Worked' /\ Requested'
    BY <1>0, <1>1, <1>2, ActorsAre DEF Worked, Requested
<1>5. Stopped'
    BY <1>0, <1>1, <1>2, ActorsAre DEF Stopped
<1>6. Left' => Left
    BY <1>0, <1>1, <1>2, ActorsAre DEF Left, Stopped
<1>7. Alone'
    BY <1>0, <1>1, <1>2, <1>6, ActorsAre DEF Alone
<1>8. Left => a = "stopper"
    BY <1>0, ActorsAre DEF Alone, Stopped, Left
<1>9. TakenDown'
    BY <1>0, <1>6, <1>8, ActorsAre DEF TakenDown, Stopped
<1> QED
    BY <1>3, <1>4, <1>5, <1>7, <1>9 DEF IInv

LEMMA CallIInv ==
    ASSUME IInv, NEW a \in Actors, Enter(a) \/ StartEnds(a) \/ StopEnds(a)
    PROVE  IInv'
<1>0. Types /\ Called /\ Worked /\ Stopped /\ Requested /\ Alone /\ TakenDown
    BY DEF IInv
<1>1. CASE StartCalled(a)
    <2>1. /\ call' = "starting" /\ call = "none" /\ ~reported
          /\ UNCHANGED <<serving, reported, web, published, early, timedOut>>
          /\ pc["stopper"] # "done" /\ pc[a] = "start" /\ Goto(a, "starting")
        BY <1>1 DEF StartCalled, Server!BeginStart, At, shell
    <2>2. /\ pc' \in [Actors -> Steps] /\ pc'[a] = "starting"
          /\ \A b \in Actors \ {a} : pc'[b] = pc[b]
        BY <2>1, <1>0, GotoFrame DEF Types, Steps
    <2>3. a # "stopper" /\ ~Left
        BY <2>1, <1>0, ActorsAre DEF Stopped, Alone, Worked, Left
    <2>4. Types' /\ Called'
        BY <1>0, <2>1, <2>2 DEF Types, Called
    <2>5. Worked' /\ Stopped' /\ Requested'
        BY <1>0, <2>1, <2>2, <2>3, ActorsAre DEF Worked, Stopped, Requested
    <2>6. ~Left'
        BY <2>1, <2>2, <2>3, ActorsAre DEF Left
    <2> QED
        BY <2>4, <2>5, <2>6 DEF IInv, Alone, TakenDown
<1>2. CASE StopCalled(a)
    <2>1. /\ call' = "stopping" /\ call = "none" /\ serving /\ reported
          /\ UNCHANGED <<serving, reported, web, published, early, timedOut>>
          /\ pc["stopper"] # "done" /\ pc[a] = "stop" /\ Goto(a, "stopping")
        BY <1>2 DEF StopCalled, Server!BeginStop, At, shell
    <2>2. /\ pc' \in [Actors -> Steps] /\ pc'[a] = "stopping"
          /\ \A b \in Actors \ {a} : pc'[b] = pc[b]
        BY <2>1, <1>0, GotoFrame DEF Types, Steps
    <2>3. a # "worker"
        BY <2>1, <1>0 DEF Worked
    <2>4. Types' /\ Called'
        BY <1>0, <2>1, <2>2 DEF Types, Called
    <2>5. Worked' /\ Stopped' /\ Requested'
        BY <1>0, <2>1, <2>2, <2>3, ActorsAre DEF Worked, Stopped, Requested
    <2>6. Left => a = "stopper"
        BY <2>1, <1>0, <2>3, ActorsAre DEF Alone
    <2>7. Left' => Left /\ pc'["stopper"] \notin {"exit", "done"}
        BY <2>1, <2>2, <2>6, <1>0, ActorsAre DEF Left, TakenDown
    <2>8. Alone'
        BY <1>0, <2>1, <2>2, <2>6, <2>7, ActorsAre DEF Alone
    <2> QED
        BY <2>4, <2>5, <2>7, <2>8 DEF IInv, TakenDown
<1>3. CASE StartReturns(a)
    BY <1>0, <1>3, ReturnIInv DEF StartReturns, At, MutexFree, server, Types
<1>4. CASE StartEnds(a)
    BY <1>0, <1>4, ReturnIInv
       DEF StartEnds, At, Server!EndStart, Server!FailStart, Types
<1>5. CASE StopReturns(a)
    BY <1>0, <1>5, ReturnIInv DEF StopReturns, At, MutexFree, server, Types
<1>6. CASE StopEnds(a)
    BY <1>0, <1>6, ReturnIInv DEF StopEnds, At, Server!EndStop
<1> QED
    BY <1>1, <1>2, <1>3, <1>4, <1>5, <1>6 DEF Enter

\* The steps of work, of the requests that come in, and of the signal.
LEMMA OutsideIInv ==
    ASSUME IInv, Work \/ Signal \/ OldReturns \/ \E r \in Requests : Request(r)
    PROVE  IInv'
<1>0. Types /\ Called /\ Worked /\ Stopped /\ Requested /\ Alone /\ TakenDown
    BY DEF IInv
<1>1. CASE Work
    <2>1. /\ UNCHANGED <<call, serving, reported, early, timedOut>>
          /\ pc["stopper"] # "done" /\ pc["worker"] \in {"listen", "publish"}
          /\ \E step \in {"publish", "start"} : Goto("worker", step)
        BY <1>1 DEF Work, WebStart, WebFails, Publish, At, server, shell
    <2>2. /\ pc' \in [Actors -> Steps]
          /\ pc'["worker"] \in {"publish", "start"}
          /\ \A b \in Actors \ {"worker"} : pc'[b] = pc[b]
        BY <2>1, <1>0, GotoFrame, ActorsAre DEF Types, Steps
    <2>3. \/ web' = "listening" /\ published' = published /\ pc'["worker"] = "publish"
          \/ web' = web /\ published' = published /\ pc["worker"] = "listen"
             /\ pc'["worker"] = "start"
          \/ web' = web /\ published' = TRUE /\ pc["worker"] = "publish"
             /\ pc'["worker"] = "start"
        BY <1>1, <1>0, ActorsAre
           DEF Work, WebStart, WebFails, Publish, At, server, shell, Goto, Types
    <2>4. ~Left /\ ~Left'
        BY <1>0, <2>1, <2>2, ActorsAre DEF Left, Stopped
    <2>5. Types' /\ Called'
        BY <1>0, <2>1, <2>2, <2>3 DEF Types, Called
    <2>6. Worked' /\ Requested'
        BY <1>0, <2>1, <2>2, <2>3, ActorsAre DEF Worked, Requested
    <2>7. Stopped'
        BY <1>0, <2>1, <2>2, <2>3, ActorsAre DEF Stopped, Worked
    <2> QED
        BY <2>4, <2>5, <2>6, <2>7 DEF IInv, Alone, TakenDown
<1>2. CASE Signal
    <2>1. /\ UNCHANGED <<call, serving, reported, web, published, timedOut>>
          /\ early' = (pc["worker"] # "done")
          /\ pc["stopper"] = "run" /\ Goto("stopper", "web")
        BY <1>2 DEF Signal, At, server
    <2>2. /\ pc' \in [Actors -> Steps] /\ pc'["stopper"] = "web"
          /\ \A b \in Actors \ {"stopper"} : pc'[b] = pc[b]
        BY <2>1, <1>0, GotoFrame, ActorsAre DEF Types, Steps
    <2>3. ~Left'
        BY <2>2 DEF Left
    <2>4. Types' /\ Called'
        BY <1>0, <2>1, <2>2 DEF Types, Called
    <2>5. Worked' /\ Stopped' /\ Requested'
        BY <1>0, <2>1, <2>2, ActorsAre DEF Worked, Stopped, Requested
    <2> QED
        BY <2>3, <2>4, <2>5 DEF IInv, Alone, TakenDown
<1>3. CASE OldReturns
    <2>1. /\ UNCHANGED <<call, serving, pc, web, published, early, timedOut>>
          /\ reported' = FALSE
        BY <1>3 DEF OldReturns, Server!OldReturns, shell
    <2>2. Types'
        <3>1. reported' \in BOOLEAN
            BY <2>1
        <3> QED
            BY <1>0, <2>1, <3>1, Zenon DEF Types
    <2>4. Called' /\ Worked' /\ Stopped' /\ Requested'
        BY <1>0, <2>1 DEF Called, Worked, Stopped, Requested
    <2>3. Alone' /\ TakenDown'
        BY <1>0, <2>1 DEF Alone, Left, TakenDown
    <2> QED
        BY <2>2, <2>3, <2>4 DEF IInv
<1>4. ASSUME NEW r \in Requests, Request(r) PROVE IInv'
    <2>1. /\ UNCHANGED <<call, serving, reported, web, published, early, timedOut>>
          /\ web = "listening" /\ pc[r] = "idle"
          /\ \E step \in {"start", "stop"} : Goto(r, step)
        BY <1>4 DEF Request, At, server, shell
    <2>2. /\ pc' \in [Actors -> Steps] /\ pc'[r] \in {"start", "stop"}
          /\ \A b \in Actors \ {r} : pc'[b] = pc[b]
        BY <2>1, <1>0, GotoFrame, ActorsAre DEF Types, Steps
    <2>3. ~Left /\ ~Left'
        BY <1>0, <2>1, <2>2, ActorsAre DEF Left, Alone
    <2>4. Types' /\ Called' /\ Worked'
        BY <1>0, <2>1, <2>2, ActorsAre DEF Types, Called, Worked
    <2>5. Stopped' /\ Requested'
        BY <1>0, <2>1, <2>2, ActorsAre DEF Stopped, Requested
    <2> QED
        BY <2>3, <2>4, <2>5 DEF IInv, Alone, TakenDown
<1> QED
    BY <1>1, <1>2, <1>3, <1>4

\* The steps of program.Stop around Control.Stop.
LEMMA StopIInv ==
    ASSUME IInv, Stop
    PROVE  IInv'
<1>0. Types /\ Called /\ Worked /\ Stopped /\ Requested /\ Alone /\ TakenDown
    BY DEF IInv
<1>1. /\ UNCHANGED <<call, serving, reported, published, early>>
      /\ pc["stopper"] \in {"web", "drain", "exit"}
      /\ \E step \in {"drain", "stop", "done"} : Goto("stopper", step)
    BY DEF Stop, ReadWeb, Drain, Exit, At, server, shell
<1>2. /\ pc' \in [Actors -> Steps] /\ pc'["stopper"] \in {"drain", "stop", "done"}
      /\ \A b \in Actors \ {"stopper"} : pc'[b] = pc[b]
    BY <1>0, <1>1, GotoFrame, ActorsAre DEF Types, Steps
<1>3. \/ /\ pc["stopper"] = "web" /\ published /\ timedOut' = timedOut
         /\ web' = "closed" /\ pc'["stopper"] = "drain"
      \/ /\ pc["stopper"] = "web" /\ ~published /\ timedOut' = timedOut
         /\ web' = web /\ pc'["stopper"] = "stop"
      \/ /\ pc["stopper"] = "drain" /\ timedOut' = \E r \in Requests : pc[r] # "idle"
         /\ web' = web /\ pc'["stopper"] = "stop"
      \/ /\ pc["stopper"] = "exit" /\ timedOut' = timedOut
         /\ web' = web /\ pc'["stopper"] = "done"
    BY <1>0, ActorsAre DEF Stop, ReadWeb, Drain, Exit, At, server, shell, Goto, Types
<1>4. timedOut' \in BOOLEAN
    BY <1>0, <1>3 DEF Types
<1>5. Types' /\ Called'
    BY <1>0, <1>1, <1>2, <1>3, <1>4, ActorsAre DEF Types, Called
<1>9. Worked'
    BY <1>0, <1>1, <1>2, <1>3, ActorsAre DEF Worked
<1>6. Stopped' /\ Requested'
    BY <1>0, <1>1, <1>2, <1>3, ActorsAre DEF Stopped, Requested
<1>7. Alone'
    <2>1. CASE pc["stopper"] = "web"
        <3>1. SUFFICES ASSUME Left' PROVE web' # "listening" /\ \A r \in Requests : pc'[r] = "idle"
            BY DEF Alone
        <3>2. pc'["stopper"] = "stop" /\ ~published /\ web' = web
            BY <2>1, <3>1, <1>2, <1>3 DEF Left
        <3>3. web = "off"
            <4>1. ~early /\ pc["worker"] = "done"
                BY <2>1, <3>1, <1>0, <1>1 DEF Left, Stopped
            <4> QED
                BY <2>1, <3>2, <4>1, <1>0 DEF Stopped, Worked, Types
        <3> QED
            BY <3>2, <3>3, <1>0, <1>2, ActorsAre DEF Requested
    <2>2. CASE pc["stopper"] = "drain"
        BY <2>2, <1>0, <1>1, <1>2, <1>3, ActorsAre DEF Alone, Left, Stopped
    <2>3. CASE pc["stopper"] = "exit"
        BY <2>3, <1>0, <1>1, <1>2, <1>3, ActorsAre DEF Alone, Left
    <2> QED
        BY <1>1, <2>1, <2>2, <2>3
<1>8. TakenDown'
    BY <1>0, <1>1, <1>2, <1>3 DEF TakenDown, Left
<1> QED
    BY <1>5, <1>6, <1>7, <1>8, <1>9 DEF IInv

LEMMA NextIInv == IInv /\ [Next]_vars => IInv'
<1> SUFFICES ASSUME IInv, [Next]_vars PROVE IInv'
    OBVIOUS
<1>1. CASE UNCHANGED vars
    BY <1>1 DEF vars, IInv, Types, Called, Worked, Stopped, Requested, Alone, Left, TakenDown
<1> QED
    BY <1>1, CallIInv, OutsideIInv, StopIInv DEF Next

\* main.go:73-81, web/server.go:73-78: when the process ends, no call is under
\* way and no server is left that is reported to run, unless the signal came before
\* work was done or Shutdown gave up on a request.
THEOREM OrderlyExitHolds == Spec => []OrderlyExit
<1>1. IInv => OrderlyExit
    BY DEF IInv, TakenDown, Left, OrderlyExit
<1> QED
    BY <1>1, InitIInv, NextIInv, PTL DEF Spec
=============================================================================
