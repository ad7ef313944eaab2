------------------------------ MODULE DnsServer ------------------------------
(***************************************************************************)
(* The DNS server as the callers of Control.Start and Control.Stop see it: *)
(* what they are doing, whether Control has a server, and what it reports  *)
(* of it.  ControlLifecycle implements this.                               *)
(*                                                                         *)
(* OldReturns is what the callers have to live with: the goroutine of a    *)
(* server that was stopped ends on its own time, and clears the report of  *)
(* a successor.  From then on Stop passes the successor over, and Start    *)
(* can put another server in its place, after which the successor serves   *)
(* until the process ends.                                                 *)
(***************************************************************************)
VARIABLES
    call,       \* who holds the mutex across steps is in the middle of this
    serving,    \* Control has a server
    reported,   \* GetStatus says "running", and Start and Stop act on it
    lingering,  \* a goroutine of a stopped server is still there
    abandoned   \* a server serves that Control has not any more

vars == <<call, serving, reported, lingering, abandoned>>

Init ==
    /\ call = "none"
    /\ serving = FALSE /\ reported = FALSE /\ lingering = FALSE /\ abandoned = FALSE

BeginStart ==
    /\ call = "none" /\ ~reported
    /\ call' = "starting"
    /\ UNCHANGED <<serving, reported, lingering, abandoned>>

EndStart ==
    /\ call = "starting"
    /\ call' = "none"
    /\ serving' = TRUE /\ reported' = TRUE
    /\ abandoned' = (abandoned \/ serving)
    /\ UNCHANGED lingering

FailStart ==
    /\ call = "starting"
    /\ call' = "none"
    /\ UNCHANGED <<serving, reported, lingering, abandoned>>

BeginStop ==
    /\ call = "none" /\ serving /\ reported
    /\ call' = "stopping"
    /\ UNCHANGED <<serving, reported, lingering, abandoned>>

EndStop ==
    /\ call = "stopping"
    /\ call' = "none"
    /\ serving' = FALSE /\ reported' = FALSE
    /\ lingering' = TRUE
    /\ UNCHANGED abandoned

\* Not while a call has the mutex.
OldReturns ==
    /\ call = "none"
    /\ lingering
    /\ reported' = FALSE
    /\ lingering' \in BOOLEAN
    /\ UNCHANGED <<call, serving, abandoned>>

Next == BeginStart \/ EndStart \/ FailStart \/ BeginStop \/ EndStop \/ OldReturns

Spec == Init /\ [][Next]_vars
=============================================================================
