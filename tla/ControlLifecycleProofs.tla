----------------------- MODULE ControlLifecycleProofs -----------------------
(***************************************************************************)
(* What Control keeps hold of, for any number of servers, callers,         *)
(* handlers, configurations and overrides.  The argument follows the       *)
(* mutex: between two critical sections the open handles are those of the  *)
(* live server and of disowned ones, and inside Start and Stop, the        *)
(* sections that are not atomic, HeldInv says which there are.             *)
(***************************************************************************)
EXTENDS ControlLifecycle, TLAPS

Stopping == {"wait", "close", "shutdown"}

MutexInv ==
    \A c \in Callers : pc[c] \in Stopping \cup {"rules"} <=> mu = c

HeldInv ==
    /\ \A s \in opened :
          s = live \/ s \in disowned \/ \E c \in Callers : pc[c] = "rules" /\ handle[c] = s
    /\ listening \subseteq {live} \cup disowned
    /\ \A s \in Servers : loop[s] # "unborn" /\ s \notin cancelled => s \in opened
    /\ live # Nobody => live \in opened
    /\ live # Nobody /\ (\A c \in Callers : pc[c] \notin Stopping) =>
          live \in listening /\ live \notin cancelled
    /\ running <=> live # Nobody /\ live \notin disowned
    /\ \A c \in Callers : pc[c] \in Stopping => running /\ live \in cancelled
    /\ \A c \in Callers : pc[c] = "rules" =>
          /\ ~running
          /\ handle[c] \in opened /\ loop[handle[c]] = "unborn"
    /\ \A c \in Callers : pc[c] = "shutdown" => live \notin listening
    /\ \A c \in Callers : pc[c] = "temporary" => handle[c] = Nobody

LoopInv ==
    /\ \A s \in Servers : loop[s] = "unborn" => s \notin cancelled \cup disowned /\ s # live
    /\ \A s \in Servers : s \notin cancelled =>
          loop[s] \in {"unborn", "check", "read", "packet"}
    /\ \A s \in Servers : loop[s] = "gone" => s # live

\* A loop whose server is cancelled handles one packet more at most, once Stop has
\* seen that no handler runs.
PacketInv ==
    /\ \A s \in Servers : loop[s] = "unborn" => wg[s] = 0
    /\ \A s \in cancelled :
          \/ s = live /\ \E c \in Callers : pc[c] = "wait"
          \/ wg[s] <= 1 /\ (loop[s] \in {"read", "packet"} => wg[s] = 0)

IInv == TypeOK /\ MutexInv /\ HeldInv /\ LoopInv /\ PacketInv

LEMMA NoSetupType == NoSetup \in Configs
  BY ConfigsAssumption DEF NoSetup

LEMMA InitIInv == Init => IInv
<1> SUFFICES ASSUME Init PROVE IInv
  OBVIOUS
<1>1. TypeOK
  BY NoSetupType DEF Init, TypeOK
<1>2. MutexInv /\ HeldInv /\ LoopInv /\ PacketInv
  BY NobodyAssumption DEF Init, MutexInv, HeldInv, LoopInv, PacketInv, Stopping
<1> QED
  BY <1>1, <1>2 DEF IInv

\* What a use of the store writes, and what its caller may rely on, keep their types.
LEMMA UseTypes ==
    ASSUME TypeOK, NEW c \in Callers, Use(c)
    PROVE  /\ stored' \subseteq Entries
           /\ expected' \in [Entries -> {"unknown", "set", "delete"}]
<1>1. CASE UNCHANGED overrides
  BY <1>1 DEF overrides, TypeOK
<1>2. ASSUME NEW e \in Entries, NEW kind \in {"set", "delete"},
             WriteClosed(c, e, kind) \/ Write(e, kind)
      PROVE  /\ stored' \subseteq Entries
             /\ expected' \in [Entries -> {"unknown", "set", "delete"}]
  BY <1>2 DEF WriteClosed, Write, Acknowledge, TypeOK
<1> QED
  BY <1>1, <1>2 DEF Use

LEMMA NextIInv == IInv /\ [Next]_vars => IInv'
<1> SUFFICES ASSUME IInv, [Next]_vars PROVE IInv'
  OBVIOUS
<1> USE NobodyAssumption, NoSetupType DEF IInv, TypeOK, MutexInv, HeldInv, LoopInv,
        PacketInv, Stopping, control, server, caller, overrides, Goto, Return, LoopAt
<1>1. ASSUME NEW c \in Callers, CallerBegins(c) PROVE IInv'
  <2>1. ASSUME NEW s \in Servers, NEW cfg \in Configs, StartOpen(c, s, cfg) PROVE IInv'
    <3>1. TypeOK'
      BY <2>1 DEF StartOpen
    <3>2. MutexInv'
      BY <2>1 DEF StartOpen
    <3>3. HeldInv'
      BY <2>1 DEF StartOpen
    <3>4. LoopInv'
      BY <2>1 DEF StartOpen
    <3>5. PacketInv'
      BY <2>1 DEF StartOpen
    <3> QED
      BY <3>1, <3>2, <3>3, <3>4, <3>5
  <2>2. CASE StopBegin(c)
    <3>1. TypeOK'
      BY <2>2 DEF StopBegin, Holding
    <3>2. MutexInv'
      BY <2>2 DEF StopBegin, Holding
    <3>3. HeldInv'
      BY <2>2 DEF StopBegin, Holding
    <3>4. LoopInv'
      BY <2>2 DEF StopBegin, Holding
    <3>5. PacketInv'
      BY <2>2 DEF StopBegin, Holding
    <3> QED
      BY <3>1, <3>2, <3>3, <3>4, <3>5
  <2>3. CASE WithStore(c)
    <3>1. TypeOK'
      BY <2>3, ConfigsAssumption DEF WithStore, Capture
    <3>2. MutexInv'
      BY <2>3, ConfigsAssumption DEF WithStore, Capture
    <3>3. HeldInv'
      BY <2>3, ConfigsAssumption DEF WithStore, Capture
    <3>4. LoopInv'
      BY <2>3, ConfigsAssumption DEF WithStore, Capture
    <3>5. PacketInv'
      BY <2>3, ConfigsAssumption DEF WithStore, Capture
    <3> QED
      BY <3>1, <3>2, <3>3, <3>4, <3>5
  <2> QED
    BY <1>1, <2>1, <2>2, <2>3 DEF CallerBegins
<1>2. ASSUME NEW c \in Callers, StartProceeds(c) PROVE IInv'
  <2>1. CASE StartListen(c)
    <3>1. TypeOK'
      BY <2>1 DEF StartListen
    <3>2. MutexInv'
      BY <2>1 DEF StartListen
    <3>3. HeldInv'
      <4>1. /\ mu = c /\ handle[c] \in Servers /\ loop[handle[c]] = "unborn"
            /\ live' = handle[c] /\ running' /\ listening' = listening \cup {live'}
            /\ live' \in opened
            /\ pc' = [pc EXCEPT ![c] = "idle"] /\ handle' = [handle EXCEPT ![c] = Nobody]
            /\ loop' = [loop EXCEPT ![live'] = "check"]
            /\ UNCHANGED <<disowned, cancelled, opened>>
        BY <2>1 DEF StartListen
      <4>2. \A d \in Callers : pc'[d] \notin Stopping \cup {"rules"}
        BY <4>1
      <4>3. live' \notin cancelled \cup disowned
        BY <4>1
      <4>5. ~running /\ (live = Nobody \/ live \in disowned)
        BY <4>1, <2>1 DEF StartListen
      <4>6. opened' \subseteq {live'} \cup disowned
        BY <4>1, <4>5
      <4>7. listening' \subseteq {live'} \cup disowned
        BY <4>1, <4>5
      <4>8. \A s \in Servers : loop'[s] # "unborn" /\ s \notin cancelled => s \in opened
        BY <4>1
      <4>9. \A d \in Callers : pc'[d] = "temporary" => handle'[d] = Nobody
        BY <4>1
      <4> HIDE DEF TypeOK, MutexInv, LoopInv, PacketInv
      <4> QED
        BY <4>1, <4>2, <4>3, <4>6, <4>7, <4>8, <4>9
    <3>4. LoopInv'
      BY <2>1 DEF StartListen
    <3>5. PacketInv'
      BY <2>1 DEF StartListen
    <3> QED
      BY <3>1, <3>2, <3>3, <3>4, <3>5
  <2>2. CASE StartFails(c)
    <3>1. TypeOK'
      BY <2>2 DEF StartFails
    <3>2. MutexInv'
      BY <2>2 DEF StartFails
    <3>3. HeldInv'
      BY <2>2 DEF StartFails
    <3>4. LoopInv'
      BY <2>2 DEF StartFails
    <3>5. PacketInv'
      BY <2>2 DEF StartFails
    <3> QED
      BY <3>1, <3>2, <3>3, <3>4, <3>5
  <2> QED
    BY <1>2, <2>1, <2>2 DEF StartProceeds
<1>3. ASSUME NEW c \in Callers, CallerProceeds(c) PROVE IInv'
  <2>1. CASE StopWait(c)
    <3>1. TypeOK'
      BY <2>1 DEF StopWait
    <3>2. MutexInv'
      BY <2>1 DEF StopWait
    <3>3. HeldInv'
      BY <2>1 DEF StopWait
    <3>4. LoopInv'
      BY <2>1 DEF StopWait
    <3>5. PacketInv'
      BY <2>1 DEF StopWait
    <3> QED
      BY <3>1, <3>2, <3>3, <3>4, <3>5
  <2>2. CASE StopClose(c)
    <3>1. TypeOK'
      BY <2>2 DEF StopClose
    <3>2. MutexInv'
      BY <2>2 DEF StopClose
    <3>3. HeldInv'
      BY <2>2 DEF StopClose
    <3>4. LoopInv'
      BY <2>2 DEF StopClose
    <3>5. PacketInv'
      BY <2>2 DEF StopClose
    <3> QED
      BY <3>1, <3>2, <3>3, <3>4, <3>5
  <2>3. CASE StopShutdown(c)
    <3>1. TypeOK'
      BY <2>3 DEF StopShutdown
    <3>2. MutexInv'
      BY <2>3 DEF StopShutdown
    <3>3. HeldInv'
      BY <2>3 DEF StopShutdown
    <3>4. LoopInv'
      BY <2>3 DEF StopShutdown
    <3>5. PacketInv'
      BY <2>3 DEF StopShutdown
    <3> QED
      BY <3>1, <3>2, <3>3, <3>4, <3>5
  <2>4. CASE ApplyLive(c)
    <3>1. TypeOK'
      BY <2>4, UseTypes DEF ApplyLive
    <3>2. MutexInv'
      BY <2>4 DEF ApplyLive
    <3>3. HeldInv'
      BY <2>4 DEF ApplyLive
    <3>4. LoopInv'
      BY <2>4 DEF ApplyLive
    <3>5. PacketInv'
      BY <2>4 DEF ApplyLive
    <3> QED
      BY <3>1, <3>2, <3>3, <3>4, <3>5
  <2>5. CASE OpenTemporary(c)
    <3>1. TypeOK'
      BY <2>5 DEF OpenTemporary
    <3>2. MutexInv'
      BY <2>5 DEF OpenTemporary
    <3>3. HeldInv'
      BY <2>5 DEF OpenTemporary
    <3>4. LoopInv'
      BY <2>5 DEF OpenTemporary
    <3>5. PacketInv'
      BY <2>5 DEF OpenTemporary
    <3> QED
      BY <3>1, <3>2, <3>3, <3>4, <3>5
  <2>6. CASE TemporaryFails(c)
    <3>1. TypeOK'
      BY <2>6 DEF TemporaryFails
    <3>2. MutexInv'
      BY <2>6 DEF TemporaryFails
    <3>3. HeldInv'
      BY <2>6 DEF TemporaryFails
    <3>4. LoopInv'
      BY <2>6 DEF TemporaryFails
    <3>5. PacketInv'
      BY <2>6 DEF TemporaryFails
    <3> QED
      BY <3>1, <3>2, <3>3, <3>4, <3>5
  <2>7. CASE ApplyTemporary(c)
    <3>1. TypeOK'
      BY <2>7, UseTypes DEF ApplyTemporary
    <3>2. MutexInv'
      BY <2>7 DEF ApplyTemporary
    <3>3. HeldInv'
      BY <2>7 DEF ApplyTemporary
    <3>4. LoopInv'
      BY <2>7 DEF ApplyTemporary
    <3>5. PacketInv'
      BY <2>7 DEF ApplyTemporary
    <3> QED
      BY <3>1, <3>2, <3>3, <3>4, <3>5
  <2> QED
    BY <1>3, <2>1, <2>2, <2>3, <2>4, <2>5, <2>6, <2>7 DEF CallerProceeds
<1>4. ASSUME NEW s \in Servers, LoopStep(s) PROVE IInv'
  <2>1. CASE Check(s)
    <3>1. TypeOK'
      BY <2>1 DEF Check
    <3>2. MutexInv'
      BY <2>1 DEF Check
    <3>3. HeldInv'
      BY <2>1 DEF Check
    <3>4. LoopInv'
      BY <2>1 DEF Check
    <3>5. PacketInv'
      BY <2>1 DEF Check
    <3> QED
      BY <3>1, <3>2, <3>3, <3>4, <3>5
  <2>2. CASE ReadNothing(s)
    <3>1. TypeOK'
      BY <2>2 DEF ReadNothing
    <3>2. MutexInv'
      BY <2>2 DEF ReadNothing
    <3>3. HeldInv'
      BY <2>2 DEF ReadNothing
    <3>4. LoopInv'
      BY <2>2 DEF ReadNothing
    <3>5. PacketInv'
      BY <2>2 DEF ReadNothing
    <3> QED
      BY <3>1, <3>2, <3>3, <3>4, <3>5
  <2>3. CASE ReadPacket(s)
    <3>1. TypeOK'
      BY <2>3 DEF ReadPacket
    <3>2. MutexInv'
      BY <2>3 DEF ReadPacket
    <3>3. HeldInv'
      BY <2>3 DEF ReadPacket
    <3>4. LoopInv'
      BY <2>3 DEF ReadPacket
    <3>5. PacketInv'
      BY <2>3 DEF ReadPacket
    <3> QED
      BY <3>1, <3>2, <3>3, <3>4, <3>5
  <2>4. CASE Spawn(s)
    <3>1. TypeOK'
      BY <2>4 DEF Spawn
    <3>2. MutexInv'
      BY <2>4 DEF Spawn
    <3>3. HeldInv'
      BY <2>4 DEF Spawn
    <3>4. LoopInv'
      BY <2>4 DEF Spawn
    <3>5. PacketInv'
      BY <2>4 DEF Spawn
    <3> QED
      BY <3>1, <3>2, <3>3, <3>4, <3>5
  <2>5. CASE Drain(s)
    <3>1. TypeOK'
      BY <2>5 DEF Drain
    <3>2. MutexInv'
      BY <2>5 DEF Drain
    <3>3. HeldInv'
      BY <2>5 DEF Drain
    <3>4. LoopInv'
      BY <2>5 DEF Drain
    <3>5. PacketInv'
      BY <2>5 DEF Drain
    <3> QED
      BY <3>1, <3>2, <3>3, <3>4, <3>5
  <2> QED
    BY <1>4, <2>1, <2>2, <2>3, <2>4, <2>5 DEF LoopStep
<1>5. ASSUME NEW s \in Servers, ServerReturned(s) PROVE IInv'
  <2>1. TypeOK'
    <3>1. running' \in BOOLEAN
      BY <1>5 DEF ServerReturned
    <3>2. disowned' \subseteq Servers
      BY <1>5 DEF ServerReturned
    <3>3. /\ loop' = [loop EXCEPT ![s] = "gone"]
          /\ UNCHANGED <<mu, live, setup, cancelled, listening, opened, wg, caller,
                         overrides>>
      BY <1>5 DEF ServerReturned
    <3> HIDE DEF MutexInv, HeldInv, LoopInv, PacketInv
    <3> QED
      BY <3>1, <3>2, <3>3, Zenon
  <2>2. MutexInv'
    BY <1>5 DEF ServerReturned
  <2>3. HeldInv'
    BY <1>5 DEF ServerReturned
  <2>4. LoopInv'
    BY <1>5 DEF ServerReturned
  <2>5. PacketInv'
    BY <1>5 DEF ServerReturned
  <2> QED
    BY <2>1, <2>2, <2>3, <2>4, <2>5
<1>6. ASSUME NEW s \in Servers, HandlerReturns(s) PROVE IInv'
  <2>1. TypeOK'
    BY <1>6 DEF HandlerReturns
  <2>2. MutexInv'
    BY <1>6 DEF HandlerReturns
  <2>3. HeldInv'
    BY <1>6 DEF HandlerReturns
  <2>4. LoopInv'
    BY <1>6 DEF HandlerReturns
  <2>5. PacketInv'
    BY <1>6 DEF HandlerReturns
  <2> QED
    BY <2>1, <2>2, <2>3, <2>4, <2>5
<1>7. CASE UNCHANGED vars
  <2>1. TypeOK'
    BY <1>7 DEF vars
  <2>2. MutexInv'
    BY <1>7 DEF vars
  <2>3. HeldInv'
    BY <1>7 DEF vars
  <2>4. LoopInv'
    BY <1>7 DEF vars
  <2>5. PacketInv'
    BY <1>7 DEF vars
  <2> QED
    BY <2>1, <2>2, <2>3, <2>4, <2>5
<1> QED
  BY <1>1, <1>2, <1>3, <1>4, <1>5, <1>6, <1>7 DEF Next

LEMMA Inductive == Spec => []IInv
  BY InitIInv, NextIInv, PTL DEF Spec

-----------------------------------------------------------------------------

(* Control's fields, the servers and the callers keep their types. *)
THEOREM TypeCorrect == Spec => []TypeOK
<1>1. IInv => TypeOK
  BY DEF IInv
<1> QED
  BY Inductive, <1>1, PTL

(* Stop (control.go:267-288) gives back everything Start took: between two   *)
(* critical sections nothing is open that Control no longer points to, but   *)
(* for the servers another server's goroutine made it disown (control.go:    *)
(* 251-253), whatever databases and ports are configured meanwhile.          *)
THEOREM NothingLeaksHolds == Spec => []NothingLeaks
<1>1. IInv => NothingLeaks
  BY NobodyAssumption DEF IInv, TypeOK, MutexInv, HeldInv, NothingLeaks
<1> QED
  BY Inductive, <1>1, PTL

(* A status of "running" (control.go:165-173) is never wrong.                *)
THEOREM RunningMeansServingHolds == Spec => []RunningMeansServing
<1>1. IInv => RunningMeansServing
  BY NobodyAssumption
     DEF IInv, TypeOK, MutexInv, HeldInv, LoopInv, RunningMeansServing, Stopping
<1> QED
  BY Inductive, <1>1, PTL

(* udp.go:46-86, 95-98: a handler that runs on a cache that was closed under *)
(* it is the only one, the last packet its server has read.                  *)
THEOREM AtMostOneLateHandlerHolds == Spec => []AtMostOneLateHandler
<1>1. IInv => AtMostOneLateHandler
  <2> SUFFICES ASSUME IInv, NEW s \in Servers, s \notin opened PROVE wg[s] <= 1
    BY DEF AtMostOneLateHandler
  <2>1. CASE loop[s] = "unborn"
    BY <2>1 DEF IInv, PacketInv
  <2>2. CASE loop[s] # "unborn"
    <3>1. s \in cancelled /\ s # live
      BY <2>2, NobodyAssumption DEF IInv, HeldInv
    <3> QED
      BY <3>1 DEF IInv, PacketInv
  <2> QED
    BY <2>1, <2>2
<1> QED
  BY Inductive, <1>1, PTL

-----------------------------------------------------------------------------

(* The handle of a call that no Stop has overtaken is open when it is used:  *)
(* it is not that of the server a Stop is closing.                           *)
HandleInv ==
    \A c \in Callers : pc[c] = "apply" /\ handle[c] # Nobody =>
        /\ loop[handle[c]] # "unborn"
        /\ c \notin overtaken =>
              /\ handle[c] \in opened
              /\ handle[c] = live => \A d \in Callers : pc[d] \notin Stopping

LEMMA InitOverrides == Init => HandleInv /\ OverridesKept
  BY DEF Init, HandleInv, OverridesKept

LEMMA HandleStep == IInv /\ HandleInv /\ [Next]_vars => HandleInv'
<1> SUFFICES ASSUME IInv, HandleInv, [Next]_vars PROVE HandleInv'
  OBVIOUS
<1> USE NobodyAssumption DEF IInv, TypeOK, MutexInv, HandleInv, Stopping, Goto, Return
<1>1. ASSUME NEW c \in Callers, CallerBegins(c) PROVE HandleInv'
  <2>1. ASSUME NEW s \in Servers, NEW cfg \in Configs, StartOpen(c, s, cfg) PROVE HandleInv'
    BY <2>1 DEF StartOpen
  <2>2. CASE StopBegin(c)
    BY <2>2 DEF StopBegin, Holding
  <2>3. CASE WithStore(c)
    BY <2>3 DEF WithStore, Capture, control, server, HeldInv, LoopInv
  <2> QED
    BY <1>1, <2>1, <2>2, <2>3 DEF CallerBegins
<1>2. ASSUME NEW c \in Callers, StartProceeds(c) PROVE HandleInv'
  <2>1. CASE StartListen(c)
    BY <2>1 DEF StartListen, HeldInv
  <2>2. CASE StartFails(c)
    BY <2>2 DEF StartFails, HeldInv
  <2> QED
    BY <1>2, <2>1, <2>2 DEF StartProceeds
<1>3. ASSUME NEW c \in Callers, CallerProceeds(c) PROVE HandleInv'
  <2>1. CASE StopWait(c) \/ StopClose(c)
    BY <2>1 DEF StopWait, StopClose, control, server
  <2>2. CASE StopShutdown(c)
    BY <2>2 DEF StopShutdown
  <2>3. CASE ApplyLive(c) \/ OpenTemporary(c) \/ TemporaryFails(c) \/ ApplyTemporary(c)
    BY <2>3 DEF ApplyLive, OpenTemporary, TemporaryFails, ApplyTemporary, control, server
  <2> QED
    BY <1>3, <2>1, <2>2, <2>3 DEF CallerProceeds
<1>4. ASSUME NEW s \in Servers, LoopStep(s) \/ ServerReturned(s) PROVE HandleInv'
  <2>1. /\ UNCHANGED <<pc, handle, overtaken, opened, live>>
        /\ loop[s] # "unborn" /\ \E to \in {"check", "read", "packet", "drain", "return", "gone"} :
              loop' = [loop EXCEPT ![s] = to]
    BY <1>4 DEF LoopStep, LoopAt, Check, ReadNothing, Drain, ReadPacket, Spawn,
       ServerReturned, caller, control
  <2> QED
    BY <2>1
<1>5. ASSUME NEW s \in Servers, HandlerReturns(s) PROVE HandleInv'
  BY <1>5 DEF HandlerReturns, caller, control
<1>6. CASE UNCHANGED vars
  BY <1>6 DEF vars, control, server, caller
<1> QED
  BY <1>1, <1>2, <1>3, <1>4, <1>5, <1>6 DEF Next

LEMMA EditKept ==
    ASSUME TypeOK, OverridesKept, NEW c \in Callers, Use(c),
           c \notin overtaken => handle[c] \in opened \cup {Nobody}
    PROVE  OverridesKept'
<1>1. CASE UNCHANGED overrides
  BY <1>1 DEF overrides, OverridesKept
<1>2. ASSUME NEW e \in Entries, NEW kind \in {"set", "delete"},
             IF handle[c] \notin opened \cup {Nobody}
             THEN WriteClosed(c, e, kind) ELSE Write(e, kind)
      PROVE  OverridesKept'
  <2>1. CASE handle[c] \notin opened \cup {Nobody}
    <3>1. stored' = stored /\ expected' = [expected EXCEPT ![e] = "unknown"]
      BY <1>2, <2>1 DEF WriteClosed, Acknowledge
    <3> QED
      BY <3>1 DEF OverridesKept, TypeOK
  <2>2. CASE Write(e, kind)
    BY <2>2 DEF Write, Acknowledge, OverridesKept, TypeOK
  <2> QED
    BY <1>2, <2>1, <2>2
<1> QED
  BY <1>1, <1>2 DEF Use

LEMMA OverridesStep ==
    IInv /\ HandleInv /\ OverridesKept /\ [Next]_vars => OverridesKept'
<1> SUFFICES ASSUME IInv, HandleInv, OverridesKept, [Next]_vars PROVE OverridesKept'
  OBVIOUS
<1> USE DEF IInv
<1>1. ASSUME NEW c \in Callers, ApplyLive(c) PROVE OverridesKept'
  <2>1. c \notin overtaken => handle[c] \in opened
    BY <1>1 DEF ApplyLive, HandleInv
  <2> QED
    BY <1>1, <2>1, EditKept DEF ApplyLive
<1>2. ASSUME NEW c \in Callers, ApplyTemporary(c) PROVE OverridesKept'
  <2>1. handle[c] = Nobody
    BY <1>2 DEF ApplyTemporary, HeldInv
  <2> QED
    BY <1>2, <2>1, EditKept DEF ApplyTemporary
<1>3. ASSUME UNCHANGED overrides PROVE OverridesKept'
  BY <1>3 DEF overrides, OverridesKept
<1>4. ASSUME NEW c \in Callers,
             \/ CallerBegins(c) \/ StartProceeds(c)
             \/ StopWait(c) \/ StopClose(c) \/ StopShutdown(c)
             \/ OpenTemporary(c) \/ TemporaryFails(c)
      PROVE  UNCHANGED overrides
  BY <1>4 DEF CallerBegins, StartOpen, StopBegin, WithStore, Capture, StartProceeds,
     StartListen, StartFails, StopWait, StopClose, StopShutdown, OpenTemporary, TemporaryFails
<1>5. ASSUME NEW s \in Servers, LoopStep(s) \/ ServerReturned(s) \/ HandlerReturns(s)
      PROVE  UNCHANGED overrides
  BY <1>5 DEF LoopStep, Check, ReadNothing, Drain, ReadPacket, Spawn, ServerReturned,
     HandlerReturns
<1>6. UNCHANGED vars => UNCHANGED overrides
  BY DEF vars
<1> QED
  BY <1>1, <1>2, <1>3, <1>4, <1>5, <1>6 DEF Next, CallerProceeds

(* withStore and its users (control.go:517-602): an acknowledged edit is in  *)
(* the database until the next edit of the same override, unless a Stop has  *)
(* overtaken the call or the database has refused the write.                 *)
THEOREM OverridesKeptHolds == Spec => []OverridesKept
<1>1. HandleInv /\ OverridesKept /\ IInv /\ [Next]_vars => HandleInv' /\ OverridesKept'
  BY HandleStep, OverridesStep
<1> QED
  BY InitOverrides, <1>1, Inductive, PTL DEF Spec

-----------------------------------------------------------------------------

(* The life cycle implements DnsServer: a step that takes or gives back the  *)
(* mutex is one of DnsServer's, and nothing else is seen of the server.      *)
LEMMA InitDnsServer == Init => DnsServer!Init
  BY DEF Init, DnsServer!Init, Call, Lingering, Abandoned

LEMMA UnseenServer ==
    ASSUME IInv, UNCHANGED <<mu, running, live, cancelled>>,
           \A c \in Callers : mu = c => pc'[c] = "rules" <=> pc[c] = "rules",
           \A s \in Servers : /\ loop'[s] = "unborn" <=> loop[s] = "unborn"
                              /\ loop'[s] = "gone" <=> loop[s] = "gone"
    PROVE  UNCHANGED DnsServer!vars
<1>1. UNCHANGED Call
  BY DEF IInv, TypeOK, Call
<1>2. (Lingering' <=> Lingering) /\ (Abandoned' <=> Abandoned)
  <2>1. cancelled \subseteq Servers
    BY DEF IInv, TypeOK
  <2>2. Lingering' <=> Lingering
    BY <2>1 DEF Lingering
  <2>3. Abandoned' <=> Abandoned
    BY DEF Abandoned
  <2> QED
    BY <2>2, <2>3
<1>3. UNCHANGED <<Lingering, Abandoned>>
  BY <1>2 DEF Lingering, Abandoned
<1> QED
  BY <1>1, <1>3 DEF DnsServer!vars

LEMMA NextDnsServer ==
    IInv /\ [Next]_vars => [DnsServer!Next]_(DnsServer!vars)
<1> SUFFICES ASSUME IInv, [Next]_vars
             PROVE  DnsServer!Next \/ UNCHANGED DnsServer!vars
  OBVIOUS
<1> USE NobodyAssumption DEF IInv, TypeOK, MutexInv, Stopping, Goto, Return, Call
<1>1. ASSUME NEW c \in Callers, CallerBegins(c)
      PROVE  DnsServer!Next \/ UNCHANGED DnsServer!vars
  <2>1. ASSUME NEW s \in Servers, NEW cfg \in Configs, StartOpen(c, s, cfg)
        PROVE  DnsServer!BeginStart
    BY <2>1 DEF StartOpen, Lingering, Abandoned, DnsServer!BeginStart
  <2>2. ASSUME StopBegin(c) PROVE DnsServer!BeginStop
    BY <2>2 DEF StopBegin, HeldInv, Lingering, Abandoned, DnsServer!BeginStop
  <2>3. ASSUME WithStore(c) PROVE UNCHANGED DnsServer!vars
    BY <2>3, UnseenServer DEF WithStore, Capture, control, server
  <2> QED
    BY <1>1, <2>1, <2>2, <2>3 DEF CallerBegins, DnsServer!Next
<1>2. ASSUME NEW c \in Callers, StartProceeds(c)
      PROVE  DnsServer!EndStart \/ DnsServer!FailStart
  <2>1. /\ pc[c] = "rules" /\ mu = c /\ c # Nobody
        /\ handle[c] \in Servers /\ loop[handle[c]] = "unborn"
    BY <1>2 DEF StartProceeds, StartListen, StartFails, HeldInv
  <2>2. ASSUME StartListen(c) PROVE DnsServer!EndStart
    <3>1. live' = handle[c] /\ live' # Nobody /\ mu' = Nobody /\ running'
      BY <2>1, <2>2 DEF StartListen
    <3>2. cancelled' = cancelled /\ live \notin cancelled /\ live' \notin cancelled
      BY <2>1, <2>2 DEF StartListen, HeldInv, LoopInv
    <3>3. loop' = [loop EXCEPT ![handle[c]] = "check"]
      BY <2>2 DEF StartListen
    <3>4. UNCHANGED Lingering
      BY <2>1, <3>1, <3>2, <3>3 DEF Lingering
    <3>5. Abandoned' <=> Abandoned \/ live # Nobody
      BY <2>1, <3>1, <3>2, <3>3 DEF Abandoned, LoopInv
    <3> QED
      BY <2>1, <3>1, <3>4, <3>5 DEF DnsServer!EndStart, Abandoned
  <2>3. ASSUME StartFails(c) PROVE DnsServer!FailStart
    BY <2>1, <2>3 DEF StartFails, Lingering, Abandoned, DnsServer!FailStart
  <2> QED
    BY <1>2, <2>2, <2>3 DEF StartProceeds
<1>3. ASSUME NEW c \in Callers, CallerProceeds(c)
      PROVE  DnsServer!Next \/ UNCHANGED DnsServer!vars
  <2>1. ASSUME StopWait(c) \/ StopClose(c) PROVE UNCHANGED DnsServer!vars
    BY <2>1, UnseenServer DEF StopWait, StopClose, control, server
  <2>2. ASSUME StopShutdown(c) PROVE DnsServer!EndStop
    <3>1. /\ live \in Servers /\ live \in cancelled /\ loop[live] # "gone"
          /\ pc[c] \in Stopping /\ mu = c /\ c # Nobody
      BY <2>2 DEF StopShutdown, HeldInv, LoopInv
    <3>2. Lingering' /\ UNCHANGED Abandoned
      BY <2>2, <3>1 DEF StopShutdown, Lingering, Abandoned
    <3> QED
      BY <2>2, <3>1, <3>2 DEF StopShutdown, DnsServer!EndStop
  <2>3. ASSUME ApplyLive(c) \/ OpenTemporary(c) \/ TemporaryFails(c) \/ ApplyTemporary(c)
        PROVE  UNCHANGED DnsServer!vars
    BY <2>3, UnseenServer DEF ApplyLive, OpenTemporary, TemporaryFails, ApplyTemporary,
       control, server
  <2> QED
    BY <1>3, <2>1, <2>2, <2>3 DEF CallerProceeds, DnsServer!Next
<1>4. ASSUME NEW s \in Servers, LoopStep(s) PROVE UNCHANGED DnsServer!vars
  BY <1>4, UnseenServer DEF LoopStep, LoopAt, Check, ReadNothing, Drain,
     ReadPacket, Spawn, caller, control
<1>5. ASSUME NEW s \in Servers, ServerReturned(s) PROVE DnsServer!OldReturns
  <2>1. /\ mu = Nobody /\ loop[s] = "return" /\ running' = FALSE
        /\ UNCHANGED <<mu, live, pc, cancelled>> /\ loop' = [loop EXCEPT ![s] = "gone"]
    BY <1>5 DEF ServerReturned, LoopAt, caller
  <2>2. s # live /\ s \in cancelled
    BY <2>1 DEF HeldInv, LoopInv
  <2>3. Lingering /\ Lingering' \in BOOLEAN /\ UNCHANGED Abandoned
    BY <2>1, <2>2 DEF Lingering, Abandoned
  <2> QED
    BY <2>1, <2>3 DEF DnsServer!OldReturns
<1>6. ASSUME NEW s \in Servers, HandlerReturns(s) PROVE UNCHANGED DnsServer!vars
  BY <1>6, UnseenServer DEF HandlerReturns, caller, control
<1>7. CASE UNCHANGED vars
  BY <1>7, UnseenServer DEF vars, control, server, caller
<1> QED
  BY <1>1, <1>2, <1>3, <1>4, <1>5, <1>6, <1>7 DEF Next, DnsServer!Next

(* Start and Stop (control.go:176-288), with everything that runs beside     *)
(* them, are DnsServer's calls and nothing more.                             *)
THEOREM ImplementsDnsServerHolds == Spec => ImplementsDnsServer
  BY InitDnsServer, NextDnsServer, Inductive, PTL
     DEF Spec, ImplementsDnsServer, DnsServer!Spec
=============================================================================
