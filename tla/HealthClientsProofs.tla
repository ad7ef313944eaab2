------------------------- MODULE HealthClientsProofs -------------------------
(***************************************************************************)
(* Theorems about saving the configuration (ConfigStore) and the latency   *)
(* checks that read it (HealthClients), for any number of savers, checks,  *)
(* configurations, servers and proxies, and for all faults.                *)
(*                                                                         *)
(* The invariant of the saves follows one that runs alone through its      *)
(* steps: nobody else is busy, the file is empty before it writes and is   *)
(* its configuration afterwards.                                           *)
(***************************************************************************)
EXTENDS HealthClients, SequenceTheorems, TLAPS

(* The saves *)

\* Sequences of at most two blocks.
Files == UNION {[1..n -> Configs] : n \in 0..2}

FileOK == file \in Files

AloneInv ==
    \A c \in alone :
        /\ \A d \in Callers \ {c} : pc[d] = "idle"
        /\ pc[c] = "write" => file = <<>>
        /\ pc[c] = "set" => file = Encode(new[c])

SettledInv ==
    settled =>
        /\ \A c \in Callers : pc[c] \in {"idle", "open"}
        /\ file = Encode(acked)
        /\ up => memory = acked

\* All but the file, whose type is shown apart.
StepsOK ==
    /\ memory \in Configs \cup {Lost}
    /\ up \in BOOLEAN
    /\ pc \in [Callers -> {"idle", "open", "write", "set"}]
    /\ new \in [Callers -> Configs]
    /\ alone \subseteq Callers
    /\ settled \in BOOLEAN
    /\ acked \in Configs

IInv == StepsOK /\ AloneInv /\ SettledInv

-----------------------------------------------------------------------------

LEMMA FilesAreShort ==
    \A f : f \in Files <=> f \in Seq(Configs) /\ Len(f) \in 0..2
<1>1. ASSUME NEW f \in Files PROVE f \in Seq(Configs) /\ Len(f) \in 0..2
  <2>1. PICK n \in 0..2 : f \in [1..n -> Configs]
    BY <1>1 DEF Files
  <2>2. f \in Seq(Configs)
    BY <2>1, SeqDef
  <2>3. Len(f) \in Nat /\ 1..Len(f) = 1..n
    BY <2>1, <2>2, LenProperties
  <2>4. Len(f) = n
    BY <2>1, <2>3
  <2> QED
    BY <2>2, <2>4
<1>2. ASSUME NEW f \in Seq(Configs), Len(f) \in 0..2 PROVE f \in Files
  <2>1. f \in [1..Len(f) -> Configs]
    BY LenProperties
  <2> QED
    BY <1>2, <2>1 DEF Files
<1> QED
  BY <1>1, <1>2

\* What is written over a file leaves a file.
LEMMA OverwrittenIsFile ==
    ASSUME file \in Files, NEW blocks \in Seq(Configs), Len(blocks) \in 0..2
    PROVE  Overwritten(blocks) \in Files
<1> DEFINE rest == SubSeq(file, Len(blocks) + 1, Len(file))
<1>1. file \in Seq(Configs) /\ Len(file) \in 0..2
  BY FilesAreShort
<1>2. Len(blocks) \in Nat /\ Len(file) \in Nat
      /\ \A i \in Len(blocks) + 1 .. Len(file) : file[i] \in Configs
  BY <1>1, LenProperties, ElementOfSeq
<1>3. rest \in Seq(Configs)
      /\ Len(rest) = IF Len(blocks) + 1 <= Len(file) THEN Len(file) - Len(blocks) ELSE 0
  BY <1>2, SubSeqProperties
<1> HIDE DEF rest
<1>4. blocks \o rest \in Seq(Configs) /\ Len(blocks \o rest) = Len(blocks) + Len(rest)
  BY <1>3, ConcatProperties
<1>5. Len(blocks \o rest) \in 0..2
  BY <1>1, <1>2, <1>3, <1>4
<1> QED
  BY <1>4, <1>5, FilesAreShort DEF Overwritten, rest

LEMMA EncodeIsFile ==
    ASSUME NEW v \in Configs
    PROVE  /\ Encode(v) \in Seq(Configs) /\ Len(Encode(v)) \in 1..2
           /\ Encode(v) \in Files
<1>1. Encode(v) \in Seq(Configs) /\ Len(Encode(v)) \in 1..2
  BY DEF Encode
<1> QED
  BY <1>1, FilesAreShort

\* A configuration is read back as it was written.
LEMMA DecodeEncode ==
    ASSUME NEW v \in Configs
    PROVE  Decode(Encode(v)) = v
<1>1. ASSUME NEW w \in Configs, Encode(v) = Encode(w)
      PROVE  v = w
  BY <1>1 DEF Encode
<1> QED
  BY <1>1 DEF Decode

\* Written to an empty file, blocks are all that is in it.
LEMMA WrittenToEmpty ==
    ASSUME NEW v \in Configs, file = <<>>
    PROVE  Overwritten(Encode(v)) = Encode(v)
<1> DEFINE blocks == Encode(v)
<1>1. blocks \in Seq(Configs) /\ Len(blocks) \in Nat
  BY DEF Encode
<1>2. SubSeq(<<>>, Len(blocks) + 1, 0) = <<>>
  BY <1>1
<1>3. blocks \o <<>> = blocks
  BY <1>1
<1> QED
  BY <1>2, <1>3 DEF Overwritten

LEMMA InitEstablishes == Init => IInv
  BY ConfigAssumption DEF Init, IInv, StepsOK, AloneInv, SettledInv

LEMMA StepPreserves == IInv /\ [Next]_vars => IInv'
<1> SUFFICES ASSUME IInv, [Next]_vars PROVE IInv'
  OBVIOUS
<1> USE ConfigAssumption DEF IInv, StepsOK, At, Goto
<1>1. ASSUME NEW c \in Callers, NEW v \in Configs, SaveConfig(c, v) PROVE IInv'
  BY <1>1 DEF SaveConfig, Busy, AloneInv, SettledInv
<1>2. ASSUME NEW c \in Callers, Truncate(c) PROVE IInv'
  BY <1>2 DEF Truncate, AloneInv, SettledInv
<1>3. ASSUME NEW c \in Callers, OpenFails(c) PROVE IInv'
  BY <1>3 DEF OpenFails, AloneInv, SettledInv
<1>4. ASSUME NEW c \in Callers, Write(c) PROVE IInv'
  <2>1. ~settled
    BY <1>4 DEF Write, SettledInv
  <2>2. StepsOK' /\ SettledInv'
    BY <1>4, <2>1 DEF Write, SettledInv
  <2>3. ASSUME NEW d \in alone PROVE d = c /\ file = <<>>
    BY <1>4 DEF Write, AloneInv
  <2>4. AloneInv'
    <3>1. CASE alone = {}
      BY <1>4, <3>1 DEF Write, AloneInv
    <3>2. CASE alone # {}
      <4>1. Overwritten(Encode(new[c])) = Encode(new[c])
        BY <2>3, <3>2, WrittenToEmpty
      <4>2. file' = Encode(new'[c])
        BY <1>4, <4>1 DEF Write
      <4> QED
        BY <1>4, <2>3, <4>2 DEF Write, AloneInv
    <3> QED
      BY <3>1, <3>2
  <2> QED
    BY <2>2, <2>4
<1>5. ASSUME NEW c \in Callers, WriteFails(c) PROVE IInv'
  <2>1. ~settled
    BY <1>5 DEF WriteFails, SettledInv
  <2> QED
    BY <1>5, <2>1 DEF WriteFails, AloneInv, SettledInv
<1>6. ASSUME NEW c \in Callers, SetConfig(c) PROVE IInv'
  <2>1. StepsOK' /\ AloneInv'
    BY <1>6 DEF SetConfig, AloneInv
  <2>2. SettledInv'
    BY <1>6 DEF SetConfig, AloneInv, SettledInv
  <2> QED
    BY <2>1, <2>2
<1>7. CASE Crash
  BY <1>7 DEF Crash, AloneInv, SettledInv
<1>8. CASE Restart
  <2>1. Decode(file) \in Configs \cup {Lost}
    BY DEF Decode
  <2>2. settled => Decode(file) = acked
    BY DecodeEncode DEF SettledInv
  <2> QED
    BY <1>8, <2>1, <2>2 DEF Restart, AloneInv, SettledInv
<1>9. CASE UNCHANGED vars
  BY <1>9 DEF vars, AloneInv, SettledInv
<1> QED
  BY <1>1, <1>2, <1>3, <1>4, <1>5, <1>6, <1>7, <1>8, <1>9 DEF Next

LEMMA Invariant == Spec => []IInv
  BY InitEstablishes, StepPreserves, PTL DEF Spec

\* Truncated, half written or written over, the file holds two blocks at most.
LEMMA FileStep == IInv /\ FileOK /\ [Next]_vars => FileOK'
<1> SUFFICES ASSUME IInv, file \in Files, [Next]_vars PROVE file' \in Files
  BY DEF FileOK
<1>1. CASE \E c \in Callers : Truncate(c)
  <2>1. <<>> \in Seq(Configs) /\ Len(<<>>) \in 0..2
    OBVIOUS
  <2>2. <<>> \in Files
    BY <2>1, FilesAreShort
  <2> QED
    BY <1>1, <2>2 DEF Truncate
<1>2. ASSUME NEW c \in Callers, Write(c) PROVE file' \in Files
  <2>1. Encode(new[c]) \in Seq(Configs) /\ Len(Encode(new[c])) \in 0..2
    BY EncodeIsFile DEF IInv, StepsOK
  <2> QED
    BY <1>2, <2>1, OverwrittenIsFile DEF Write
<1>3. ASSUME NEW c \in Callers, WriteFails(c) PROVE file' \in Files
  <2> DEFINE blocks == Encode(new[c])
  <2>1. blocks \in Seq(Configs) /\ Len(blocks) \in 1..2
    BY EncodeIsFile DEF IInv, StepsOK
  <2> HIDE DEF blocks
  <2>2. PICK n \in 0..Len(blocks) - 1 : file' = Overwritten(SubSeq(blocks, 1, n))
    BY <1>3 DEF WriteFails, blocks
  <2>3. \A i \in 1..n : blocks[i] \in Configs
    BY <2>1, ElementOfSeq
  <2>4. SubSeq(blocks, 1, n) \in Seq(Configs)
        /\ Len(SubSeq(blocks, 1, n)) = IF 1 <= n THEN n - 1 + 1 ELSE 0
    BY <2>3, SubSeqProperties
  <2>5. Len(SubSeq(blocks, 1, n)) \in 0..2
    BY <2>1, <2>4
  <2> QED
    BY <2>2, <2>4, <2>5, OverwrittenIsFile
<1>4. CASE UNCHANGED file
  BY <1>4
<1> QED
  BY <1>1, <1>2, <1>3, <1>4
  DEF Next, vars, SaveConfig, OpenFails, SetConfig, Crash, Restart

\* Every variable keeps its type, whatever saves overlap, fail or are cut short.
THEOREM ConfigTypeCorrect == Spec => []TypeOK
<1>1. Init => FileOK
  <2>1. Init => memory \in Configs /\ file = Encode(memory)
    BY DEF Init
  <2> QED
    BY <2>1, EncodeIsFile DEF FileOK
<1>2. Spec => [](IInv /\ FileOK)
  BY <1>1, Invariant, FileStep, PTL DEF Spec
<1>3. IInv /\ FileOK => TypeOK
  BY DEF IInv, StepsOK, TypeOK, FileOK, Files
<1> QED
  BY <1>2, <1>3, PTL

\* A save that has run alone and succeeded is what file and memory hold, until
\* another save opens the file: whatever went wrong before, and over crashes.
THEOREM SettledIsStoredHolds == Spec => []SettledIsStored
<1>1. IInv => SettledIsStored
  BY DecodeEncode DEF IInv, StepsOK, SettledInv, SettledIsStored
<1> QED
  BY Invariant, <1>1, PTL

-----------------------------------------------------------------------------
(* The checks *)

Named(k) == [url |-> k[1], proxy |-> Applied(k[2])]

\* A client is what its key says.
Keyed == \A k \in DOMAIN healthClients : healthClients[k] = Named(k)

\* What is to stay warm is in the configuration, so that no check prunes it.
WarmInv == warm \subseteq DOMAIN healthClients /\ warm \subseteq Configured(memory)

RightProbe(p) ==
    /\ p.client = Named(Key(p.target, p.proxy))
    /\ p.target.viaProxy => p.proxy # NoProxy

ProbesInv ==
    /\ probes = [c \in Checkers |-> probes[c]]
    /\ \A c \in Checkers : \A p \in probes[c] : RightProbe(p)

HInv == Keyed /\ WarmInv /\ ProbesInv

LEMMA InitHInv == HealthInit => HInv
<1> SUFFICES ASSUME HealthInit PROVE HInv
    OBVIOUS
<1>1. DOMAIN healthClients = {} /\ warm = {} /\ probes = [c \in Checkers |-> {}]
    BY DEF HealthInit
<1> QED
    BY <1>1 DEF HInv, Keyed, WarmInv, ProbesInv

\* Clients are made for their keys.
LEMMA ClientsKeyed ==
    ASSUME Keyed, NEW v, NEW T
    PROVE  /\ DOMAIN Clients(v, T) =
                 (DOMAIN healthClients \cap Want(v, T)) \cup ProbedKeys(v, T)
           /\ \A k \in DOMAIN Clients(v, T) : Clients(v, T)[k] = Named(k)
<1>1. DOMAIN Clients(v, T) = (DOMAIN healthClients \cap Want(v, T)) \cup ProbedKeys(v, T)
    BY DEF Clients
<1>2. ASSUME NEW k \in DOMAIN Clients(v, T) PROVE Clients(v, T)[k] = Named(k)
    <2>1. CASE k \in DOMAIN healthClients
        BY <1>1, <1>2, <2>1 DEF Clients, Keyed
    <2>2. CASE k \notin DOMAIN healthClients
        <3> DEFINE u == CHOOSE t \in Probed(v, T) : Key(t, Proxy[v]) = k
        <3>1. Clients(v, T)[k] = NewClient(u, Proxy[v])
            BY <1>1, <1>2, <2>2 DEF Clients
        <3>2. \E t \in Probed(v, T) : Key(t, Proxy[v]) = k
            BY <1>1, <1>2, <2>2 DEF ProbedKeys
        <3>3. Key(u, Proxy[v]) = k
            BY <3>2
        <3> HIDE DEF u
        <3> QED
            BY <3>1, <3>3 DEF NewClient, Key, Named
    <2> QED
        BY <2>1, <2>2
<1> QED
    BY <1>1, <1>2

LEMMA CheckHInv ==
    ASSUME HInv, NEW c \in Checkers, CheckServersLatency(c)
    PROVE  HInv'
<1> DEFINE T == targets[c]
           proxy == Proxy[memory]
           mine == {Probe(t, proxy, Clients(memory, T)) : t \in Probed(memory, T)}
<1>0. Keyed /\ WarmInv /\ ProbesInv
    BY DEF HInv
<1>1. /\ healthClients' = Clients(memory, T)
      /\ warm' = warm \cup (ProbedKeys(memory, T) \cap Configured(memory))
      /\ memory' = memory
    BY DEF CheckServersLatency, vars
<1>7. probes' = [probes EXCEPT ![c] = mine]
    BY DEF CheckServersLatency
<1>2. /\ DOMAIN healthClients' = (DOMAIN healthClients \cap Want(memory, T)) \cup ProbedKeys(memory, T)
      /\ \A k \in DOMAIN healthClients' : healthClients'[k] = Named(k)
    <2>1. /\ DOMAIN Clients(memory, T) =
                (DOMAIN healthClients \cap Want(memory, T)) \cup ProbedKeys(memory, T)
          /\ \A k \in DOMAIN Clients(memory, T) : Clients(memory, T)[k] = Named(k)
        BY <1>0, ClientsKeyed
    <2> HIDE DEF T
    <2> QED
        BY <1>1, <2>1
<1>3. Keyed'
    BY <1>2 DEF Keyed
<1>4. WarmInv'
    <2>1. Configured(memory) \subseteq Want(memory, T)
        BY DEF Want
    <2>2. Configured(memory)' = Configured(memory)
        BY <1>1 DEF Configured
    <2> QED
        BY <1>0, <1>1, <1>2, <2>1, <2>2 DEF WarmInv
<1>5. ASSUME NEW p \in mine PROVE RightProbe(p)
    <2>1. PICK t \in Probed(memory, T) : p = Probe(t, proxy, Clients(memory, T))
        BY <1>5
    <2>2. p.target = t /\ p.proxy = proxy /\ p.client = healthClients'[Key(t, proxy)]
        BY <1>1, <2>1 DEF Probe
    <2>3. Key(t, proxy) \in DOMAIN healthClients'
        BY <1>2 DEF ProbedKeys
    <2>4. t.viaProxy => proxy # NoProxy
        BY DEF Probed
    <2> QED
        BY <1>2, <2>2, <2>3, <2>4 DEF RightProbe
<1> HIDE DEF mine
<1>6. ProbesInv'
    BY <1>0, <1>7, <1>5 DEF ProbesInv
<1> QED
    BY <1>3, <1>4, <1>6 DEF HInv

LEMMA HealthNextHInv == HInv /\ [HealthNext]_hvars => HInv'
<1> SUFFICES ASSUME HInv, [HealthNext]_hvars PROVE HInv'
    OBVIOUS
<1>0. Keyed /\ WarmInv /\ ProbesInv
    BY DEF HInv
<1>1. ASSUME NEW c \in Checkers, CheckLatency(c) \/ EndCheck(c) PROVE HInv'
    <2>1. /\ UNCHANGED <<healthClients, warm, memory>>
          /\ probes' = probes \/ probes' = [probes EXCEPT ![c] = {}]
        BY <1>1 DEF CheckLatency, EndCheck, vars
    <2>2. Keyed' /\ WarmInv'
        BY <1>0, <2>1 DEF Keyed, WarmInv, Configured
    <2>3. ProbesInv'
        BY <1>0, <2>1 DEF ProbesInv
    <2> QED
        BY <2>2, <2>3 DEF HInv
<1>2. CASE Configure
    <2>1. CASE up'
        <3>1. UNCHANGED <<healthClients, probes>> /\ warm' = warm \cap Configured(memory')
            BY <1>2, <2>1 DEF Configure
        <3>2. Configured(memory)' = Configured(memory')
            BY DEF Configured
        <3> QED
            BY <1>0, <3>1, <3>2 DEF HInv, Keyed, WarmInv, ProbesInv
    <2>2. CASE ~up'
        <3>1. /\ DOMAIN healthClients' = {} /\ warm' = {}
              /\ probes' = [c \in Checkers |-> {}]
            BY <1>2, <2>2 DEF Configure
        <3> QED
            BY <3>1 DEF HInv, Keyed, WarmInv, ProbesInv
    <2> QED
        BY <2>1, <2>2
<1>3. CASE UNCHANGED hvars
    <2>1. UNCHANGED <<healthClients, warm, memory, probes>>
        BY <1>3 DEF hvars, checks, vars
    <2>2. Keyed' /\ WarmInv'
        BY <1>0, <2>1 DEF Keyed, WarmInv, Configured
    <2>3. ProbesInv'
        BY <1>0, <2>1 DEF ProbesInv
    <2> QED
        BY <2>2, <2>3 DEF HInv
<1> QED
    BY <1>1, <1>2, <1>3, CheckHInv DEF HealthNext

LEMMA HealthInvariant == HealthSpec => []HInv
    BY InitHInv, HealthNextHInv, PTL DEF HealthSpec

\* No query of a probe goes past the proxy it is to use, nor through an earlier one,
\* but for a proxy whose URL does not parse (control.go:351-366; doh/client.go:103-121).
THEOREM ProbedAsAskedHolds == HealthSpec => []ProbedAsAsked
<1>1. HInv => ProbedAsAsked
    <2> SUFFICES ASSUME HInv, NEW c \in Checkers, NEW p \in probes[c]
                 PROVE  /\ p.client.url = p.target.url
                        /\ p.client.proxy = IF p.target.viaProxy /\ p.proxy \notin Unparsable
                                            THEN p.proxy ELSE NoProxy
                        /\ p.target.viaProxy => p.proxy # NoProxy
        BY DEF ProbedAsAsked
    <2>1. RightProbe(p)
        BY DEF HInv, ProbesInv
    <2>2. p.client = [url |-> p.target.url, proxy |-> Applied(ProxyFor(p.target, p.proxy))]
        BY <2>1 DEF RightProbe, Named, Key
    <2> QED
        BY <2>1, <2>2 DEF RightProbe, ProxyFor, Applied
<1> QED
    BY <1>1, HealthInvariant, PTL

\* The client of a server that stays configured is never dropped.
THEOREM ConfiguredStayWarmHolds == HealthSpec => []ConfiguredStayWarm
<1>1. HInv => ConfiguredStayWarm
    BY DEF HInv, WarmInv, ConfiguredStayWarm
<1> QED
    BY <1>1, HealthInvariant, PTL

\* The checks leave the saves as they are.
LEMMA ChecksOnlyRead == HealthSpec => Spec
<1>1. HealthInit => Init
    BY DEF HealthInit
<1>2. [HealthNext]_hvars => [Next]_vars
    BY DEF HealthNext, Configure, CheckLatency, CheckServersLatency, EndCheck, hvars
<1> QED
    BY <1>1, <1>2, PTL DEF HealthSpec, Spec

\* So the settled configuration is stored while checks read it.
THEOREM SettledUnderChecks == HealthSpec => []SettledIsStored
    BY ChecksOnlyRead, SettledIsStoredHolds, PTL

\* The types, where checks run between the steps of the saves.
THEOREM TypeCorrectUnderChecks == HealthSpec => []TypeOK
    BY ChecksOnlyRead, ConfigTypeCorrect, PTL
=============================================================================
