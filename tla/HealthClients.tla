---------------------------- MODULE HealthClients ----------------------------
(***************************************************************************)
(* The latency checks of internal/control/control.go, run by concurrent    *)
(* requests while others save the configuration (ConfigStore).  A check    *)
(* takes the DoH clients it probes with from healthClients, which keeps    *)
(* them, and their warm connections, between checks.  CheckLatency reads   *)
(* the configuration twice: once for its targets, and again, with all of   *)
(* CheckServersLatency up to the probes, in one critical section.          *)
(***************************************************************************)
EXTENDS ConfigStore

CONSTANTS
    Checkers,       \* goroutines that check
    DirectServers,  \* DirectServers[v], ProxyServers[v]: servers in configuration v
    ProxyServers,   \*   (an empty URL, which a check passes over, is left out)
    Proxy,          \* Proxy[v]: the URL of the proxy if it is enabled, or NoProxy
    Unparsable,     \* URLs of proxies that url.Parse rejects
    NoProxy

ASSUME ServersAssumption ==
    \A f \in {DirectServers, ProxyServers, Proxy} : DOMAIN f = Configs \cup {Lost}

VARIABLES
    healthClients,  \* the client of each key
    check,          \* check[c]: "idle", "targets" or "probe"
    targets,        \* targets[c]: what c is to check
    probes,         \* probes[c]: [target, proxy, client] of c's probes
    warm            \* keys probed since they have been in the configuration

checks == <<healthClients, check, targets, probes, warm>>

hvars == <<vars, checks>>

Target(server, viaProxy) == [url |-> server, viaProxy |-> viaProxy]

\* CheckLatency: what configuration v has in its two groups.
Targets(v) ==
    {Target(s, FALSE) : s \in DirectServers[v]} \cup {Target(s, TRUE) : s \in ProxyServers[v]}

ProxyFor(t, proxy) == IF t.viaProxy THEN proxy ELSE NoProxy

\* Seeded fault: clients are kept by server.
KeyOfServer(t, proxy) == t.url

Key(t, proxy) == <<t.url, ProxyFor(t, proxy)>>

\* Seeded fault: a check keeps the clients of its own targets.
OwnKeys(v, T) == {Key(t, Proxy[v]) : t \in T}

Configured(v) == {Key(t, Proxy[v]) : t \in Targets(v)}

\* The keys that are not pruned by a check of T under configuration v.
Want(v, T) == Configured(v) \cup {Key(t, Proxy[v]) : t \in T}

HealthInit ==
    /\ Init
    /\ healthClients = <<>>
    /\ check = [c \in Checkers |-> "idle"]
    /\ targets = [c \in Checkers |-> {}]
    /\ probes = [c \in Checkers |-> {}]
    /\ warm = {}

-----------------------------------------------------------------------------

\* CheckLatency, from GetConfig on: the one caller of CheckServersLatency.
CheckLatency(c) ==
    /\ up /\ check[c] = "idle"
    /\ targets' = [targets EXCEPT ![c] = Targets(memory)]
    /\ check' = [check EXCEPT ![c] = "targets"]
    /\ UNCHANGED <<vars, healthClients, probes, warm>>

\* A target that asks for a proxy there is none of is not probed.
Probed(v, T) == {t \in T : t.viaProxy => Proxy[v] # NoProxy}

ProbedKeys(v, T) == {Key(t, Proxy[v]) : t \in Probed(v, T)}

\* A client whose proxy does not parse is built without one.
Applied(proxy) == IF proxy \in Unparsable THEN NoProxy ELSE proxy

NewClient(t, proxy) == [url |-> t.url, proxy |-> Applied(ProxyFor(t, proxy))]

\* Clients nobody wants are dropped, and missing ones are made.
Clients(v, T) ==
    [k \in (DOMAIN healthClients \cap Want(v, T)) \cup ProbedKeys(v, T) |->
        IF k \in DOMAIN healthClients THEN healthClients[k]
        ELSE NewClient(CHOOSE t \in Probed(v, T) : Key(t, Proxy[v]) = k, Proxy[v])]

Probe(t, proxy, clients) ==
    [target |-> t, proxy |-> proxy, client |-> clients[Key(t, proxy)]]

CheckServersLatency(c) ==
    /\ check[c] = "targets"
    /\ healthClients' = Clients(memory, targets[c])
    /\ probes' = [probes EXCEPT ![c] = {Probe(t, Proxy[memory], Clients(memory, targets[c])) :
                                          t \in Probed(memory, targets[c])}]
    /\ warm' = warm \cup (ProbedKeys(memory, targets[c]) \cap Configured(memory))
    /\ check' = [check EXCEPT ![c] = "probe"]
    /\ UNCHANGED <<vars, targets>>

\* The probes run outside the mutex, for ten seconds at most.
EndCheck(c) ==
    /\ check[c] = "probe"
    /\ check' = [check EXCEPT ![c] = "idle"]
    /\ probes' = [probes EXCEPT ![c] = {}]
    /\ targets' = [targets EXCEPT ![c] = {}]
    /\ UNCHANGED <<vars, healthClients, warm>>

\* A step of ConfigStore.  The clients are lost with the process.
Configure ==
    /\ Next
    /\ IF up'
       THEN /\ warm' = warm \cap Configured(memory')
            /\ UNCHANGED <<healthClients, check, targets, probes>>
       ELSE /\ warm' = {}
            /\ healthClients' = <<>>
            /\ check' = [c \in Checkers |-> "idle"]
            /\ targets' = [c \in Checkers |-> {}]
            /\ probes' = [c \in Checkers |-> {}]

HealthNext ==
    \/ Configure
    \/ \E c \in Checkers : CheckLatency(c) \/ CheckServersLatency(c) \/ EndCheck(c)

HealthSpec == HealthInit /\ [][HealthNext]_hvars

-----------------------------------------------------------------------------
(* Properties *)

\* A probe's query goes to the server the target names, through the proxy that was
\* configured when the check began if the target asks for one and that proxy's URL
\* parses, and directly otherwise: never through an earlier proxy, whatever checks
\* and saves have left clients behind.  A proxy that does not parse is the only
\* reason for which a query that asks for a proxy goes directly; without a proxy
\* there is no probe.  (The TCP ping that follows a failed query uses no client.)
ProbedAsAsked ==
    \A c \in Checkers : \A p \in probes[c] :
        /\ p.client.url = p.target.url
        /\ p.client.proxy = IF p.target.viaProxy /\ p.proxy \notin Unparsable
                            THEN p.proxy ELSE NoProxy
        /\ p.target.viaProxy => p.proxy # NoProxy

\* The client of a server keeps its warm connection for as long as the server
\* stays in the configuration, with the same proxy: no save drops it, nor a check
\* that took its targets from an earlier configuration.
ConfiguredStayWarm == warm \subseteq DOMAIN healthClients
=============================================================================
