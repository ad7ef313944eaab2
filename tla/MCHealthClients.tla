--------------------------- MODULE MCHealthClients ---------------------------
(* A small instance of HealthClients for TLC: two configurations that differ *)
(* in the proxy and share a server, one of them with a proxy that does not   *)
(* parse, and a third, without servers, for a lost one.                      *)
EXTENDS HealthClients, TLC

CONSTANTS short, long, s1, s2, p1, p2

MCDirect == short :> {s1} @@ long :> {s2} @@ Lost :> {}
MCProxied == short :> {s1} @@ long :> {s1} @@ Lost :> {}
MCProxy == short :> p1 @@ long :> p2 @@ Lost :> NoProxy

MCSymmetry == Permutations(Callers) \cup Permutations(Checkers)
=============================================================================
