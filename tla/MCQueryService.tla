--------------------------- MODULE MCQueryService ---------------------------
(* Small instances of QueryService for TLC. *)
EXTENDS QueryService, TLC

\* Two spellings of one name, a DoH host name, and a name nobody knows.
MCLower == [d \in Domains |-> IF d = "Site" THEN "site" ELSE d]

\* The handlers are interchangeable.
MCHandlers == Permutations(Handlers)
=============================================================================
