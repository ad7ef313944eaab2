-------------------------- MODULE MCUpstreamManager --------------------------
(* Small instances of UpstreamManager for TLC. *)
EXTENDS UpstreamManager

Rec(id, ttl) == [id |-> id, ttl |-> ttl]

\* No records, one, and two of which one is the same with the largest TTL and the
\* other has none.
MCReplies ==
    { <<>>, <<Rec("a", 60)>>, <<Rec("a", 600), Rec("b", 0)>> }
=============================================================================
