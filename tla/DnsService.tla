----------------------------- MODULE DnsService -----------------------------
(***************************************************************************)
(* What the query pipeline promises to its clients, free of channels,      *)
(* goroutines and expiry: internal/query/service.go seen from outside.     *)
(* QueryService implements it.                                             *)
(*                                                                         *)
(* A question is answered from the overrides, from the cache or by the     *)
(* upstream servers, which are asked only when the cache has nothing, and  *)
(* for one query of a question at a time unless one of them has failed.    *)
(* Denials are not among the outcomes: the code answers none.              *)
(***************************************************************************)
CONSTANTS
    Handlers,  \* queries
    Keys       \* questions

VARIABLES
    phase,       \* phase[h]: how far query h is
    question,    \* question[h]
    outcome,     \* outcome[h]: what the client gets
    cached,      \* questions with an entry in the cache, of whatever age
    overridden   \* questions with an override

vars == <<phase, question, outcome, cached, overridden>>

Init ==
    /\ phase = [h \in Handlers |-> "new"]
    /\ question \in [Handlers -> Keys]
    /\ outcome = [h \in Handlers |-> "none"]
    /\ cached \in SUBSET Keys
    /\ overridden = {}

-----------------------------------------------------------------------------

Answer(h, o) ==
    /\ phase' = [phase EXCEPT ![h] = "answered"]
    /\ outcome' = [outcome EXCEPT ![h] = o]

Ask(h, k) ==
    /\ phase[h] = "new"
    /\ question' = [question EXCEPT ![h] = k]
    /\ phase' = [phase EXCEPT ![h] = "pending"]
    /\ UNCHANGED <<outcome, cached, overridden>>

\* A packet that is no query.
Drop(h) ==
    /\ phase[h] = "new"
    /\ Answer(h, "dropped")
    /\ UNCHANGED <<question, cached, overridden>>

AnswerOverride(h) ==
    /\ phase[h] = "pending"
    /\ question[h] \in overridden
    /\ Answer(h, "override")
    /\ UNCHANGED <<question, cached, overridden>>

AnswerCached(h) ==
    /\ phase[h] = "pending"
    /\ question[h] \in cached
    /\ Answer(h, "records")
    /\ UNCHANGED <<question, cached, overridden>>

Alike(g, h) == g # h /\ question[g] = question[h]

\* Nobody else is upstream with this question, or some query of it has failed.
MayGoUpstream(h) ==
    \/ \A g \in Handlers : Alike(g, h) => phase[g] # "upstream"
    \/ \E g \in Handlers : Alike(g, h) /\ outcome[g] = "servfail"

GoUpstream(h) ==
    /\ phase[h] = "pending"
    /\ question[h] \notin cached
    /\ MayGoUpstream(h)
    /\ phase' = [phase EXCEPT ![h] = "upstream"]
    /\ UNCHANGED <<question, outcome, cached, overridden>>

AnswerUpstream(h) ==
    /\ phase[h] = "upstream"
    /\ cached' = cached \cup {question[h]}
    /\ Answer(h, "records")
    /\ UNCHANGED <<question, overridden>>

Fail(h) ==
    /\ phase[h] = "upstream"
    /\ Answer(h, "servfail")
    /\ UNCHANGED <<question, cached, overridden>>

\* The user edits the overrides.
Edit ==
    /\ overridden' \in SUBSET Keys
    /\ UNCHANGED <<phase, question, outcome, cached>>

Next ==
    \/ \E h \in Handlers :
          \/ \E k \in Keys : Ask(h, k)
          \/ Drop(h) \/ AnswerOverride(h) \/ AnswerCached(h) \/ GoUpstream(h)
          \/ AnswerUpstream(h) \/ Fail(h)
    \/ Edit

Spec == Init /\ [][Next]_vars
=============================================================================
