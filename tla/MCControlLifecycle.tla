------------------------- MODULE MCControlLifecycle -------------------------
(* A small instance of ControlLifecycle for TLC. *)
EXTENDS ControlLifecycle

CONSTANTS d1, d2, p1, p2, n1

\* Two configurations that do not get in each other's way.
MCConfigs == {[db |-> d1, port |-> p1], [db |-> d2, port |-> p2]}

\* One override is followed; edits in the other database only take its lock.
MCEntries == {[db |-> d1, name |-> n1]}
=============================================================================
