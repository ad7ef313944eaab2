----------------------------- MODULE MCBoltCache -----------------------------
(* Small instances of BoltCache for TLC. *)
EXTENDS BoltCache, TLC

\* The calls are interchangeable.
MCSymmetry == Permutations(Callers)
=============================================================================
