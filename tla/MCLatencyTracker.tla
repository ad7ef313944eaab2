-------------------------- MODULE MCLatencyTracker --------------------------
(* Small instances of LatencyTracker for TLC. *)
EXTENDS LatencyTracker
=============================================================================
