------------------------------ MODULE MCProgram ------------------------------
(* A small instance of Program for TLC. *)
EXTENDS Program
=============================================================================
