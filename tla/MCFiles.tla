------------------------------- MODULE MCFiles -------------------------------
(* Open files alone, for TLC: what fork does to the descriptor tables. *)
EXTENDS Files
=============================================================================
