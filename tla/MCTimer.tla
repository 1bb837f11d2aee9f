------------------------------ MODULE MCTimer ------------------------------
(***************************************************************************)
(* The instance of Timer for TLC: a few requests, every failure.           *)
(***************************************************************************)
EXTENDS Timer
=============================================================================
