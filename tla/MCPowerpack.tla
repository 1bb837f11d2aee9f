----------------------------- MODULE MCPowerpack -----------------------------
(***************************************************************************)
(* Instances of Powerpack for TLC: two hooks, in either order in the       *)
(* table, one of which may fail, and two cycles of init and exit.          *)
(***************************************************************************)
EXTENDS PowerpackProperties
=============================================================================
