---------------------------- MODULE MCFiberCall ----------------------------
(***************************************************************************)
(* The instance of FiberCall for TLC: two services whose calls overlap, an *)
(* earlier and a later call of one service, a request that is refused.     *)
(***************************************************************************)
EXTENDS FiberCall
=============================================================================
