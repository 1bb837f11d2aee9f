----------------------------- MODULE MCWatchdog -----------------------------
(***************************************************************************)
(* Instances of Watchdog for TLC: one service that must answer every time  *)
(* in time, one that is accepted once to be late.                          *)
(***************************************************************************)
EXTENDS WatchdogProperties, TLC

CONSTANTS x, y

TwoIntervals == (x :> 1) @@ (y :> 2)
TwoTimeouts == (x :> 1) @@ (y :> 1)
TwoJitters == (x :> 0) @@ (y :> 1)
=============================================================================
