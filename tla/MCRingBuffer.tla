---------------------------- MODULE MCRingBuffer ----------------------------
(***************************************************************************)
(* Instances of RingBuffer for TLC.  Two sizes that do not divide the      *)
(* capacity leave gaps, force runs of more than one node and let the array *)
(* boundary cut a run.                                                     *)
(***************************************************************************)
EXTENDS RingBufferProperties
=============================================================================
