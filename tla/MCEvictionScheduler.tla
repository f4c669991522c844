------------------------ MODULE MCEvictionScheduler ------------------------
(*****************************************************************************)
(* Small instances of EvictionScheduler.                                     *)
(*****************************************************************************)
EXTENDS EvictionScheduler

CONSTANTS w1, w2
=============================================================================
