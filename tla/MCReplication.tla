--------------------------- MODULE MCReplication ---------------------------
(*****************************************************************************)
(* Small instances of Replication.                                           *)
(*****************************************************************************)
EXTENDS Replication

CONSTANTS r1, r2
=============================================================================
