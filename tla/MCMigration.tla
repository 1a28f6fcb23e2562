----------------------------- MODULE MCMigration -----------------------------
(* Small instances of Migration. *)
EXTENDS Migration

CONSTANTS p1, p2, p3
=============================================================================
