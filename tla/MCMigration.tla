----------------------------- MODULE MCMigration -----------------------------
(***************************************************************************)
(* Small instances of Migration: a fresh database or one at 001, one or two *)
(* migrators, and up to two kills.                                          *)
(***************************************************************************)
EXTENDS Migration

CONSTANTS m1, m2

=============================================================================
