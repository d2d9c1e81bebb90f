---------------------------- MODULE MCMigration ----------------------------
(* Small instances of Migration.                                            *)
EXTENDS Migration
=============================================================================
