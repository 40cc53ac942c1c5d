-------------------------- MODULE MCIndexMigration --------------------------
(* A small instance of the index migration.                                  *)
EXTENDS IndexMigration, TLC

CONSTANTS p1, p2, c2, v1
=============================================================================
