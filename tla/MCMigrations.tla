---------------------------- MODULE MCMigrations ----------------------------
(* Migrations for TLC: two processes of the new version and one of the old. *)
EXTENDS Migrations

CONSTANTS old, new1, new2

MCKnown == [p \in Procs |-> IF p = old THEN 1..2 ELSE 1..FileCount]

=============================================================================
