------------------------------ MODULE MCMigrate ------------------------------
(***************************************************************************)
(* A file that leaves the transaction to the runner, and two that share a  *)
(* version, one of them with a COMMIT of its own.                          *)
(***************************************************************************)
EXTENDS MigrateProperties

File1(v, n, d, c) == [version |-> v, name |-> n, down |-> d, commits |-> c]

MCFiles == {File1(1, "users", TRUE, FALSE), File1(2, "index", FALSE, TRUE),
            File1(2, "posts", TRUE, FALSE)}
=============================================================================
