--------------------------- MODULE MCStatementCache ---------------------------
(* Small instances of the statement cache for TLC. *)
EXTENDS StatementCache, TLC

\* Tasks are interchangeable, and so are the statements: a name is a number.
Symmetry == Permutations(Tasks) \cup Permutations(Sqls)
=============================================================================
