----------------------------- MODULE MCConnPool -----------------------------
(* Small instances of the connection pool for TLC. *)
EXTENDS ConnPoolProperties, TLC

\* Clients are interchangeable when all or none of them are impatient.
Symmetry == Permutations(Clients) \cup Permutations(Conns)
=============================================================================
