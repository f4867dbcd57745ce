--------------------------- MODULE MigrateProperties ---------------------------
(***************************************************************************)
(* What the migration commands promise each other.                         *)
(***************************************************************************)
EXTENDS Migrate

OneAtATime == \A r \in Runners : txn[r] # "none" \/ work[r] # NoWork => lock = r

BootstrapSerialized ==
  \A r \in Runners : cmd[r] # "look" /\ pc[r] = "table" /\ net[r] = "error" => looked

\* Migrations are applied and reverted by one runner at a time, the one with the
\* advisory lock, through deaths, terminations and errors, until its transaction has
\* ended.  So two runners never collide in CREATE TABLE IF NOT EXISTS either: if run or
\* revert fails there, a command that takes no lock, status, info or validate, was at it
\* too (migrate.rs:142-160, 223-236, 300-332).
Serialized == OneAtATime /\ BootstrapSerialized

Alone(f) == ~f.commits /\ \A g \in Files : g # f => g.version # f.version

RowsMatch == \A f \in Files : Alone(f) => made[f] = IF Row(f) \in rows THEN 1 ELSE 0

ReportedRecorded ==
  \A r \in Runners : lock = r /\ cmd[r] = "run" => \A i \in DOMAIN done[r] : Row(done[r][i]) \in rows

\* The effect of a migration is in the database exactly once if its row is there and
\* not at all if it is not, whatever happened in between, for the files that leave the
\* transaction to the runner and share their version with no other; and what run is about
\* to report as newly applied is recorded, also if a later file failed
\* (migrate.rs:162-201, 238-297).
RecordsTruthful == RowsMatch /\ ReportedRecorded

\* Whoever waits for the lock gets it and ends, though others die in the middle of
\* their migration or leave the lock to the end of the session (migrate.rs:203-219).
CommandsEnd == \A r \in Runners : pc[r] = "lock" ~> pc[r] = "idle"
=============================================================================
