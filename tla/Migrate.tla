------------------------------- MODULE Migrate -------------------------------
(***************************************************************************)
(* Migration runners on one database: run, revert, and the commands that   *)
(* only look (status, info, validate) of src/resolute/src/migrate.rs, as   *)
(* called by applications and by resolute-cli, TestDb and the admin        *)
(* commands that take the database away.                                   *)
(*                                                                         *)
(* Each command is a sequence of simple queries on a connection of its     *)
(* own.  A runner may die and a session may be terminated between any two  *)
(* of them; a query that was sent is executed all the same.  The server is *)
(* modelled from what the code expects of it.                              *)
(***************************************************************************)
EXTENDS Integers, Sequences, FiniteSets

CONSTANTS
  Runners,
  Files,          \* what scan_migrations finds: records of FileType
  CommandBound,   \* bound on the commands of all runners
  FaultBound,     \* bound on deaths, terminations and refused statements
  None

FileType ==
  [version : Nat, name : STRING,
   down    : BOOLEAN,      \* there is a .down.sql
   commits : BOOLEAN]      \* its SQL has a COMMIT of its own

\* A change of _resolute_migrations, by INSERT or by DELETE.
Change == [add : BOOLEAN, row : [version : Nat, name : STRING]]

ASSUME MigrateAssumption ==
  /\ Files \subseteq FileType /\ IsFiniteSet(Files)
  /\ None \notin Runners /\ None \notin Files /\ None \notin Change
  /\ CommandBound \in Nat /\ FaultBound \in Nat

VARIABLES
  cmd, pc,      \* the command of a runner, and the query it is at
  gone,         \* the runners that died: what they sent is still executed
  seen,         \* read_applied_versions, or the row that revert has read
  todo,         \* the files that run has yet to look at, in order
  done,         \* newly_applied; the file that revert reverts
  failed,       \* the command will return an error
  net,          \* its query: "none", "sent", "checked", or the answer
  txn, work,    \* the transaction of its session, and what it would commit
  lock,         \* the session that has the advisory lock
  table, rows,  \* _resolute_migrations
  made,         \* how often the effect of a file is in the database
  looked,       \* history: a command without the lock has looked for the table
  commands, faults

runnerVars  == <<cmd, pc, gone, seen, todo, done, failed>>
sessionVars == <<net, txn, work>>
dbVars      == <<table, rows, made>>
vars == <<runnerVars, sessionVars, lock, dbVars, looked, commands, faults>>

Queries == {"lock", "table", "read", "begin", "script", "record", "commit", "rollback", "unlock"}
NoWork  == [file |-> None, step |-> 0, row |-> None]
Row(f)  == [version |-> f.version, name |-> f.name]

Init ==
  /\ cmd = [r \in Runners |-> None] /\ pc = [r \in Runners |-> "idle"] /\ gone = {}
  /\ seen = [r \in Runners |-> {}] /\ todo = [r \in Runners |-> <<>>] /\ done = [r \in Runners |-> <<>>]
  /\ failed = [r \in Runners |-> FALSE]
  /\ net = [r \in Runners |-> "none"] /\ txn = [r \in Runners |-> "none"] /\ work = [r \in Runners |-> NoWork]
  /\ lock = None /\ table = FALSE /\ rows = {} /\ made = [f \in Files |-> 0]
  /\ looked = FALSE /\ commands = 0 /\ faults = 0

\* scan_migrations: the files in the order of their versions.
Sorted == {s \in [1..Cardinality(Files) -> Files] :
             /\ \A f \in Files : \E i \in DOMAIN s : s[i] = f
             /\ \A i, j \in DOMAIN s : i < j => s[i].version <= s[j].version}

-----------------------------------------------------------------------------
(* A runner.                                                               *)

\* The answer to query q was read.
Answered(r, q, a) ==
  /\ r \notin gone /\ pc[r] = q /\ net[r] \in a
  /\ UNCHANGED <<gone, txn, work, lock, dbVars, looked, commands, faults>>

\* The runner sends query q, which a connection that is lost answers at once, or goes
\* on without one.
At(r, q) ==
  /\ pc' = [pc EXCEPT ![r] = q]
  /\ net' = [net EXCEPT ![r] = IF @ = "lost" THEN "lost" ELSE IF q \in Queries THEN "sent" ELSE "none"]
Goes(r, q)  == At(r, q) /\ UNCHANGED failed
Error(r, q) == At(r, q) /\ failed' = [failed EXCEPT ![r] = TRUE]
Bad == {"error", "lost"}

\* Variant: revert does not take the lock.
FirstQuery_NoRevertLock(c) == IF c = "run" THEN "lock" ELSE "table"

FirstQuery(c) == IF c = "look" THEN "table" ELSE "lock"

\* connect, and the first query of the command.
Start(r) ==
  /\ pc[r] = "idle" /\ commands < CommandBound /\ commands' = commands + 1
  /\ \E c \in {"run", "revert", "look"} :
       /\ cmd' = [cmd EXCEPT ![r] = c]
       /\ At(r, FirstQuery(c))
  /\ failed' = [failed EXCEPT ![r] = FALSE]
  /\ done' = [done EXCEPT ![r] = <<>>] /\ seen' = [seen EXCEPT ![r] = {}] /\ todo' = [todo EXCEPT ![r] = <<>>]
  /\ UNCHANGED <<gone, txn, work, lock, dbVars, looked, faults>>

\* Variant: the lock is asked for again after an error.
Locked_Retries(r) ==
  /\ \/ Answered(r, "lock", {"ok"}) /\ Goes(r, "table")
     \/ Answered(r, "lock", Bad) /\ Goes(r, "lock")
  /\ UNCHANGED <<cmd, seen, todo, done>>

\* acquire_advisory_lock(..).await?
Locked(r) ==
  /\ \/ Answered(r, "lock", {"ok"}) /\ Goes(r, "table")
     \/ Answered(r, "lock", Bad) /\ Error(r, "over")
  /\ UNCHANGED <<cmd, seen, todo, done>>

\* What a command does with its first error: run and revert still release the lock.
Leaves(r) == IF cmd[r] = "look" THEN "over" ELSE "unlock"

\* ensure_tracking_table
Bootstrapped(r) ==
  /\ \/ Answered(r, "table", {"ok"}) /\ Goes(r, "read")
     \/ Answered(r, "table", Bad) /\ Error(r, Leaves(r))
  /\ UNCHANGED <<cmd, seen, todo, done>>

\* The row with the highest version.
Latest == {w \in rows : \A x \in rows : x.version <= w.version}

\* read_applied_versions, or the row to revert.
ReadFails(r) ==
  /\ Answered(r, "read", Bad) /\ Error(r, Leaves(r))
  /\ UNCHANGED <<cmd, seen, todo, done>>

ReadRun(r) ==
  /\ cmd[r] = "run" /\ Answered(r, "read", {"ok"})
  /\ todo' \in {[todo EXCEPT ![r] = s] : s \in Sorted}
  /\ Goes(r, "next")
  /\ UNCHANGED <<cmd, seen, done>>

ReadLook(r) ==
  /\ cmd[r] = "look" /\ Answered(r, "read", {"ok"}) /\ Goes(r, "over")
  /\ UNCHANGED <<cmd, seen, todo, done>>

\* revert_inner: nothing applied, no file or no down file for the last row, or BEGIN.
ReadRevert(r) ==
  /\ cmd[r] = "revert" /\ Answered(r, "read", {"ok"})
  /\ LET found == {f \in Files : f.version \in seen[r]}
     IN \/ seen[r] = {} /\ Goes(r, "unlock") /\ UNCHANGED done
        \/ seen[r] # {} /\ found = {} /\ Error(r, "unlock") /\ UNCHANGED done
        \/ \E f \in found :
             IF f.down THEN Goes(r, "begin") /\ done' = [done EXCEPT ![r] = <<f>>]
                       ELSE Error(r, "unlock") /\ UNCHANGED done
  /\ UNCHANGED <<cmd, seen, todo>>

\* Variant: without BEGIN.
NextFile_NoBegin(r) ==
  /\ pc[r] = "next" /\ r \notin gone
  /\ IF todo[r] = <<>> THEN Goes(r, "unlock") /\ UNCHANGED todo
     ELSE IF Head(todo[r]).version \in seen[r] THEN todo' = [todo EXCEPT ![r] = Tail(@)] /\ UNCHANGED <<pc, failed, net>>
     ELSE Goes(r, "script") /\ UNCHANGED todo
  /\ UNCHANGED <<cmd, gone, seen, done, txn, work, lock, dbVars, looked, commands, faults>>

\* run_inner: the next file that is not among the applied versions.
NextFile(r) ==
  /\ pc[r] = "next" /\ r \notin gone
  /\ IF todo[r] = <<>> THEN Goes(r, "unlock") /\ UNCHANGED todo
     ELSE IF Head(todo[r]).version \in seen[r] THEN todo' = [todo EXCEPT ![r] = Tail(@)] /\ UNCHANGED <<pc, failed, net>>
     ELSE Goes(r, "begin") /\ UNCHANGED todo
  /\ UNCHANGED <<cmd, gone, seen, done, txn, work, lock, dbVars, looked, commands, faults>>

\* The file, or the directory, cannot be read.
FileFails(r) ==
  /\ pc[r] = "next" /\ r \notin gone /\ faults < FaultBound /\ faults' = faults + 1
  /\ Error(r, "unlock")
  /\ UNCHANGED <<cmd, gone, seen, todo, done, txn, work, lock, dbVars, looked, commands>>

Began(r) ==
  /\ \/ Answered(r, "begin", {"ok"}) /\ Goes(r, "script")
     \/ Answered(r, "begin", Bad) /\ Error(r, "unlock")
  /\ UNCHANGED <<cmd, seen, todo, done>>

\* The SQL of the file: an error is followed by ROLLBACK.
Scripted(r) ==
  /\ \/ Answered(r, "script", {"ok"}) /\ Goes(r, "record")
     \/ Answered(r, "script", Bad) /\ Error(r, "rollback")
  /\ UNCHANGED <<cmd, seen, todo, done>>

\* INSERT or DELETE: an error is returned as it is, the transaction stays open.
RecordedRow(r) ==
  /\ \/ Answered(r, "record", {"ok"}) /\ Goes(r, "commit")
     \/ Answered(r, "record", Bad) /\ Error(r, "unlock")
  /\ UNCHANGED <<cmd, seen, todo, done>>

Committed(r) ==
  /\ \/ /\ Answered(r, "commit", {"ok"})
        /\ IF cmd[r] = "run"
           THEN /\ Goes(r, "next") /\ done' = [done EXCEPT ![r] = Append(@, Head(todo[r]))]
                /\ todo' = [todo EXCEPT ![r] = Tail(@)]
           ELSE Goes(r, "unlock") /\ UNCHANGED <<todo, done>>
     \/ Answered(r, "commit", Bad) /\ Error(r, "unlock") /\ UNCHANGED <<todo, done>>
  /\ UNCHANGED <<cmd, seen>>

RolledBack(r) ==
  /\ Answered(r, "rollback", {"ok"} \cup Bad) /\ Goes(r, "unlock")
  /\ UNCHANGED <<cmd, seen, todo, done>>

Unlocked(r) ==
  /\ Answered(r, "unlock", {"ok"} \cup Bad) /\ Goes(r, "over")
  /\ UNCHANGED <<cmd, seen, todo, done>>

\* The future of the command is dropped, or its process ends.
Die(r) ==
  /\ pc[r] \notin {"idle", "over"} /\ r \notin gone /\ faults < FaultBound
  /\ faults' = faults + 1 /\ gone' = gone \cup {r}
  /\ UNCHANGED <<cmd, pc, seen, todo, done, failed, sessionVars, lock, dbVars, looked, commands>>

\* The server ends a session: its transaction is rolled back, its lock released.
Ended(r) ==
  /\ txn' = [txn EXCEPT ![r] = "none"] /\ work' = [work EXCEPT ![r] = NoWork]
  /\ lock' = IF lock = r THEN None ELSE lock

\* The server reads the end of the stream after everything that was sent.
Hangup(r) ==
  /\ pc[r] = "over" \/ r \in gone
  /\ net[r] \notin {"sent", "checked"}
  /\ Ended(r) /\ net' = [net EXCEPT ![r] = "none"]
  /\ pc' = [pc EXCEPT ![r] = "idle"] /\ gone' = gone \ {r}
  /\ UNCHANGED <<cmd, seen, todo, done, failed, dbVars, looked, commands, faults>>

-----------------------------------------------------------------------------
(* The server.                                                             *)

Reply(r, a) == net' = [net EXCEPT ![r] = a]
Asks(r, q)  == pc[r] = q /\ net[r] = "sent"

ExecLock(r) ==
  /\ Asks(r, "lock") /\ lock \in {None, r} /\ lock' = r /\ Reply(r, "ok")
  /\ UNCHANGED <<runnerVars, txn, work, dbVars, looked, commands, faults>>

\* CREATE TABLE IF NOT EXISTS looks for the name before it enters it.
ExecTableLook(r) ==
  /\ Asks(r, "table") /\ Reply(r, IF table THEN "ok" ELSE "checked")
  /\ looked' = (looked \/ cmd[r] = "look")
  /\ UNCHANGED <<runnerVars, txn, work, lock, dbVars, commands, faults>>

ExecTableEnter(r) ==
  /\ net[r] = "checked" /\ Reply(r, IF table THEN "error" ELSE "ok") /\ table' = TRUE
  /\ UNCHANGED <<runnerVars, txn, work, lock, rows, made, looked, commands, faults>>

ExecRead(r) ==
  /\ Asks(r, "read") /\ Reply(r, "ok")
  /\ seen' = [seen EXCEPT ![r] = {w.version : w \in IF cmd[r] = "revert" THEN Latest ELSE rows}]
  /\ UNCHANGED <<cmd, pc, gone, todo, done, failed, txn, work, lock, dbVars, looked, commands, faults>>

ExecBegin(r) ==
  /\ Asks(r, "begin") /\ Reply(r, "ok")
  /\ txn' = [txn EXCEPT ![r] = IF @ = "none" THEN "open" ELSE @]
  /\ UNCHANGED <<runnerVars, work, lock, dbVars, looked, commands, faults>>

File(r) == IF cmd[r] = "run" THEN Head(todo[r]) ELSE done[r][1]
Step(r) == IF cmd[r] = "run" THEN 1 ELSE -1

\* The SQL of the file takes effect in the transaction, or, if there is none or the SQL
\* commits it, at once.
ExecScript(r) ==
  /\ Asks(r, "script") /\ txn[r] # "failed" /\ Reply(r, "ok")
  /\ IF File(r).commits \/ txn[r] = "none"
     THEN /\ made' = [made EXCEPT ![File(r)] = @ + Step(r)]
          /\ txn' = [txn EXCEPT ![r] = "none"] /\ UNCHANGED work
     ELSE /\ work' = [work EXCEPT ![r] = [file |-> File(r), step |-> Step(r), row |-> @.row]]
          /\ UNCHANGED <<txn, made>>
  /\ UNCHANGED <<runnerVars, lock, table, rows, looked, commands, faults>>

Applied(w) ==
  IF w = None THEN rows
  ELSE IF w.add THEN rows \cup {w.row} ELSE {x \in rows : x.version # w.row.version}

\* INSERT, which the primary key may refuse, or DELETE.
ExecRecord(r) ==
  /\ Asks(r, "record")
  /\ LET w  == [add |-> cmd[r] = "run", row |-> Row(File(r))]
         ok == txn[r] # "failed" /\ (w.add => \A x \in rows : x.version # w.row.version)
     IN IF ~ok THEN Reply(r, "error") /\ txn' = [txn EXCEPT ![r] = IF @ = "open" THEN "failed" ELSE @]
                    /\ UNCHANGED <<work, rows>>
        ELSE /\ Reply(r, "ok") /\ UNCHANGED txn
             /\ IF txn[r] = "open"
                THEN /\ work' = [work EXCEPT ![r] = [file |-> @.file, step |-> @.step, row |-> w]]
                     /\ UNCHANGED rows
                ELSE rows' = Applied(w) /\ UNCHANGED work
  /\ UNCHANGED <<runnerVars, lock, table, made, looked, commands, faults>>

\* COMMIT of a transaction that failed answers like ROLLBACK, without an error.
ExecCommit(r) ==
  /\ Asks(r, "commit") /\ Reply(r, "ok")
  /\ IF txn[r] = "open"
     THEN /\ rows' = Applied(work[r].row)
          /\ made' = IF work[r].file = None THEN made ELSE [made EXCEPT ![work[r].file] = @ + work[r].step]
     ELSE UNCHANGED <<rows, made>>
  /\ txn' = [txn EXCEPT ![r] = "none"] /\ work' = [work EXCEPT ![r] = NoWork]
  /\ UNCHANGED <<runnerVars, lock, table, looked, commands, faults>>

ExecRollback(r) ==
  /\ Asks(r, "rollback") /\ Reply(r, "ok")
  /\ txn' = [txn EXCEPT ![r] = "none"] /\ work' = [work EXCEPT ![r] = NoWork]
  /\ UNCHANGED <<runnerVars, lock, dbVars, looked, commands, faults>>

\* pg_advisory_unlock is refused in a transaction that failed.
ExecUnlock(r) ==
  /\ Asks(r, "unlock")
  /\ IF txn[r] = "failed" THEN Reply(r, "error") /\ UNCHANGED lock
                          ELSE Reply(r, "ok") /\ lock' = IF lock = r THEN None ELSE lock
  /\ UNCHANGED <<runnerVars, txn, work, dbVars, looked, commands, faults>>

\* The server refuses a statement; in a transaction, that fails.
ExecRefused(r) ==
  /\ pc[r] \in {"read", "script", "record", "commit"} /\ net[r] = "sent" /\ faults < FaultBound
  /\ faults' = faults + 1 /\ Reply(r, "error")
  /\ txn' = [txn EXCEPT ![r] = IF @ # "open" THEN @ ELSE IF pc[r] = "commit" THEN "none" ELSE "failed"]
  /\ work' = [work EXCEPT ![r] = NoWork]
  /\ UNCHANGED <<runnerVars, lock, dbVars, looked, commands>>

\* pg_terminate_backend, of drop_database with force or drop_db, or a crash of the
\* server: the session ends, and the answer on its way is lost with it.
Terminate(r) ==
  /\ pc[r] \in Queries \cup {"next"} /\ r \notin gone /\ net[r] # "lost" /\ faults < FaultBound
  /\ faults' = faults + 1
  /\ Ended(r) /\ net' = [net EXCEPT ![r] = "lost"]
  /\ UNCHANGED <<runnerVars, dbVars, looked, commands>>

-----------------------------------------------------------------------------
Works(r) ==
  \/ Locked(r) \/ Bootstrapped(r) \/ ReadFails(r) \/ ReadRun(r) \/ ReadLook(r) \/ ReadRevert(r)
  \/ NextFile(r) \/ Began(r) \/ Scripted(r) \/ RecordedRow(r) \/ Committed(r) \/ RolledBack(r) \/ Unlocked(r)

Serves(r) ==
  \/ ExecLock(r) \/ ExecTableLook(r) \/ ExecTableEnter(r) \/ ExecRead(r) \/ ExecBegin(r) \/ ExecScript(r)
  \/ ExecRecord(r) \/ ExecCommit(r) \/ ExecRollback(r) \/ ExecUnlock(r) \/ Hangup(r)

Next == \E r \in Runners :
  \/ Works(r) \/ Serves(r) \/ Start(r) \/ FileFails(r) \/ Die(r) \/ ExecRefused(r) \/ Terminate(r)

Spec == Init /\ [][Next]_vars

\* A future that is polled goes on, and a server that is up answers.
FairSpec == Spec /\ WF_vars(\E r \in Runners : Works(r) \/ Serves(r))
=============================================================================
