---------------------------- MODULE MigrateProofs ----------------------------
(***************************************************************************)
(* What TLAPS proves of the migration runners, for any number of runners,  *)
(* files and faults: one at a time, and that the table tells the truth.    *)
(***************************************************************************)
EXTENDS MigrateProperties, FiniteSetTheorems, SequenceTheorems, TLAPS

-----------------------------------------------------------------------------
(* One at a time.                                                          *)

Labels  == Queries \cup {"idle", "next", "over"}
Answers == {"none", "sent", "checked", "ok", "error", "lost"}

Typed ==
  /\ cmd \in [Runners -> {None, "run", "revert", "look"}]
  /\ pc \in [Runners -> Labels]
  /\ net \in [Runners -> Answers]
  /\ txn \in [Runners -> {"none", "open", "failed"}]
  /\ DOMAIN work = Runners
  /\ lock \in Runners \cup {None}
  /\ table \in BOOLEAN /\ looked \in BOOLEAN

\* What a query can have been answered, and where a command that only looks can be.
Placed(r) ==
  /\ cmd[r] = "look" => pc[r] \in {"idle", "table", "read", "over"}
  /\ pc[r] = "idle" => net[r] = "none" /\ lock # r
  /\ pc[r] \in {"next", "over"} => net[r] \in {"none", "lost"}
  /\ pc[r] \in {"lock", "begin", "rollback"} => net[r] # "error"
  /\ net[r] = "checked" => pc[r] = "table"

\* Between the answer to its first query and its last query a command that changes the
\* database has the lock, as long as it has its session.
Guarded(r) ==
  cmd[r] # "look" /\ net[r] # "lost" =>
    /\ pc[r] \in Labels \ {"idle", "lock", "unlock", "over"} => lock = r
    /\ pc[r] = "lock" /\ net[r] = "ok" => lock = r

\* Where a transaction can be open, and where it can have failed: it has ended when the
\* runner unlocks, or the unlock is refused.
Scoped(r) ==
  /\ txn[r] # "none" => lock = r /\ net[r] # "lost"
  /\ txn[r] = "open" =>
       \/ pc[r] = "begin" /\ net[r] = "ok"
       \/ pc[r] \in {"script", "record"} /\ net[r] \in {"sent", "ok"}
       \/ pc[r] = "commit" /\ net[r] = "sent"
  /\ txn[r] = "failed" =>
       \/ pc[r] \in {"script", "record"} /\ net[r] = "error"
       \/ pc[r] = "rollback" /\ net[r] = "sent"
       \/ pc[r] \in {"unlock", "over"}
  /\ txn[r] = "none" => work[r] = NoWork
  /\ pc[r] = "begin" \/ (pc[r] = "script" /\ net[r] = "sent") => work[r] = NoWork

\* While nobody has looked without the lock, the table that was not there is still not.
Bootstrap(r) ==
  /\ net[r] = "checked" /\ ~looked => ~table /\ cmd[r] # "look"
  /\ cmd[r] # "look" /\ pc[r] = "table" /\ net[r] = "error" => looked

Alternate == \A r \in Runners : Placed(r) /\ Guarded(r) /\ Scoped(r) /\ Bootstrap(r)

LEMMA InitAlternate == Init => Typed /\ Alternate
<1> SUFFICES ASSUME Init PROVE Typed /\ Alternate
  OBVIOUS
<1>1. Typed
  BY DEF Init, Typed, Labels, Answers
<1>2. ASSUME NEW r \in Runners
      PROVE  pc[r] = "idle" /\ net[r] = "none" /\ txn[r] = "none" /\ work[r] = NoWork /\ lock # r
  BY MigrateAssumption DEF Init
<1> QED
  BY <1>1, <1>2 DEF Alternate, Placed, Guarded, Scoped, Bootstrap, Labels

LEMMA StepAlternate == Typed /\ Alternate /\ [Next]_vars => Typed' /\ Alternate'
<1> USE MigrateAssumption DEF Labels, Answers, Queries, runnerVars, sessionVars, dbVars
<1> SUFFICES ASSUME Typed, Alternate, [Next]_vars PROVE Typed' /\ Alternate'
  OBVIOUS
<1>1. ASSUME NEW r \in Runners, Locked(r) PROVE Typed' /\ Alternate'
  BY <1>1 DEF Locked, Answered, At, Goes, Error, Bad, Typed, Alternate, Placed, Guarded, Scoped, Bootstrap
<1>2. ASSUME NEW r \in Runners, Bootstrapped(r) PROVE Typed' /\ Alternate'
  BY <1>2 DEF Bootstrapped, Answered, At, Goes, Error, Bad, Leaves, Typed, Alternate, Placed, Guarded, Scoped, Bootstrap
<1>3. ASSUME NEW r \in Runners, ReadFails(r) PROVE Typed' /\ Alternate'
  BY <1>3 DEF ReadFails, Answered, At, Goes, Error, Bad, Leaves, Typed, Alternate, Placed, Guarded, Scoped, Bootstrap
<1>4. ASSUME NEW r \in Runners, ReadRun(r) PROVE Typed' /\ Alternate'
  BY <1>4 DEF ReadRun, Answered, At, Goes, Error, Bad, Typed, Alternate, Placed, Guarded, Scoped, Bootstrap
<1>5. ASSUME NEW r \in Runners, ReadLook(r) PROVE Typed' /\ Alternate'
  BY <1>5 DEF ReadLook, Answered, At, Goes, Error, Bad, Typed, Alternate, Placed, Guarded, Scoped, Bootstrap
<1>6. ASSUME NEW r \in Runners, ReadRevert(r) PROVE Typed' /\ Alternate'
  BY <1>6 DEF ReadRevert, Answered, At, Goes, Error, Bad, Typed, Alternate, Placed, Guarded, Scoped, Bootstrap
<1>7. ASSUME NEW r \in Runners, NextFile(r) PROVE Typed' /\ Alternate'
  BY <1>7 DEF NextFile, At, Goes, Error, Typed, Alternate, Placed, Guarded, Scoped, Bootstrap
<1>8. ASSUME NEW r \in Runners, Began(r) PROVE Typed' /\ Alternate'
  BY <1>8 DEF Began, Answered, At, Goes, Error, Bad, Typed, Alternate, Placed, Guarded, Scoped, Bootstrap
<1>9. ASSUME NEW r \in Runners, Scripted(r) PROVE Typed' /\ Alternate'
  BY <1>9 DEF Scripted, Answered, At, Goes, Error, Bad, Typed, Alternate, Placed, Guarded, Scoped, Bootstrap
<1>10. ASSUME NEW r \in Runners, RecordedRow(r) PROVE Typed' /\ Alternate'
  BY <1>10 DEF RecordedRow, Answered, At, Goes, Error, Bad, Typed, Alternate, Placed, Guarded, Scoped, Bootstrap
<1>11. ASSUME NEW r \in Runners, Committed(r) PROVE Typed' /\ Alternate'
  BY <1>11 DEF Committed, Answered, At, Goes, Error, Bad, Typed, Alternate, Placed, Guarded, Scoped, Bootstrap
<1>12. ASSUME NEW r \in Runners, RolledBack(r) PROVE Typed' /\ Alternate'
  BY <1>12 DEF RolledBack, Answered, At, Goes, Error, Bad, Typed, Alternate, Placed, Guarded, Scoped, Bootstrap
<1>13. ASSUME NEW r \in Runners, Unlocked(r) PROVE Typed' /\ Alternate'
  BY <1>13 DEF Unlocked, Answered, At, Goes, Error, Bad, Typed, Alternate, Placed, Guarded, Scoped, Bootstrap
<1>14. ASSUME NEW r \in Runners, ExecLock(r) PROVE Typed' /\ Alternate'
  BY <1>14 DEF ExecLock, Reply, Asks, Typed, Alternate, Placed, Guarded, Scoped, Bootstrap
<1>15. ASSUME NEW r \in Runners, ExecTableLook(r) PROVE Typed' /\ Alternate'
  <2>1. looked' \in BOOLEAN /\ (looked => looked') /\ (cmd[r] = "look" => looked')
    BY <1>15 DEF ExecTableLook, Typed
  <2>2. /\ pc[r] = "table" /\ net[r] = "sent" /\ UNCHANGED <<cmd, pc, txn, work, lock, table>>
        /\ \E a \in {"ok", "checked"} : net' = [net EXCEPT ![r] = a] /\ (a = "checked" => ~table)
    BY <1>15 DEF ExecTableLook, Asks, Reply, Typed
  <2> QED
    BY <2>1, <2>2 DEF Typed, Alternate, Placed, Guarded, Scoped, Bootstrap
<1>16. ASSUME NEW r \in Runners, ExecTableEnter(r) PROVE Typed' /\ Alternate'
  BY <1>16 DEF ExecTableEnter, Reply, Asks, Typed, Alternate, Placed, Guarded, Scoped, Bootstrap
<1>17. ASSUME NEW r \in Runners, ExecRead(r) PROVE Typed' /\ Alternate'
  BY <1>17 DEF ExecRead, Reply, Asks, Typed, Alternate, Placed, Guarded, Scoped, Bootstrap
<1>18. ASSUME NEW r \in Runners, ExecBegin(r) PROVE Typed' /\ Alternate'
  BY <1>18 DEF ExecBegin, Reply, Asks, Typed, Alternate, Placed, Guarded, Scoped, Bootstrap
<1>19. ASSUME NEW r \in Runners, ExecScript(r) PROVE Typed' /\ Alternate'
  BY <1>19 DEF ExecScript, Reply, Asks, Typed, Alternate, Placed, Guarded, Scoped, Bootstrap
<1>20. ASSUME NEW r \in Runners, ExecRecord(r) PROVE Typed' /\ Alternate'
  BY <1>20 DEF ExecRecord, Reply, Asks, Typed, Alternate, Placed, Guarded, Scoped, Bootstrap
<1>21. ASSUME NEW r \in Runners, ExecCommit(r) PROVE Typed' /\ Alternate'
  BY <1>21 DEF ExecCommit, Reply, Asks, Typed, Alternate, Placed, Guarded, Scoped, Bootstrap
<1>22. ASSUME NEW r \in Runners, ExecRollback(r) PROVE Typed' /\ Alternate'
  BY <1>22 DEF ExecRollback, Reply, Asks, Typed, Alternate, Placed, Guarded, Scoped, Bootstrap
<1>23. ASSUME NEW r \in Runners, ExecUnlock(r) PROVE Typed' /\ Alternate'
  BY <1>23 DEF ExecUnlock, Reply, Asks, Typed, Alternate, Placed, Guarded, Scoped, Bootstrap
<1>24. ASSUME NEW r \in Runners, Hangup(r) PROVE Typed' /\ Alternate'
  BY <1>24 DEF Hangup, Ended, Typed, Alternate, Placed, Guarded, Scoped, Bootstrap
<1>25. ASSUME NEW r \in Runners, Start(r) PROVE Typed' /\ Alternate'
  BY <1>25 DEF Start, At, FirstQuery, Typed, Alternate, Placed, Guarded, Scoped, Bootstrap
<1>26. ASSUME NEW r \in Runners, FileFails(r) PROVE Typed' /\ Alternate'
  BY <1>26 DEF FileFails, At, Goes, Error, Typed, Alternate, Placed, Guarded, Scoped, Bootstrap
<1>27. ASSUME NEW r \in Runners, Die(r) PROVE Typed' /\ Alternate'
  BY <1>27 DEF Die, Typed, Alternate, Placed, Guarded, Scoped, Bootstrap
<1>28. ASSUME NEW r \in Runners, ExecRefused(r) PROVE Typed' /\ Alternate'
  BY <1>28 DEF ExecRefused, Reply, Typed, Alternate, Placed, Guarded, Scoped, Bootstrap
<1>29. ASSUME NEW r \in Runners, Terminate(r) PROVE Typed' /\ Alternate'
  BY <1>29 DEF Terminate, Ended, Typed, Alternate, Placed, Guarded, Scoped, Bootstrap
<1>30. CASE UNCHANGED vars
  BY <1>30 DEF vars, Typed, Alternate, Placed, Guarded, Scoped, Bootstrap
<1> QED
  BY <1>1, <1>2, <1>3, <1>4, <1>5, <1>6, <1>7, <1>8, <1>9, <1>10, <1>11, <1>12, <1>13, <1>14, <1>15, <1>16, <1>17, <1>18, <1>19, <1>20, <1>21, <1>22, <1>23, <1>24, <1>25, <1>26, <1>27, <1>28, <1>29, <1>30 DEF Next, Works, Serves

LEMMA AlternateHolds == Spec => [](Typed /\ Alternate)
BY InitAlternate, StepAlternate, PTL DEF Spec

\* One runner changes the database at a time, the one with the advisory lock, and none
\* fails in CREATE TABLE IF NOT EXISTS unless a command without the lock was at it too
\* (migrate.rs:142-160, 203-236).
THEOREM OneRunnerAtATime == Spec => []Serialized
<1>1. Typed /\ Alternate => Serialized
  BY DEF Typed, Alternate, Scoped, Bootstrap, Serialized, OneAtATime, BootstrapSerialized
<1> QED
  BY <1>1, AlternateHolds, PTL

-----------------------------------------------------------------------------
(* The table tells the truth.                                              *)

InHand   == {"begin", "script", "record", "commit"}
AtScript(r) == (pc[r] = "begin" /\ net[r] = "ok") \/ (pc[r] = "script" /\ net[r] = "sent")
AtRecord(r) == (pc[r] = "script" /\ net[r] = "ok") \/ (pc[r] = "record" /\ net[r] = "sent")
AtCommit(r) == (pc[r] = "record" /\ net[r] = "ok") \/ (pc[r] = "commit" /\ net[r] = "sent")

Work == [file : Files \cup {None}, step : {-1, 0, 1}, row : Change \cup {None}]

Kept ==
  /\ todo \in [Runners -> Seq(Files)] /\ done \in [Runners -> Seq(Files)]
  /\ DOMAIN seen = Runners
  /\ work \in [Runners -> Work]
  /\ rows \in SUBSET {Row(f) : f \in Files}
  /\ made \in [Files -> Int]

\* What a runner has in hand.
Holding(r) ==
  /\ pc[r] # "idle" => cmd[r] \in {"run", "revert", "look"}
  /\ pc[r] \in InHand /\ cmd[r] = "run" => todo[r] # <<>>
  /\ pc[r] \in InHand /\ cmd[r] = "revert" => done[r] # <<>>
  /\ pc[r] = "lock" => done[r] = <<>>
  /\ pc[r] = "next" => cmd[r] = "run"

\* What its transaction would commit; a file with a COMMIT of its own has ended it.
Carrying(r) ==
  /\ AtScript(r) => txn[r] = "open"
  /\ AtRecord(r) /\ File(r).commits  => txn[r] = "none"
  /\ AtRecord(r) /\ ~File(r).commits =>
       txn[r] = "open" /\ work[r] = [file |-> File(r), step |-> Step(r), row |-> None]
  /\ AtCommit(r) /\ File(r).commits  => txn[r] = "none"
  /\ AtCommit(r) /\ ~File(r).commits =>
       txn[r] = "open" /\ work[r] = [file |-> File(r), step |-> Step(r),
                                     row |-> [add |-> cmd[r] = "run", row |-> Row(File(r))]]

Recorded(v) == \E x \in rows : x.version = v

\* What the table says of the file in hand, and of those that are done.
Knowing(r) ==
  /\ cmd[r] = "run" /\ AtCommit(r) /\ ~File(r).commits => ~Recorded(File(r).version)
  /\ cmd[r] = "run" /\ AtCommit(r) /\ File(r).commits => Row(File(r)) \in rows
  /\ cmd[r] = "run" /\ pc[r] = "commit" /\ net[r] = "ok" => Row(File(r)) \in rows
  /\ cmd[r] = "revert" /\ pc[r] = "read" /\ net[r] = "ok" => \A v \in seen[r] : Recorded(v)
  /\ cmd[r] = "revert" /\ ((pc[r] = "begin" /\ net[r] # "lost") \/ AtScript(r) \/ AtRecord(r)
                            \/ (AtCommit(r) /\ ~File(r).commits)) => Recorded(File(r).version)
  /\ cmd[r] = "run" /\ lock = r => \A i \in DOMAIN done[r] : Row(done[r][i]) \in rows

Own(r) == Holding(r) /\ Carrying(r) /\ Knowing(r)
Truthful == (\A r \in Runners : Own(r)) /\ RowsMatch

LEMMA InitTruthful == Init => Kept /\ Truthful
<1> SUFFICES ASSUME Init PROVE Kept /\ Truthful
  OBVIOUS
<1>1. Kept
  BY MigrateAssumption DEF Init, Kept, NoWork, Work
<1>2. ASSUME NEW r \in Runners
      PROVE  pc[r] = "idle" /\ net[r] = "none" /\ lock # r
  BY MigrateAssumption DEF Init
<1>3. ASSUME NEW r \in Runners PROVE Own(r)
  BY <1>2 DEF Own, Holding, Carrying, Knowing, InHand, AtScript, AtRecord, AtCommit
<1>4. RowsMatch
  BY DEF Init, RowsMatch
<1> QED
  BY <1>1, <1>3, <1>4 DEF Truthful

\* The files in the order of their versions are files.
LEMMA SortedFiles == Sorted \subseteq Seq(Files)
<1> SUFFICES ASSUME NEW s \in Sorted PROVE s \in Seq(Files)
  OBVIOUS
<1>1. Cardinality(Files) \in Nat
  BY MigrateAssumption, FS_CardinalityType
<1> QED
  BY <1>1, IsASeq DEF Sorted

\* The file in hand is one of the files.
LEMMA FileInHand ==
  ASSUME Kept, NEW r \in Runners, Placed(r), Holding(r), pc[r] \in InHand
  PROVE  /\ File(r) \in Files /\ cmd[r] \in {"run", "revert"}
         /\ cmd[r] = "run" => todo[r] \in Seq(Files) /\ todo[r] # <<>> /\ File(r) = Head(todo[r])
         /\ cmd[r] = "revert" => done[r] \in Seq(Files) /\ done[r] # <<>> /\ File(r) = done[r][1]
<1>1. todo[r] \in Seq(Files) /\ done[r] \in Seq(Files)
  BY DEF Kept
<1>2. cmd[r] \in {"run", "revert"}
  BY DEF Holding, Placed, InHand
<1>3. cmd[r] = "run" => todo[r] # <<>> /\ File(r) = Head(todo[r]) /\ File(r) \in Files
  BY <1>1 DEF Holding, File
<1>4. cmd[r] = "revert" => done[r] # <<>> /\ File(r) = done[r][1] /\ File(r) \in Files
  BY <1>1 DEF Holding, File
<1> QED
  BY <1>1, <1>2, <1>3, <1>4

\* What INSERT and DELETE make of the rows.
LEMMA AppliedRows ==
  ASSUME NEW f \in Files, NEW add \in BOOLEAN
  PROVE  Applied([add |-> add, row |-> Row(f)]) =
           IF add THEN rows \cup {Row(f)} ELSE {x \in rows : x.version # f.version}
<1>1. [add |-> add, row |-> Row(f)] \in Change
  BY MigrateAssumption DEF Change, Row, FileType
<1>2. [add |-> add, row |-> Row(f)] # None
  BY <1>1, MigrateAssumption
<1> QED
  BY <1>2 DEF Applied, Row

\* A step of another runner changes nothing here, and can take no lock away; and if it
\* changes the table, then it is not this one that has the lock.
Still(s) ==
  /\ UNCHANGED <<cmd[s], pc[s], todo[s], done[s], seen[s], net[s], txn[s], work[s]>>
  /\ lock' = s => lock = s
  /\ rows' # rows => lock # s

LEMMA OthersOwn ==
  ASSUME Alternate, NEW s \in Runners, Own(s), Still(s)
  PROVE  Own(s)'
<1>1. Holding(s)'
  BY DEF Own, Holding, Still
<1>2. Carrying(s)'
  BY DEF Own, Carrying, Still, AtScript, AtRecord, AtCommit, File, Step
<1>3. CASE rows' = rows
  <2>1. Knowing(s)'
    BY <1>3 DEF Own, Knowing, Still, AtScript, AtRecord, AtCommit, File, Recorded
  <2> QED
    BY <1>1, <1>2, <2>1 DEF Own
<1>4. CASE rows' # rows
  <2>1. lock # s /\ lock' # s
    BY <1>4 DEF Still
  <2>2. net[s] = "lost" \/ cmd[s] = "look" \/ pc[s] \in {"idle", "lock", "unlock", "over"} \/ pc[s] \notin Labels
    BY <2>1 DEF Alternate, Guarded
  <2>3. Knowing(s)'
    BY <2>1, <2>2 DEF Knowing, Still, AtScript, AtRecord, AtCommit, Labels, Queries
  <2> QED
    BY <1>1, <1>2, <2>3 DEF Own
<1> QED
  BY <1>3, <1>4

LEMMA StepTruthful ==
  ASSUME Typed, Alternate, Kept, Truthful, [Next]_vars
  PROVE  Kept' /\ Truthful'
<1> USE MigrateAssumption DEF Queries, runnerVars, sessionVars, dbVars
<1>1. ASSUME NEW r \in Runners, Locked(r) PROVE Kept' /\ Truthful'
  <2>1. Kept'
    BY <1>1 DEF Locked, Answered, At, Goes, Error, Bad, Kept, Typed, Work, NoWork
  <2>2. Own(r)'
    BY <1>1 DEF Locked, Answered, At, Goes, Error, Bad, Truthful, Typed, Kept, Alternate, Placed, Scoped, Own, Holding, Carrying, Knowing, Recorded, InHand, AtScript, AtRecord, AtCommit, File, Step
  <2>3. ASSUME NEW s \in Runners, s # r PROVE Still(s)
    BY <1>1, <2>3 DEF Locked, Answered, At, Goes, Error, Bad, Still, Kept, Typed
  <2>4. RowsMatch'
    BY <1>1 DEF Locked, Answered, At, Goes, Error, Bad, RowsMatch, Truthful
  <2> QED
    BY <2>1, <2>2, <2>3, <2>4, OthersOwn DEF Truthful
<1>2. ASSUME NEW r \in Runners, Bootstrapped(r) PROVE Kept' /\ Truthful'
  <2>1. Kept'
    BY <1>2 DEF Bootstrapped, Answered, At, Goes, Error, Bad, Leaves, Kept, Typed, Work, NoWork
  <2>2. Own(r)'
    BY <1>2 DEF Bootstrapped, Answered, At, Goes, Error, Bad, Leaves, Truthful, Typed, Kept, Alternate, Placed, Scoped, Own, Holding, Carrying, Knowing, Recorded, InHand, AtScript, AtRecord, AtCommit, File, Step
  <2>3. ASSUME NEW s \in Runners, s # r PROVE Still(s)
    BY <1>2, <2>3 DEF Bootstrapped, Answered, At, Goes, Error, Bad, Leaves, Still, Kept, Typed
  <2>4. RowsMatch'
    BY <1>2 DEF Bootstrapped, Answered, At, Goes, Error, Bad, Leaves, RowsMatch, Truthful
  <2> QED
    BY <2>1, <2>2, <2>3, <2>4, OthersOwn DEF Truthful
<1>3. ASSUME NEW r \in Runners, ReadFails(r) PROVE Kept' /\ Truthful'
  <2>1. Kept'
    BY <1>3 DEF ReadFails, Answered, At, Goes, Error, Bad, Leaves, Kept, Typed, Work, NoWork
  <2>2. Own(r)'
    BY <1>3 DEF ReadFails, Answered, At, Goes, Error, Bad, Leaves, Truthful, Typed, Kept, Alternate, Placed, Scoped, Own, Holding, Carrying, Knowing, Recorded, InHand, AtScript, AtRecord, AtCommit, File, Step
  <2>3. ASSUME NEW s \in Runners, s # r PROVE Still(s)
    BY <1>3, <2>3 DEF ReadFails, Answered, At, Goes, Error, Bad, Leaves, Still, Kept, Typed
  <2>4. RowsMatch'
    BY <1>3 DEF ReadFails, Answered, At, Goes, Error, Bad, Leaves, RowsMatch, Truthful
  <2> QED
    BY <2>1, <2>2, <2>3, <2>4, OthersOwn DEF Truthful
<1>4. ASSUME NEW r \in Runners, ReadRun(r) PROVE Kept' /\ Truthful'
  <2>1. Kept'
    <3>1. PICK s \in Sorted : todo' = [todo EXCEPT ![r] = s]
      BY <1>4 DEF ReadRun
    <3>2. s \in Seq(Files)
      BY SortedFiles
    <3>3. UNCHANGED <<done, seen, work, rows, made>>
      BY <1>4 DEF ReadRun, Answered
    <3> QED
      BY <3>1, <3>2, <3>3 DEF Kept
  <2>2. Own(r)'
    BY <1>4 DEF ReadRun, Answered, At, Goes, Error, Bad, Truthful, Typed, Kept, Alternate, Placed, Scoped, Own, Holding, Carrying, Knowing, Recorded, InHand, AtScript, AtRecord, AtCommit, File, Step
  <2>3. ASSUME NEW s \in Runners, s # r PROVE Still(s)
    BY <1>4, <2>3 DEF ReadRun, Answered, At, Goes, Error, Bad, Still, Kept, Typed
  <2>4. RowsMatch'
    BY <1>4 DEF ReadRun, Answered, At, Goes, Error, Bad, RowsMatch, Truthful
  <2> QED
    BY <2>1, <2>2, <2>3, <2>4, OthersOwn DEF Truthful
<1>5. ASSUME NEW r \in Runners, ReadLook(r) PROVE Kept' /\ Truthful'
  <2>1. Kept'
    BY <1>5 DEF ReadLook, Answered, At, Goes, Error, Bad, Kept, Typed, Work, NoWork
  <2>2. Own(r)'
    BY <1>5 DEF ReadLook, Answered, At, Goes, Error, Bad, Truthful, Typed, Kept, Alternate, Placed, Scoped, Own, Holding, Carrying, Knowing, Recorded, InHand, AtScript, AtRecord, AtCommit, File, Step
  <2>3. ASSUME NEW s \in Runners, s # r PROVE Still(s)
    BY <1>5, <2>3 DEF ReadLook, Answered, At, Goes, Error, Bad, Still, Kept, Typed
  <2>4. RowsMatch'
    BY <1>5 DEF ReadLook, Answered, At, Goes, Error, Bad, RowsMatch, Truthful
  <2> QED
    BY <2>1, <2>2, <2>3, <2>4, OthersOwn DEF Truthful
<1>6. ASSUME NEW r \in Runners, ReadRevert(r) PROVE Kept' /\ Truthful'
  <2>1. /\ UNCHANGED <<cmd, todo, seen, work, rows, made, txn, lock>>
        /\ pc[r] = "read" /\ net[r] = "ok" /\ cmd[r] = "revert"
    BY <1>6 DEF ReadRevert, Answered
  <2>2. ASSUME done' = done, pc' = [pc EXCEPT ![r] = "unlock"]
        PROVE  Kept' /\ Own(r)'
    <3>1. Kept'
      BY <2>1, <2>2 DEF Kept
    <3>2. Own(r)'
      BY <2>1, <2>2 DEF Typed, Truthful, Own, Holding, Carrying, Knowing, InHand, AtScript, AtRecord, AtCommit
    <3> QED
      BY <3>1, <3>2
  <2>3. ASSUME \E f \in Files : f.version \in seen[r] /\ done' = [done EXCEPT ![r] = <<f>>] /\ At(r, "begin")
        PROVE  Kept' /\ Own(r)'
    <3>1. PICK f \in Files : f.version \in seen[r] /\ done' = [done EXCEPT ![r] = <<f>>] /\ At(r, "begin")
      BY <2>3
    <3>2. <<f>> \in Seq(Files) /\ <<f>>[1] = f /\ <<f>> # <<>>
      OBVIOUS
    <3>3. Kept'
      BY <2>1, <3>1, <3>2 DEF Kept
    <3>4. pc'[r] = "begin" /\ net'[r] = "sent" /\ cmd'[r] = "revert" /\ done'[r] = <<f>>
      BY <2>1, <3>1 DEF At, Typed, Kept
    <3>5. Recorded(f.version)'
      BY <2>1, <3>1 DEF Truthful, Own, Knowing, Recorded
    <3>6. File(r)' = f
      BY <3>2, <3>4 DEF File
    <3>7. Holding(r)' /\ Carrying(r)'
      BY <3>2, <3>4 DEF Holding, Carrying, AtScript, AtRecord, AtCommit
    <3>8. Knowing(r)'
      BY <3>4, <3>5, <3>6 DEF Knowing, AtScript, AtRecord, AtCommit
    <3> QED
      BY <3>3, <3>7, <3>8 DEF Own
  <2>4. Kept' /\ Own(r)'
    <3>1. \/ done' = done /\ pc' = [pc EXCEPT ![r] = "unlock"]
          \/ \E f \in Files : f.version \in seen[r] /\ done' = [done EXCEPT ![r] = <<f>>] /\ At(r, "begin")
      BY <1>6 DEF ReadRevert, At, Goes, Error
    <3> QED
      BY <2>2, <2>3, <3>1
  <2>5. ASSUME NEW s \in Runners, s # r PROVE Still(s)
    BY <1>6, <2>5 DEF ReadRevert, Answered, At, Goes, Error, Bad, Still, Kept, Typed
  <2>6. RowsMatch'
    BY <2>1 DEF RowsMatch, Truthful
  <2> QED
    BY <2>4, <2>5, <2>6, OthersOwn DEF Truthful
<1>7. ASSUME NEW r \in Runners, NextFile(r) PROVE Kept' /\ Truthful'
  <2>1. Kept'
    <3>1. todo' = todo \/ (todo[r] # <<>> /\ todo' = [todo EXCEPT ![r] = Tail(todo[r])])
      BY <1>7 DEF NextFile, Kept
    <3>2. todo[r] # <<>> => Tail(todo[r]) \in Seq(Files)
      BY DEF Kept
    <3>3. UNCHANGED <<done, seen, work, rows, made>>
      BY <1>7 DEF NextFile
    <3> QED
      BY <3>1, <3>2, <3>3 DEF Kept
  <2>2. Own(r)'
    <3>1. /\ UNCHANGED <<cmd, done, seen, work, rows, made, txn, lock>>
          /\ pc[r] = "next" /\ cmd[r] = "run" /\ net[r] \in {"none", "lost"}
      BY <1>7 DEF NextFile, Truthful, Own, Holding, Alternate, Placed
    <3>2. \/ pc' = [pc EXCEPT ![r] = "unlock"]
          \/ UNCHANGED <<pc, net>>
          \/ At(r, "begin") /\ todo' = todo /\ todo[r] # <<>>
      BY <1>7 DEF NextFile, At, Goes
    <3>3. CASE pc' = [pc EXCEPT ![r] = "unlock"]
      BY <3>1, <3>3 DEF Typed, Truthful, Own, Holding, Carrying, Knowing, InHand, AtScript, AtRecord, AtCommit
    <3>4. CASE UNCHANGED <<pc, net>>
      BY <3>1, <3>4 DEF Typed, Truthful, Own, Holding, Carrying, Knowing, InHand, AtScript, AtRecord, AtCommit
    <3>5. CASE At(r, "begin") /\ todo' = todo /\ todo[r] # <<>>
      BY <3>1, <3>5 DEF At, Typed, Truthful, Own, Holding, Carrying, Knowing, InHand, AtScript, AtRecord, AtCommit
    <3> QED
      BY <3>2, <3>3, <3>4, <3>5
  <2>3. ASSUME NEW s \in Runners, s # r PROVE Still(s)
    BY <1>7, <2>3 DEF NextFile, At, Goes, Error, Still, Kept, Typed
  <2>4. RowsMatch'
    BY <1>7 DEF NextFile, At, Goes, Error, RowsMatch, Truthful
  <2> QED
    BY <2>1, <2>2, <2>3, <2>4, OthersOwn DEF Truthful
<1>8. ASSUME NEW r \in Runners, Began(r) PROVE Kept' /\ Truthful'
  <2>1. Kept'
    BY <1>8 DEF Began, Answered, At, Goes, Error, Bad, Kept
  <2>2. Own(r)'
    <3>1. UNCHANGED <<cmd, todo, done, seen, work, rows, made, txn, lock>> /\ pc[r] = "begin"
      BY <1>8 DEF Began, Answered
    <3>2. CASE net[r] = "ok" /\ At(r, "script")
      <4>1. pc'[r] = "script" /\ net'[r] = "sent" /\ AtScript(r) /\ File(r)' = File(r)
        BY <3>1, <3>2 DEF At, Typed, AtScript, File
      <4>2. Holding(r)' /\ Carrying(r)'
        BY <3>1, <4>1 DEF Truthful, Own, Holding, Carrying, InHand, AtScript, AtRecord, AtCommit
      <4>3. Knowing(r)'
        BY <3>1, <3>2, <4>1 DEF Truthful, Own, Knowing, Recorded, AtScript, AtRecord, AtCommit
      <4> QED
        BY <4>2, <4>3 DEF Own
    <3>3. CASE At(r, "unlock")
      BY <3>1, <3>3 DEF At, Typed, Truthful, Own, Holding, Carrying, Knowing, InHand, AtScript, AtRecord, AtCommit
    <3> QED
      BY <1>8, <3>2, <3>3 DEF Began, Answered, Goes, Error
  <2>3. ASSUME NEW s \in Runners, s # r PROVE Still(s)
    BY <1>8, <2>3 DEF Began, Answered, At, Goes, Error, Bad, Still, Kept, Typed
  <2>4. RowsMatch'
    BY <1>8 DEF Began, Answered, At, Goes, Error, Bad, RowsMatch, Truthful
  <2> QED
    BY <2>1, <2>2, <2>3, <2>4, OthersOwn DEF Truthful
<1>9. ASSUME NEW r \in Runners, Scripted(r) PROVE Kept' /\ Truthful'
  <2>1. Kept'
    BY <1>9 DEF Scripted, Answered, At, Goes, Error, Bad, Kept, Typed, Work, NoWork
  <2>2. Own(r)'
    BY <1>9 DEF Scripted, Answered, At, Goes, Error, Bad, Truthful, Typed, Kept, Alternate, Placed, Scoped, Own, Holding, Carrying, Knowing, Recorded, InHand, AtScript, AtRecord, AtCommit, File, Step
  <2>3. ASSUME NEW s \in Runners, s # r PROVE Still(s)
    BY <1>9, <2>3 DEF Scripted, Answered, At, Goes, Error, Bad, Still, Kept, Typed
  <2>4. RowsMatch'
    BY <1>9 DEF Scripted, Answered, At, Goes, Error, Bad, RowsMatch, Truthful
  <2> QED
    BY <2>1, <2>2, <2>3, <2>4, OthersOwn DEF Truthful
<1>10. ASSUME NEW r \in Runners, RecordedRow(r) PROVE Kept' /\ Truthful'
  <2>1. Kept'
    BY <1>10 DEF RecordedRow, Answered, At, Goes, Error, Bad, Kept, Typed, Work, NoWork
  <2>2. Own(r)'
    BY <1>10 DEF RecordedRow, Answered, At, Goes, Error, Bad, Truthful, Typed, Kept, Alternate, Placed, Scoped, Own, Holding, Carrying, Knowing, Recorded, InHand, AtScript, AtRecord, AtCommit, File, Step
  <2>3. ASSUME NEW s \in Runners, s # r PROVE Still(s)
    BY <1>10, <2>3 DEF RecordedRow, Answered, At, Goes, Error, Bad, Still, Kept, Typed
  <2>4. RowsMatch'
    BY <1>10 DEF RecordedRow, Answered, At, Goes, Error, Bad, RowsMatch, Truthful
  <2> QED
    BY <2>1, <2>2, <2>3, <2>4, OthersOwn DEF Truthful
<1>11. ASSUME NEW r \in Runners, Committed(r) PROVE Kept' /\ Truthful'
  <2>1. UNCHANGED <<cmd, seen, work, rows, made, txn, lock>> /\ pc[r] = "commit"
    BY <1>11 DEF Committed, Answered
  <2>2. ASSUME UNCHANGED <<todo, done>>, At(r, "unlock")
        PROVE  Kept' /\ Own(r)'
    <3>1. Kept'
      BY <2>1, <2>2 DEF Kept
    <3>2. Own(r)'
      BY <2>1, <2>2 DEF At, Typed, Truthful, Own, Holding, Carrying, Knowing, InHand, AtScript, AtRecord, AtCommit
    <3> QED
      BY <3>1, <3>2
  <2>3. ASSUME cmd[r] = "run", net[r] = "ok", At(r, "next"),
               done' = [done EXCEPT ![r] = Append(done[r], Head(todo[r]))],
               todo' = [todo EXCEPT ![r] = Tail(todo[r])]
        PROVE  Kept' /\ Own(r)'
    <3>1. /\ todo[r] \in Seq(Files) /\ done[r] \in Seq(Files) /\ todo[r] # <<>> /\ File(r) = Head(todo[r])
          /\ Row(Head(todo[r])) \in rows
      BY <2>1, <2>3 DEF Kept, Truthful, Own, Holding, Knowing, InHand, File
    <3>2. /\ Tail(todo[r]) \in Seq(Files) /\ Append(done[r], Head(todo[r])) \in Seq(Files)
      BY <3>1
    <3>3. Kept'
      BY <2>1, <2>3, <3>2 DEF Kept
    <3>4. \A i \in DOMAIN Append(done[r], Head(todo[r])) :
            \/ i \in DOMAIN done[r] /\ Append(done[r], Head(todo[r]))[i] = done[r][i]
            \/ Append(done[r], Head(todo[r]))[i] = Head(todo[r])
      BY <3>1
    <3>5. done'[r] = Append(done[r], Head(todo[r]))
      BY <2>3 DEF Kept
    <3>6. lock = r => \A i \in DOMAIN done'[r] : Row(done'[r][i]) \in rows
      BY <2>3, <3>1, <3>4, <3>5 DEF Truthful, Own, Knowing
    <3>7. pc'[r] = "next" /\ net'[r] = "none" /\ cmd'[r] = "run" /\ UNCHANGED <<rows, lock>>
      BY <2>1, <2>3 DEF At, Typed, Queries
    <3>8. Own(r)'
      BY <3>6, <3>7 DEF Own, Holding, Carrying, Knowing, InHand, AtScript, AtRecord, AtCommit
    <3> QED
      BY <3>3, <3>8
  <2>4. Kept' /\ Own(r)'
    BY <1>11, <2>2, <2>3 DEF Committed, Answered, Goes, Error
  <2>5. ASSUME NEW s \in Runners, s # r PROVE Still(s)
    BY <1>11, <2>5 DEF Committed, Answered, At, Goes, Error, Bad, Still, Kept, Typed
  <2>6. RowsMatch'
    BY <2>1 DEF RowsMatch, Truthful
  <2> QED
    BY <2>4, <2>5, <2>6, OthersOwn DEF Truthful
<1>12. ASSUME NEW r \in Runners, RolledBack(r) PROVE Kept' /\ Truthful'
  <2>1. Kept'
    BY <1>12 DEF RolledBack, Answered, At, Goes, Error, Bad, Kept, Typed, Work, NoWork
  <2>2. Own(r)'
    BY <1>12 DEF RolledBack, Answered, At, Goes, Error, Bad, Truthful, Typed, Kept, Alternate, Placed, Scoped, Own, Holding, Carrying, Knowing, Recorded, InHand, AtScript, AtRecord, AtCommit, File, Step
  <2>3. ASSUME NEW s \in Runners, s # r PROVE Still(s)
    BY <1>12, <2>3 DEF RolledBack, Answered, At, Goes, Error, Bad, Still, Kept, Typed
  <2>4. RowsMatch'
    BY <1>12 DEF RolledBack, Answered, At, Goes, Error, Bad, RowsMatch, Truthful
  <2> QED
    BY <2>1, <2>2, <2>3, <2>4, OthersOwn DEF Truthful
<1>13. ASSUME NEW r \in Runners, Unlocked(r) PROVE Kept' /\ Truthful'
  <2>1. Kept'
    BY <1>13 DEF Unlocked, Answered, At, Goes, Error, Bad, Kept, Typed, Work, NoWork
  <2>2. Own(r)'
    BY <1>13 DEF Unlocked, Answered, At, Goes, Error, Bad, Truthful, Typed, Kept, Alternate, Placed, Scoped, Own, Holding, Carrying, Knowing, Recorded, InHand, AtScript, AtRecord, AtCommit, File, Step
  <2>3. ASSUME NEW s \in Runners, s # r PROVE Still(s)
    BY <1>13, <2>3 DEF Unlocked, Answered, At, Goes, Error, Bad, Still, Kept, Typed
  <2>4. RowsMatch'
    BY <1>13 DEF Unlocked, Answered, At, Goes, Error, Bad, RowsMatch, Truthful
  <2> QED
    BY <2>1, <2>2, <2>3, <2>4, OthersOwn DEF Truthful
<1>14. ASSUME NEW r \in Runners, ExecLock(r) PROVE Kept' /\ Truthful'
  <2>1. Kept'
    BY <1>14 DEF ExecLock, Reply, Asks, Kept, Typed, Work, NoWork
  <2>2. Own(r)'
    BY <1>14 DEF ExecLock, Reply, Asks, Truthful, Typed, Kept, Alternate, Placed, Scoped, Own, Holding, Carrying, Knowing, Recorded, InHand, AtScript, AtRecord, AtCommit, File, Step
  <2>3. ASSUME NEW s \in Runners, s # r PROVE Still(s)
    BY <1>14, <2>3 DEF ExecLock, Reply, Asks, Still, Kept, Typed
  <2>4. RowsMatch'
    BY <1>14 DEF ExecLock, Reply, Asks, RowsMatch, Truthful
  <2> QED
    BY <2>1, <2>2, <2>3, <2>4, OthersOwn DEF Truthful
<1>15. ASSUME NEW r \in Runners, ExecTableLook(r) PROVE Kept' /\ Truthful'
  <2>1. Kept'
    BY <1>15 DEF ExecTableLook, Reply, Asks, Kept, Typed, Work, NoWork
  <2>2. Own(r)'
    BY <1>15 DEF ExecTableLook, Reply, Asks, Truthful, Typed, Kept, Alternate, Placed, Scoped, Own, Holding, Carrying, Knowing, Recorded, InHand, AtScript, AtRecord, AtCommit, File, Step
  <2>3. ASSUME NEW s \in Runners, s # r PROVE Still(s)
    BY <1>15, <2>3 DEF ExecTableLook, Reply, Asks, Still, Kept, Typed
  <2>4. RowsMatch'
    BY <1>15 DEF ExecTableLook, Reply, Asks, RowsMatch, Truthful
  <2> QED
    BY <2>1, <2>2, <2>3, <2>4, OthersOwn DEF Truthful
<1>16. ASSUME NEW r \in Runners, ExecTableEnter(r) PROVE Kept' /\ Truthful'
  <2>1. Kept'
    BY <1>16 DEF ExecTableEnter, Reply, Asks, Kept, Typed, Work, NoWork
  <2>2. Own(r)'
    BY <1>16 DEF ExecTableEnter, Reply, Asks, Truthful, Typed, Kept, Alternate, Placed, Scoped, Own, Holding, Carrying, Knowing, Recorded, InHand, AtScript, AtRecord, AtCommit, File, Step
  <2>3. ASSUME NEW s \in Runners, s # r PROVE Still(s)
    BY <1>16, <2>3 DEF ExecTableEnter, Reply, Asks, Still, Kept, Typed
  <2>4. RowsMatch'
    BY <1>16 DEF ExecTableEnter, Reply, Asks, RowsMatch, Truthful
  <2> QED
    BY <2>1, <2>2, <2>3, <2>4, OthersOwn DEF Truthful
<1>17. ASSUME NEW r \in Runners, ExecRead(r) PROVE Kept' /\ Truthful'
  <2>1. Kept'
    BY <1>17 DEF ExecRead, Kept
  <2>2. Own(r)'
    <3>1. /\ UNCHANGED <<cmd, pc, todo, done, work, rows, made, txn, lock>>
          /\ pc[r] = "read" /\ net' = [net EXCEPT ![r] = "ok"]
      BY <1>17 DEF ExecRead, Asks, Reply
    <3>2. cmd[r] = "revert" => \A v \in seen'[r] : \E x \in rows : x.version = v
      BY <1>17 DEF ExecRead, Latest, Kept
    <3> QED
      BY <3>1, <3>2 DEF Typed, Truthful, Own, Holding, Carrying, Knowing, Recorded, InHand, AtScript, AtRecord, AtCommit
  <2>3. ASSUME NEW s \in Runners, s # r PROVE Still(s)
    BY <1>17, <2>3 DEF ExecRead, Reply, Asks, Still, Kept, Typed
  <2>4. RowsMatch'
    BY <1>17 DEF ExecRead, Reply, Asks, RowsMatch, Truthful
  <2> QED
    BY <2>1, <2>2, <2>3, <2>4, OthersOwn DEF Truthful
<1>18. ASSUME NEW r \in Runners, ExecBegin(r) PROVE Kept' /\ Truthful'
  <2>1. Kept'
    BY <1>18 DEF ExecBegin, Reply, Asks, Kept
  <2>2. Own(r)'
    <3>1. /\ UNCHANGED <<cmd, pc, todo, done, seen, work, rows, made, lock>>
          /\ pc[r] = "begin" /\ net[r] = "sent" /\ net'[r] = "ok"
      BY <1>18 DEF ExecBegin, Asks, Reply, Typed
    <3>2. txn'[r] = "open"
      BY <1>18, <3>1 DEF ExecBegin, Typed, Alternate, Scoped
    <3>3. Holding(r)' /\ Carrying(r)'
      BY <3>1, <3>2 DEF Truthful, Own, Holding, Carrying, InHand, AtScript, AtRecord, AtCommit
    <3>4. Knowing(r)'
      BY <3>1 DEF Truthful, Own, Knowing, Recorded, File, AtScript, AtRecord, AtCommit
    <3> QED
      BY <3>3, <3>4 DEF Own
  <2>3. ASSUME NEW s \in Runners, s # r PROVE Still(s)
    BY <1>18, <2>3 DEF ExecBegin, Reply, Asks, Still, Kept, Typed
  <2>4. RowsMatch'
    BY <1>18 DEF ExecBegin, Reply, Asks, RowsMatch, Truthful
  <2> QED
    BY <2>1, <2>2, <2>3, <2>4, OthersOwn DEF Truthful
<1>19. ASSUME NEW r \in Runners, ExecScript(r) PROVE Kept' /\ Truthful'
  <2>1. /\ UNCHANGED <<cmd, pc, todo, done, seen, rows, lock>>
        /\ pc[r] = "script" /\ net[r] = "sent" /\ net' = [net EXCEPT ![r] = "ok"]
    BY <1>19 DEF ExecScript, Asks, Reply
  <2>2. /\ txn[r] = "open" /\ work[r] = NoWork /\ File(r) \in Files /\ Step(r) \in {-1, 1}
        /\ cmd[r] \in {"run", "revert"} /\ Holding(r) /\ Knowing(r)
    <3>1. pc[r] \in InHand /\ AtScript(r)
      BY <2>1 DEF InHand, AtScript
    <3> QED
      BY <2>1, <3>1, FileInHand DEF Truthful, Own, Carrying, Alternate, Scoped, Step
  <2>3. File(r)' = File(r) /\ Step(r)' = Step(r) /\ pc'[r] = "script" /\ net'[r] = "ok" /\ AtScript(r)
    BY <2>1 DEF File, Step, Typed, AtScript
  <2>4. Holding(r)' /\ Knowing(r)'
    BY <2>1, <2>2, <2>3 DEF Holding, Knowing, InHand, Recorded, AtScript, AtRecord, AtCommit
  <2>5. ASSUME NEW s \in Runners, s # r PROVE Still(s)
    BY <1>19, <2>1, <2>5 DEF ExecScript, Still, Kept, Typed
  <2>6. CASE File(r).commits
    <3>1. /\ made' = [made EXCEPT ![File(r)] = @ + Step(r)]
          /\ txn' = [txn EXCEPT ![r] = "none"] /\ work' = work
      BY <1>19, <2>6 DEF ExecScript
    <3>2. Kept'
      BY <2>1, <2>2, <3>1 DEF Kept
    <3>3. Carrying(r)'
      BY <2>3, <2>6, <3>1 DEF Carrying, AtScript, AtRecord, AtCommit, Typed
    <3>4. RowsMatch'
      BY <2>1, <2>2, <2>6, <3>1 DEF Truthful, RowsMatch, Alone, Kept
    <3> QED
      BY <2>4, <2>5, <3>2, <3>3, <3>4, OthersOwn DEF Truthful, Own
  <2>7. CASE ~File(r).commits
    <3>1. /\ UNCHANGED <<txn, made>>
          /\ work' = [work EXCEPT ![r] = [file |-> File(r), step |-> Step(r), row |-> None]]
      BY <1>19, <2>2, <2>7 DEF ExecScript, NoWork
    <3>2. Kept'
      BY <2>1, <2>2, <3>1 DEF Kept, Work
    <3>3. work'[r] = [file |-> File(r), step |-> Step(r), row |-> None] /\ txn'[r] = "open"
      BY <2>2, <3>1 DEF Kept
    <3>4. Carrying(r)'
      BY <2>3, <2>7, <3>3 DEF Carrying, AtScript, AtRecord, AtCommit
    <3>5. RowsMatch'
      BY <2>1, <3>1 DEF Truthful, RowsMatch
    <3> QED
      BY <2>4, <2>5, <3>2, <3>4, <3>5, OthersOwn DEF Truthful, Own
  <2> QED
    BY <2>6, <2>7
<1>20. ASSUME NEW r \in Runners, ExecRecord(r) PROVE Kept' /\ Truthful'
  <2>1. /\ UNCHANGED <<cmd, pc, todo, done, seen, made, lock>>
        /\ pc[r] = "record" /\ net[r] = "sent"
    BY <1>20 DEF ExecRecord, Asks
  <2> DEFINE w  == [add |-> cmd[r] = "run", row |-> Row(File(r))]
             ok == txn[r] # "failed" /\ (w.add => \A x \in rows : x.version # w.row.version)
  <2>2. /\ lock = r /\ File(r) \in Files /\ Step(r) \in {-1, 1} /\ cmd[r] \in {"run", "revert"}
        /\ Holding(r) /\ Carrying(r) /\ Knowing(r) /\ AtRecord(r)
    <3>1. pc[r] \in InHand /\ AtRecord(r)
      BY <2>1 DEF InHand, AtRecord
    <3> QED
      BY <2>1, <3>1, FileInHand DEF Truthful, Own, Alternate, Guarded, Placed, Labels, Step
  <2>3. File(r)' = File(r) /\ Step(r)' = Step(r) /\ pc'[r] = "record"
    BY <2>1 DEF File, Step
  <2>4. Holding(r)'
    BY <2>1, <2>2 DEF Holding
  <2>5. ASSUME NEW s \in Runners, s # r PROVE Still(s)
    <3>1. UNCHANGED <<net[s], txn[s], work[s]>>
      BY <1>20, <2>5, Zenon DEF ExecRecord, Reply, Typed, Kept
    <3> QED
      BY <2>1, <2>2, <2>5, <3>1 DEF Still
  <2>6. CASE ~ok
    <3>1. net' = [net EXCEPT ![r] = "error"] /\ UNCHANGED <<work, rows>>
      BY <1>20, <2>6 DEF ExecRecord, Reply
    <3>2. Kept' /\ RowsMatch'
      BY <2>1, <3>1 DEF Kept, Truthful, RowsMatch
    <3>3. net'[r] = "error"
      BY <3>1 DEF Typed
    <3>4. Carrying(r)' /\ Knowing(r)'
      BY <2>1, <2>2, <2>3, <3>1, <3>3 DEF Carrying, Knowing, AtScript, AtRecord, AtCommit
    <3> QED
      BY <2>4, <2>5, <3>2, <3>4, OthersOwn DEF Truthful, Own
  <2>7. CASE ok /\ ~File(r).commits
    <3>1. txn[r] = "open" /\ work[r] = [file |-> File(r), step |-> Step(r), row |-> None]
      BY <2>2, <2>7 DEF Carrying
    <3>2. /\ net' = [net EXCEPT ![r] = "ok"] /\ UNCHANGED <<txn, rows>>
          /\ work' = [work EXCEPT ![r] = [file |-> File(r), step |-> Step(r), row |-> w]]
      BY <1>20, <2>7, <3>1 DEF ExecRecord, Reply
    <3>3. w \in Change
      BY <2>2 DEF Change, Row, FileType
    <3>4. Kept'
      BY <2>1, <2>2, <3>2, <3>3 DEF Kept, Work
    <3>5. /\ work'[r] = [file |-> File(r), step |-> Step(r), row |-> w]
          /\ net'[r] = "ok" /\ txn'[r] = "open" /\ w = [add |-> cmd'[r] = "run", row |-> Row(File(r))]
      BY <2>1, <3>1, <3>2 DEF Kept, Typed
    <3>6. Carrying(r)'
      BY <2>3, <2>7, <3>5 DEF Carrying, AtScript, AtRecord, AtCommit
    <3>7. cmd[r] = "run" => ~Recorded(File(r).version)
      BY <2>7 DEF Recorded, Row
    <3>8. Knowing(r)'
      BY <2>1, <2>2, <2>3, <2>7, <3>2, <3>5, <3>7 DEF Knowing, Recorded, AtScript, AtRecord, AtCommit
    <3>9. RowsMatch'
      BY <2>1, <3>2 DEF Truthful, RowsMatch
    <3> QED
      BY <2>4, <2>5, <3>4, <3>6, <3>8, <3>9, OthersOwn DEF Truthful, Own
  <2>8. CASE ok /\ File(r).commits
    <3>1. txn[r] = "none"
      BY <2>2, <2>8 DEF Carrying
    <3>2. net' = [net EXCEPT ![r] = "ok"] /\ UNCHANGED <<txn, work>> /\ rows' = Applied(w)
      BY <1>20, <2>8, <3>1 DEF ExecRecord, Reply
    <3>3. rows' = IF cmd[r] = "run" THEN rows \cup {Row(File(r))}
                  ELSE {x \in rows : x.version # File(r).version}
      BY <2>2, <3>2, AppliedRows
    <3>4. Kept'
      BY <2>1, <2>2, <3>2, <3>3 DEF Kept
    <3>5. net'[r] = "ok" /\ txn'[r] = "none"
      BY <3>1, <3>2 DEF Typed
    <3>6. Carrying(r)'
      BY <2>3, <2>8, <3>5 DEF Carrying, AtScript, AtRecord, AtCommit
    <3>7. Knowing(r)'
      BY <2>1, <2>2, <2>3, <2>8, <3>3, <3>5 DEF Knowing, AtScript, AtRecord, AtCommit
    <3>8. RowsMatch'
      <4> SUFFICES ASSUME NEW h \in Files, Alone(h)
                   PROVE  Row(h) \in rows' <=> Row(h) \in rows
        BY <2>1 DEF Truthful, RowsMatch
      <4>1. h.version # File(r).version
        BY <2>2, <2>8 DEF Alone
      <4> QED
        BY <3>3, <4>1 DEF Row
    <3> QED
      BY <2>4, <2>5, <3>4, <3>6, <3>7, <3>8, OthersOwn DEF Truthful, Own
  <2> QED
    BY <2>6, <2>7, <2>8
<1>21. ASSUME NEW r \in Runners, ExecCommit(r) PROVE Kept' /\ Truthful'
  <2>1. /\ UNCHANGED <<cmd, pc, todo, done, seen, lock>>
        /\ pc[r] = "commit" /\ net[r] = "sent" /\ net' = [net EXCEPT ![r] = "ok"]
        /\ txn' = [txn EXCEPT ![r] = "none"] /\ work' = [work EXCEPT ![r] = NoWork]
    BY <1>21 DEF ExecCommit, Asks, Reply
  <2> DEFINE w == [add |-> cmd[r] = "run", row |-> Row(File(r))]
  <2>2. /\ lock = r /\ File(r) \in Files /\ Step(r) \in {-1, 1} /\ cmd[r] \in {"run", "revert"}
        /\ Holding(r) /\ Carrying(r) /\ Knowing(r) /\ AtCommit(r)
    <3>1. pc[r] \in InHand /\ AtCommit(r)
      BY <2>1 DEF InHand, AtCommit
    <3> QED
      BY <2>1, <3>1, FileInHand DEF Truthful, Own, Alternate, Guarded, Placed, Labels, Step
  <2>3. File(r)' = File(r) /\ pc'[r] = "commit" /\ net'[r] = "ok"
    BY <2>1 DEF File, Typed
  <2>4. Holding(r)' /\ Carrying(r)'
    BY <2>1, <2>2, <2>3 DEF Holding, Carrying, AtScript, AtRecord, AtCommit
  <2>5. ASSUME NEW s \in Runners, s # r PROVE Still(s)
    BY <2>1, <2>2, <2>5 DEF Still, Kept, Typed
  <2>6. CASE File(r).commits
    <3>1. UNCHANGED <<rows, made>>
      BY <1>21, <2>2, <2>6 DEF ExecCommit, Carrying
    <3>2. Kept' /\ RowsMatch'
      BY <2>1, <3>1 DEF Kept, Work, NoWork, Truthful, RowsMatch
    <3>3. Knowing(r)'
      BY <2>1, <2>2, <2>3, <2>6, <3>1 DEF Knowing, AtScript, AtRecord, AtCommit
    <3> QED
      BY <2>4, <2>5, <3>2, <3>3, OthersOwn DEF Truthful, Own
  <2>7. CASE ~File(r).commits
    <3>1. txn[r] = "open" /\ work[r] = [file |-> File(r), step |-> Step(r), row |-> w]
      BY <2>2, <2>7 DEF Carrying
    <3>2. rows' = Applied(w) /\ made' = [made EXCEPT ![File(r)] = @ + Step(r)]
      BY <1>21, <2>2, <3>1, MigrateAssumption DEF ExecCommit
    <3>3. rows' = IF cmd[r] = "run" THEN rows \cup {Row(File(r))}
                  ELSE {x \in rows : x.version # File(r).version}
      BY <2>2, <3>2, AppliedRows
    <3>4. Kept'
      BY <2>1, <2>2, <3>2, <3>3 DEF Kept, Work, NoWork
    <3>5. Knowing(r)'
      BY <2>1, <2>2, <2>3, <2>7, <3>3 DEF Knowing, AtScript, AtRecord, AtCommit
    <3>6. ASSUME NEW h \in Files, Alone(h)
          PROVE  made'[h] = IF Row(h) \in rows' THEN 1 ELSE 0
      <4>1. made[h] = IF Row(h) \in rows THEN 1 ELSE 0
        BY <3>6 DEF Truthful, RowsMatch
      <4>2. CASE h # File(r)
        <5>1. h.version # File(r).version
          BY <2>2, <3>6, <4>2 DEF Alone
        <5>2. made'[h] = made[h]
          BY <3>2, <4>2 DEF Kept
        <5>3. Row(h) \in rows' <=> Row(h) \in rows
          BY <3>3, <5>1 DEF Row
        <5> QED
          BY <4>1, <5>2, <5>3
      <4>3. CASE h = File(r) /\ cmd[r] = "run"
        <5>1. Row(h) \notin rows
          BY <2>2, <2>7, <4>3 DEF Knowing, Recorded, Row
        <5>2. made'[h] = made[h] + 1
          BY <2>2, <3>2, <4>3 DEF Kept, Step
        <5> QED
          BY <3>3, <4>1, <4>3, <5>1, <5>2
      <4>4. CASE h = File(r) /\ cmd[r] = "revert"
        <5>1. PICK x \in rows : x.version = h.version
          BY <2>2, <2>7, <4>4 DEF Knowing, Recorded
        <5>2. PICK g \in Files : x = Row(g)
          BY DEF Kept
        <5>3. g = h
          BY <3>6, <5>1, <5>2 DEF Alone, Row
        <5>4. made'[h] = made[h] - 1
          BY <2>2, <3>2, <4>4 DEF Kept, Step
        <5>5. Row(h) \notin rows'
          BY <3>3, <4>4 DEF Row
        <5> QED
          BY <4>1, <5>2, <5>3, <5>4, <5>5
      <4> QED
        BY <2>2, <4>2, <4>3, <4>4
    <3>7. RowsMatch'
      BY <3>6 DEF RowsMatch
    <3> QED
      BY <2>4, <2>5, <3>4, <3>5, <3>7, OthersOwn DEF Truthful, Own
  <2> QED
    BY <2>6, <2>7
<1>22. ASSUME NEW r \in Runners, ExecRollback(r) PROVE Kept' /\ Truthful'
  <2>1. Kept'
    BY <1>22 DEF ExecRollback, Reply, Asks, Kept, Typed, Work, NoWork
  <2>2. Own(r)'
    BY <1>22 DEF ExecRollback, Reply, Asks, Truthful, Typed, Kept, Alternate, Placed, Scoped, Own, Holding, Carrying, Knowing, Recorded, InHand, AtScript, AtRecord, AtCommit, File, Step
  <2>3. ASSUME NEW s \in Runners, s # r PROVE Still(s)
    BY <1>22, <2>3 DEF ExecRollback, Reply, Asks, Still, Kept, Typed
  <2>4. RowsMatch'
    BY <1>22 DEF ExecRollback, Reply, Asks, RowsMatch, Truthful
  <2> QED
    BY <2>1, <2>2, <2>3, <2>4, OthersOwn DEF Truthful
<1>23. ASSUME NEW r \in Runners, ExecUnlock(r) PROVE Kept' /\ Truthful'
  <2>1. Kept'
    BY <1>23 DEF ExecUnlock, Reply, Asks, Kept, Typed, Work, NoWork
  <2>2. Own(r)'
    BY <1>23 DEF ExecUnlock, Reply, Asks, Truthful, Typed, Kept, Alternate, Placed, Scoped, Own, Holding, Carrying, Knowing, Recorded, InHand, AtScript, AtRecord, AtCommit, File, Step
  <2>3. ASSUME NEW s \in Runners, s # r PROVE Still(s)
    BY <1>23, <2>3 DEF ExecUnlock, Reply, Asks, Still, Kept, Typed
  <2>4. RowsMatch'
    BY <1>23 DEF ExecUnlock, Reply, Asks, RowsMatch, Truthful
  <2> QED
    BY <2>1, <2>2, <2>3, <2>4, OthersOwn DEF Truthful
<1>24. ASSUME NEW r \in Runners, Hangup(r) PROVE Kept' /\ Truthful'
  <2>1. Kept'
    BY <1>24 DEF Hangup, Ended, Kept, Typed, Work, NoWork
  <2>2. Own(r)'
    BY <1>24 DEF Hangup, Ended, Truthful, Typed, Kept, Alternate, Placed, Scoped, Own, Holding, Carrying, Knowing, Recorded, InHand, AtScript, AtRecord, AtCommit, File, Step
  <2>3. ASSUME NEW s \in Runners, s # r PROVE Still(s)
    BY <1>24, <2>3 DEF Hangup, Ended, Still, Kept, Typed
  <2>4. RowsMatch'
    BY <1>24 DEF Hangup, Ended, RowsMatch, Truthful
  <2> QED
    BY <2>1, <2>2, <2>3, <2>4, OthersOwn DEF Truthful
<1>25. ASSUME NEW r \in Runners, Start(r) PROVE Kept' /\ Truthful'
  <2>1. Kept'
    BY <1>25 DEF Start, At, FirstQuery, Kept, Typed, Work, NoWork
  <2>2. Own(r)'
    BY <1>25 DEF Start, At, FirstQuery, Truthful, Typed, Kept, Alternate, Placed, Scoped, Own, Holding, Carrying, Knowing, Recorded, InHand, AtScript, AtRecord, AtCommit, File, Step
  <2>3. ASSUME NEW s \in Runners, s # r PROVE Still(s)
    BY <1>25, <2>3 DEF Start, At, FirstQuery, Still, Kept, Typed
  <2>4. RowsMatch'
    BY <1>25 DEF Start, At, FirstQuery, RowsMatch, Truthful
  <2> QED
    BY <2>1, <2>2, <2>3, <2>4, OthersOwn DEF Truthful
<1>26. ASSUME NEW r \in Runners, FileFails(r) PROVE Kept' /\ Truthful'
  <2>1. Kept'
    BY <1>26 DEF FileFails, At, Goes, Error, Kept, Typed, Work, NoWork
  <2>2. Own(r)'
    BY <1>26 DEF FileFails, At, Goes, Error, Truthful, Typed, Kept, Alternate, Placed, Scoped, Own, Holding, Carrying, Knowing, Recorded, InHand, AtScript, AtRecord, AtCommit, File, Step
  <2>3. ASSUME NEW s \in Runners, s # r PROVE Still(s)
    BY <1>26, <2>3 DEF FileFails, At, Goes, Error, Still, Kept, Typed
  <2>4. RowsMatch'
    BY <1>26 DEF FileFails, At, Goes, Error, RowsMatch, Truthful
  <2> QED
    BY <2>1, <2>2, <2>3, <2>4, OthersOwn DEF Truthful
<1>27. ASSUME NEW r \in Runners, Die(r) PROVE Kept' /\ Truthful'
  <2>1. Kept'
    BY <1>27 DEF Die, Kept, Typed, Work, NoWork
  <2>2. Own(r)'
    BY <1>27 DEF Die, Truthful, Typed, Kept, Alternate, Placed, Scoped, Own, Holding, Carrying, Knowing, Recorded, InHand, AtScript, AtRecord, AtCommit, File, Step
  <2>3. ASSUME NEW s \in Runners, s # r PROVE Still(s)
    BY <1>27, <2>3 DEF Die, Still, Kept, Typed
  <2>4. RowsMatch'
    BY <1>27 DEF Die, RowsMatch, Truthful
  <2> QED
    BY <2>1, <2>2, <2>3, <2>4, OthersOwn DEF Truthful
<1>28. ASSUME NEW r \in Runners, ExecRefused(r) PROVE Kept' /\ Truthful'
  <2>1. Kept'
    BY <1>28 DEF ExecRefused, Reply, Kept, Typed, Work, NoWork
  <2>2. Own(r)'
    BY <1>28 DEF ExecRefused, Reply, Truthful, Typed, Kept, Alternate, Placed, Scoped, Own, Holding, Carrying, Knowing, Recorded, InHand, AtScript, AtRecord, AtCommit, File, Step
  <2>3. ASSUME NEW s \in Runners, s # r PROVE Still(s)
    BY <1>28, <2>3 DEF ExecRefused, Reply, Still, Kept, Typed
  <2>4. RowsMatch'
    BY <1>28 DEF ExecRefused, Reply, RowsMatch, Truthful
  <2> QED
    BY <2>1, <2>2, <2>3, <2>4, OthersOwn DEF Truthful
<1>29. ASSUME NEW r \in Runners, Terminate(r) PROVE Kept' /\ Truthful'
  <2>1. Kept'
    BY <1>29 DEF Terminate, Ended, Kept, Typed, Work, NoWork
  <2>2. Own(r)'
    BY <1>29 DEF Terminate, Ended, Truthful, Typed, Kept, Alternate, Placed, Scoped, Own, Holding, Carrying, Knowing, Recorded, InHand, AtScript, AtRecord, AtCommit, File, Step
  <2>3. ASSUME NEW s \in Runners, s # r PROVE Still(s)
    BY <1>29, <2>3 DEF Terminate, Ended, Still, Kept, Typed
  <2>4. RowsMatch'
    BY <1>29 DEF Terminate, Ended, RowsMatch, Truthful
  <2> QED
    BY <2>1, <2>2, <2>3, <2>4, OthersOwn DEF Truthful
<1>30. CASE UNCHANGED vars
  <2>1. Kept' /\ RowsMatch'
    BY <1>30 DEF vars, Kept, RowsMatch, Truthful
  <2>2. ASSUME NEW s \in Runners PROVE Still(s)
    BY <1>30 DEF vars, Still
  <2> QED
    BY <2>1, <2>2, OthersOwn DEF Truthful
<1> QED
  BY <1>1, <1>2, <1>3, <1>4, <1>5, <1>6, <1>7, <1>8, <1>9, <1>10, <1>11, <1>12, <1>13, <1>14, <1>15, <1>16, <1>17, <1>18, <1>19, <1>20, <1>21, <1>22, <1>23, <1>24, <1>25, <1>26, <1>27, <1>28, <1>29, <1>30 DEF Next, Works, Serves

LEMMA TruthfulHolds == Spec => [](Typed /\ Alternate /\ Kept /\ Truthful)
BY InitAlternate, StepAlternate, InitTruthful, StepTruthful, PTL DEF Spec

\* A migration is in the database once if its row is in the table and not at all otherwise,
\* whoever dies and whatever fails, and what run reports is recorded (migrate.rs:162-201,
\* 238-297).
THEOREM TableTellsTheTruth == Spec => []RecordsTruthful
<1>1. Truthful => RecordsTruthful
  BY DEF Truthful, Own, Knowing, RecordsTruthful, ReportedRecorded
<1> QED
  BY <1>1, TruthfulHolds, PTL
=============================================================================
