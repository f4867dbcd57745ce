-------------------------- MODULE SessionProperties --------------------------
(***************************************************************************)
(* What the users of one connection may rely on, stated over Session.      *)
(***************************************************************************)
EXTENDS Session

-----------------------------------------------------------------------------
\* The request the server executes in this step.
Executes(r) == Len(answers') > Len(answers) /\ r = Head(todo)

\* The statements of a checkout run in a session without locks, settings or an open
\* transaction of an earlier one, as long as no DISCARD ALL was rejected: the flag is
\* set before the request is queued, and DISCARD ALL is queued after everything that
\* earlier checkouts left in the queue (pooled.rs:151-216, async_wire.rs:77-103).
OwnSession ==
  [][\A r \in {todo[i] : i \in DOMAIN todo} :
       Executes(r) /\ r.by # 0 /\ "DISCARD" \notin rejected =>
         begun \in {None, r.by} /\ effects \subseteq {r.by}]_vars

\* DISCARD ALL is rejected only if the future of a begin, commit, rollback or atomic
\* was dropped on the way, or a cancel request came late: dropping a transaction
\* guard, with or without a queued ROLLBACK, never leads to it (pooled.rs:307-316).
GuardDropRestores == "DISCARD" \in rejected => abandoned \/ struck

\* The work of a transaction is committed only if its commit was called, and of a
\* savepoint only if its closure had succeeded, unless a future was dropped on the way, a BEGIN
\* was rejected, or the ROLLBACK of an earlier guard could not be queued: then the user
\* still has the client, and the next BEGIN joins what is open (pooled.rs:383-405,
\* executor.rs:379-533).
OnlyCommitCommits ==
  \A n \in committed \ {0} : n \in asked \/ abandoned \/ broken \/ "BEGIN" \in rejected

\* A statement of a transaction never runs outside of one, whatever was dropped before
\* it, unless a cancel request came late: no stray COMMIT or ROLLBACK ends it early
\* (executor.rs:379-533, pooled.rs:371-405).
WorkInTransaction ==
  [][\A r \in {todo[i] : i \in DOMAIN todo} :
       Executes(r) /\ r.stmt = "work" /\ r.scope # 0 => txn # "idle" \/ struck]_vars

-----------------------------------------------------------------------------
\* "If the reset fails, the connection is destroyed" (async_wire.rs:74-76).
ResetOrDestroyed == holder = "none" => "DISCARD" \notin rejected
=============================================================================
