------------------------------- MODULE Session -------------------------------
(***************************************************************************)
(* One connection of an exclusive pool and the sessions of its users:      *)
(* PooledClient and PooledTransaction (src/resolute/src/pooled.rs), atomic *)
(* of both (executor.rs), and the reset when it is returned                *)
(* (src/pg-pool/src/async_wire.rs).                                        *)
(*                                                                         *)
(* What a user of the pool can do wrong is to drop a future.  Requests     *)
(* that were queued before are executed all the same, transactions that    *)
(* are open stay open, and the next user gets the connection.              *)
(*                                                                         *)
(* AsyncConn is taken as PipelineContract has it: requests are executed    *)
(* and answered in the order in which they were queued.  The server is     *)
(* modelled from what the code expects of the statements it sends.         *)
(***************************************************************************)
EXTENDS Naturals, Sequences, FiniteSets

CONSTANTS
  VisitBound,     \* bound on the number of checkouts
  CallBound,      \* bound on the statements and cancel requests of all checkouts
  None

ASSUME BoundAssumption ==
  /\ VisitBound \in Nat /\ CallBound \in Nat
  /\ None \notin Nat

VARIABLES
  holder,         \* "none" (idle in the pool), "client" or "pool" (being returned)
  visit,          \* the checkouts so far: the last one has the connection
  calls,          \* statements and cancel requests so far
  pc, op,         \* where the holder's future stands, and what it runs
  kind, scope,    \* "guard" or "atomic", and the numbers of the open scopes
  scopes,         \* how many transactions and savepoints were begun
  mutated, broken, alive,      \* the flags of AsyncConn
  todo, answers,  \* requests not yet executed; answers not yet read
  txn, begun,     \* the transaction of the session, and the visit that began it
  dirty, saved,   \* the scopes that did work in it; its last savepoint, with those before it
  effects,        \* the visits that left locks or settings in the session
  committed,      \* the scopes whose work the last statement made permanent
  lost,           \* the socket is dead
  cancel,         \* a cancel request is on its way
  asked,          \* history: scopes that were to be kept
  abandoned,      \* history: a transaction was left in the middle by a dropped future
  struck,         \* history: a cancel request has hit a statement
  rejected        \* history: BEGIN and DISCARD ALL that failed and were told to be well

clientVars  == <<visit, calls, kind, scope, scopes, asked>>
flagVars    == <<mutated, broken, alive>>
serverVars  == <<txn, begun, dirty, saved, effects, committed>>
cancelVars  == <<cancel, struck>>
vars == <<holder, pc, op, clientVars, flagVars, todo, answers, serverVars, lost, cancelVars,
          abandoned, rejected>>

\* Variant: a nested atomic ends like one that is not nested.
Stmt_NestedCommits(o) ==
  CASE o \in {"begin", "atomic"}                -> "BEGIN"
    [] o \in {"commit", "succeed", "release"}   -> "COMMIT"
    [] o \in {"rollback", "fail"}               -> "ROLLBACK"
    [] o = "nest"                               -> "SAVEPOINT"
    [] o = "undo"                               -> "ROLLBACK TO"
    [] o = "reset"                              -> "DISCARD"
    [] OTHER                                    -> o

\* The statement of a call.
Stmt(o) ==
  CASE o \in {"begin", "atomic"}     -> "BEGIN"
    [] o \in {"commit", "succeed"}   -> "COMMIT"
    [] o \in {"rollback", "fail"}    -> "ROLLBACK"
    [] o = "nest"                    -> "SAVEPOINT"
    [] o = "release"                 -> "RELEASE"
    [] o = "undo"                    -> "ROLLBACK TO"
    [] o = "reset"                   -> "DISCARD"
    [] OTHER                         -> o

Plain    == {"work", "lock"}
Controls == {"BEGIN", "COMMIT", "ROLLBACK", "SAVEPOINT", "RELEASE", "ROLLBACK TO", "DISCARD"}
Calls    == Plain \cup {"begin", "atomic", "commit", "succeed", "rollback", "fail", "nest", "release", "undo"}

ASSUME NoneAssumption == None \notin Calls \cup {"reset"}

\* The scope in which a statement runs; 0 is none.
Here == IF scope = <<>> THEN 0 ELSE scope[Len(scope)]

NoSavepoint == [scope |-> 0, dirty |-> {}]

\* A session nobody has used.
Clean ==
  /\ mutated' = FALSE /\ broken' = FALSE /\ alive' = TRUE /\ lost' = FALSE
  /\ todo' = <<>> /\ answers' = <<>>
  /\ txn' = "idle" /\ begun' = None /\ dirty' = {} /\ saved' = NoSavepoint /\ effects' = {}
  /\ scopes' = 0 /\ asked' = {} /\ committed' = {}
  /\ cancel' = FALSE /\ struck' = FALSE /\ abandoned' = FALSE /\ rejected' = {}

Init ==
  /\ holder = "none" /\ visit = 0 /\ calls = 0 /\ pc = "ready" /\ op = None
  /\ kind = "none" /\ scope = <<>> /\ scopes = 0
  /\ mutated = FALSE /\ broken = FALSE /\ alive = TRUE /\ lost = FALSE
  /\ todo = <<>> /\ answers = <<>>
  /\ txn = "idle" /\ begun = None /\ dirty = {} /\ saved = NoSavepoint /\ effects = {}
  /\ committed = {} /\ asked = {}
  /\ cancel = FALSE /\ struck = FALSE /\ abandoned = FALSE /\ rejected = {}

-----------------------------------------------------------------------------
(* The user of the connection.                                             *)

Checkout ==
  /\ holder = "none" /\ visit < VisitBound
  /\ holder' = "client" /\ visit' = visit + 1
  /\ UNCHANGED <<pc, op, calls, kind, scope, scopes, asked, flagVars, todo, answers, serverVars, lost,
                 cancelVars, abandoned, rejected>>

\* What may be called where: the client by itself, on a PooledTransaction, in the
\* closure of atomic, in the closure of atomic on a PooledTransaction.
Allowed ==
  Plain \cup
  CASE kind = "none"    -> {"begin", "atomic"}
    [] kind = "atomic"  -> {"succeed", "fail"}
    [] Len(scope) = 2   -> {"release", "undo"}
    [] OTHER            -> {"commit", "rollback", "nest"}

\* Variant: an advisory lock is taken like any other query.
Flagged_NotLocks(o) == o \notin Plain

\* The calls that set state_mutated before they submit.
Flagged(o) == o # "work"

\* The first poll of a call. commit() and rollback() consume the guard.
Start(o) ==
  /\ holder = "client" /\ pc = "ready" /\ o \in Allowed /\ calls < CallBound
  /\ op' = o /\ pc' = "sending" /\ calls' = calls + 1
  /\ mutated' = (mutated \/ Flagged(o))
  /\ scopes' = IF o \in {"begin", "atomic", "nest"} THEN scopes + 1 ELSE scopes
  /\ asked' = IF o \in {"commit", "succeed", "release"} THEN asked \cup {Here} ELSE asked
  /\ IF o \in {"commit", "rollback"} THEN kind' = "none" /\ scope' = <<>> ELSE UNCHANGED <<kind, scope>>
  /\ UNCHANGED <<holder, visit, broken, alive, todo, answers, serverVars, lost, cancelVars, abandoned,
                 rejected>>

Request(by, s, n, awaited) == [by |-> by, stmt |-> s, scope |-> n, awaited |-> awaited]

\* The send on the request channel completes, for the user and for the pool.
Submit ==
  /\ pc = "sending" /\ ~lost
  /\ todo' = Append(todo, Request(IF holder = "pool" THEN 0 ELSE visit, Stmt(op), IF op = "nest" THEN scopes ELSE Here, TRUE))
  /\ pc' = "waiting"
  /\ UNCHANGED <<holder, op, clientVars, flagVars, answers, serverVars, lost, cancelVars, abandoned, rejected>>

Quiet(s) == [i \in DOMAIN s |-> [s[i] EXCEPT !.awaited = FALSE]]

\* The future of a query is dropped: what was queued stays.
DropCall ==
  /\ holder = "client" /\ pc # "ready" /\ op \in Plain
  /\ pc' = "ready" /\ op' = None /\ todo' = Quiet(todo) /\ answers' = Quiet(answers)
  /\ UNCHANGED <<holder, clientVars, flagVars, serverVars, lost, cancelVars, abandoned, rejected>>

\* The future of begin, commit, rollback or atomic is dropped, at any await of it.
DropScope ==
  /\ holder = "client"
  /\ kind = "atomic" \/ Len(scope) = 2 \/ (pc # "ready" /\ op \notin Plain)
  /\ pc' = "ready" /\ op' = None /\ todo' = Quiet(todo) /\ answers' = Quiet(answers)
  /\ IF kind = "guard" THEN scope' = <<scope[1]>> /\ UNCHANGED kind ELSE scope' = <<>> /\ kind' = "none"
  /\ abandoned' = TRUE
  /\ UNCHANGED <<holder, visit, calls, scopes, asked, flagVars, serverVars, lost, cancelVars, rejected>>

\* Variant: the guard is dropped as any other value.
DropGuard_Only ==
  /\ holder = "client" /\ kind = "guard" /\ pc = "ready" /\ Len(scope) = 1
  /\ kind' = "none" /\ scope' = <<>>
  /\ UNCHANGED <<holder, pc, op, visit, calls, scopes, asked, flagVars, todo, answers, serverVars, lost,
                 cancelVars, abandoned, rejected>>

\* Drop of a PooledTransaction: a ROLLBACK is queued, or, if the channel is full or
\* closed, the connection is marked broken.
DropGuard ==
  /\ holder = "client" /\ kind = "guard" /\ pc = "ready" /\ Len(scope) = 1
  /\ kind' = "none" /\ scope' = <<>>
  /\ \/ ~alive /\ UNCHANGED <<todo, broken>>
     \/ alive /\ todo' = Append(todo, Request(visit, "ROLLBACK", Here, FALSE)) /\ UNCHANGED broken
     \/ alive /\ broken' = TRUE /\ UNCHANGED todo
  /\ UNCHANGED <<holder, pc, op, visit, calls, scopes, asked, mutated, alive, answers, serverVars, lost,
                 cancelVars, abandoned, rejected>>

\* Drop of the PooledClient.
Release ==
  /\ holder = "client" /\ pc = "ready" /\ kind = "none"
  /\ holder' = "pool" /\ pc' = "check"
  /\ UNCHANGED <<op, clientVars, flagVars, todo, answers, serverVars, lost, cancelVars, abandoned, rejected>>

\* CancelToken::cancel, on a socket of its own.
SendCancel ==
  /\ holder = "client" /\ ~cancel /\ calls < CallBound
  /\ cancel' = TRUE /\ calls' = calls + 1
  /\ UNCHANGED <<holder, pc, op, visit, kind, scope, scopes, asked, flagVars, todo, answers, serverVars, lost, struck, abandoned,
                 rejected>>

-----------------------------------------------------------------------------
(* The pool.                                                               *)

\* The connection is destroyed; the next user gets another one. What is still queued on
\* the old session is executed there, for nobody.
Destroy ==
  /\ holder' = "none" /\ pc' = "ready" /\ op' = None /\ Clean
  /\ kind' = "none" /\ scope' = <<>>
  /\ UNCHANGED <<visit, calls>>

KeepIdle == holder' = "none" /\ pc' = "ready" /\ op' = None

\* Variant: the flag of callers is not looked at.
ReturnCheck_AliveOnly ==
  /\ pc = "check"
  /\ IF ~alive
       THEN Destroy
       ELSE /\ pc' = "reset"
            /\ UNCHANGED <<holder, op, clientVars, flagVars, todo, answers, serverVars, lost, cancelVars,
                           abandoned, rejected>>

\* has_pending_data
ReturnCheck ==
  /\ pc = "check"
  /\ IF ~alive \/ broken
       THEN Destroy
       ELSE /\ pc' = "reset"
            /\ UNCHANGED <<holder, op, clientVars, flagVars, todo, answers, serverVars, lost, cancelVars,
                           abandoned, rejected>>

\* reset, up to the submission of DISCARD ALL.
Reset ==
  /\ pc = "reset"
  /\ \/ ~alive /\ Destroy
     \/ /\ alive /\ ~mutated /\ KeepIdle
        /\ UNCHANGED <<clientVars, flagVars, todo, answers, serverVars, lost, cancelVars, abandoned, rejected>>
     \/ /\ alive /\ mutated
        /\ mutated' = FALSE /\ pc' = "sending" /\ op' = "reset"
        /\ UNCHANGED <<holder, clientVars, broken, alive, todo, answers, serverVars, lost, cancelVars,
                       abandoned, rejected>>

\* An idle connection has expired, or is found dead.
Evict == holder = "none" /\ Destroy

-----------------------------------------------------------------------------
(* The server executes the requests.                                       *)

EndTransaction == txn' = "idle" /\ begun' = None /\ dirty' = {} /\ saved' = NoSavepoint

\* The server can only refuse it.
Refuses(r) ==
  \/ txn = "failed" /\ r.stmt \notin {"COMMIT", "ROLLBACK", "ROLLBACK TO"}
  \/ txn # "idle" /\ r.stmt = "DISCARD"
  \/ txn = "idle" /\ r.stmt = "SAVEPOINT"
  \/ saved.scope # r.scope /\ r.stmt \in {"RELEASE", "ROLLBACK TO"}

\* It may fail by itself: a constraint, at once or deferred.
MayFail(r) == r.stmt = "work" \/ (r.stmt = "COMMIT" /\ txn = "open")

Perform(r) ==
  /\ committed' = CASE r.stmt = "work" /\ txn = "idle"   -> {r.scope}
                    [] r.stmt = "COMMIT" /\ txn = "open" -> dirty
                    [] OTHER                             -> {}
  /\ CASE r.stmt = "work" ->
            dirty' = (IF txn = "idle" THEN {} ELSE dirty \cup {r.scope}) /\ UNCHANGED <<txn, begun, saved, effects>>
       [] r.stmt = "lock" ->
            effects' = effects \cup {r.by} /\ UNCHANGED <<txn, begun, dirty, saved>>
       [] r.stmt = "BEGIN" ->
            IF txn = "idle" THEN txn' = "open" /\ begun' = r.by /\ UNCHANGED <<dirty, saved, effects>>
                            ELSE UNCHANGED <<txn, begun, dirty, saved, effects>>
       [] r.stmt \in {"COMMIT", "ROLLBACK"} -> EndTransaction /\ UNCHANGED effects
       [] r.stmt = "SAVEPOINT"   -> saved' = [scope |-> r.scope, dirty |-> dirty] /\ UNCHANGED <<txn, begun, dirty, effects>>
       [] r.stmt = "RELEASE"     -> saved' = NoSavepoint /\ UNCHANGED <<txn, begun, dirty, effects>>
       [] r.stmt = "ROLLBACK TO" -> txn' = "open" /\ dirty' = saved.dirty /\ UNCHANGED <<begun, saved, effects>>
       [] r.stmt = "DISCARD"     -> effects' = {} /\ UNCHANGED <<txn, begun, dirty, saved>>

\* An error fails the transaction; of a COMMIT it ends it.
Spoil(r) ==
  /\ committed' = {}
  /\ IF r.stmt = "COMMIT" /\ ~cancel
       THEN EndTransaction /\ UNCHANGED effects
       ELSE /\ txn' = IF txn = "idle" THEN "idle" ELSE "failed"
            /\ UNCHANGED <<begun, dirty, saved, effects>>

Answer(r, error) ==
  /\ todo' = Tail(todo)
  /\ answers' = Append(answers, [stmt |-> r.stmt, awaited |-> r.awaited, error |-> error, open |-> txn' # "idle"])
  /\ rejected' = IF error THEN rejected \cup ({r.stmt} \cap {"BEGIN", "DISCARD"}) ELSE rejected

Execute ==
  /\ todo # <<>> /\ ~lost
  /\ LET r == Head(todo) IN
       \/ ~Refuses(r) /\ Perform(r) /\ Answer(r, FALSE) /\ UNCHANGED <<cancel, struck>>
       \/ (Refuses(r) \/ MayFail(r)) /\ ~cancel /\ Spoil(r) /\ Answer(r, TRUE) /\ UNCHANGED <<cancel, struck>>
       \/ cancel /\ Spoil(r) /\ Answer(r, TRUE) /\ cancel' = FALSE /\ struck' = TRUE
  /\ UNCHANGED <<holder, pc, op, clientVars, flagVars, lost, abandoned>>

\* It comes when nothing is executed.
CancelMisses ==
  /\ cancel /\ todo = <<>>
  /\ cancel' = FALSE
  /\ UNCHANGED <<holder, pc, op, clientVars, flagVars, todo, answers, serverVars, lost, struck,
                 abandoned, rejected>>

-----------------------------------------------------------------------------
(* The reader task gives the answers out.                                  *)

\* Variant: the scope of an atomic that failed to end stays.
AfterCall_KeepsFailed(ok) ==
  CASE ok /\ op \in {"begin", "atomic"} ->
         kind' = (IF op = "begin" THEN "guard" ELSE "atomic") /\ scope' = <<scopes>>
    [] ok /\ op = "nest" -> scope' = Append(scope, scopes) /\ UNCHANGED kind
    [] op \in {"succeed", "fail"} -> kind' = "none" /\ (IF ok THEN scope' = <<>> ELSE UNCHANGED scope)
    [] op \in {"release", "undo"} -> scope' = <<scope[1]>> /\ UNCHANGED kind
    [] OTHER -> UNCHANGED <<kind, scope>>

\* The scopes after a call that returned Ok, or Err.
AfterCall(ok) ==
  CASE ok /\ op \in {"begin", "atomic"} ->
         kind' = (IF op = "begin" THEN "guard" ELSE "atomic") /\ scope' = <<scopes>>
    [] ok /\ op = "nest" -> scope' = Append(scope, scopes) /\ UNCHANGED kind
    [] op \in {"succeed", "fail"} -> kind' = "none" /\ scope' = <<>>
    [] op \in {"release", "undo"} -> scope' = <<scope[1]>> /\ UNCHANGED kind
    [] OTHER -> UNCHANGED <<kind, scope>>

Returns(ok) ==
  /\ IF holder = "pool" THEN KeepIdle /\ UNCHANGED <<kind, scope>>
                        ELSE pc' = "ready" /\ op' = None /\ UNCHANGED holder /\ AfterCall(ok)
  /\ UNCHANGED <<visit, calls, scopes, asked>>

\* drain_until_ready passes over errors: a control statement never fails.
ReadAnswer ==
  /\ answers # <<>>
  /\ LET a == Head(answers) IN
       /\ mutated' = (mutated \/ a.open)
       /\ IF a.awaited THEN Returns(~a.error \/ a.stmt \in Controls) ELSE UNCHANGED <<holder, pc, op, clientVars>>
  /\ answers' = Tail(answers)
  /\ UNCHANGED <<broken, alive, todo, serverVars, lost, cancelVars, abandoned, rejected>>

\* The socket dies, and the session with it; some answers still come in.
Lose ==
  /\ ~lost
  /\ EndTransaction /\ effects' = {} /\ committed' = {}
  /\ lost' = TRUE /\ todo' = <<>> /\ \E k \in 0..Len(answers) : answers' = SubSeq(answers, 1, k)
  /\ UNCHANGED <<holder, pc, op, clientVars, flagVars, cancelVars, abandoned, rejected>>

\* A write fails and the writer task ends.
NoticeDead ==
  /\ lost /\ alive
  /\ alive' = FALSE
  /\ UNCHANGED <<holder, pc, op, clientVars, mutated, broken, todo, answers, serverVars, lost, cancelVars,
                 abandoned, rejected>>

\* A call returns ConnectionClosed or an I/O error; reset returns false.
Closed ==
  /\ lost /\ pc \in {"sending", "waiting"} /\ \A i \in DOMAIN answers : ~answers[i].awaited
  /\ IF holder = "pool"
       THEN Destroy
       ELSE /\ Returns(FALSE)
            /\ UNCHANGED <<flagVars, todo, answers, serverVars, lost, cancelVars, abandoned, rejected>>

-----------------------------------------------------------------------------
ClientStep ==
  Checkout \/ (\E o \in Calls : Start(o)) \/ DropCall \/ DropScope \/ DropGuard \/ Release \/ SendCancel
PoolStep   == ReturnCheck \/ Reset \/ Evict
ConnStep   == Submit \/ ReadAnswer \/ Lose \/ NoticeDead \/ Closed
ServerStep == Execute \/ CancelMisses

Next == ClientStep \/ PoolStep \/ ConnStep \/ ServerStep

Spec == Init /\ [][Next]_vars
=============================================================================
