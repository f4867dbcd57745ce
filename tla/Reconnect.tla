------------------------------ MODULE Reconnect ------------------------------
(***************************************************************************)
(* Connections that are replaced when they die, in slots that tasks load   *)
(* from: the one of a ReconnectingClient (src/resolute/src/reconnect.rs),  *)
(* used directly, through RetryPolicy::execute (retry.rs) or in atomic     *)
(* (executor.rs), or those of an AsyncPool (src/pg-wired/src/async_pool.rs)*)
(* which SharedPool wraps (shared_pool.rs), with its health monitor.       *)
(*                                                                         *)
(* What a request meets on a connection that is gone is what AsyncConn     *)
(* has: the reader answers until a write fails, and the writer's end, a    *)
(* moment after it has answered, is what makes is_alive false.             *)
(***************************************************************************)
EXTENDS Naturals, FiniteSets

CONSTANTS
  Over,           \* what holds the connections: of {"client", "pool"}
  Tasks,
  Size,           \* the slots of the pool
  MaxRetries,     \* of the RetryPolicy
  ConnBound, CallBound, LossBound, RefusalBound,
  None

ASSUME ReconnectAssumption ==
  /\ Over \subseteq {"client", "pool"} /\ Size \in Nat \ {0} /\ MaxRetries \in Nat
  /\ {ConnBound, CallBound, LossBound, RefusalBound} \subseteq Nat /\ Size <= ConnBound
  /\ None \notin Tasks \cup {"query", "atomic", "retried", "pooled"}

VARIABLES
  over,           \* "client" or "pool"
  slot,           \* the connection in each slot
  net, alive,     \* of a connection: its socket; is_alive
  counter,        \* AsyncPool::counter
  lock,           \* reconnect_lock
  mon,            \* the health monitor: the slot it looks at, and whether it connects
  pc, call,       \* of a task: where it stands; its call
  closing,        \* the slot AsyncPool::close is at; 0 before, past the last after
  calls, losses, refusals

taskVars == <<pc, call>>
connVars == <<net, alive>>
vars == <<over, slot, connVars, counter, lock, mon, taskVars, closing, calls, losses, refusals>>

Slots  == 1..(IF over = "client" THEN 1 ELSE Size)
Opened == {c \in 1..ConnBound : net[c] # "none"}
Fresh  == Cardinality(Opened) + 1

\* kind, the client guard that atomic holds, the connection of its request, whether it has
\* reconnected, the attempt of the RetryPolicy or of the scan, where the scan began; and as
\* history how often the server ran its statement, and how many losses and refusals it has met.
NoCall == [kind |-> None, guard |-> None, conn |-> None, second |-> FALSE, tries |-> 0, start |-> 0,
           ran |-> 0, met |-> 0]

Init ==
  /\ over \in Over
  /\ slot = [i \in Slots |-> i]
  /\ net = [c \in 1..ConnBound |-> IF c \in Slots THEN "up" ELSE "none"]
  /\ alive = [c \in 1..ConnBound |-> c \in Slots]
  /\ counter = 0 /\ lock = None /\ mon = [i |-> 0, dials |-> FALSE]
  /\ pc = [t \in Tasks |-> "idle"] /\ call = [t \in Tasks |-> NoCall]
  /\ closing = 0 /\ calls = 0 /\ losses = 0 /\ refusals = 0

-----------------------------------------------------------------------------
(* A request on a connection.                                              *)

At(t, p) == pc' = [pc EXCEPT ![t] = p]
Sends(t, c, p) == At(t, p) /\ call' = [call EXCEPT ![t].conn = c]
Rest == <<slot, counter, lock, mon, closing, over>>

Requests == {"begin", "query", "commit", "rollback"}
Executed == [begin |-> "begun", query |-> "queried", commit |-> "committed", rollback |-> "rolledback"]
Lost     == [begin |-> "no begin", query |-> "no query", commit |-> "no commit", rollback |-> "no rollback"]

Execute(t) ==
  LET c == call[t].conn
  IN /\ pc[t] \in Requests /\ net[c] = "up"
     /\ call' = IF pc[t] = "query" THEN [call EXCEPT ![t].ran = @ + 1] ELSE call
     /\ At(t, Executed[pc[t]])
     /\ UNCHANGED <<Rest, connVars, calls, losses, refusals>>

\* The reader is at the end of the stream and answers ConnectionClosed; a write on a
\* socket that was reset fails, and the writer is about to end.
Closed(t) ==
  LET c == call[t].conn
  IN /\ pc[t] \in Requests /\ net[c] # "up"
     /\ At(t, Lost[pc[t]])
     /\ net' = [net EXCEPT ![c] = IF @ = "reset" THEN "broken" ELSE @]
     /\ UNCHANGED <<Rest, call, alive, calls, losses, refusals>>

\* The connection goes down after the execution and before the response is read.
AnswerLost(t) ==
  /\ \E q \in Requests : pc[t] = Executed[q] /\ net[call[t].conn] # "up" /\ At(t, Lost[q])
  /\ UNCHANGED <<Rest, call, connVars, calls, losses, refusals>>

WriterEnds(c) ==
  /\ net[c] = "broken" /\ alive[c] /\ alive' = [alive EXCEPT ![c] = FALSE]
  /\ UNCHANGED net

Gone(c) == net' = [net EXCEPT ![c] = "lost"] /\ UNCHANGED alive

Hit == [t \in Tasks |-> IF pc[t] # "idle" THEN [call[t] EXCEPT !.met = @ + 1] ELSE call[t]]

Loss ==
  /\ losses < LossBound /\ losses' = losses + 1
  /\ \E c \in Opened : net[c] = "up" /\ Gone(c)
  /\ call' = Hit
  /\ UNCHANGED <<Rest, pc, calls, refusals>>

\* The peer resets a socket that it has closed.
Reset ==
  /\ \E c \in Opened : net[c] = "lost" /\ net' = [net EXCEPT ![c] = "reset"]
  /\ UNCHANGED <<Rest, taskVars, alive, calls, losses, refusals>>

Writer == (\E c \in Opened : WriterEnds(c)) /\ UNCHANGED <<Rest, taskVars, calls, losses, refusals>>

\* A new connection, or the refusal to give one.
Dialled == Fresh <= ConnBound /\ net' = [net EXCEPT ![Fresh] = "up"] /\ alive' = [alive EXCEPT ![Fresh] = TRUE]
           /\ UNCHANGED refusals
DialRefused == refusals < RefusalBound /\ refusals' = refusals + 1 /\ UNCHANGED connVars

-----------------------------------------------------------------------------
(* ReconnectingClient.                                                     *)

\* query, execute, atomic, or a query in RetryPolicy::execute.
Call(t) ==
  /\ over = "client" /\ pc[t] = "idle" /\ calls < CallBound /\ calls' = calls + 1
  /\ \E k \in {"query", "atomic", "retried"} :
       /\ call' = [call EXCEPT ![t] = [NoCall EXCEPT !.kind = k, !.conn = slot[1], !.guard = slot[1]]]
       /\ At(t, IF k = "atomic" THEN "begin" ELSE "query")
  /\ UNCHANGED <<Rest, connVars, losses, refusals>>

\* query loads the client, be it in atomic or not.
Begun(t) ==
  /\ pc[t] = "begun" /\ net[call[t].conn] = "up"
  /\ Sends(t, slot[1], "query")
  /\ UNCHANGED <<Rest, connVars, calls, losses, refusals>>

\* is_connection_error: the first time, on to reconnect; the second is returned.
QueryLost(t) ==
  /\ over = "client" /\ pc[t] = "no query"
  /\ At(t, IF call[t].second THEN "failed" ELSE "lock")
  /\ UNCHANGED <<Rest, call, connVars, calls, losses, refusals>>

\* Variant: whoever gets the lock reconnects.
Locked_NoCheck(t) ==
  /\ pc[t] = "lock" /\ lock = None
  /\ lock' = t /\ At(t, "dial") /\ UNCHANGED call
  /\ UNCHANGED <<slot, counter, mon, closing, over, connVars, calls, losses, refusals>>

\* reconnect: the lock, and the double-check under it.
Locked(t) ==
  /\ pc[t] = "lock" /\ lock = None
  /\ IF alive[slot[1]]
     THEN /\ UNCHANGED lock /\ At(t, "query")
          /\ call' = [call EXCEPT ![t].conn = slot[1], ![t].second = TRUE]
     ELSE lock' = t /\ At(t, "dial") /\ UNCHANGED call
  /\ UNCHANGED <<slot, counter, mon, closing, over, connVars, calls, losses, refusals>>

Stored(t) ==
  /\ pc[t] = "dial" /\ Dialled
  /\ slot' = [slot EXCEPT ![1] = Fresh] /\ lock' = None
  /\ At(t, "query") /\ call' = [call EXCEPT ![t].conn = Fresh, ![t].second = TRUE]
  /\ UNCHANGED <<counter, mon, closing, over, calls, losses>>

Refused(t) ==
  /\ pc[t] = "dial" /\ DialRefused
  /\ lock' = None /\ At(t, "failed") /\ call' = [call EXCEPT ![t].met = @ + 1]
  /\ UNCHANGED <<slot, counter, mon, closing, over, calls, losses>>

\* Variant: the RetryPolicy tries again whatever came of the query.
Ended_Again(t) ==
  /\ pc[t] \in {"queried", "failed"} /\ net[call[t].conn] = "up"
  /\ IF call[t].tries < MaxRetries
     THEN At(t, "query") /\ call' = [call EXCEPT ![t].tries = @ + 1, ![t].conn = slot[1]]
     ELSE At(t, "ok") /\ UNCHANGED call
  /\ UNCHANGED <<Rest, connVars, calls, losses, refusals>>

\* The query has ended: atomic sends COMMIT or ROLLBACK to the client it began on, the
\* RetryPolicy sleeps and tries again after a transient error.
Ended(t) ==
  /\ \/ pc[t] = "queried" /\ net[call[t].conn] = "up"
     \/ pc[t] = "failed"
  /\ LET ok == pc[t] = "queried"
     IN CASE call[t].kind = "atomic" -> Sends(t, call[t].guard, IF ok THEN "commit" ELSE "rollback")
          [] call[t].kind = "retried" /\ ~ok /\ call[t].tries < MaxRetries ->
               /\ At(t, "query")
               /\ call' = [call EXCEPT ![t].tries = @ + 1, ![t].second = FALSE, ![t].conn = slot[1]]
          [] OTHER -> At(t, IF ok THEN "ok" ELSE "error") /\ UNCHANGED call
  /\ UNCHANGED <<Rest, connVars, calls, losses, refusals>>

\* simple_query of BEGIN or COMMIT failed; ROLLBACK was sent, whatever came of it.
AtomicEnds(t) ==
  /\ \/ pc[t] = "committed" /\ net[call[t].conn] = "up" /\ At(t, "ok")
     \/ pc[t] \in {"no begin", "no commit", "no rollback"} /\ At(t, "error")
     \/ pc[t] = "rolledback" /\ net[call[t].conn] = "up" /\ At(t, "error")
  /\ UNCHANGED <<Rest, call, connVars, calls, losses, refusals>>

Return(t) ==
  /\ pc[t] \in {"ok", "error"} /\ At(t, "idle") /\ call' = [call EXCEPT ![t] = NoCall]
  /\ UNCHANGED <<Rest, connVars, calls, losses, refusals>>

-----------------------------------------------------------------------------
(* AsyncPool.                                                              *)

\* get_async: round-robin from the counter, one slot after the other.
Get(t) ==
  /\ over = "pool" /\ pc[t] = "idle" /\ calls < CallBound /\ calls' = calls + 1
  /\ counter' = counter + 1
  /\ call' = [call EXCEPT ![t] = [NoCall EXCEPT !.kind = "pooled", !.start = counter % Size]]
  /\ At(t, "scan")
  /\ UNCHANGED <<slot, lock, mon, closing, over, connVars, losses, refusals>>

\* The first that is alive, or the one the scan began with if none is.
Scan(t) ==
  /\ pc[t] = "scan"
  /\ LET i == call[t].tries
         c == slot[((call[t].start + i) % Size) + 1]
     IN IF i < Size /\ ~alive[c] THEN call' = [call EXCEPT ![t].tries = i + 1] /\ UNCHANGED pc
        ELSE Sends(t, c, "query")
  /\ UNCHANGED <<Rest, connVars, calls, losses, refusals>>

\* The error goes to the caller.
PooledLost(t) ==
  /\ over = "pool" /\ pc[t] = "no query" /\ At(t, "error")
  /\ UNCHANGED <<Rest, call, connVars, calls, losses, refusals>>

\* Variant: the monitor never gets to the last slot.
Look_Short ==
  /\ over = "pool" /\ ~mon.dials
  /\ LET i == (mon.i % (Size - 1)) + 1 IN mon' = [i |-> i, dials |-> ~alive[slot[i]]]
  /\ UNCHANGED <<slot, counter, lock, closing, over, taskVars, connVars, calls, losses, refusals>>

\* health_monitor: one slot after the other, at each tick of its interval.
Look ==
  /\ over = "pool" /\ ~mon.dials
  /\ LET i == (mon.i % Size) + 1 IN mon' = [i |-> i, dials |-> ~alive[slot[i]]]
  /\ UNCHANGED <<slot, counter, lock, closing, over, taskVars, connVars, calls, losses, refusals>>

Replaced ==
  /\ mon.dials /\ Dialled
  /\ slot' = [slot EXCEPT ![mon.i] = Fresh] /\ mon' = [mon EXCEPT !.dials = FALSE]
  /\ UNCHANGED <<counter, lock, closing, over, taskVars, calls, losses>>

NotReplaced ==
  /\ mon.dials /\ DialRefused /\ mon' = [mon EXCEPT !.dials = FALSE]
  /\ UNCHANGED <<slot, counter, lock, closing, over, taskVars, calls, losses>>

\* close: Terminate to each connection that is alive; the server ends the session.
Close ==
  /\ over = "pool" /\ closing < Size /\ closing' = closing + 1
  /\ LET c == slot[closing + 1]
     IN IF alive[c] /\ net[c] = "up" THEN Gone(c) /\ call' = Hit ELSE UNCHANGED <<connVars, call>>
  /\ UNCHANGED <<slot, counter, lock, mon, over, pc, calls, losses, refusals>>

-----------------------------------------------------------------------------
TaskStep(t) ==
  \/ Execute(t) \/ Closed(t) \/ AnswerLost(t) \/ Begun(t) \/ QueryLost(t) \/ Locked(t) \/ Stored(t)
  \/ Ended(t) \/ AtomicEnds(t) \/ Return(t) \/ Scan(t) \/ PooledLost(t)

Next ==
  \/ \E t \in Tasks : TaskStep(t) \/ Call(t) \/ Get(t) \/ Refused(t)
  \/ Writer \/ Loss \/ Reset \/ Look \/ Replaced \/ NotReplaced \/ Close

Spec == Init /\ [][Next]_vars

\* The interval of the monitor ticks, and the server that refuses for a while takes a
\* connection in the end.
FairSpec == Spec /\ WF_vars(Look) /\ SF_vars(Replaced)
=============================================================================
