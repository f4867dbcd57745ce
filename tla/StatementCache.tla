---------------------------- MODULE StatementCache ----------------------------
(***************************************************************************)
(* Prepared statements on a connection that several tasks share: the cache *)
(* of AsyncConn (src/pg-wired/src/async_conn.rs), and the calls that use   *)
(* it there, in Client, Pipeline, PooledClient and SharedClient            *)
(* (src/resolute/src/query.rs, pooled.rs, shared_pool.rs).                 *)
(*                                                                         *)
(* AsyncConn models how a request and its responses travel; here they are  *)
(* a queue of requests that the server takes in order.  A statement name   *)
(* is the value of the counter it was made from.                           *)
(***************************************************************************)
EXTENDS Naturals, Sequences, FiniteSets

CONSTANTS
  Tasks, Sqls,
  Kinds,          \* the calls that are made, of AllKinds
  Cap,            \* entries of the cache: 256 in the code
  ChanCap,        \* room in the request channel
  RunBound,       \* statements that are run; a batch has two
  AlterBound,
  None

(* What a call sends, if it makes a second attempt after a stale statement - never, at   *)
(* any rate, or if it had hit the cache - and if that sends a Parse whatever it looks up. *)
Policy(sends, again, force) == [sends |-> sends, again |-> again, force |-> force]

ClientQuery     == Policy("one", "any", FALSE)      \* Client::query, over query_inner_on
ClientExecute   == Policy("one", "any", FALSE)      \* Client::execute
QueryStream     == Policy("one", "never", FALSE)    \* Client::query_stream
OnConn          == Policy("one", "never", FALSE)    \* query_on_conn, execute_on_conn: PooledClient, SharedClient
ExecQuery       == Policy("one", "hit", TRUE)       \* AsyncConn::exec_query, over query
ExecFormats     == Policy("one", "hit", TRUE)       \* exec_query_with_formats
ExecTransaction == Policy("tx", "hit", TRUE)        \* exec_transaction, over pipeline_transaction
PipelineRun     == Policy("batch", "never", FALSE)  \* Pipeline::run, over submit_batch
JsQuery         == Policy("one", "never", FALSE)    \* encode_query and exec_query_full
JsRaw           == Policy("one", "never", FALSE)    \* encode_query_with_formats and exec_query_raw

PolicyOf ==
  [query |-> ClientQuery, execute |-> ClientExecute, stream |-> QueryStream, pooled |-> OnConn,
   exec_query |-> ExecQuery, exec_formats |-> ExecFormats, exec_transaction |-> ExecTransaction,
   pipeline |-> PipelineRun, js_query |-> JsQuery, js_raw |-> JsRaw]
AllKinds == DOMAIN PolicyOf

ASSUME StatementCacheAssumption ==
  /\ Kinds \subseteq AllKinds /\ Cap \in Nat \ {0} /\ ChanCap \in Nat \ {0} /\ RunBound \in Nat /\ AlterBound \in Nat
  /\ None \notin Nat \cup Tasks
  /\ None \notin {"ok", "failed", "missing", "stale", "exists"}

VARIABLES
  cache, counter, \* stmt_cache: the name of each SQL; stmt_counter
  pc, call,       \* of a task: where it stands; what it runs, with what it looked up
  out,            \* the requests of its attempt that it has yet to send
  got,            \* the response to each of them, or None
  chan,           \* the requests that were sent, on their way to the server
  prepared,       \* the statements of the session: [name, sql, stale]
  tx,             \* its transaction: whether one is open, and whether it failed
  cut,            \* history: a BEGIN was sent by a call that was dropped before its COMMIT was,
                  \* and no COMMIT was taken after it
  unsure,         \* history: the names that Pipeline::run published though their statement had failed
  alone,          \* history: the task whose call nothing has disturbed since it began, or None
  ran, alters     \* statements that calls were made for; changes of the schema

cacheVars == <<cache, counter>>
taskVars  == <<pc, call, out, got>>
serverVars == <<prepared, tx, cut, alters>>
vars == <<cacheVars, taskVars, chan, serverVars, unsure, alone, ran>>

NoCall == [does |-> None, sqls |-> <<>>, execs |-> <<>>, again |-> FALSE, done |-> 0]

Init ==
  /\ cache = [s \in Sqls |-> None] /\ counter = 0
  /\ pc = [t \in Tasks |-> "idle"] /\ call = [t \in Tasks |-> NoCall]
  /\ out = [t \in Tasks |-> <<>>] /\ got = [t \in Tasks |-> <<>>]
  /\ chan = <<>> /\ prepared = {} /\ tx = [open |-> FALSE, failed |-> FALSE]
  /\ cut = FALSE /\ unsure = {} /\ alone = None /\ ran = 0 /\ alters = 0

Stale == {"missing", "stale"}     \* 26000 and 0A000: is_stale_statement_error

-----------------------------------------------------------------------------
(* The cache.                                                              *)

Cached == {s \in Sqls : cache[s] # None}
Oldest == CHOOSE s \in Cached : \A z \in Cached : cache[s] <= cache[z]

\* Variant: a name is made from the number of entries.
LookedUp_Reused(s, force) ==
  [sql |-> s, name |-> IF cache[s] = None THEN Cardinality(Cached) ELSE cache[s], parse |-> force \/ cache[s] = None]

\* lookup_or_alloc: a miss takes the next value of the counter.  Nothing is published.
LookedUp(s, force) ==
  [sql |-> s, name |-> IF cache[s] = None THEN counter ELSE cache[s], parse |-> force \/ cache[s] = None]

\* cache_statement.  The one with the oldest name makes room for a new entry, and the server
\* is told, if the channel has room for that.
Publish(x) ==
  IF ~x.parse \/ x.sql \in Cached THEN UNCHANGED <<cache, chan>>
  ELSE IF Cardinality(Cached) < Cap THEN cache' = [cache EXCEPT ![x.sql] = x.name] /\ UNCHANGED chan
  ELSE /\ cache' = [cache EXCEPT ![Oldest] = None, ![x.sql] = x.name]
       /\ chan' = IF Len(chan) < ChanCap THEN Append(chan, [op |-> "close", name |-> cache[Oldest]]) ELSE chan

-----------------------------------------------------------------------------
(* The calls of the tasks.                                                 *)

\* A request has the Parse if there is one, the Bind, the Execute and the Sync; a Describe
\* in between is for the columns.  pipeline_transaction sends three requests, submit_batch
\* one for each item; i says which response_tx a request has.
Exec(t, i, x) == [t |-> t, i |-> i, op |-> "exec", x |-> x]
Requests(t, sends, execs) ==
  IF sends = "tx"
    THEN <<[t |-> t, i |-> 1, op |-> "setup"], Exec(t, 2, execs[1]), [t |-> t, i |-> 3, op |-> "commit"]>>
    ELSE [i \in DOMAIN execs |-> Exec(t, i, execs[i])]

\* The next lookup of a call; after the last the requests are there to be sent.
LookUp(t, c) ==
  LET s     == c.sqls[Len(c.execs) + 1]
      execs == Append(c.execs, LookedUp(s, c.again /\ c.does.force))
      reqs  == Requests(t, c.does.sends, execs)
  IN /\ call' = [call EXCEPT ![t] = [c EXCEPT !.execs = execs]]
     /\ counter' = IF cache[s] = None THEN counter + 1 ELSE counter
     /\ IF Len(execs) < Len(c.sqls) THEN pc' = [pc EXCEPT ![t] = "look"] /\ UNCHANGED <<out, got>>
        ELSE /\ pc' = [pc EXCEPT ![t] = "send"]
             /\ out' = [out EXCEPT ![t] = reqs]
             /\ got' = [got EXCEPT ![t] = [i \in DOMAIN reqs |-> None]]

Call(t) ==
  /\ pc[t] = "idle"
  /\ \E does \in {PolicyOf[k] : k \in Kinds} :
       \E sqls \in [1..(IF does.sends = "batch" THEN 2 ELSE 1) -> Sqls] :
         /\ ran + Len(sqls) <= RunBound /\ ran' = ran + Len(sqls)
         /\ LookUp(t, [NoCall EXCEPT !.does = does, !.sqls = sqls])
  /\ alone' = IF \A u \in Tasks : pc[u] = "idle" THEN t ELSE None
  /\ UNCHANGED <<cache, chan, serverVars, unsure>>

\* The next lookup of a batch, or that of a second attempt.
Look(t) ==
  /\ pc[t] = "look" /\ LookUp(t, call[t])
  /\ UNCHANGED <<cache, chan, serverVars, unsure, alone, ran>>

Send(t) ==
  /\ pc[t] = "send" /\ Len(chan) < ChanCap
  /\ chan' = Append(chan, Head(out[t])) /\ out' = [out EXCEPT ![t] = Tail(@)]
  /\ pc' = [pc EXCEPT ![t] = IF Len(out[t]) = 1 THEN "wait" ELSE "send"]
  /\ UNCHANGED <<cacheVars, call, got, serverVars, unsure, alone, ran>>

\* What the attempt has come to: the first error, once it was read, or success once all
\* responses were.
Failed(t) == \E i \in DOMAIN got[t] : got[t][i] \notin {None, "ok"}
Outcome(t) ==
  IF Failed(t) THEN got[t][CHOOSE i \in DOMAIN got[t] : got[t][i] # "ok" /\ \A j \in 1..(i - 1) : got[t][j] = "ok"]
  ELSE "ok"
Answered(t) ==
  /\ pc[t] = "wait"
  /\ (\A i \in DOMAIN got[t] : got[t][i] # None) \/ (call[t].does.sends # "batch" /\ Failed(t))

\* Variant: what nobody waits for is not sent.
Forget_Drops(t, c) == SelectSeq(c, LAMBDA r : ~(r.op # "close" /\ r.t = t))
\* Responses that are still to come have no receiver: if the call has returned, only a
\* COMMIT can be among them.
Forget(t, c) == [i \in DOMAIN c |-> IF c[i].op # "close" /\ c[i].t = t THEN [c[i] EXCEPT !.t = None] ELSE c[i]]

Returns(t) ==
  /\ pc' = [pc EXCEPT ![t] = "idle"]
  /\ call' = [call EXCEPT ![t] = NoCall] /\ got' = [got EXCEPT ![t] = <<>>]
  /\ alone' = IF alone = t THEN None ELSE alone
  /\ UNCHANGED <<counter, out, serverVars, ran>>

MayRetry(t) ==
  /\ ~call[t].again
  /\ \/ call[t].does.again = "any"
     \/ call[t].does.again = "hit" /\ ~call[t].execs[1].parse

\* The statements that were parsed are published one after the other: after success, or, by
\* Pipeline::run, whatever came of them.
Succeeds(t) ==
  LET i == call[t].done + 1
      x == call[t].execs[i]
  IN /\ Answered(t) /\ (Outcome(t) = "ok" \/ call[t].does.sends = "batch")
     /\ Publish(x)
     /\ unsure' = IF cache' # cache /\ call[t].does.sends = "batch" /\ got[t][i] # "ok" THEN unsure \cup {x.name} ELSE unsure
     /\ IF i = Len(call[t].execs) THEN Returns(t)
        ELSE /\ call' = [call EXCEPT ![t].done = i]
             /\ UNCHANGED <<counter, pc, out, got, serverVars, alone, ran>>

Fails(t) ==
  /\ Answered(t) /\ Outcome(t) # "ok" /\ call[t].does.sends # "batch"
  /\ ~(Outcome(t) \in Stale /\ MayRetry(t))
  /\ Returns(t) /\ chan' = Forget(t, chan) /\ UNCHANGED <<cache, unsure>>

\* Variant: the entry stays.
Invalidate_Keeps(t) ==
  /\ Answered(t) /\ Outcome(t) \in Stale /\ MayRetry(t)
  /\ pc' = [pc EXCEPT ![t] = "look"]
  /\ call' = [call EXCEPT ![t] = [@ EXCEPT !.execs = <<>>, !.again = TRUE]]
  /\ got' = [got EXCEPT ![t] = <<>>] /\ chan' = Forget(t, chan)
  /\ UNCHANGED <<cache, counter, out, serverVars, unsure, alone, ran>>

\* invalidate_statement: whatever name the SQL has by now.  The second attempt looks up
\* again, and may send a Parse for a name in the cache.
Invalidate(t) ==
  /\ Answered(t) /\ Outcome(t) \in Stale /\ MayRetry(t)
  /\ cache' = [cache EXCEPT ![call[t].sqls[1]] = None]
  /\ pc' = [pc EXCEPT ![t] = "look"]
  /\ call' = [call EXCEPT ![t] = [@ EXCEPT !.execs = <<>>, !.again = TRUE]]
  /\ got' = [got EXCEPT ![t] = <<>>] /\ chan' = Forget(t, chan)
  /\ UNCHANGED <<counter, out, serverVars, unsure, alone, ran>>

\* BEGIN is sent and COMMIT is not.
Halfway(t) == call[t].does.sends = "tx" /\ Len(out[t]) \in {1, 2}

\* The future of a call is dropped where it awaits the channel or a response: what it has
\* not sent is never sent.
GiveUp(t) ==
  /\ pc[t] \in {"send", "wait"} /\ call[t].done = 0
  /\ pc' = [pc EXCEPT ![t] = "idle"] /\ call' = [call EXCEPT ![t] = NoCall]
  /\ out' = [out EXCEPT ![t] = <<>>] /\ got' = [got EXCEPT ![t] = <<>>]
  /\ chan' = Forget(t, chan) /\ cut' = (cut \/ Halfway(t))
  /\ alone' = IF alone = t THEN None ELSE alone
  /\ UNCHANGED <<cacheVars, prepared, tx, alters, unsure, ran>>

-----------------------------------------------------------------------------
(* The server.                                                             *)

Reply(r, res) == got' = IF r.t = None THEN got ELSE [got EXCEPT ![r.t][r.i] = res]

Takes(op) ==
  /\ chan # <<>> /\ Head(chan).op = op /\ chan' = Tail(chan)
  /\ cut' = (cut /\ (op = "commit" => \E i \in DOMAIN chan' : chan'[i].op = "setup" /\ chan'[i].t = None))
  /\ UNCHANGED <<cacheVars, pc, call, out, unsure, alone, ran, alters>>

\* BEGIN and what comes with it.  In a transaction that is open it is a warning.
Setup ==
  /\ Takes("setup") /\ Reply(Head(chan), "ok")
  /\ tx' = IF tx.open THEN tx ELSE [open |-> TRUE, failed |-> FALSE]
  /\ UNCHANGED prepared

Commit ==
  /\ Takes("commit") /\ Reply(Head(chan), "ok")
  /\ tx' = [open |-> FALSE, failed |-> FALSE]
  /\ UNCHANGED prepared

Close ==
  /\ Takes("close") /\ prepared' = {p \in prepared : p.name # Head(chan).name}
  /\ UNCHANGED <<got, tx>>

Named(n) == {p \in prepared : p.name = n}

\* Parse, Bind and Execute up to the first error.  The server may refuse to parse, or
\* fail to execute.
Execute ==
  /\ Takes("exec")
  /\ LET r == Head(chan)  x == r.x
         known == IF x.parse THEN {[name |-> x.name, sql |-> x.sql, stale |-> FALSE]} ELSE Named(x.name)
         Ends(res) == Reply(r, res) /\ tx' = [tx EXCEPT !.failed = @ \/ (tx.open /\ res # "ok")]
     IN IF tx.failed THEN Ends("failed") /\ UNCHANGED prepared
        ELSE IF x.parse /\ Named(x.name) # {} THEN Ends("exists") /\ UNCHANGED prepared
        ELSE \/ x.parse /\ Ends("failed") /\ UNCHANGED prepared
             \/ /\ prepared' = prepared \cup known
                /\ IF known = {} THEN Ends("missing")
                   ELSE IF \E p \in known : p.stale THEN Ends("stale")
                   ELSE \E res \in {"ok", "failed"} : Ends(res)

\* The schema changes under the statements.
Alter ==
  /\ alters < AlterBound /\ alters' = alters + 1
  /\ prepared' = {[p EXCEPT !.stale = TRUE] : p \in prepared}
  /\ alone' = None
  /\ UNCHANGED <<cacheVars, taskVars, chan, tx, cut, unsure, ran>>

-----------------------------------------------------------------------------
Next ==
  \/ \E t \in Tasks : Call(t) \/ Look(t) \/ Send(t) \/ Succeeds(t) \/ Fails(t) \/ Invalidate(t) \/ GiveUp(t)
  \/ Setup \/ Commit \/ Close \/ Execute \/ Alter

Spec == Init /\ [][Next]_vars


-----------------------------------------------------------------------------
(* What the users of a connection rely on.                                 *)

\* A name denotes one statement for the whole session, and the statement that a request
\* binds is the one of its SQL, through eviction, publication by the slower of two
\* tasks, and retries; an entry of the cache is known to the server, unless
\* Pipeline::run published it though the statement had failed
\* (async_conn.rs:381-399, 423-457).
NamesHonest ==
  /\ \A p, q \in prepared : p.name = q.name => p = q
  /\ \A i \in DOMAIN chan : chan[i].op = "exec" => \A p \in Named(chan[i].x.name) : p.sql = chan[i].x.sql
  /\ \A s \in Sqls : cache[s] # None =>
       cache[s] \in unsure \/ \E p \in Named(cache[s]) : p.sql = s

\* A call of Client or of exec_query and exec_transaction that nobody disturbs never
\* tells its caller that the statement is stale, missing or there already: the second
\* attempt repairs it, in a transaction of its own if need be
\* (async_conn.rs:585-667, query.rs:237-244).
AloneRepaired ==
  [][\A t \in Tasks : Fails(t) /\ alone = t /\ call[t].does.again # "never"
       => Outcome(t) \notin Stale \cup {"exists"}]_vars

\* A transaction that is open on the shared session always has a COMMIT on its way, though
\* batches of several tasks mix their BEGINs and COMMITs, statements in them fail, and calls
\* return or are dropped before their COMMIT was answered.  The exception is a call that is
\* dropped between its sends: its BEGIN stays without a COMMIT, and the session in the
\* transaction, until somebody else sends one (pipeline_transaction, async_conn.rs:870-912).
TransactionEnds ==
  tx.open =>
    \/ cut
    \/ \E i \in DOMAIN chan : chan[i].op = "commit"
    \/ \E t \in Tasks : pc[t] = "send" /\ Halfway(t)
=============================================================================
