------------------------ MODULE AsyncConnProperties ------------------------
(***************************************************************************)
(* What the multiplexed connection promises, stated over AsyncConn.        *)
(***************************************************************************)
EXTENDS AsyncConn

Answered(r) == resp[r] # None /\ resp[r].res \in {"ok", "err"}

\* Where a request can be between the channel and its answer.
Travelling == chan \o batch \o pending
InHand == IF cur = None THEN {} ELSE {cur}

-----------------------------------------------------------------------------
\* Every variable has its type, and the local variables of the two tasks hold
\* something only while the task uses it.
TypeOK ==
  /\ handle \in BOOLEAN /\ sent \in [Calls -> Nat] /\ over \subseteq Calls /\ accepted \in Seq(Reqs)
  /\ chan \in Seq(Reqs) /\ batch \in Seq(Reqs) /\ pending \in Seq(Reqs) /\ inbox \in Seq(Reqs)
  /\ wpc \in {"recv", "more", "write", "flush", "push", "notify", "drain", "leave", "left", "exited"}
  /\ alive \in BOOLEAN /\ permit \in BOOLEAN /\ state_mutated \in BOOLEAN /\ eof \in BOOLEAN
  /\ rpc \in {"check", "wait", "collect", "drain", "send", "answer"}
  /\ cur \in Reqs \cup {None} /\ got \in Seq(Msgs) /\ res \in Endings
  /\ item \in RowItems \cup {None}
  /\ resp \in [Reqs -> Outcomes \cup {None}]
  /\ head \in [Streams -> {None, "ok", "err"}]
  /\ rows \in [Streams -> Seq(RowItems)]
  /\ taken \in [Streams -> Nat] /\ gone \subseteq Streams
  /\ wire \in Seq(Seq(Msgs) \ {<<>>}) /\ served \in [Reqs -> Seq(Msgs)]
  /\ batch = <<>> <=> wpc \notin {"more", "write", "flush", "push"}
  /\ cur = None <=> rpc \in {"check", "wait"}
  /\ item = None <=> rpc # "send"

\* A request that the channel took and that has no answer is in one place, once:
\* in the channel, with the writer, in the pending queue or with the reader; and
\* one that has its answer is nowhere. (The writer appends to pending only after
\* the write, and gives a batch up only if it does not, async_conn.rs:1097-1126.)
OneHome ==
  /\ \A i, j \in DOMAIN Travelling : Travelling[i] = Travelling[j] => i = j
  /\ Members(Travelling) \cap InHand = {}
  /\ Members(Travelling) \cup InHand = {r \in Members(accepted) : resp[r] = None}

\* The reader never waits in vain: a permit is there or on its way when it sleeps
\* beside a queue with requests, and when it reads from a live socket the server
\* still owes the response it is reading (async_conn.rs:1097-1132: written, then
\* queued, then notified).
NoStall ==
  /\ rpc = "wait" /\ pending # <<>> => permit \/ wpc = "notify"
  /\ rpc \in {"collect", "drain"} /\ wire = <<>> /\ ~eof => inbox # <<>> /\ Head(inbox) = cur

\* An answer is made of the whole response of the server to that request and of
\* nothing else, whoever gave up, was cancelled or stopped reading before
\* (async_conn.rs:1149-1213: the order of pending is all the reader has).
OwnAnswer ==
  \A r \in Reqs : Answered(r) => resp[r].msgs = served[r] /\ served[r] # <<>>

\* A stream ends without an error only if the consumer was sent every row of a
\* response that ended without one (async_conn.rs:1311-1390).
StreamHonest ==
  \A r \in Streams \ gone :
    resp[r] # None /\ head[r] = "ok" /\ Members(rows[r]) \subseteq {"row"} =>
      /\ served[r] # <<>>
      /\ Len(rows[r]) = Len(served[r]) - 2
      /\ \A m \in Members(served[r]) : m.kind # "error"

\* When a request that left a transaction open is answered, state_mutated is set:
\* the pool that gets the connection back afterwards resets it
\* (async_conn.rs:1239-1243, on every path to ReadyForQuery).
OpenTransactionFlagged ==
  \A r \in Reqs :
    resp[r] # None /\ (\E m \in Members(resp[r].msgs) : m.kind = "ready_in_transaction") => state_mutated

\* Requests are answered in the order of the channel, up to the one with which
\* the connection fails.
Contract == INSTANCE PipelineContract WITH
  outcome <- [r \in Reqs |-> IF resp[r] = None THEN "none" ELSE IF Answered(r) THEN "answered" ELSE "lost"]

ImplementsContract == Contract!Spec

\* The writer waits for the server to read, the server for the reader, and the reader
\* for the writer to queue what it has written only in part.
Wedged ==
  /\ wpc = "flush" /\ ~eof /\ Len(inbox) > SendBuf /\ Len(wire) >= RecvBuf
  /\ rpc = "wait" /\ pending = <<>>

\* Every request is answered at last, and not by REQUEST_TIMEOUT: the writer wakes
\* the reader (async_conn.rs:1128-1132), a failing writer drains pending (1138-1143),
\* and the reader goes on after a stream whose consumer left (1345-1348).  The one
\* exception is a batch so large, and answered at such length, that server and
\* writer block each other: the batch is queued for the reader only once all of it
\* is written (1104, 1124-1131).
EveryoneAnswered == \A r \in Reqs : (r \in Members(accepted)) ~> (resp[r] # None \/ Wedged)
=============================================================================
