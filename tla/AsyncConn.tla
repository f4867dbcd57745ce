------------------------------ MODULE AsyncConn ------------------------------
(***************************************************************************)
(* The multiplexed connection of pg-wired (src/pg-wired/src/async_conn.rs).*)
(*                                                                         *)
(* Callers put requests into a bounded channel.  The writer task takes all *)
(* that are there, writes them in one go and only then appends them to the *)
(* pending queue; the reader task takes them from that queue one by one    *)
(* and reads messages until the response of the one in hand is complete.   *)
(* No message says which request it answers: the order alone does.  Here   *)
(* every message carries its request (req), for the properties to look at; *)
(* no step of the two tasks does.                                          *)
(*                                                                         *)
(* A step is what a task does between two awaits, or between two accesses  *)
(* of state that others see.  The server and the socket are modelled from  *)
(* how the tasks use them.                                                 *)
(***************************************************************************)
EXTENDS Naturals, Sequences, FiniteSets

CONSTANTS
  Calls,          \* calls of submit, submit_batch, submit_stream, pipeline_transaction, ...
  Reqs,           \* PipelineRequest
  Items,          \* [Calls -> Seq(Reqs)]: what a call puts into the channel, in order
  Collector,      \* [Reqs -> ResponseCollector]
  Terminates,     \* the requests that are the Terminate message of close()
  Unawaited,      \* the calls of enqueue_rollback
  Impatient,      \* the calls whose future, or stream, may be dropped or time out
  Replies,        \* per request, the answers the server may give: <<rows, end, ready>>
  ChanCap,        \* capacity of the request channel
  RowCap,         \* capacity of the row channel of a stream
  SendBuf,        \* how many requests fit between the writer and a server that does not read
  RecvBuf,        \* how many responses fit between the server and a reader that does not read
  CallBound,      \* bound on the number of calls made
  None

Buffered   == {"Rows", "CopyIn", "CopyOut"}
Collectors == Buffered \cup {"Drain", "Stream"}
ReadyKinds == {"ready_idle", "ready_in_transaction"}
Kinds      == {"row", "done", "error", "garbled"} \cup ReadyKinds
Msgs       == [req : Reqs, kind : Kinds, n : Nat]
RowItems   == {"row", "err", "closed", "protocol"}
Endings    == {"ok", "err", "closed", "io", "protocol"}
Outcomes   == [res : Endings, msgs : Seq(Msgs)]

ASSUME CallAssumption ==
  /\ Items \in [Calls -> Seq(Reqs)]
  /\ \A c \in Calls : \A i, j \in DOMAIN Items[c] : Items[c][i] = Items[c][j] => i = j
  /\ \A c, d \in Calls : \A i \in DOMAIN Items[c], j \in DOMAIN Items[d] :
       Items[c][i] = Items[d][j] => c = d
  /\ \A c \in Unawaited : Len(Items[c]) = 1
  /\ Collector \in [Reqs -> Collectors]
  /\ Terminates \subseteq {r \in Reqs : Collector[r] = "Drain"}
  /\ Unawaited \subseteq Calls /\ Impatient \subseteq Calls
  /\ None \notin Reqs \cup RowItems \cup Outcomes /\ None # "ok"

ASSUME SizeAssumption ==
  /\ Replies \in [Reqs -> SUBSET (Nat \X {"done", "error"} \X ReadyKinds)]
  /\ ChanCap \in Nat /\ RowCap \in Nat /\ CallBound \in Nat
  /\ SendBuf \in Nat /\ RecvBuf \in Nat \ {0}

VARIABLES
  handle,         \* somebody still owns the AsyncConn
  sent,           \* per call, how many of its requests are in the channel or beyond
  over,           \* calls that returned an error early, were dropped or need no answer
  chan,           \* request_tx .. request_rx, the channel
  wpc, batch,     \* the writer task: where it stands, the requests it has received
  pending,        \* VecDeque<PendingResponse>
  permit,         \* the stored permit of pending_notify
  rpc, cur,       \* the reader task: where it stands, the request in its hands
  got,            \* the messages read for it, in order
  res,            \* how reading its response ended
  item,           \* what the reader is sending into the row channel
  alive,          \* AtomicBool
  state_mutated,  \* AtomicBool
  resp,           \* per request, what its response_tx was given
  head,           \* per stream, what its header_tx was given
  rows,           \* per stream, everything its row_tx was given
  taken,          \* per stream, how much of it the consumer has received
  gone,           \* streams whose receivers are dropped
  inbox,          \* requests the server has not taken, what is still with the writer included
  wire,           \* on their way back, or in recv_buf: what is left of each response
  eof,            \* the socket is dead
  served,         \* history: what the server answered
  accepted        \* history: requests in the order in which the channel took them

callVars   == <<handle, sent, over, accepted>>
writerVars == <<wpc, batch, alive>>
readerVars == <<rpc, cur, got, res, item, state_mutated>>
streamVars == <<head, rows, taken, gone>>
socketVars == <<inbox, wire, eof, served>>
vars == <<callVars, chan, writerVars, pending, permit, readerVars, resp, streamVars, socketVars>>

Streams == {r \in Reqs : Collector[r] = "Stream"}
Members(s) == {s[i] : i \in DOMAIN s}

Msg(r, k, n) == [req |-> r, kind |-> k, n |-> n]
\* What the server may send for a request: rows, then the end of the command or
\* an error, then ReadyForQuery.
Response(r) ==
  {[i \in 1..a[1] |-> Msg(r, "row", i)] \o <<Msg(r, a[2], 0), Msg(r, a[3], 0)>> : a \in Replies[r]}

Init ==
  /\ handle = TRUE /\ sent = [c \in Calls |-> 0] /\ over = {} /\ accepted = <<>>
  /\ chan = <<>> /\ wpc = "recv" /\ batch = <<>> /\ alive = TRUE
  /\ pending = <<>> /\ permit = FALSE
  /\ rpc = "check" /\ cur = None /\ got = <<>> /\ res = "ok" /\ item = None
  /\ state_mutated = FALSE
  /\ resp = [r \in Reqs |-> None]
  /\ head = [r \in Streams |-> None] /\ rows = [r \in Streams |-> <<>>]
  /\ taken = [r \in Streams |-> 0] /\ gone = {}
  /\ inbox = <<>> /\ wire = <<>> /\ eof = FALSE /\ served = [r \in Reqs |-> <<>>]

-----------------------------------------------------------------------------
(* Callers.                                                                *)

\* The receiver of the request channel exists.
Open == wpc \notin {"left", "exited"}

Queue(r) == chan' = Append(chan, r) /\ accepted' = Append(accepted, r)

Begun == {c \in Calls : sent[c] > 0 \/ c \in over}

Sending(c) ==
  /\ handle /\ c \notin over /\ sent[c] < Len(Items[c])
  /\ c \in Begun \/ Cardinality(Begun) < CallBound

\* The next request_tx.send(..).await of a call completes.
Send(c) ==
  /\ Sending(c) /\ c \notin Unawaited /\ Open /\ Len(chan) < ChanCap
  /\ Queue(Items[c][sent[c] + 1])
  /\ sent' = [sent EXCEPT ![c] = @ + 1]
  /\ UNCHANGED <<handle, over, writerVars, pending, permit, readerVars, resp, streamVars, socketVars>>

\* The receiver is gone: the call returns ConnectionClosed, or close() its Ok.
SendErr(c) ==
  /\ Sending(c) /\ c \notin Unawaited /\ ~Open
  /\ over' = over \cup {c}
  /\ UNCHANGED <<handle, sent, accepted, chan, writerVars, pending, permit, readerVars, resp,
                 streamVars, socketVars>>

\* enqueue_rollback: nobody waits for the answer.
EnqueueRollback(c) ==
  /\ Sending(c) /\ c \in Unawaited /\ alive /\ Open /\ Len(chan) < ChanCap
  /\ Queue(Items[c][1])
  /\ sent' = [sent EXCEPT ![c] = 1] /\ over' = over \cup {c}
  /\ UNCHANGED <<handle, writerVars, pending, permit, readerVars, resp, streamVars, socketVars>>

RollbackRefused(c) ==
  /\ Sending(c) /\ c \in Unawaited
  /\ ~alive \/ ~Open \/ Len(chan) >= ChanCap
  /\ over' = over \cup {c}
  /\ UNCHANGED <<handle, sent, accepted, chan, writerVars, pending, permit, readerVars, resp,
                 streamVars, socketVars>>

\* The future of a call, or the stream it returned, is dropped; or REQUEST_TIMEOUT
\* has passed. Its requests stay where they are.
GiveUp(c) ==
  /\ c \in Impatient \ over /\ sent[c] > 0
  /\ over' = over \cup {c}
  /\ gone' = gone \cup (Members(Items[c]) \cap Streams)
  /\ UNCHANGED <<handle, sent, accepted, chan, writerVars, pending, permit, readerVars, resp,
                 head, rows, taken, socketVars>>

\* The caller has the answer to its request, or the header of its stream.
Told(r) == resp[r] # None \/ (r \in Streams /\ head[r] # None)

Returned(c) ==
  \/ c \in over
  \/ sent[c] = 0
  \/ sent[c] = Len(Items[c]) /\ \A r \in Members(Items[c]) : Told(r)

\* The last owner drops the AsyncConn; calls borrow it, streams do not.
DropHandle ==
  /\ handle /\ \A c \in Calls : Returned(c)
  /\ handle' = FALSE
  /\ UNCHANGED <<sent, over, accepted, chan, writerVars, pending, permit, readerVars, resp,
                 streamVars, socketVars>>

\* The consumer of a stream receives the next row or error.
StreamNext(r) ==
  /\ r \notin gone /\ head[r] = "ok" /\ taken[r] < Len(rows[r])
  /\ taken' = [taken EXCEPT ![r] = @ + 1]
  /\ UNCHANGED <<callVars, chan, writerVars, pending, permit, readerVars, resp, head, rows, gone,
                 socketVars>>

-----------------------------------------------------------------------------
(* writer_task.                                                            *)

Ended(how) == [res |-> how, msgs |-> <<>>]

\* The response_tx of these requests is used, or dropped, by the writer.
Fail(S, how) == resp' = [r \in Reqs |-> IF r \in S THEN Ended(how) ELSE resp[r]]

WriterRecv ==
  /\ wpc = "recv" /\ chan # <<>>
  /\ batch' = <<Head(chan)>> /\ chan' = Tail(chan) /\ wpc' = "more"
  /\ UNCHANGED <<callVars, alive, pending, permit, readerVars, resp, streamVars, socketVars>>

\* Variant: the batch is filled from the wrong end.
WriterTryRecv_Front ==
  /\ wpc = "more" /\ chan # <<>>
  /\ batch' = <<Head(chan)>> \o batch /\ chan' = Tail(chan)
  /\ UNCHANGED <<callVars, wpc, alive, pending, permit, readerVars, resp, streamVars, socketVars>>

WriterTryRecv ==
  /\ wpc = "more" /\ chan # <<>>
  /\ batch' = Append(batch, Head(chan)) /\ chan' = Tail(chan)
  /\ UNCHANGED <<callVars, wpc, alive, pending, permit, readerVars, resp, streamVars, socketVars>>

WriterNoMore ==
  /\ wpc = "more" /\ chan = <<>>
  /\ wpc' = "write"
  /\ UNCHANGED <<callVars, chan, batch, alive, pending, permit, readerVars, resp, streamVars, socketVars>>

\* write_all and flush of the whole batch begin. The server can take it piece by
\* piece from now on; into a dead socket the bytes are lost.
WriterWrite ==
  /\ wpc = "write"
  /\ inbox' = IF eof THEN inbox ELSE inbox \o batch
  /\ wpc' = "flush"
  /\ UNCHANGED <<callVars, chan, batch, alive, pending, permit, readerVars, resp, streamVars,
                 wire, eof, served>>

\* They return Ok, once the socket holds what the server has not taken. Until then
\* the reader knows nothing of the batch.
WriterFlush ==
  /\ wpc = "flush" /\ Len(inbox) <= SendBuf
  /\ wpc' = "push"
  /\ UNCHANGED <<callVars, chan, batch, alive, pending, permit, readerVars, resp, streamVars, socketVars>>

\* Variant: the writer goes on with a batch it has reported as failed.
WriterWriteErr_Queues ==
  /\ wpc = "flush" /\ eof
  /\ Fail(Members(batch), "io")
  /\ wpc' = "push"
  /\ UNCHANGED <<callVars, chan, batch, alive, pending, permit, readerVars, streamVars, socketVars>>

\* They return an error, which every request of the batch is told, also one that
\* the server has answered by then.
WriterWriteErr ==
  /\ wpc = "flush" /\ eof
  /\ Fail(Members(batch), "io") /\ batch' = <<>>
  /\ wpc' = "drain"
  /\ UNCHANGED <<callVars, chan, alive, pending, permit, readerVars, streamVars, socketVars>>

\* The critical section of pending.
WriterPush ==
  /\ wpc = "push"
  /\ pending' = pending \o batch /\ batch' = <<>>
  /\ wpc' = "notify"
  /\ UNCHANGED <<callVars, chan, alive, permit, readerVars, resp, streamVars, socketVars>>

\* Variant: the reader is not woken.
WriterNotify_Forgotten ==
  /\ wpc = "notify"
  /\ wpc' = "recv"
  /\ UNCHANGED <<callVars, chan, batch, alive, pending, permit, readerVars, resp, streamVars, socketVars>>

WriterNotify ==
  /\ wpc = "notify"
  /\ permit' = TRUE
  /\ wpc' = "recv"
  /\ UNCHANGED <<callVars, chan, batch, alive, pending, readerVars, resp, streamVars, socketVars>>

\* The channel is empty and all senders are gone.
WriterRecvNone ==
  /\ wpc = "recv" /\ chan = <<>> /\ ~handle
  /\ wpc' = "drain"
  /\ UNCHANGED <<callVars, chan, batch, alive, pending, permit, readerVars, resp, streamVars, socketVars>>

\* drain_pending_on_exit
WriterDrain ==
  /\ wpc = "drain"
  /\ Fail(Members(pending), "closed") /\ pending' = <<>>
  /\ wpc' = "leave"
  /\ UNCHANGED <<callVars, chan, batch, alive, permit, readerVars, streamVars, socketVars>>

\* Variant: what is still in the channel stays there.
WriterLeave_Keeps ==
  /\ wpc = "leave"
  /\ wpc' = "left"
  /\ UNCHANGED <<callVars, chan, batch, alive, pending, permit, readerVars, resp, streamVars, socketVars>>

\* The function returns, the receiver is dropped and with it what the channel holds.
WriterLeave ==
  /\ wpc = "leave"
  /\ Fail(Members(chan), "closed") /\ chan' = <<>>
  /\ wpc' = "left"
  /\ UNCHANGED <<callVars, batch, alive, pending, permit, readerVars, streamVars, socketVars>>

WriterExit ==
  /\ wpc = "left"
  /\ alive' = FALSE
  /\ wpc' = "exited"
  /\ UNCHANGED <<callVars, chan, batch, pending, permit, readerVars, resp, streamVars, socketVars>>

-----------------------------------------------------------------------------
(* reader_task.  rpc is "check" or "wait" in its outer loop, "collect" in  *)
(* collect_rows, stream_rows or a copy collector, "drain" in               *)
(* drain_until_ready, "send" in row_tx.send, "answer" when it has a result.*)

\* drain_until_ready is the whole of the Drain collector.
ReaderPop ==
  /\ rpc = "check" /\ pending # <<>>
  /\ cur' = Head(pending) /\ pending' = Tail(pending)
  /\ got' = <<>> /\ res' = "ok"
  /\ rpc' = IF Collector[cur'] = "Drain" THEN "drain" ELSE "collect"
  /\ UNCHANGED <<callVars, chan, writerVars, permit, item, state_mutated, resp, streamVars, socketVars>>

ReaderPark ==
  /\ rpc = "check" /\ pending = <<>>
  /\ rpc' = "wait"
  /\ UNCHANGED <<callVars, chan, writerVars, pending, permit, cur, got, res, item, state_mutated,
                 resp, streamVars, socketVars>>

ReaderWake ==
  /\ rpc = "wait" /\ permit
  /\ permit' = FALSE /\ rpc' = "check"
  /\ UNCHANGED <<callVars, chan, writerVars, pending, cur, got, res, item, state_mutated, resp,
                 streamVars, socketVars>>

\* read_msg returns the next message. The responses follow each other without a
\* mark: the reader does not look where one ends.
Message == Head(Head(wire))
Incoming(k) == wire # <<>> /\ Message.kind = k
Consume ==
  /\ got' = Append(got, Message)
  /\ wire' = IF Len(Head(wire)) = 1 THEN Tail(wire) ELSE [wire EXCEPT ![1] = Tail(@)]

\* header_tx.take(): the header is sent once.
Header(how) == head' = IF head[cur] = None THEN [head EXCEPT ![cur] = how] ELSE head

\* What leaves the other tasks and the callers alone.
ReadOnly == UNCHANGED <<callVars, chan, writerVars, pending, permit, cur, resp, rows, taken, gone,
                        inbox, eof, served>>

\* A row, or the end of the command, for a collector that keeps what it reads.
CollectBuffered ==
  /\ rpc = "collect" /\ Collector[cur] \in Buffered
  /\ Incoming("row") \/ Incoming("done")
  /\ Consume
  /\ UNCHANGED <<rpc, res, item, state_mutated, head>> /\ ReadOnly

StreamRow ==
  /\ rpc = "collect" /\ cur \in Streams /\ Incoming("row")
  /\ Consume /\ Header("ok")
  /\ rpc' = "send" /\ item' = "row"
  /\ UNCHANGED <<res, state_mutated>> /\ ReadOnly

StreamDone ==
  /\ rpc = "collect" /\ cur \in Streams /\ Incoming("done")
  /\ Consume /\ Header("ok")
  /\ UNCHANGED <<rpc, res, item, state_mutated>> /\ ReadOnly

\* note_rfq_status
Note(k) == state_mutated' = (state_mutated \/ k # "ready_idle")

\* The response is complete: what collect_rows, the two copy collectors, stream_rows
\* and drain_until_ready have in common when they return.
Ready ==
  /\ \E k \in ReadyKinds : Incoming(k) /\ Note(k)
  /\ Consume
  /\ rpc' = "answer"
  /\ UNCHANGED <<res, item>> /\ ReadOnly

RowsReady    == rpc = "collect" /\ Collector[cur] = "Rows" /\ Ready /\ UNCHANGED head
CopyInReady  == rpc = "collect" /\ Collector[cur] = "CopyIn" /\ Ready /\ UNCHANGED head
CopyOutReady == rpc = "collect" /\ Collector[cur] = "CopyOut" /\ Ready /\ UNCHANGED head
StreamReady  == rpc = "collect" /\ cur \in Streams /\ Ready /\ Header("ok")

\* Variant: the flag is not handed to drain_until_ready.
DrainReady_Unflagged ==
  /\ rpc = "drain" /\ \E k \in ReadyKinds : Incoming(k)
  /\ Consume
  /\ rpc' = "answer"
  /\ UNCHANGED <<res, item, state_mutated, head>> /\ ReadOnly

DrainReady == rpc = "drain" /\ Ready /\ UNCHANGED head

ReadReady == RowsReady \/ CopyInReady \/ CopyOutReady \/ StreamReady \/ DrainReady

\* Variant: the error is returned without reading the response to its end.
CollectError_NoDrain ==
  /\ rpc = "collect" /\ Collector[cur] \in Buffered /\ Incoming("error")
  /\ Consume
  /\ res' = "err" /\ rpc' = "answer"
  /\ UNCHANGED <<item, state_mutated, head>> /\ ReadOnly

\* An error goes to the caller, the rest of the response nowhere.
CollectError ==
  /\ rpc = "collect" /\ Collector[cur] \in Buffered /\ Incoming("error")
  /\ Consume
  /\ res' = "err" /\ rpc' = "drain"
  /\ UNCHANGED <<item, state_mutated, head>> /\ ReadOnly

\* Variant: an error after the header is dropped.
StreamError_Silent ==
  /\ rpc = "collect" /\ cur \in Streams /\ Incoming("error")
  /\ Consume /\ Header("err")
  /\ res' = "err" /\ rpc' = "drain"
  /\ UNCHANGED <<item, state_mutated>> /\ ReadOnly

\* To the header if there is none yet, else into the row channel.
StreamError ==
  /\ rpc = "collect" /\ cur \in Streams /\ Incoming("error")
  /\ Consume /\ Header("err")
  /\ res' = "err"
  /\ IF head[cur] = None THEN rpc' = "drain" /\ UNCHANGED item
                         ELSE rpc' = "send" /\ item' = "err"
  /\ UNCHANGED state_mutated /\ ReadOnly

\* drain_until_ready passes over everything else, errors included.
DrainMsg ==
  /\ rpc = "drain"
  /\ \E k \in {"row", "done", "error"} : Incoming(k)
  /\ Consume
  /\ UNCHANGED <<rpc, res, item, state_mutated, head>> /\ ReadOnly

\* read_msg fails with `how`; the response ends here.
ReadFails(how) ==
  /\ res' = how
  /\ IF rpc = "collect" /\ cur \in Streams
       THEN /\ Header("err")
            /\ IF head[cur] = None THEN rpc' = "answer" /\ UNCHANGED item
                                   ELSE rpc' = "send" /\ item' = how
       ELSE rpc' = "answer" /\ UNCHANGED <<head, item>>

ReadEof ==
  /\ rpc \in {"collect", "drain"} /\ wire = <<>> /\ eof
  /\ ReadFails("closed")
  /\ UNCHANGED <<wire, got, state_mutated>> /\ ReadOnly

\* Variant: a stream that ends with an error is not answered.
AfterSend_Lost == IF item = "row" THEN "collect" ELSE IF item = "err" THEN "drain" ELSE "check"

\* row_tx.send(..).await: what it was sending says where the reader goes on.
AfterSend == IF item = "row" THEN "collect" ELSE IF item = "err" THEN "drain" ELSE "answer"

StreamSend ==
  /\ rpc = "send" /\ cur \notin gone /\ Len(rows[cur]) - taken[cur] < RowCap
  /\ rows' = [rows EXCEPT ![cur] = Append(@, item)]
  /\ rpc' = AfterSend /\ item' = None
  /\ UNCHANGED <<callVars, chan, writerVars, pending, permit, cur, got, res, state_mutated, resp,
                 head, taken, gone, socketVars>>

\* The consumer is gone.
StreamSendErr ==
  /\ rpc = "send" /\ cur \in gone
  /\ rpc' = IF item = "row" THEN "drain" ELSE AfterSend
  /\ item' = None
  /\ UNCHANGED <<callVars, chan, writerVars, pending, permit, cur, got, res, state_mutated, resp,
                 streamVars, socketVars>>

\* response_tx.send, and row_tx is dropped.
ReaderAnswer ==
  /\ rpc = "answer"
  /\ resp' = [resp EXCEPT ![cur] = [res |-> res, msgs |-> got]]
  /\ cur' = None /\ got' = <<>> /\ res' = "ok" /\ rpc' = "check"
  /\ UNCHANGED <<callVars, chan, writerVars, pending, permit, item, state_mutated, streamVars, socketVars>>

-----------------------------------------------------------------------------
(* The server and the socket.                                              *)

\* The server takes a request, unless it is still busy with sending an answer.
Reply ==
  /\ ~eof /\ inbox # <<>> /\ Head(inbox) \notin Terminates /\ Len(wire) < RecvBuf
  /\ \E s \in Response(Head(inbox)) :
       /\ wire' = Append(wire, s)
       /\ served' = [served EXCEPT ![Head(inbox)] = s]
  /\ inbox' = Tail(inbox)
  /\ UNCHANGED <<callVars, chan, writerVars, pending, permit, readerVars, resp, streamVars, eof>>

\* It answers Terminate by closing the socket.
HangUp ==
  /\ ~eof /\ inbox # <<>> /\ Head(inbox) \in Terminates
  /\ eof' = TRUE /\ inbox' = <<>>
  /\ UNCHANGED <<callVars, chan, writerVars, pending, permit, readerVars, resp, streamVars, wire, served>>

\* The session or the network dies. What is on its way may be lost, at once or
\* when a later write is answered by a reset; part of a response may arrive.
Sever ==
  /\ ~eof
  /\ \/ wire' = <<>>
     \/ \E k \in 1..Len(wire) : \E n \in 1..Len(wire[k]) :
          wire' = Append(SubSeq(wire, 1, k - 1), SubSeq(wire[k], 1, n))
  /\ eof' = TRUE /\ inbox' = <<>>
  /\ UNCHANGED <<callVars, chan, writerVars, pending, permit, readerVars, resp, streamVars, served>>

-----------------------------------------------------------------------------
CallerStep ==
  \/ \E c \in Calls : Send(c) \/ SendErr(c) \/ EnqueueRollback(c) \/ RollbackRefused(c) \/ GiveUp(c)
  \/ DropHandle
  \/ \E r \in Streams : StreamNext(r)

WriterStep ==
  \/ WriterRecv \/ WriterTryRecv \/ WriterNoMore \/ WriterWrite \/ WriterFlush \/ WriterWriteErr
  \/ WriterPush \/ WriterNotify \/ WriterRecvNone \/ WriterDrain \/ WriterLeave \/ WriterExit

ReaderStep ==
  \/ ReaderPop \/ ReaderPark \/ ReaderWake
  \/ CollectBuffered \/ CollectError \/ StreamRow \/ StreamDone \/ StreamError \/ DrainMsg
  \/ ReadReady \/ ReadEof \/ StreamSend \/ StreamSendErr \/ ReaderAnswer

ServerStep == Reply \/ HangUp

Next == CallerStep \/ WriterStep \/ ReaderStep \/ ServerStep \/ Sever

Spec == Init /\ [][Next]_vars

\* The runtime polls every runnable task, the server answers or its socket closes,
\* and the owner of a stream reads it, unless he drops it.
Fairness ==
  /\ WF_vars(WriterStep) /\ WF_vars(ReaderStep) /\ WF_vars(ServerStep)
  /\ \A c \in Calls : WF_vars(Send(c) \/ SendErr(c))
  /\ \A r \in Streams : WF_vars(StreamNext(r))

FairSpec == Spec /\ Fairness

-----------------------------------------------------------------------------
(* With messages that parse_message rejects, such as text that is not      *)
(* UTF-8: it consumes them, and the collector returns at once.             *)

Garble ==
  /\ \E i \in DOMAIN wire : \E j \in DOMAIN wire[i] :
       wire[i][j].kind = "row" /\ wire' = [wire EXCEPT ![i][j].kind = "garbled"]
  /\ UNCHANGED <<callVars, chan, writerVars, pending, permit, readerVars, resp, streamVars, inbox, eof,
                 served>>

ReadGarbled ==
  /\ rpc \in {"collect", "drain"} /\ Incoming("garbled")
  /\ Consume /\ ReadFails("protocol")
  /\ UNCHANGED state_mutated /\ ReadOnly

GarbledSpec == Init /\ [][Next \/ Garble \/ ReadGarbled]_vars
=============================================================================
