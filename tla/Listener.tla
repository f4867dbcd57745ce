------------------------------- MODULE Listener -------------------------------
(***************************************************************************)
(* PgListener (src/resolute/src/listener.rs) on the PgPipeline of its own  *)
(* connection (src/pg-wired/src/pipeline.rs, connection.rs).               *)
(*                                                                         *)
(* A call is a future that its caller may drop: what it has sent is then   *)
(* executed, and the answer is read by whoever reads next.  A notification *)
(* is a message like the others, and what simple_query reads while it      *)
(* waits for its answer is gone.                                           *)
(***************************************************************************)
EXTENDS Handshake

CONSTANTS
  Peers,          \* the servers that a listener may meet
  Channels,
  CallBound,      \* bound on listen, unlisten and unlisten_all calls
  NoteBound,      \* bound on the notifications that are published
  None

ASSUME ListenerAssumption == Peers \subseteq Servers /\ CallBound \in Nat /\ NoteBound \in Nat

VARIABLES
  user,       \* "listener", or "wire": connect_with_tls_config called for a bare WireConn
  pc,         \* where the future of the user stands; "idle" is between two calls
  call,       \* the statement simple_query runs: [op, c]
  failed,     \* simple_query has read an ErrorResponse
  channels,   \* PgListener::channels
  todo,       \* the channels the reconnect has yet to subscribe to
  subs,       \* the channels the session is subscribed to
  calls,
  fate,       \* history: what became of the notifications so far, by number: see Publish
  cut,        \* history: a call was dropped before its answer, on this connection
  told        \* history: Reconnected was returned after the last connection was lost

listenerVars == <<user, pc, call, failed, channels, todo, subs, calls, fate, cut, told>>
vars == <<mode, handshakeVars, listenerVars>>

NoCall == [op |-> None, c |-> None]

Init ==
  /\ HandshakeInit
  /\ user \in {"listener", "wire"} /\ (user = "listener" => mode = "Prefer")
  /\ pc = "connect" /\ call = NoCall /\ failed = FALSE /\ channels = <<>> /\ todo = <<>>
  /\ subs = {} /\ calls = 0 /\ fate = <<>>
  /\ cut = FALSE /\ told = TRUE

\* The notifications whose fate is f have the fate g from now on.
Turn(f, g) == fate' = [n \in DOMAIN fate |-> IF fate[n] = f THEN g ELSE fate[n]]

-----------------------------------------------------------------------------
(* Connecting, for the first time or again.                                *)

\* A step of WireConn::connect for the connection that will be the listener's.
Connecting ==
  /\ pc = "connect" /\ Connect(IF user = "listener" THEN Peers ELSE Servers)
  /\ UNCHANGED listenerVars

\* connect returned: of PgListener::connect the first time, in the loop of
\* reconnect_with_backoff later, which goes on to subscribe.
Connected ==
  /\ pc = "connect" /\ hs.at = "ready"
  /\ pc' = IF told THEN "idle" ELSE "again"
  /\ todo' = channels
  /\ subs' = {} /\ cut' = FALSE
  /\ UNCHANGED <<mode, handshakeVars, user, call, failed, channels, calls, fate, told>>

\* connect failed: the error of PgListener::connect, or another turn of the loop.
ConnectFailed ==
  /\ pc = "connect" /\ DropAttempt
  /\ pc' = IF told THEN "ended" ELSE "backoff"
  /\ UNCHANGED <<user, call, failed, channels, todo, subs, calls, fate, cut, told>>

\* The sleep is over.
Redial ==
  /\ pc = "backoff"
  /\ pc' = "connect"
  /\ UNCHANGED <<mode, handshakeVars, user, call, failed, channels, todo, subs, calls, fate, cut, told>>

-----------------------------------------------------------------------------
(* simple_query: send, and read up to ReadyForQuery.                       *)

Query(o) ==
  /\ toSrv' = Append(toSrv, [t |-> "Query", op |-> o.op, c |-> o.c])
  /\ call' = o /\ failed' = FALSE
  /\ UNCHANGED <<mode, srv, hs, toCli, dials>>

\* listen, unlisten and unlisten_all.
Call ==
  /\ user = "listener" /\ pc = "idle" /\ calls < CallBound
  /\ \E o \in [op : {"listen", "unlisten"}, c : Channels] \cup {[op |-> "unlisten_all", c |-> None]} : Query(o)
  /\ pc' = "call" /\ calls' = calls + 1
  /\ UNCHANGED <<user, channels, todo, subs, fate, cut, told>>

\* reconnect_with_backoff: LISTEN to the next channel.
Relisten ==
  /\ pc = "again" /\ todo # <<>>
  /\ Query([op |-> "listen", c |-> Head(todo)])
  /\ pc' = "again call"
  /\ UNCHANGED <<user, channels, todo, subs, calls, fate, cut, told>>

Awaits == pc \in {"call", "again call"}

ReadSocket == toCli # <<>> /\ toCli' = Tail(toCli) /\ UNCHANGED <<mode, srv, hs, toSrv, dials>>

\* Anything but ReadyForQuery: the first error is kept, the rest is left.
ReadCall ==
  /\ Awaits /\ ReadSocket /\ Got.t # "Ready"
  /\ failed' = (failed \/ Got.t = "Error")
  /\ fate' = IF Got.t = "Note" THEN [fate EXCEPT ![Got.n] = "read"] ELSE fate
  /\ UNCHANGED <<user, pc, call, channels, todo, subs, calls, cut, told>>

\* retain, for channels that are there once (listen sees to it).
Without(s, c) ==
  LET at == CHOOSE i \in DOMAIN s : s[i] = c
  IN IF c \in {s[i] : i \in DOMAIN s} THEN SubSeq(s, 1, at - 1) \o SubSeq(s, at + 1, Len(s)) ELSE s

\* The channels after a call that went well.
Recorded ==
  CASE call.op = "listen"   -> IF \E i \in DOMAIN channels : channels[i] = call.c
                               THEN channels ELSE Append(channels, call.c)
    [] call.op = "unlisten" -> Without(channels, call.c)
    [] OTHER                -> <<>>

CallReturns ==
  /\ pc = "call" /\ ReadSocket /\ Got.t = "Ready"
  /\ channels' = IF failed THEN channels ELSE Recorded
  /\ pc' = "idle" /\ call' = NoCall
  /\ UNCHANGED <<user, failed, todo, subs, calls, fate, cut, told>>

\* Variant: a LISTEN that fails is left out.
RelistenReturns_Skips ==
  /\ pc = "again call" /\ ReadSocket /\ Got.t = "Ready"
  /\ pc' = "again" /\ todo' = Tail(todo)
  /\ call' = NoCall
  /\ UNCHANGED <<user, failed, channels, subs, calls, fate, cut, told>>

\* The next channel, or another connection if the server did not take this one.
RelistenReturns ==
  /\ pc = "again call" /\ ReadSocket /\ Got.t = "Ready"
  /\ IF failed THEN pc' = "giveup" /\ UNCHANGED todo ELSE pc' = "again" /\ todo' = Tail(todo)
  /\ call' = NoCall
  /\ UNCHANGED <<user, failed, channels, subs, calls, fate, cut, told>>

\* Variant: a reconnect that fails half way waits on the connection it has.
AwaitFails_Waits ==
  /\ Awaits /\ toCli = <<>> /\ srv.at = "down" /\ pc = "call"
  /\ pc' = "idle" /\ call' = NoCall
  /\ UNCHANGED <<mode, handshakeVars, user, failed, channels, todo, subs, calls, fate, cut, told>>

\* The connection is lost: the call returns the error, the loop of
\* reconnect_with_backoff takes another turn.
AwaitFails ==
  /\ Awaits /\ toCli = <<>> /\ srv.at = "down"
  /\ pc' = IF pc = "call" THEN "idle" ELSE "giveup"
  /\ call' = NoCall
  /\ UNCHANGED <<mode, handshakeVars, user, failed, channels, todo, subs, calls, fate, cut, told>>

\* The pipeline that was not told to take all channels is dropped.
GiveUp ==
  /\ pc = "giveup"
  /\ pc' = "backoff" /\ subs' = {} /\ Turn("sent", "lost")
  /\ hs' = Closed /\ srv' = Down /\ toSrv' = <<>> /\ toCli' = <<>>
  /\ UNCHANGED <<mode, dials, user, call, failed, channels, todo, calls, cut, told>>

\* All channels are subscribed to: the new pipeline is the listener's, and recv_event
\* returns Reconnected.
Reconnected ==
  /\ pc = "again" /\ todo = <<>>
  /\ pc' = "idle" /\ told' = TRUE /\ Turn("lost", "told")
  /\ UNCHANGED <<mode, handshakeVars, user, call, failed, channels, todo, subs, calls, cut>>

-----------------------------------------------------------------------------
(* recv_event.                                                             *)

Recv ==
  /\ user = "listener" /\ pc = "idle" /\ pc' = "recv"
  /\ UNCHANGED <<mode, handshakeVars, user, call, failed, channels, todo, subs, calls, fate, cut, told>>

RecvNote ==
  /\ pc = "recv" /\ ReadSocket /\ Got.t = "Note"
  /\ fate' = [fate EXCEPT ![Got.n] = "got"] /\ pc' = "idle"
  /\ UNCHANGED <<user, call, failed, channels, todo, subs, calls, cut, told>>

\* Variant: what comes is read and left, whatever it is.
RecvOther_Any ==
  /\ pc = "recv" /\ ReadSocket
  /\ UNCHANGED listenerVars

RecvOther ==
  /\ pc = "recv" /\ ReadSocket /\ Got.t # "Note"
  /\ UNCHANGED listenerVars

\* is_disconnect: the connection is given up and the loop begins with a sleep.
RecvEnd ==
  /\ pc = "recv" /\ toCli = <<>> /\ srv.at = "down"
  /\ pc' = "backoff" /\ told' = FALSE
  /\ hs' = Closed /\ srv' = Down /\ toSrv' = <<>> /\ subs' = {}
  /\ UNCHANGED <<mode, toCli, dials, user, call, failed, channels, todo, calls, fate, cut>>

\* A future is dropped.  In a call, its answer stays in the socket.  In a reconnect,
\* the new connection is dropped and the listener has the dead one.
Cancel ==
  /\ pc \in {"call", "recv", "backoff", "connect", "again", "again call", "giveup"}
  /\ user = "listener" /\ (pc = "connect" => ~told)
  /\ pc' = "idle" /\ call' = NoCall
  /\ IF pc \in {"call", "recv"}
     THEN cut' = (cut \/ pc = "call") /\ UNCHANGED <<handshakeVars, subs, fate>>
     ELSE /\ hs' = [Closed EXCEPT !.at = "ready"] /\ srv' = Down
          /\ toSrv' = <<>> /\ toCli' = <<>> /\ subs' = {} /\ Turn("sent", "lost")
          /\ UNCHANGED <<dials, cut>>
  /\ UNCHANGED <<mode, user, failed, channels, todo, calls, told>>

-----------------------------------------------------------------------------
(* The server, and other sessions that notify.                             *)

\* The handshake, and the loss of the connection at any point.
ServerStep ==
  /\ SrvSsl \/ SrvStartup \/ SrvPassword \/ SrvInitial \/ SrvResponse
  /\ UNCHANGED listenerVars

\* The connection is lost, with what it has not delivered or without.
Loss ==
  /\ SrvGone
  /\ IF toCli' = <<>> THEN Turn("sent", "lost") ELSE UNCHANGED fate
  /\ subs' = {}
  /\ UNCHANGED <<user, pc, call, failed, channels, todo, calls, cut, told>>

\* A query is executed, or refused.
Execute ==
  /\ Takes("ready", "Query") /\ UNCHANGED srv
  /\ \/ /\ Say(<<M("Complete"), M("Ready")>>)
        /\ subs' = CASE Asked.op = "listen"   -> subs \cup {Asked.c}
                     [] Asked.op = "unlisten" -> subs \ {Asked.c}
                     [] OTHER                 -> {}
     \/ Say(<<M("Error"), M("Ready")>>) /\ UNCHANGED subs
  /\ UNCHANGED <<user, pc, call, failed, channels, todo, calls, fate, cut, told>>

\* NOTIFY on a channel: to the session if it is subscribed ("sent", until it is "got",
\* "read" by a simple_query or "lost" with the connection).  Without a connection, or
\* before a new one has all channels, it is "lost" to who listens to the channel; what is
\* lost is "told" when Reconnected is returned.  Any other is "unheard".
Publish ==
  /\ user = "listener" /\ Len(fate) < NoteBound /\ pc # "ended"
  /\ \E c \in Channels :
       \/ /\ c \in subs
          /\ toCli' = Append(toCli, [t |-> "Note", n |-> Len(fate) + 1]) /\ fate' = Append(fate, "sent")
       \/ /\ c \notin subs /\ UNCHANGED toCli
          /\ fate' = Append(fate, IF (\E i \in DOMAIN channels : channels[i] = c) /\ (srv.at # "ready" \/ ~told)
                                 THEN "lost" ELSE "unheard")
  /\ UNCHANGED <<mode, srv, hs, toSrv, dials, user, pc, call, failed, channels, todo, subs, calls, cut, told>>

-----------------------------------------------------------------------------
Work ==
  \/ Connecting \/ Connected \/ ConnectFailed \/ Redial
  \/ Relisten \/ ReadCall \/ CallReturns \/ RelistenReturns \/ AwaitFails \/ GiveUp \/ Reconnected
  \/ RecvNote \/ RecvOther \/ RecvEnd

Others == ServerStep \/ Execute

Next == Work \/ Others \/ Call \/ Recv \/ Cancel \/ Loss \/ Publish

Spec == Init /\ [][Next]_vars

\* A future that is polled goes on, and a server that is up answers.
FairSpec == Spec /\ WF_vars(Work) /\ WF_vars(Others)
=============================================================================
