-------------------------- MODULE ListenerProperties --------------------------
(***************************************************************************)
(* What a caller of PgListener and of WireConn::connect may rely on.       *)
(***************************************************************************)
EXTENDS Listener

Elements(s) == {s[i] : i \in DOMAIN s}

\* Between two calls the session of a live connection is subscribed to the channels of
\* the listener, no more and no less: after LISTEN and UNLISTEN that were refused, and
\* after a reconnect, in the middle of which the connection may have been lost again
\* (listener.rs:86-113, 172-212).  A dropped call is the exception, until the next
\* connection: what it sent is executed, and its answer is taken for the next one's.
Subscribed == pc \in {"idle", "recv"} /\ told /\ srv.at = "ready" /\ ~cut => subs = Elements(channels)

HandedOut == {n \in DOMAIN fate : fate[n] = "got"}

\* Notifications are handed out in the order in which they were published, once, and
\* with no silent gap: each earlier one was handed out before, read by a simple_query, or
\* lost with a connection and recv_event returned Reconnected after that (recv keeps
\* it to itself); or its channel was not
\* one the session was subscribed to (listener.rs:130-155, pipeline.rs:111-130).
InOrder ==
  [][\A n \in HandedOut' \ HandedOut :
       /\ \A m \in HandedOut : m < n
       /\ \A m \in 1..(n - 1) : fate[m] \in {"got", "read", "told", "unheard"}]_vars

\* A reconnect does not hang: it ends with a listener that has its channels, or
\* is dropped, or has used up every connection there is (listener.rs:172-212,
\* connection.rs:275-381).
ReconnectEnds ==
  pc = "backoff" ~> pc = "idle" \/ (dials = DialBound /\ pc \in {"backoff", "connect"} /\ hs.at = "closed")

ReadyAsAgreed ==
  hs.at = "ready" /\ srv.at = "ready" =>
    /\ hs.pid = srv.pid
    /\ hs.mech = IF srv.auth # "sasl" THEN srv.auth
                 ELSE IF hs.tls /\ "SCRAM-SHA-256-PLUS" \in srv.mechs THEN "SCRAM-SHA-256-PLUS" ELSE "SCRAM-SHA-256"
    /\ mode = "Require" => hs.tls

RefusedForAReason ==
  hs.at = "failed" /\ hs.err = "Pg" =>
    srv.auth = "reject" \/ (srv.auth # "trust" /\ ~srv.knows) \/ (hs.tls /\ "SCRAM-SHA-256-PLUS" \in srv.mechs /\ srv.sig = "sha224")

\* A connection that is ready is the one the server gave: its pid is the backend's, the
\* mechanism it reports is what the server ran, with channel binding if there is TLS and
\* the server offers it and without on any other server, and there is TLS if it was
\* required; and connect returns an error of the server only if the server does not take
\* the user or the password, or binds with a certificate that is signed in a way that
\* cert_signature_hash does not know: on the others both sides hash alike, and no
\* mechanism is asked for that was not offered (connection.rs:78-113, 275-381,
\* cert_hash.rs:22-52).  Who takes SCRAM-SHA-256-PLUS out of the offer is not told from a
\* server that does not have it.
HandshakeSound == ReadyAsAgreed /\ RefusedForAReason
=============================================================================
