------------------------------ MODULE Handshake ------------------------------
(***************************************************************************)
(* A WireConn from the socket to the first ReadyForQuery: TLS negotiation  *)
(* (src/pg-wired/src/tls.rs), the startup message, the authentication loop *)
(* (connection.rs), SCRAM with channel binding (scram.rs, cert_hash.rs).   *)
(*                                                                         *)
(* The server is external: it answers as the PostgreSQL protocol has it,   *)
(* and may refuse, close or send a notice at any point.  Hashes and proofs *)
(* are symbolic: a digest is the pair of its algorithm and what it hashes, *)
(* and a proof is right when it is made from the right password over the   *)
(* messages that both sides have seen.                                     *)
(***************************************************************************)
EXTENDS Naturals, Sequences, FiniteSets

CONSTANTS
  Modes,        \* the TlsModes a caller asks for: of "Disable", "Prefer", "Require"
  Servers,      \* the servers that may be met: records of ServerType
  DialBound     \* bound on the connections that are opened

ScramMechanisms == {"SCRAM-SHA-256", "SCRAM-SHA-256-PLUS"}

ServerType ==
  [ssl     : {"S", "N", "E"},       \* its answer to SSLRequest; old servers send an error
   trusted : BOOLEAN,               \* its certificate verifies for the host name
   sig     : {"sha1", "sha256", "sha384", "sha512", "sha224"},   \* of its certificate
   auth    : {"trust", "cleartext", "md5", "sasl", "reject"},
   mechs   : SUBSET ScramMechanisms,  \* of those it has for "sasl"; others are like none
   knows   : BOOLEAN]               \* its password of the user is the client's

ASSUME HandshakeAssumption ==
  /\ Modes \subseteq {"Disable", "Prefer", "Require"}
  /\ Servers \subseteq ServerType
  /\ DialBound \in Nat

VARIABLES
  mode,         \* the TlsMode of the caller
  srv,          \* the server of the socket: its record, its state and its pid
  hs,           \* the client: where it stands, the stream, what it was told
  toSrv, toCli, \* bytes in the socket, as messages
  dials         \* connections opened so far

handshakeVars == <<srv, hs, toSrv, toCli, dials>>

M(type) == [t |-> type]
Closed == [at |-> "closed", tls |-> FALSE, mech |-> "trust", pid |-> 0, err |-> "none"]
Down   == [at |-> "down", pid |-> 0]
\* A new backend of a server.
Session(s, pid) == [ssl |-> s.ssl, trusted |-> s.trusted, sig |-> s.sig, auth |-> s.auth, mechs |-> s.mechs,
                    knows |-> s.knows, at |-> "fresh", pid |-> pid]

HandshakeInit ==
  /\ mode \in Modes
  /\ srv = Down /\ hs = Closed /\ toSrv = <<>> /\ toCli = <<>> /\ dials = 0

-----------------------------------------------------------------------------
(* The client.                                                             *)

\* cert_signature_hash: SHA-384 and SHA-512 by the signature of the certificate, and
\* SHA-256 for everything else.
CertHash(sig) == [alg |-> IF sig \in {"sha384", "sha512"} THEN sig ELSE "sha256", of |-> "certificate"]

\* Variant: with TLS, channel binding is taken for granted.
Mechanism_Bound(tls, offered) ==
  IF tls THEN "SCRAM-SHA-256-PLUS" ELSE IF "SCRAM-SHA-256" \in offered THEN "SCRAM-SHA-256" ELSE "none"

\* choose_scram_mechanism over the mechanisms that were offered.
Mechanism(tls, offered) ==
  IF tls /\ "SCRAM-SHA-256-PLUS" \in offered THEN "SCRAM-SHA-256-PLUS"
  ELSE IF "SCRAM-SHA-256" \in offered THEN "SCRAM-SHA-256" ELSE "none"

\* ScramClient: the binding data that goes into the header and the final message.
Binding(mech, sig) == IF mech = "SCRAM-SHA-256-PLUS" THEN <<"p", CertHash(sig)>> ELSE <<"n">>

Give(m)  == toSrv' = Append(toSrv, m)
Fails(e) == hs' = [hs EXCEPT !.at = "failed", !.err = e] /\ UNCHANGED toSrv

\* Require does not go on without TLS.
Refused == mode = "Require"

\* connect_inner: TcpStream::connect, then SSLRequest unless TLS is disabled, then the
\* startup message.
Dial(s) ==
  /\ hs.at = "closed" /\ dials < DialBound
  /\ dials' = dials + 1
  /\ srv' = Session(s, dials + 1)
  /\ toCli' = <<>>
  /\ IF mode = "Disable" THEN hs' = [Closed EXCEPT !.at = "auth"] /\ toSrv' = <<M("Startup")>>
                         ELSE hs' = [Closed EXCEPT !.at = "ssl"] /\ toSrv' = <<M("SSLRequest")>>
  /\ UNCHANGED mode

\* Nobody listens at the address.
DialRefused ==
  /\ hs.at = "closed" /\ dials < DialBound
  /\ dials' = dials + 1 /\ hs' = [Closed EXCEPT !.at = "failed", !.err = "Io"]
  /\ srv' = Down /\ toSrv' = <<>> /\ toCli' = <<>>
  /\ UNCHANGED mode

\* A message was read at one of the points ats.
Reads(ats) == hs.at \in ats /\ toCli # <<>> /\ toCli' = Tail(toCli) /\ UNCHANGED <<mode, srv, dials>>
Got == Head(toCli)

\* TlsConnector::connect: the certificate verifies, and the peer is there.
Trusted == srv.at # "down" /\ srv.trusted

\* negotiate_tls_with_config: the byte that answers SSLRequest.
ReadSslAnswer ==
  /\ Reads({"ssl"})
  /\ CASE Got.t = "S" /\ Trusted       -> Give(M("Startup")) /\ hs' = [hs EXCEPT !.at = "auth", !.tls = TRUE]
       [] Got.t = "S" /\ ~Trusted      -> Fails("Io")
       [] Got.t = "N" /\ Refused      -> Fails("Protocol")
       [] Got.t = "N" /\ ~Refused     -> Give(M("Startup")) /\ hs' = [hs EXCEPT !.at = "auth"]
       [] OTHER                       -> Fails("Protocol")

\* A password was asked for, in the clear or hashed with the salt.
ReadPasswordRequest ==
  /\ Reads({"auth"}) /\ Got.t \in {"cleartext", "md5"}
  /\ hs' = [hs EXCEPT !.mech = Got.t]
  /\ Give([t |-> "Password", form |-> Got.t])

\* AuthenticationSASL: choose a mechanism and send client-first.
ReadSasl ==
  /\ Reads({"auth"}) /\ Got.t = "sasl"
  /\ LET m == Mechanism(hs.tls, Got.offered)
     IN IF m = "none" THEN Fails("Protocol")
        ELSE /\ hs' = [hs EXCEPT !.mech = m, !.at = "first"]
             /\ Give([t |-> "Initial", mech |-> m])

\* process_server_first: a nonce that does not continue ours, or what does not parse,
\* ends the attempt; else the final message proves the password.
ReadServerFirst ==
  /\ Reads({"first"}) /\ Got.t = "Continue"
  /\ IF ~Got.good THEN Fails("Protocol")
     ELSE /\ hs' = [hs EXCEPT !.at = "final"]
          /\ Give([t |-> "Response", binding |-> Binding(hs.mech, srv.sig)])

\* The loop after the final message ends with AuthenticationOk and goes back to the
\* authentication loop.
ReadScramOk ==
  /\ Reads({"final"}) /\ Got.t = "Ok"
  /\ hs' = [hs EXCEPT !.at = "auth"] /\ UNCHANGED toSrv

ReadKey ==
  /\ Reads({"auth"}) /\ Got.t = "Key"
  /\ hs' = [hs EXCEPT !.pid = Got.pid] /\ UNCHANGED toSrv

\* The authentication loop ends; the WireConn goes to the caller.
ReadStartupReady ==
  /\ Reads({"auth"}) /\ Got.t = "Ready"
  /\ hs' = [hs EXCEPT !.at = "ready"] /\ UNCHANGED toSrv

ReadStartupError == Reads({"auth", "first", "final"}) /\ Got.t = "Error" /\ Fails("Pg")

\* ParameterStatus, NoticeResponse, AuthenticationOk where nothing waits for it,
\* SASLFinal: read and left.
ReadIgnored ==
  /\ \/ Reads({"auth"})  /\ Got.t \in {"Param", "Notice", "Ok", "SaslFinal"}
     \/ Reads({"first"}) /\ Got.t \in {"Notice"}
     \/ Reads({"final"}) /\ Got.t \in {"Notice", "SaslFinal"}
  /\ UNCHANGED <<hs, toSrv>>

\* read returns 0, or fails because the socket was reset; a write that fails is the same.
ReadEnd ==
  /\ hs.at \in {"ssl", "auth", "first", "final"} /\ srv.at = "down" /\ toCli = <<>>
  /\ \E e \in {"Io", "ConnectionClosed"} : Fails(e)
  /\ UNCHANGED <<mode, srv, toCli, dials>>

\* connect was told no: the WireConn under construction is dropped.
DropAttempt ==
  /\ hs.at = "failed"
  /\ hs' = Closed /\ srv' = Down /\ toSrv' = <<>> /\ toCli' = <<>>
  /\ UNCHANGED <<mode, dials>>

-----------------------------------------------------------------------------
(* The server.                                                             *)

Say(ms) == toCli' = toCli \o ms
Asked == Head(toSrv)
Takes(at, type) ==
  /\ srv.at = at /\ toSrv # <<>> /\ Asked.t = type
  /\ toSrv' = Tail(toSrv) /\ UNCHANGED <<mode, hs, dials>>

Welcome == <<M("Ok"), M("Param"), [t |-> "Key", pid |-> srv.pid], M("Ready")>>
Becomes(at) == srv' = [srv EXCEPT !.at = at]
Rejects == Say(<<M("Error")>>) /\ srv' = [srv EXCEPT !.at = "down"]

\* The hash PostgreSQL makes of its own certificate.
ServerHash(sig) == [alg |-> IF sig = "sha1" THEN "sha256" ELSE sig, of |-> "certificate"]

SrvSsl ==
  /\ Takes("fresh", "SSLRequest")
  /\ IF srv.ssl = "E" THEN Say(<<M("E")>>) /\ Becomes("down")
     ELSE Say(<<M(srv.ssl)>>) /\ srv' = [srv EXCEPT !.at = IF srv.ssl = "S" THEN "secure" ELSE "plain"]

\* The mechanisms of AuthenticationSASL: channel binding needs TLS, and is not offered by
\* every server that has it (releases before 11, and builds and poolers without).
Offered(secure) == IF secure THEN srv.mechs ELSE srv.mechs \ {"SCRAM-SHA-256-PLUS"}

SrvStartup ==
  \E at \in {"fresh", "plain", "secure"} :
    /\ Takes(at, "Startup")
    /\ CASE srv.auth = "trust"  -> Say(Welcome) /\ Becomes("ready")
         [] srv.auth = "reject" -> Rejects
         [] srv.auth = "sasl"   -> /\ Say(<<[t |-> "sasl", offered |-> Offered(at = "secure")]>>)
                                   /\ Becomes("sasl")
         [] OTHER               -> Say(<<M("Notice"), M(srv.auth)>>) /\ Becomes("password")

SrvPassword ==
  /\ Takes("password", "Password")
  /\ IF srv.knows /\ Asked.form = srv.auth THEN Say(Welcome) /\ Becomes("ready") ELSE Rejects

\* A mechanism that the server does not have is an error.
SrvInitial ==
  /\ Takes("sasl", "Initial")
  /\ IF Asked.mech \in srv.mechs
     THEN /\ \E good \in BOOLEAN : Say(<<[t |-> "Continue", good |-> good]>>)
          /\ srv' = [srv EXCEPT !.at = IF Asked.mech = "SCRAM-SHA-256" THEN "proof" ELSE "bound proof"]
     ELSE Rejects

SrvResponse ==
  \/ /\ Takes("proof", "Response")
     /\ IF srv.knows /\ Asked.binding = <<"n">>
        THEN Say(<<M("SaslFinal")>> \o Welcome) /\ Becomes("ready") ELSE Rejects
  \/ /\ Takes("bound proof", "Response")
     /\ IF srv.knows /\ Asked.binding = <<"p", ServerHash(srv.sig)>>
        THEN Say(<<M("SaslFinal")>> \o Welcome) /\ Becomes("ready") ELSE Rejects

\* The backend exits, or the network does: what was sent may still arrive.
SrvGone ==
  /\ srv.at # "down" /\ Becomes("down")
  /\ toCli' \in {toCli, <<>>}
  /\ UNCHANGED <<mode, hs, toSrv, dials>>

-----------------------------------------------------------------------------
Connect(peers) ==
  \/ \E s \in peers : Dial(s)
  \/ DialRefused \/ ReadSslAnswer \/ ReadPasswordRequest \/ ReadSasl \/ ReadServerFirst
  \/ ReadScramOk \/ ReadKey \/ ReadStartupReady \/ ReadStartupError \/ ReadIgnored \/ ReadEnd

Server == SrvSsl \/ SrvStartup \/ SrvPassword \/ SrvInitial \/ SrvResponse \/ SrvGone
=============================================================================
