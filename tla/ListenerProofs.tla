---------------------------- MODULE ListenerProofs ----------------------------
(***************************************************************************)
(* What TLAPS proves of the handshake and of the listener, for any servers *)
(* and channels, and any number of connections, calls and notifications.   *)
(***************************************************************************)
EXTENDS ListenerProperties, SequenceTheorems, TLAPS

-----------------------------------------------------------------------------
(* What is in the socket.                                                  *)

ServerMsgs ==
  {M(t) : t \in {"S", "N", "E", "cleartext", "md5", "Ok", "Param", "Notice", "SaslFinal", "Ready", "Error", "Complete"}}
  \cup [t : {"sasl"}, offered : SUBSET ScramMechanisms]
  \cup [t : {"Continue"}, good : BOOLEAN] \cup [t : {"Key"}, pid : Nat] \cup [t : {"Note"}, n : Nat]
Mechs      == {"trust", "cleartext", "md5", "SCRAM-SHA-256", "SCRAM-SHA-256-PLUS"}
Statements == [op : {"listen", "unlisten"}, c : Channels] \cup {[op |-> "unlisten_all", c |-> None]}
Queries    == {[t |-> "Query", op |-> o.op, c |-> o.c] : o \in Statements}
Sigs       == {"sha1", "sha256", "sha384", "sha512", "sha224"}
Bindings   == {<<"n">>} \cup {<<"p", CertHash(g)>> : g \in Sigs}
ClientMsgs ==
  {M("Startup"), M("SSLRequest")} \cup [t : {"Password"}, form : {"cleartext", "md5"}]
  \cup [t : {"Initial"}, mech : Mechs]
  \cup [t : {"Response"}, binding : Bindings] \cup Queries
HandshakeStates ==
  [at : {"closed", "ssl", "auth", "first", "final", "ready", "failed"}, tls : BOOLEAN, mech : Mechs,
   pid : Nat, err : {"none", "Io", "ConnectionClosed", "Protocol", "Pg"}]
Sessions ==
  [ssl : {"S", "N", "E"}, trusted : BOOLEAN, sig : Sigs,
   auth : {"trust", "cleartext", "md5", "sasl", "reject"},
   mechs : SUBSET ScramMechanisms, knows : BOOLEAN,
   at : {"fresh", "plain", "secure", "password", "sasl", "proof", "bound proof", "ready", "down"}, pid : Nat]

\* connect has begun and not ended.
Talking == hs.at \in {"ssl", "auth", "first", "final"}

Fates == {"sent", "got", "read", "lost", "told", "unheard"}

\* The variables of the handshake, and those of the listener.
WireTyped ==
  /\ mode \in {"Disable", "Prefer", "Require"} /\ dials \in Nat
  /\ srv \in Sessions \cup {Down} /\ (Talking => srv \in Sessions)
  /\ hs \in HandshakeStates /\ toSrv \in Seq(ClientMsgs) /\ toCli \in Seq(ServerMsgs)

ListenerTyped ==
  /\ user \in {"listener", "wire"}
  /\ pc \in {"connect", "again", "again call", "giveup", "backoff", "idle", "call", "recv", "ended"}
  /\ (Awaits => call \in Statements) /\ failed \in BOOLEAN /\ cut \in BOOLEAN /\ told \in BOOLEAN
  /\ channels \in Seq(Channels) /\ todo \in Seq(Channels) /\ fate \in Seq(Fates)
  /\ subs \subseteq Channels

Typed == WireTyped /\ ListenerTyped

-----------------------------------------------------------------------------
(* The handshake.                                                          *)

Agreed  == IF srv.auth # "sasl" THEN srv.auth 
           ELSE IF hs.tls /\ "SCRAM-SHA-256-PLUS" \in srv.mechs THEN "SCRAM-SHA-256-PLUS" ELSE "SCRAM-SHA-256"
Key     == [t |-> "Key", pid |-> srv.pid]

\* How far the two sides are, and what is between them.
Conversation ==
  /\ srv.at = "fresh" =>
       /\ toCli = <<>> /\ hs.mech = "trust" /\ ~hs.tls
       /\ \/ hs.at = "ssl" /\ toSrv = <<M("SSLRequest")>>
          \/ hs.at = "auth" /\ mode = "Disable" /\ toSrv = <<M("Startup")>>
  /\ srv.at = "plain" =>
       /\ hs.mech = "trust" /\ ~hs.tls
       /\ \/ hs.at = "ssl" /\ toSrv = <<>> /\ toCli = <<M("N")>>
          \/ hs.at = "auth" /\ toSrv = <<M("Startup")>> /\ toCli = <<>>
  /\ srv.at = "secure" =>
       /\ hs.mech = "trust"
       /\ \/ hs.at = "ssl" /\ toSrv = <<>> /\ toCli = <<M("S")>>
          \/ hs.at = "auth" /\ hs.tls /\ toSrv = <<M("Startup")>> /\ toCli = <<>>
  /\ srv.at = "password" =>
       /\ srv.auth \in {"cleartext", "md5"} /\ hs.at = "auth"
       /\ \/ toSrv = <<>> /\ toCli \in {<<M("Notice"), M(srv.auth)>>, <<M(srv.auth)>>}
          \/ toSrv = <<[t |-> "Password", form |-> srv.auth]>> /\ toCli = <<>> /\ hs.mech = srv.auth
  /\ srv.at = "sasl" =>
       /\ srv.auth = "sasl"
       /\ \/ hs.at = "auth" /\ toSrv = <<>> /\ toCli = <<[t |-> "sasl", offered |-> Offered(hs.tls)]>>
          \/ /\ hs.at = "first" /\ toSrv = <<[t |-> "Initial", mech |-> Agreed]>> /\ toCli = <<>> /\ hs.mech = Agreed
             /\ Agreed \in srv.mechs
  /\ srv.at \in {"proof", "bound proof"} =>
       /\ srv.auth = "sasl" /\ hs.mech = Agreed
       /\ srv.at = IF Agreed = "SCRAM-SHA-256" THEN "proof" ELSE "bound proof"
       /\ \/ hs.at = "first" /\ toSrv = <<>> /\ \E g \in BOOLEAN : toCli = <<[t |-> "Continue", good |-> g]>>
          \/ hs.at = "final" /\ toSrv = <<[t |-> "Response", binding |-> Binding(hs.mech, srv.sig)]>> /\ toCli = <<>>
  /\ srv.at = "ready" =>
       /\ toSrv = <<>> /\ hs.mech = Agreed
       /\ \/ hs.at = "final" /\ toCli \in {<<M("SaslFinal")>> \o Welcome, Welcome}
          \/ hs.at = "auth" /\ toCli \in {Welcome, <<M("Param"), Key, M("Ready")>>, <<Key, M("Ready")>>}
          \/ hs.at = "auth" /\ toCli = <<M("Ready")>> /\ hs.pid = srv.pid

\* Require has TLS after the negotiation.
Required == hs.at \in {"auth", "first", "final"} => (mode = "Require" => hs.tls)

\* An error of the server has one of the reasons.
Reason == srv.auth = "reject" \/ (srv.auth # "trust" /\ ~srv.knows) \/ (hs.tls /\ "SCRAM-SHA-256-PLUS" \in srv.mechs /\ srv.sig = "sha224")
HasError(s) == \E i \in DOMAIN s : s[i].t = "Error"
Excuse ==
  /\ Talking /\ HasError(toCli) => Reason
  /\ hs.at = "failed" /\ hs.err = "Pg" => srv \in Sessions /\ Reason

\* Queries come after the handshake, and its end leaves nothing behind.
Quiet ==
  /\ hs.at # "ready" => subs = {} /\ \A i \in DOMAIN toSrv : toSrv[i].t # "Query"
  /\ hs.at = "ready" => srv.at \in {"ready", "down"}
  /\ pc \notin {"connect", "backoff", "ended"} => hs.at = "ready"
  /\ pc \in {"backoff", "ended"} => hs.at = "closed"
  /\ pc = "connect" /\ hs.at = "ready" => subs = {} /\ (srv.at = "ready" => toSrv = <<>> /\ toCli = <<>>)

Handshaken ==
  /\ Talking => Conversation
  /\ Required /\ Excuse /\ Quiet /\ ReadyAsAgreed

-----------------------------------------------------------------------------
(* Notifications and subscriptions.                                        *)

Note(m)        == m.t = "Note"
NotesOnly(s)   == \A i \in DOMAIN s : Note(s[i])
NoNotes(s)     == \A i \in DOMAIN s : ~Note(s[i])

\* The answer of a query is in s, among notifications.
Answer(s) ==
  \E i \in DOMAIN s :
    /\ s[i].t = "Ready"
    /\ \A j \in DOMAIN s : (j < i => s[j].t \in {"Note", "Complete", "Error"}) /\ (j > i => Note(s[j]))

\* The notifications of the socket come in the order of their numbers, after those that
\* were handed out.
Ordered ==
  /\ \A m \in HandedOut : m <= Len(fate)
  /\ \A i \in DOMAIN toCli : Note(toCli[i]) => toCli[i].n <= Len(fate) /\ \A m \in HandedOut : m < toCli[i].n
  /\ \A i, j \in DOMAIN toCli : i < j /\ Note(toCli[i]) /\ Note(toCli[j]) => toCli[i].n < toCli[j].n

Distinct(s) == \A i, j \in DOMAIN s : s[i] = s[j] => i = j

\* Whoever was not told of the loss has a dead connection.
Standing ==
  /\ Distinct(channels)
  /\ pc \in {"again", "again call", "giveup", "backoff"} => ~told
  /\ told /\ pc = "connect" => channels = <<>>
  /\ ~told /\ pc \in {"idle", "call", "recv"} => srv.at = "down" /\ toCli = <<>> /\ subs = {}

\* A connection that is up, on which no call was dropped.
Live == hs.at = "ready" /\ srv.at = "ready" /\ ~cut

\* The statement of the call that is under way is still to be read by the server, or its
\* answer by the client.
Sent     == toSrv = <<[t |-> "Query", op |-> call.op, c |-> call.c]>> /\ NotesOnly(toCli) /\ ~failed
Answered == toSrv = <<>> /\ Answer(toCli)
Refusal  == failed \/ HasError(toCli)

Settled == pc \in {"idle", "recv", "again"} => toSrv = <<>> /\ NotesOnly(toCli)
Waiting == pc \in {"call", "again call"} => Sent \/ Answered
InStep ==
  /\ pc \in {"idle", "recv"} => subs = Elements(channels)
  /\ pc = "again" => subs \cup Elements(todo) = Elements(channels)
  /\ pc = "call" => subs = IF Answered /\ ~Refusal THEN Elements(Recorded) ELSE Elements(channels)
  /\ pc = "again call" =>
       /\ call.op = "listen" /\ todo # <<>> /\ call.c = Head(todo)
       /\ (Answered /\ ~Refusal => call.c \in subs) /\ subs \cup Elements(todo) = Elements(channels)

Subscriptions == Live => Settled /\ Waiting /\ InStep

-----------------------------------------------------------------------------
(* Sequences.                                                              *)

LEMMA Short ==
  /\ \A a : Head(<<a>>) = a /\ Tail(<<a>>) = <<>> /\ Append(<<>>, a) = <<a>>
  /\ \A a, b : Head(<<a, b>>) = a /\ Tail(<<a, b>>) = <<b>>
  /\ \A a, b, c : Head(<<a, b, c>>) = a /\ Tail(<<a, b, c>>) = <<b, c>>
  /\ \A a, b, c, d : Head(<<a, b, c, d>>) = a /\ Tail(<<a, b, c, d>>) = <<b, c, d>>
OBVIOUS

LEMMA FirstOf ==
  ASSUME NEW S, NEW s \in Seq(S), s # <<>>
  PROVE  /\ 1 \in DOMAIN s /\ Head(s) = s[1] /\ Head(s) \in S /\ Tail(s) \in Seq(S)
         /\ DOMAIN s = 1..Len(s) /\ Len(s) \in Nat /\ DOMAIN Tail(s) = 1..(Len(s) - 1)
         /\ \A i \in DOMAIN Tail(s) : i + 1 \in DOMAIN s /\ Tail(s)[i] = s[i + 1]
<1> DEFINE n == Len(s)
           u == Tail(s)
<1>1. /\ DOMAIN s = 1..n /\ n \in Nat \ {0} /\ Head(s) = s[1] /\ u \in Seq(S) /\ Len(u) = n - 1
      /\ \A i \in 1..Len(u) : u[i] = s[i + 1]
  BY HeadTailProperties, EmptySeq, LenProperties
<1>2. DOMAIN u = 1..(n - 1)
  BY <1>1, LenProperties
<1> HIDE DEF u, n
<1>3. 1 \in 1..n /\ \A i \in 1..(n - 1) : i + 1 \in 1..n
  BY <1>1
<1>4. s[1] \in S
  BY <1>1, <1>3, ElementOfSeq DEF n
<1> QED
  BY <1>1, <1>2, <1>3, <1>4 DEF u, n

LEMMA Added ==
  ASSUME NEW S, NEW s \in Seq(S), NEW x \in S
  PROVE  /\ Append(s, x) \in Seq(S) /\ DOMAIN s = 1..Len(s) /\ Len(s) \in Nat
         /\ DOMAIN Append(s, x) = 1..(Len(s) + 1)
         /\ \A i \in 1..Len(s) : Append(s, x)[i] = s[i]
         /\ Append(s, x)[Len(s) + 1] = x
         /\ \A i \in DOMAIN Append(s, x) : (i \in DOMAIN s /\ Append(s, x)[i] = s[i]) \/ (i = Len(s) + 1 /\ Append(s, x)[i] = x)
BY AppendProperties, LenProperties

LEMMA Joined ==
  ASSUME NEW S, NEW s \in Seq(S), NEW t \in Seq(S)
  PROVE  /\ s \o t \in Seq(S) /\ DOMAIN s = 1..Len(s) /\ Len(s) \in Nat /\ DOMAIN t = 1..Len(t) /\ Len(t) \in Nat
         /\ DOMAIN (s \o t) = 1..(Len(s) + Len(t))
         /\ \A i \in 1..Len(s) : (s \o t)[i] = s[i]
         /\ \A i \in 1..Len(t) : (s \o t)[Len(s) + i] = t[i]
         /\ \A i \in DOMAIN (s \o t) :
              (i \in DOMAIN s /\ (s \o t)[i] = s[i]) \/ (\E j \in DOMAIN t : i = Len(s) + j /\ (s \o t)[i] = t[j])
         /\ (s = <<>> => s \o t = t)
<1> DEFINE u == s \o t
           m == Len(s)
           n == Len(t)
<1>1. /\ u \in Seq(S) /\ m \in Nat /\ n \in Nat /\ Len(u) = m + n
      /\ DOMAIN s = 1..m /\ DOMAIN t = 1..n
      /\ \A i \in 1..(m + n) : u[i] = IF i <= m THEN s[i] ELSE t[i - m]
  BY ConcatProperties, LenProperties
<1>2. DOMAIN u = 1..(m + n)
  BY <1>1, LenProperties
<1>3. s = <<>> => u = t
  BY ConcatEmptySeq
<1> HIDE DEF u, m, n
<1>4. \A i \in 1..m : u[i] = s[i]
  BY <1>1
<1>5. \A i \in 1..n : u[m + i] = t[i]
  BY <1>1
<1>6. \A i \in 1..(m + n) : i \in 1..m \/ (i - m \in 1..n /\ i = m + (i - m))
  BY <1>1
<1>7. \A i \in DOMAIN u : (i \in DOMAIN s /\ u[i] = s[i]) \/ (\E j \in DOMAIN t : i = m + j /\ u[i] = t[j])
  <2> TAKE i \in DOMAIN u
  <2>1. CASE i \in 1..m
    BY <2>1, <1>1, <1>4
  <2>2. CASE i - m \in 1..n /\ i = m + (i - m)
    <3> DEFINE j == i - m
    <3>1. j \in 1..n /\ i = m + j
      BY <2>2
    <3> HIDE DEF j
    <3> QED
      BY <3>1, <1>1, <1>5
  <2> QED
    BY <2>1, <2>2, <1>2, <1>6
<1> QED
  BY <1>1, <1>2, <1>3, <1>4, <1>5, <1>7 DEF u, m, n

-----------------------------------------------------------------------------
(* Types.                                                                  *)

LEMMA ClientSays ==
  /\ M("Startup") \in ClientMsgs /\ M("SSLRequest") \in ClientMsgs
  /\ \A f \in {"cleartext", "md5"} : [t |-> "Password", form |-> f] \in ClientMsgs
  /\ \A m \in Mechs : [t |-> "Initial", mech |-> m] \in ClientMsgs
  /\ \A m \in Mechs, s \in Sessions : [t |-> "Response", binding |-> Binding(m, s.sig)] \in ClientMsgs
  /\ \A o \in Statements : [t |-> "Query", op |-> o.op, c |-> o.c] \in ClientMsgs
<1>1. \A s \in Sessions : s.sig \in Sigs
  BY DEF Sessions
<1>2. \A m \in Mechs, s \in Sessions : Binding(m, s.sig) \in Bindings
  BY <1>1 DEF Binding, Bindings
<1>3. \A m \in Mechs, s \in Sessions : [t |-> "Response", binding |-> Binding(m, s.sig)] \in [t : {"Response"}, binding : Bindings]
  BY <1>2
<1>4. \A o \in Statements : [t |-> "Query", op |-> o.op, c |-> o.c] \in Queries
  BY DEF Queries, Statements
<1> QED
  BY <1>3, <1>4 DEF ClientMsgs

LEMMA Types ==
  /\ \A m \in ServerMsgs : m.t = "Key" => m.pid \in Nat
  /\ \A m \in ServerMsgs : m.t = "Note" => m.n \in Nat
  /\ \A m \in ServerMsgs : m.t = "sasl" => m.offered \subseteq ScramMechanisms
BY DEF ServerMsgs, M

LEMMA ReadType ==
  ASSUME WireTyped, toCli # <<>>
  PROVE  Got \in ServerMsgs /\ Tail(toCli) \in Seq(ServerMsgs)
BY FirstOf DEF WireTyped, Got

LEMMA GiveType ==
  ASSUME WireTyped, NEW m \in ClientMsgs
  PROVE  Append(toSrv, m) \in Seq(ClientMsgs)
BY Added DEF WireTyped

LEMMA SayType ==
  ASSUME WireTyped, NEW s \in Seq(ServerMsgs)
  PROVE  toCli \o s \in Seq(ServerMsgs)
BY Joined DEF WireTyped

LEMMA DialTyped ==
  ASSUME WireTyped, NEW s \in Servers, Dial(s)
  PROVE  WireTyped'
<1>1. s \in ServerType
  BY HandshakeAssumption
<1>2. dials + 1 \in Nat
  BY DEF WireTyped
<1>3. \A p \in Nat : Session(s, p) \in Sessions
  <2>1. /\ s.ssl \in {"S", "N", "E"} /\ s.trusted \in BOOLEAN /\ s.sig \in Sigs
        /\ s.auth \in {"trust", "cleartext", "md5", "sasl", "reject"} /\ s.knows \in BOOLEAN
        /\ s.mechs \in SUBSET ScramMechanisms
    BY <1>1 DEF ServerType, Sigs
  <2> QED
    BY <2>1 DEF Session, Sessions
<1>4. srv' \in Sessions /\ dials' \in Nat /\ mode' = mode /\ toCli' = <<>>
  BY <1>2, <1>3 DEF Dial
<1>5. \A m \in ClientMsgs : <<m>> \in Seq(ClientMsgs)
  OBVIOUS
<1>6. \A at \in {"auth", "ssl"} : [Closed EXCEPT !.at = at] \in HandshakeStates
  BY DEF Closed, Mechs, HandshakeStates
<1>7. CASE mode = "Disable"
  <2>1. hs' = [Closed EXCEPT !.at = "auth"] /\ toSrv' = <<M("Startup")>>
    BY <1>7 DEF Dial
  <2> QED
    BY <2>1, <1>4, <1>5, <1>6, ClientSays DEF WireTyped
<1>8. CASE mode # "Disable"
  <2>1. hs' = [Closed EXCEPT !.at = "ssl"] /\ toSrv' = <<M("SSLRequest")>>
    BY <1>8 DEF Dial
  <2> QED
    BY <2>1, <1>4, <1>5, <1>6, ClientSays DEF WireTyped
<1> QED
  BY <1>7, <1>8

LEMMA ReadTyped ==
  ASSUME WireTyped,
         \/ DialRefused \/ ReadSslAnswer \/ ReadPasswordRequest \/ ReadSasl \/ ReadServerFirst
         \/ ReadScramOk \/ ReadKey \/ ReadStartupReady \/ ReadStartupError \/ ReadIgnored \/ ReadEnd
  PROVE  WireTyped'
<1> DEFINE HS == HandshakeStates
<1>g. toCli # <<>> => Got \in ServerMsgs /\ Tail(toCli) \in Seq(ServerMsgs)
  BY ReadType
<1>a. \A m \in ClientMsgs : Append(toSrv, m) \in Seq(ClientMsgs)
  BY GiveType
<1>h. hs \in HS /\ toSrv \in Seq(ClientMsgs)
  BY DEF WireTyped
<1> USE DEF HandshakeStates
<1>w. \A e \in {"Io", "ConnectionClosed", "Protocol", "Pg"} : [hs EXCEPT !.at = "failed", !.err = e] \in HS
  BY <1>h
<1>f. ASSUME NEW e \in {"Io", "ConnectionClosed", "Protocol", "Pg"}, Fails(e)
      PROVE  hs' \in HS /\ toSrv' \in Seq(ClientMsgs) /\ ~Talking'
  <2>1. hs' = [hs EXCEPT !.at = "failed", !.err = e] /\ toSrv' = toSrv
    BY <1>f DEF Fails
  <2>2. hs'.at = "failed"
    BY <2>1, <1>h
  <2> QED
    BY <2>1, <2>2, <1>h, <1>w DEF Talking
<1>t. M("Startup") \in ClientMsgs
  BY ClientSays
<1>1. CASE DialRefused
  <2>1. /\ dials' = dials + 1 /\ hs' = [Closed EXCEPT !.at = "failed", !.err = "Io"]
        /\ srv' = Down /\ toSrv' = <<>> /\ toCli' = <<>> /\ mode' = mode
    BY <1>1 DEF DialRefused
  <2>2. [Closed EXCEPT !.at = "failed", !.err = "Io"] \in HS
    BY DEF Closed, Mechs
  <2>3. hs'.at = "failed"
    BY <2>1 DEF Closed
  <2>4. toSrv' \in Seq(ClientMsgs) /\ toCli' \in Seq(ServerMsgs)
    BY <2>1
  <2> QED
    BY <2>1, <2>2, <2>3, <2>4 DEF WireTyped, Talking
<1> DEFINE Kept == srv' = srv /\ mode' = mode /\ dials' = dials /\ toCli' \in Seq(ServerMsgs)
<1> SUFFICES ASSUME ~DialRefused
             PROVE  WireTyped'
  BY <1>1
<1>r. (\E ats \in SUBSET {"ssl", "auth", "first", "final"} : Reads(ats)) \/ ReadEnd
  <2>1. CASE ReadSslAnswer
    BY <2>1 DEF ReadSslAnswer
  <2>2. CASE ReadPasswordRequest \/ ReadSasl \/ ReadKey \/ ReadStartupReady
    BY <2>2 DEF ReadPasswordRequest, ReadSasl, ReadKey, ReadStartupReady
  <2>3. CASE ReadServerFirst \/ ReadScramOk \/ ReadStartupError
    BY <2>3 DEF ReadServerFirst, ReadScramOk, ReadStartupError
  <2>4. CASE ReadIgnored
    BY <2>4 DEF ReadIgnored
  <2> QED
    BY <2>1, <2>2, <2>3, <2>4
<1>k. Kept /\ Talking
  <2>1. CASE ReadEnd
    BY <2>1 DEF ReadEnd, WireTyped, Talking
  <2>2. ASSUME NEW ats \in SUBSET {"ssl", "auth", "first", "final"}, Reads(ats)
        PROVE  Kept /\ Talking
    BY <2>2, <1>g DEF Reads, Talking
  <2> QED
    BY <1>r, <2>1, <2>2
<1>s. srv \in Sessions
  BY <1>k DEF WireTyped
<1>n. ~ReadEnd => toCli # <<>> /\ Got \in ServerMsgs
  BY <1>r, <1>g DEF Reads
<1>q. hs' \in HS /\ toSrv' \in Seq(ClientMsgs)
  <2>1. CASE ReadSslAnswer
    <3>1. [hs EXCEPT !.at = "auth", !.tls = TRUE] \in HS /\ [hs EXCEPT !.at = "auth"] \in HS
      BY <1>h
    <3>2. \/ Give(M("Startup")) /\ (hs' = [hs EXCEPT !.at = "auth", !.tls = TRUE] \/ hs' = [hs EXCEPT !.at = "auth"])
          \/ Fails("Io") \/ Fails("Protocol")
      BY <2>1 DEF ReadSslAnswer
    <3> QED
      BY <3>1, <3>2, <1>f, <1>a, <1>t DEF Give
  <2>2. CASE ReadPasswordRequest
    <3>1. Got.t \in {"cleartext", "md5"} /\ Give([t |-> "Password", form |-> Got.t]) /\ hs' = [hs EXCEPT !.mech = Got.t]
      BY <2>2 DEF ReadPasswordRequest
    <3>2. [t |-> "Password", form |-> Got.t] \in ClientMsgs
      BY <3>1, ClientSays
    <3>3. hs' \in HS
      BY <3>1, <1>h DEF Mechs
    <3> QED
      BY <3>1, <3>2, <3>3, <1>a DEF Give
  <2>3. CASE ReadSasl
    <3> DEFINE m == Mechanism(hs.tls, Got.offered)
    <3>1. CASE m = "none"
      <4>1. Fails("Protocol")
        BY <2>3, <3>1 DEF ReadSasl
      <4> QED
        BY <4>1, <1>f
    <3>2. CASE m # "none"
      <4>1. hs' = [hs EXCEPT !.mech = m, !.at = "first"] /\ Give([t |-> "Initial", mech |-> m])
        BY <2>3, <3>2 DEF ReadSasl
      <4>2. m \in Mechs
        BY <3>2 DEF Mechanism, Mechs
      <4> HIDE DEF m
      <4>3. hs' \in HS
        BY <4>1, <4>2, <1>h
      <4>4. [t |-> "Initial", mech |-> m] \in ClientMsgs
        BY <4>2, ClientSays
      <4> QED
        BY <4>1, <4>3, <4>4, <1>a DEF Give
    <3> QED
      BY <3>1, <3>2
  <2>4. CASE ReadServerFirst
    <3>1. CASE ~Got.good
      <4>1. Fails("Protocol")
        BY <2>4, <3>1 DEF ReadServerFirst
      <4> QED
        BY <4>1, <1>f
    <3>2. CASE Got.good
      <4>1. hs' = [hs EXCEPT !.at = "final"] /\ Give([t |-> "Response", binding |-> Binding(hs.mech, srv.sig)])
        BY <2>4, <3>2 DEF ReadServerFirst
      <4>2. hs.mech \in Mechs /\ hs' \in HS
        BY <4>1, <1>h
      <4>3. [t |-> "Response", binding |-> Binding(hs.mech, srv.sig)] \in ClientMsgs
        BY <4>2, <1>s, ClientSays
      <4> QED
        BY <4>1, <4>2, <4>3, <1>a DEF Give
    <3> QED
      BY <3>1, <3>2
  <2>5. CASE ReadScramOk
    BY <2>5, <1>h DEF ReadScramOk
  <2>6. CASE ReadKey
    <3>1. Got.t = "Key" /\ Got \in ServerMsgs
      BY <2>6, <1>g DEF ReadKey, Reads
    <3>2. Got.pid \in Nat
      BY <3>1, Types
    <3> QED
      BY <2>6, <3>2, <1>h DEF ReadKey
  <2>7. CASE ReadStartupReady
    BY <2>7, <1>h DEF ReadStartupReady
  <2>8. CASE ReadStartupError
    BY <2>8, <1>f DEF ReadStartupError
  <2>9. CASE ReadIgnored
    BY <2>9, <1>h DEF ReadIgnored
  <2>10. CASE ReadEnd
    BY <2>10, <1>f DEF ReadEnd
  <2> QED
    BY <2>1, <2>2, <2>3, <2>4, <2>5, <2>6, <2>7, <2>8, <2>9, <2>10
<1> QED
  BY <1>q, <1>k, <1>s DEF WireTyped, Talking
LEMMA ServerSays ==
  /\ \A t \in {"S", "N", "E", "cleartext", "md5", "Ok", "Param", "Notice", "SaslFinal", "Ready", "Error", "Complete"} :
       M(t) \in ServerMsgs
  /\ \A n \in Nat : [t |-> "Key", pid |-> n] \in ServerMsgs /\ [t |-> "Note", n |-> n] \in ServerMsgs
  /\ \A b \in BOOLEAN : [t |-> "Continue", good |-> b] \in ServerMsgs
  /\ \A o \in SUBSET ScramMechanisms : [t |-> "sasl", offered |-> o] \in ServerMsgs
<1>3. \A t \in {"S", "N", "E", "cleartext", "md5", "Ok", "Param", "Notice", "SaslFinal", "Ready", "Error", "Complete"} :
       M(t) \in ServerMsgs
  BY DEF ServerMsgs
<1>4. \A n \in Nat : [t |-> "Key", pid |-> n] \in ServerMsgs /\ [t |-> "Note", n |-> n] \in ServerMsgs
  BY DEF ServerMsgs
<1>5. \A b \in BOOLEAN : [t |-> "Continue", good |-> b] \in ServerMsgs
  BY DEF ServerMsgs
<1>6. \A o \in SUBSET ScramMechanisms : [t |-> "sasl", offered |-> o] \in ServerMsgs
  BY DEF ServerMsgs
<1> QED
  BY <1>3, <1>4, <1>5, <1>6

\* The server that is up has a session.
LEMMA UpType ==
  ASSUME WireTyped, srv.at # "down"
  PROVE  /\ srv \in Sessions /\ srv.pid \in Nat /\ srv.auth \in {"trust", "cleartext", "md5", "sasl", "reject"}
         /\ srv.ssl \in {"S", "N", "E"} /\ srv.sig \in Sigs
         /\ \A at \in {"fresh", "plain", "secure", "password", "sasl", "proof", "bound proof", "ready", "down"} :
              [srv EXCEPT !.at = at] \in Sessions
         /\ srv.mechs \in SUBSET ScramMechanisms
         /\ \A b \in BOOLEAN : [t |-> "sasl", offered |-> Offered(b)] \in ServerMsgs
<1>1. srv \in Sessions
  BY DEF WireTyped, Down
<1>2. srv.mechs \in SUBSET ScramMechanisms
  BY <1>1 DEF Sessions
<1>3. \A b \in BOOLEAN : Offered(b) \in SUBSET ScramMechanisms
  BY <1>2 DEF Offered
<1>4. \A b \in BOOLEAN : [t |-> "sasl", offered |-> Offered(b)] \in ServerMsgs
  BY <1>3, ServerSays
<1> QED
  BY <1>1, <1>2, <1>4 DEF Sessions

LEMMA WelcomeType ==
  ASSUME srv.pid \in Nat
  PROVE  Welcome \in Seq(ServerMsgs) /\ <<M("SaslFinal")>> \o Welcome \in Seq(ServerMsgs)
<1>1. Welcome \in Seq(ServerMsgs)
  <2>1. M("Ok") \in ServerMsgs /\ M("Param") \in ServerMsgs /\ [t |-> "Key", pid |-> srv.pid] \in ServerMsgs /\ M("Ready") \in ServerMsgs
    BY ServerSays
  <2> QED
    BY <2>1 DEF Welcome
<1>2. <<M("SaslFinal")>> \in Seq(ServerMsgs)
  BY ServerSays
<1> QED
  BY <1>1, <1>2, Joined

LEMMA ServerTyped ==
  ASSUME WireTyped, SrvSsl \/ SrvStartup \/ SrvPassword \/ SrvInitial \/ SrvResponse \/ SrvGone
  PROVE  WireTyped'
<1> DEFINE Ats == {"fresh", "plain", "secure", "password", "sasl", "proof", "bound proof", "ready", "down"}
<1>1. srv.at # "down"
  BY DEF SrvSsl, SrvStartup, SrvPassword, SrvInitial, SrvResponse, SrvGone, Takes
<1>2. /\ srv \in Sessions /\ srv.pid \in Nat /\ srv.auth \in {"trust", "cleartext", "md5", "sasl", "reject"}
      /\ srv.ssl \in {"S", "N", "E"} /\ srv.sig \in Sigs
      /\ \A at \in Ats : [srv EXCEPT !.at = at] \in Sessions
  BY <1>1, UpType
<1>3. /\ mode' = mode /\ hs' = hs /\ dials' = dials
      /\ (toSrv' = toSrv \/ (toSrv # <<>> /\ toSrv' = Tail(toSrv)))
  BY DEF SrvSsl, SrvStartup, SrvPassword, SrvInitial, SrvResponse, SrvGone, Takes
<1>4. toSrv' \in Seq(ClientMsgs)
  BY <1>3, FirstOf DEF WireTyped
<1>w. Welcome \in Seq(ServerMsgs) /\ <<M("SaslFinal")>> \o Welcome \in Seq(ServerMsgs)
  BY <1>2, WelcomeType
<1>s. ASSUME NEW ms \in Seq(ServerMsgs), Say(ms)
      PROVE  toCli' \in Seq(ServerMsgs)
  BY <1>s, SayType DEF Say
<1>b. ASSUME NEW at \in Ats, Becomes(at)
      PROVE  srv' \in Sessions
  BY <1>b, <1>2 DEF Becomes
<1>o. \A m \in ServerMsgs : <<m>> \in Seq(ServerMsgs)
  OBVIOUS
<1>r. Rejects => toCli' \in Seq(ServerMsgs) /\ srv' \in Sessions
  <2>1. M("Error") \in ServerMsgs
    BY ServerSays
  <2>2. <<M("Error")>> \in Seq(ServerMsgs)
    BY <2>1, <1>o
  <2> QED
    BY <2>2, <1>s, <1>2 DEF Rejects
<1>5. toCli' \in Seq(ServerMsgs) /\ srv' \in Sessions
  <2>1. CASE SrvSsl
    <3>1. /\ \/ Say(<<M("E")>>) /\ Becomes("down")
             \/ Say(<<M(srv.ssl)>>) /\ \E at \in Ats : srv' = [srv EXCEPT !.at = at]
      BY <2>1 DEF SrvSsl
    <3>2. M("E") \in ServerMsgs /\ M(srv.ssl) \in ServerMsgs
      BY <1>2, ServerSays
    <3>3. <<M("E")>> \in Seq(ServerMsgs) /\ <<M(srv.ssl)>> \in Seq(ServerMsgs)
      BY <3>2, <1>o
    <3> QED
      BY <3>1, <3>3, <1>s, <1>b, <1>2
  <2>2. CASE SrvStartup
    <3>1. PICK at \in {"fresh", "plain", "secure"} :
            CASE srv.auth = "trust"  -> Say(Welcome) /\ Becomes("ready")
              [] srv.auth = "reject" -> Rejects
              [] srv.auth = "sasl"   -> /\ Say(<<[t |-> "sasl", offered |-> Offered(at = "secure")]>>)
                                        /\ Becomes("sasl")
              [] OTHER               -> Say(<<M("Notice"), M(srv.auth)>>) /\ Becomes("password")
      BY <2>2 DEF SrvStartup
    <3>2. CASE srv.auth = "trust"
      BY <3>1, <3>2, <1>w, <1>s, <1>b
    <3>3. CASE srv.auth = "reject"
      BY <3>1, <3>3, <1>r
    <3>4. CASE srv.auth = "sasl"
      <4>1. [t |-> "sasl", offered |-> Offered(at = "secure")] \in ServerMsgs
        BY <1>1, UpType
      <4>2. <<[t |-> "sasl", offered |-> Offered(at = "secure")]>> \in Seq(ServerMsgs)
        BY <4>1, <1>o
      <4> QED
        BY <3>1, <3>4, <4>2, <1>s, <1>b
    <3>5. CASE srv.auth \in {"cleartext", "md5"}
      <4>1. M("Notice") \in ServerMsgs /\ M(srv.auth) \in ServerMsgs
        BY <3>5, ServerSays
      <4>2. <<M("Notice"), M(srv.auth)>> \in Seq(ServerMsgs)
        BY <4>1
      <4>3. Say(<<M("Notice"), M(srv.auth)>>) /\ Becomes("password")
        BY <3>1, <3>5
      <4> QED
        BY <4>2, <4>3, <1>s, <1>b
    <3> QED
      BY <1>2, <3>2, <3>3, <3>4, <3>5
  <2>3. CASE SrvPassword
    <3>1. (Say(Welcome) /\ Becomes("ready")) \/ Rejects
      BY <2>3 DEF SrvPassword
    <3> QED
      BY <3>1, <1>w, <1>s, <1>b, <1>r
  <2>4. CASE SrvInitial /\ Asked.mech \notin srv.mechs
    <3>1. Rejects
      BY <2>4 DEF SrvInitial
    <3> QED
      BY <3>1, <1>r
  <2>7. CASE SrvInitial /\ Asked.mech \in srv.mechs
    <3>1. PICK good \in BOOLEAN : Say(<<[t |-> "Continue", good |-> good]>>)
      BY <2>7 DEF SrvInitial
    <3>2. [t |-> "Continue", good |-> good] \in ServerMsgs
      BY ServerSays
    <3>3. <<[t |-> "Continue", good |-> good]>> \in Seq(ServerMsgs)
      BY <3>2, <1>o
    <3>4. \E at \in Ats : srv' = [srv EXCEPT !.at = at]
      BY <2>7 DEF SrvInitial
    <3> QED
      BY <3>1, <3>3, <3>4, <1>s, <1>2
  <2>5. CASE SrvResponse
    <3>1. (Say(<<M("SaslFinal")>> \o Welcome) /\ Becomes("ready")) \/ Rejects
      BY <2>5 DEF SrvResponse
    <3> QED
      BY <3>1, <1>w, <1>s, <1>b, <1>r
  <2>6. CASE SrvGone
    <3>1. Becomes("down") /\ toCli' \in {toCli, <<>>}
      BY <2>6 DEF SrvGone
    <3>2. <<>> \in Seq(ServerMsgs)
      OBVIOUS
    <3> QED
      BY <3>1, <3>2, <1>b DEF WireTyped
  <2> QED
    BY <2>1, <2>2, <2>3, <2>4, <2>5, <2>6, <2>7
<1> QED
  BY <1>3, <1>4, <1>5 DEF WireTyped, Talking
-----------------------------------------------------------------------------
(* The channels of the listener.                                           *)

\* retain drops the one place of a channel and nothing else.
LEMMA WithoutProperties ==
  ASSUME NEW S, NEW s \in Seq(S), NEW c
  PROVE  /\ Without(s, c) \in Seq(S)
         /\ Distinct(s) => Distinct(Without(s, c)) /\ Elements(Without(s, c)) = Elements(s) \ {c}
<1>1. CASE c \notin {s[i] : i \in DOMAIN s}
  <2>1. Without(s, c) = s
    BY <1>1 DEF Without
  <2> QED
    BY <1>1, <2>1 DEF Elements
<1>2. CASE c \in {s[i] : i \in DOMAIN s}
  <2> DEFINE at == CHOOSE i \in DOMAIN s : s[i] = c
             n  == Len(s)
             u  == SubSeq(s, 1, at - 1)
             v  == SubSeq(s, at + 1, n)
             w  == u \o v
  <2>1. at \in DOMAIN s /\ s[at] = c
    BY <1>2
  <2>2. Without(s, c) = w
    BY <1>2 DEF Without
  <2>3. DOMAIN s = 1..n /\ n \in Nat /\ \A i \in 1..n : s[i] \in S
    BY LenProperties, ElementOfSeq
  <2> HIDE DEF at, n
  <2>4. at \in 1..n /\ at \in Nat /\ at - 1 \in Nat /\ n - at \in Nat
    BY <2>1, <2>3
  <2>5. u \in Seq(S) /\ Len(u) = at - 1 /\ \A i \in 1..(at - 1) : u[i] = s[i]
    <3>1. \A i \in 1..(at - 1) : s[i] \in S
      BY <2>3, <2>4
    <3>2. 1 \in Int /\ at - 1 \in Int
      BY <2>4
    <3> QED
      BY <2>4, <3>1, <3>2, SubSeqProperties
  <2>6. v \in Seq(S) /\ Len(v) = n - at /\ \A i \in 1..(n - at) : v[i] = s[at + i]
    <3>1. \A i \in (at + 1)..n : s[i] \in S
      BY <2>3, <2>4
    <3>2. at + 1 \in Int /\ n \in Int
      BY <2>3, <2>4
    <3>3. /\ v \in Seq(S) /\ Len(v) = IF at + 1 <= n THEN n - (at + 1) + 1 ELSE 0
          /\ \A i \in 1..(n - (at + 1) + 1) : v[i] = s[(at + 1) + i - 1]
      BY <3>1, <3>2, SubSeqProperties
    <3> HIDE DEF v
    <3>4. n - (at + 1) + 1 = n - at /\ \A i \in 1..(n - at) : (at + 1) + i - 1 = at + i
      BY <2>3, <2>4
    <3>5. Len(v) = n - at
      BY <2>3, <2>4, <3>3, <3>4
    <3> QED
      BY <3>3, <3>4, <3>5
  <2> HIDE DEF u, v
  <2>7. /\ w \in Seq(S) /\ Len(w) = n - 1
        /\ \A i \in 1..(n - 1) : w[i] = IF i <= at - 1 THEN u[i] ELSE v[i - (at - 1)]
    <3>1. /\ w \in Seq(S) /\ Len(w) = Len(u) + Len(v)
          /\ \A i \in 1..(Len(u) + Len(v)) : w[i] = IF i <= Len(u) THEN u[i] ELSE v[i - Len(u)]
      BY <2>5, <2>6, ConcatProperties
    <3>2. Len(u) + Len(v) = n - 1
      BY <2>3, <2>4, <2>5, <2>6
    <3> QED
      BY <2>5, <3>1, <3>2
  <2>8. DOMAIN w = 1..(n - 1)
    BY <2>7, LenProperties
  <2> HIDE DEF w
  <2>9. \A i \in 1..(n - 1) : w[i] = IF i < at THEN s[i] ELSE s[i + 1]
    <3> TAKE i \in 1..(n - 1)
    <3>1. CASE i < at
      BY <3>1, <2>3, <2>4, <2>5, <2>7
    <3>2. CASE ~(i < at)
      <4>1. ~(i <= at - 1) /\ i - (at - 1) \in 1..(n - at) /\ at + (i - (at - 1)) = i + 1
        BY <3>2, <2>3, <2>4
      <4> QED
        BY <3>2, <4>1, <2>6, <2>7
    <3> QED
      BY <3>1, <3>2
  <2>10. ASSUME Distinct(s)
         PROVE  Distinct(w) /\ Elements(w) = Elements(s) \ {c}
    <3>1. \A i, j \in 1..n : s[i] = s[j] => i = j
      BY <2>10, <2>3 DEF Distinct
    <3> DEFINE p == [i \in 1..(n - 1) |-> IF i < at THEN i ELSE i + 1]
    <3>2. \A i \in 1..(n - 1) : p[i] \in 1..n /\ p[i] # at /\ w[i] = s[p[i]]
      BY <2>9, <2>3, <2>4
    <3>3. \A i, j \in 1..(n - 1) : p[i] = p[j] => i = j
      BY <2>4
    <3>4. \A k \in 1..n : k # at => \E i \in 1..(n - 1) : p[i] = k
      <4> TAKE k \in 1..n
      <4> SUFFICES ASSUME k # at PROVE \E i \in 1..(n - 1) : p[i] = k
        OBVIOUS
      <4>1. CASE k < at
        <5>1. k \in 1..(n - 1) /\ p[k] = k
          BY <4>1, <2>3, <2>4
        <5> QED
          BY <5>1
      <4>2. CASE k > at
        <5>1. k - 1 \in 1..(n - 1) /\ ~(k - 1 < at) /\ (k - 1) + 1 = k
          BY <4>2, <2>3, <2>4
        <5>2. p[k - 1] = k
          BY <5>1
        <5> QED
          BY <5>1, <5>2
      <4> QED
        BY <4>1, <4>2, <2>4
    <3> HIDE DEF p
    <3>5. Distinct(w)
      BY <3>1, <3>2, <3>3, <2>8 DEF Distinct
    <3>6. \A i \in 1..(n - 1) : w[i] \in Elements(s) /\ w[i] # c
      BY <3>1, <3>2, <2>1, <2>3, <2>4 DEF Elements
    <3>7. \A k \in 1..n : s[k] # c => s[k] \in Elements(w)
      <4> TAKE k \in 1..n
      <4> SUFFICES ASSUME s[k] # c PROVE s[k] \in Elements(w)
        OBVIOUS
      <4>1. PICK i \in 1..(n - 1) : p[i] = k
        BY <3>4, <2>1
      <4> QED
        BY <4>1, <3>2, <2>8 DEF Elements
    <3>8. Elements(w) \subseteq Elements(s) \ {c}
      BY <3>6, <2>8 DEF Elements
    <3>9. Elements(s) \ {c} \subseteq Elements(w)
      BY <3>7, <2>3 DEF Elements
    <3> QED
      BY <3>5, <3>8, <3>9
  <2> QED
    BY <2>2, <2>7, <2>10
<1> QED
  BY <1>1, <1>2

LEMMA AppendElements ==
  ASSUME NEW S, NEW s \in Seq(S), NEW c \in S
  PROVE  /\ Elements(Append(s, c)) = Elements(s) \cup {c}
         /\ Distinct(s) /\ c \notin Elements(s) => Distinct(Append(s, c))
<1> DEFINE n == Len(s)
           u == Append(s, c)
<1>1. /\ n \in Nat /\ DOMAIN s = 1..n /\ DOMAIN u = 1..(n + 1) /\ u[n + 1] = c
      /\ \A i \in 1..n : u[i] = s[i]
  BY Added
<1> HIDE DEF n, u
<1>2. \A i \in 1..(n + 1) : i \in 1..n \/ i = n + 1
  BY <1>1
<1>3. n + 1 \in 1..(n + 1) /\ \A i \in 1..n : i \in 1..(n + 1)
  BY <1>1
<1>4. Elements(u) = Elements(s) \cup {c}
  BY <1>1, <1>2, <1>3 DEF Elements
<1>5. ASSUME Distinct(s), c \notin Elements(s)
      PROVE  Distinct(u)
  BY <1>1, <1>2, <1>5 DEF Distinct, Elements
<1> QED
  BY <1>4, <1>5 DEF u

\* The channels that are yet to be taken are those at the head and those after it.
LEMMA TailElements ==
  ASSUME NEW S, NEW s \in Seq(S), s # <<>>
  PROVE  Elements(s) = {Head(s)} \cup Elements(Tail(s)) /\ Head(s) \in S
<1> DEFINE n == Len(s)
           u == Tail(s)
<1>1. /\ n \in Nat /\ DOMAIN s = 1..n /\ DOMAIN u = 1..(n - 1) /\ Head(s) = s[1] /\ 1 \in 1..n /\ Head(s) \in S
      /\ \A i \in 1..(n - 1) : i + 1 \in 1..n /\ u[i] = s[i + 1]
  BY FirstOf
<1> HIDE DEF n, u
<1>2. \A i \in 1..n : i = 1 \/ (i - 1 \in 1..(n - 1) /\ (i - 1) + 1 = i)
  BY <1>1
<1>3. \A i \in 1..n : s[i] = s[1] \/ s[i] = u[i - 1]
  BY <1>1, <1>2
<1>4. Elements(s) \subseteq {Head(s)} \cup Elements(u)
  BY <1>1, <1>2, <1>3 DEF Elements
<1>5. {Head(s)} \cup Elements(u) \subseteq Elements(s)
  BY <1>1, SMTT(40) DEF Elements
<1> QED
  BY <1>1, <1>4, <1>5 DEF u
-----------------------------------------------------------------------------
(* Every step keeps the types.                                             *)

LEMMA RecordedType ==
  ASSUME Typed, pc = "call"
  PROVE  Recorded \in Seq(Channels)
<1>1. call \in Statements /\ channels \in Seq(Channels)
  BY DEF Typed, ListenerTyped, Awaits
<1>2. call.op \in {"listen", "unlisten", "unlisten_all"} /\ (call.op = "listen" => call.c \in Channels)
  BY <1>1 DEF Statements
<1>3. Without(channels, call.c) \in Seq(Channels)
  BY <1>1, WithoutProperties
<1>4. call.op = "listen" => Append(channels, call.c) \in Seq(Channels)
  BY <1>1, <1>2, Added
<1>5. <<>> \in Seq(Channels)
  OBVIOUS
<1> QED
  BY <1>1, <1>2, <1>3, <1>4, <1>5 DEF Recorded

LEMMA QueryTyped ==
  ASSUME Typed, NEW o \in Statements, Query(o)
  PROVE  WireTyped' /\ call' \in Statements /\ failed' \in BOOLEAN
<1>1. [t |-> "Query", op |-> o.op, c |-> o.c] \in ClientMsgs
  BY ClientSays
<1>2. WireTyped
  BY DEF Typed
<1>3. toSrv' \in Seq(ClientMsgs)
  BY <1>1, <1>2, GiveType DEF Query
<1> QED
  BY <1>2, <1>3 DEF Query, WireTyped, Talking

LEMMA ReadSocketTyped ==
  ASSUME Typed, ReadSocket
  PROVE  WireTyped' /\ Got \in ServerMsgs
<1>1. WireTyped
  BY DEF Typed
<1>2. Got \in ServerMsgs /\ toCli' \in Seq(ServerMsgs)
  BY <1>1, ReadType DEF ReadSocket
<1> QED
  BY <1>1, <1>2 DEF ReadSocket, WireTyped, Talking

\* A connection that is dropped, or the dead one of a listener whose reconnect was.
LEMMA DroppedTyped ==
  ASSUME Typed, hs' \in {Closed, [Closed EXCEPT !.at = "ready"]}, srv' = Down, toSrv' = <<>>,
         toCli' = <<>> \/ toCli' = toCli, UNCHANGED <<mode, dials>>
  PROVE  WireTyped'
<1>1. hs' \in HandshakeStates /\ hs'.at \in {"closed", "ready"}
  <2>1. Closed \in HandshakeStates /\ Closed.at = "closed"
    BY DEF Closed, HandshakeStates, Mechs
  <2>2. [Closed EXCEPT !.at = "ready"] \in HandshakeStates /\ [Closed EXCEPT !.at = "ready"].at = "ready"
    BY DEF Closed, HandshakeStates, Mechs
  <2> QED
    BY <2>1, <2>2
<1>2. toSrv' \in Seq(ClientMsgs) /\ toCli' \in Seq(ServerMsgs)
  <2>1. <<>> \in Seq(ClientMsgs) /\ <<>> \in Seq(ServerMsgs)
    OBVIOUS
  <2>2. toCli \in Seq(ServerMsgs)
    BY DEF Typed, WireTyped
  <2> QED
    BY <2>1, <2>2
<1>3. mode' \in {"Disable", "Prefer", "Require"} /\ dials' \in Nat /\ srv' \in Sessions \cup {Down}
  BY DEF Typed, WireTyped
<1>4. ~Talking'
  BY <1>1 DEF Talking
<1> QED
  BY <1>1, <1>2, <1>3, <1>4 DEF WireTyped

LEMMA SameLength ==
  ASSUME NEW S, NEW s \in Seq(S), NEW t, t = [n \in DOMAIN s |-> t[n]], \A n \in DOMAIN s : t[n] \in S
  PROVE  t \in Seq(S) /\ DOMAIN t = DOMAIN s /\ Len(t) = Len(s)
<1>1. DOMAIN s = 1..Len(s) /\ Len(s) \in Nat
  BY LenProperties
<1>2. t \in [1..Len(s) -> S]
  BY <1>1
<1>3. t \in Seq(S)
  BY <1>1, <1>2, SeqDef
<1>4. DOMAIN t = 1..Len(t) /\ Len(t) \in Nat
  BY <1>3, LenProperties
<1>5. DOMAIN t = 1..Len(s)
  BY <1>2
<1> QED
  BY <1>1, <1>3, <1>4, <1>5

\* What becomes of the notifications, and their number, which only Publish changes.
LEMMA FateTyped ==
  ASSUME Typed
  PROVE  /\ fate \in Seq(Fates) /\ DOMAIN fate = 1..Len(fate) /\ Len(fate) \in Nat
         /\ \A f, g \in Fates : Turn(f, g) => fate' \in Seq(Fates) /\ DOMAIN fate' = DOMAIN fate /\ Len(fate') = Len(fate)
         /\ \A n, g : g \in Fates /\ fate' = [fate EXCEPT ![n] = g] =>
              fate' \in Seq(Fates) /\ DOMAIN fate' = DOMAIN fate /\ Len(fate') = Len(fate)
<1>1. fate \in Seq(Fates)
  BY DEF Typed, ListenerTyped
<1>2. DOMAIN fate = 1..Len(fate) /\ Len(fate) \in Nat /\ \A n \in DOMAIN fate : fate[n] \in Fates
  BY <1>1, LenProperties, ElementOfSeq
<1>3. ASSUME NEW f \in Fates, NEW g \in Fates, Turn(f, g)
      PROVE  fate' \in Seq(Fates) /\ DOMAIN fate' = DOMAIN fate /\ Len(fate') = Len(fate)
  <2>1. fate' = [n \in DOMAIN fate |-> IF fate[n] = f THEN g ELSE fate[n]]
    BY <1>3 DEF Turn
  <2>2. fate' = [n \in DOMAIN fate |-> fate'[n]] /\ \A n \in DOMAIN fate : fate'[n] \in Fates
    BY <2>1, <1>2
  <2> QED
    BY <2>2, <1>1, SameLength
<1>4. ASSUME NEW n, NEW g, g \in Fates, fate' = [fate EXCEPT ![n] = g]
      PROVE  fate' \in Seq(Fates) /\ DOMAIN fate' = DOMAIN fate /\ Len(fate') = Len(fate)
  <2>1. fate = [m \in DOMAIN fate |-> fate[m]]
    BY <1>1, <1>2, SeqDef
  <2>2. fate' = [m \in DOMAIN fate |-> fate'[m]] /\ \A m \in DOMAIN fate : fate'[m] \in Fates
    BY <2>1, <1>2, <1>4
  <2> QED
    BY <2>2, <1>1, SameLength
<1> QED
  BY <1>1, <1>2, <1>3, <1>4

LEMMA TypedInit ==
  ASSUME Init
  PROVE  Typed
<1> USE HandshakeAssumption DEF Init, HandshakeInit
<1>1. hs \in HandshakeStates /\ hs.at = "closed"
  BY DEF Closed, HandshakeStates, Mechs
<1>2. toSrv \in Seq(ClientMsgs) /\ toCli \in Seq(ServerMsgs) /\ channels \in Seq(Channels) /\ todo \in Seq(Channels) /\ fate \in Seq(Fates)
  OBVIOUS
<1>3. mode \in {"Disable", "Prefer", "Require"} /\ srv = Down /\ dials = 0
  OBVIOUS
<1>4. WireTyped
  BY <1>1, <1>2, <1>3 DEF WireTyped, Talking
<1> QED
  BY <1>2, <1>4 DEF Typed, ListenerTyped, Awaits

LEMMA TypedStep ==
  ASSUME Typed, [Next]_vars
  PROVE  Typed'
<1>w. WireTyped
  BY DEF Typed
<1>l. ListenerTyped
  BY DEF Typed
<1>s. UNCHANGED <<mode, handshakeVars>> => WireTyped'
  BY <1>w DEF WireTyped, handshakeVars, Talking
<1>u. UNCHANGED listenerVars => ListenerTyped'
  BY <1>l DEF ListenerTyped, listenerVars, Awaits
<1>0. CASE UNCHANGED vars
  BY <1>0, <1>s, <1>u DEF vars, Typed
<1>1. CASE Connecting
  <2>1. Peers \subseteq Servers
    BY ListenerAssumption
  <2>2. \/ \E s \in Servers : Dial(s)
        \/ DialRefused \/ ReadSslAnswer \/ ReadPasswordRequest \/ ReadSasl \/ ReadServerFirst
        \/ ReadScramOk \/ ReadKey \/ ReadStartupReady \/ ReadStartupError \/ ReadIgnored \/ ReadEnd
    BY <1>1, <2>1 DEF Connecting, Connect
  <2>3. WireTyped'
    BY <2>2, <1>w, DialTyped, ReadTyped
  <2> QED
    BY <1>1, <2>3, <1>u DEF Connecting, Typed
<1>2. CASE Connected
  <2>1. WireTyped'
    BY <1>2, <1>s DEF Connected
  <2> QED
    BY <1>2, <1>l, <2>1 DEF Connected, ListenerTyped, Awaits, Typed
<1>3. CASE ConnectFailed
  <2>1. WireTyped'
    BY <1>3, DroppedTyped DEF ConnectFailed, DropAttempt
  <2> QED
    BY <1>3, <1>l, <2>1 DEF ConnectFailed, ListenerTyped, Awaits, Typed
<1>4. CASE Redial \/ Recv
  <2>1. WireTyped'
    BY <1>4, <1>s DEF Redial, Recv
  <2> QED
    BY <1>4, <1>l, <2>1 DEF Redial, Recv, ListenerTyped, Awaits, Typed
<1>5. CASE Call
  <2>1. PICK o \in Statements : Query(o)
    BY <1>5 DEF Call, Statements
  <2> QED
    BY <1>5, <2>1, <1>l, QueryTyped DEF Call, ListenerTyped, Typed
<1>6. CASE Relisten
  <2>1. Head(todo) \in Channels
    BY <1>6, FirstOf DEF Relisten, Typed, ListenerTyped
  <2>2. [op |-> "listen", c |-> Head(todo)] \in Statements
    BY <2>1 DEF Statements
  <2> QED
    BY <1>6, <2>2, <1>l, QueryTyped DEF Relisten, ListenerTyped, Typed
<1>7. CASE ReadCall
  <2>1. WireTyped'
    BY <1>7, ReadSocketTyped DEF ReadCall
  <2>2. fate' \in Seq(Fates)
    BY <1>7, FateTyped DEF ReadCall, Fates
  <2> QED
    BY <1>7, <1>l, <2>1, <2>2 DEF ReadCall, ListenerTyped, Awaits, Typed
<1>8. CASE CallReturns
  <2>1. WireTyped' /\ Recorded \in Seq(Channels)
    BY <1>8, ReadSocketTyped, RecordedType DEF CallReturns
  <2> QED
    BY <1>8, <1>l, <2>1 DEF CallReturns, ListenerTyped, Awaits, Typed
<1>9. CASE RelistenReturns
  <2>1. WireTyped'
    BY <1>9, ReadSocketTyped DEF RelistenReturns
  <2>2. todo' \in Seq(Channels)
    <3>1. CASE failed
      BY <3>1, <1>9, <1>l DEF RelistenReturns, ListenerTyped
    <3>2. CASE ~failed
      <4>1. todo' = Tail(todo) /\ todo \in Seq(Channels)
        BY <3>2, <1>9, <1>l DEF RelistenReturns, ListenerTyped
      <4>2. CASE todo # <<>>
        BY <4>1, <4>2, FirstOf
      <4>3. CASE todo = <<>>
        BY <4>1, <4>3
      <4> QED
        BY <4>2, <4>3
    <3> QED
      BY <3>1, <3>2
  <2> QED
    BY <1>9, <1>l, <2>1, <2>2 DEF RelistenReturns, ListenerTyped, Awaits, Typed
<1>10. CASE AwaitFails \/ Reconnected
  <2>1. WireTyped'
    BY <1>10, <1>s DEF AwaitFails, Reconnected
  <2>2. fate' \in Seq(Fates)
    BY <1>10, FateTyped DEF AwaitFails, Reconnected, Fates
  <2> QED
    BY <1>10, <1>l, <2>1, <2>2 DEF AwaitFails, Reconnected, ListenerTyped, Awaits, Typed
<1>11. CASE GiveUp
  <2>1. WireTyped'
    BY <1>11, DroppedTyped DEF GiveUp
  <2>2. fate' \in Seq(Fates)
    BY <1>11, FateTyped DEF GiveUp, Fates
  <2> QED
    BY <1>11, <1>l, <2>1, <2>2 DEF GiveUp, ListenerTyped, Awaits, Typed
<1>12. CASE RecvNote
  <2>1. WireTyped'
    BY <1>12, ReadSocketTyped DEF RecvNote
  <2>2. fate' \in Seq(Fates)
    BY <1>12, FateTyped DEF RecvNote, Fates
  <2> QED
    BY <1>12, <1>l, <2>1, <2>2 DEF RecvNote, ListenerTyped, Awaits, Typed
<1>13. CASE RecvOther
  BY <1>13, ReadSocketTyped, <1>u DEF RecvOther, Typed
<1>14. CASE RecvEnd
  <2>1. WireTyped'
    BY <1>14, DroppedTyped DEF RecvEnd
  <2> QED
    BY <1>14, <1>l, <2>1 DEF RecvEnd, ListenerTyped, Awaits, Typed
<1>15. CASE Cancel
  <2>1. CASE pc \in {"call", "recv"}
    <3>1. WireTyped'
      BY <1>15, <2>1, <1>s DEF Cancel
    <3> QED
      BY <1>15, <2>1, <1>l, <3>1 DEF Cancel, ListenerTyped, Awaits, Typed
  <2>2. CASE pc \notin {"call", "recv"}
    <3>1. WireTyped'
      BY <1>15, <2>2, DroppedTyped DEF Cancel
    <3>2. fate' \in Seq(Fates)
      BY <1>15, <2>2, FateTyped DEF Cancel, Fates
    <3> QED
      BY <1>15, <2>2, <1>l, <3>1, <3>2 DEF Cancel, ListenerTyped, Awaits, Typed
  <2> QED
    BY <2>1, <2>2
<1>16. CASE ServerStep
  BY <1>16, <1>w, ServerTyped, <1>u DEF ServerStep, Typed
<1>17. CASE Loss
  <2>1. WireTyped'
    BY <1>17, <1>w, ServerTyped DEF Loss
  <2>2. fate' \in Seq(Fates)
    BY <1>17, FateTyped DEF Loss, Fates
  <2> QED
    BY <1>17, <1>l, <2>1, <2>2 DEF Loss, ListenerTyped, Awaits, Typed
<1>18. CASE Execute
  <2>1. toSrv # <<>> /\ toSrv' = Tail(toSrv) /\ srv' = srv /\ UNCHANGED <<mode, hs, dials>> /\ Asked.t = "Query"
    BY <1>18 DEF Execute, Takes
  <2>2. toSrv' \in Seq(ClientMsgs) /\ Asked \in ClientMsgs
    BY <2>1, <1>w, FirstOf DEF WireTyped, Asked
  <2>3. Asked \in Queries
    BY <2>1, <2>2 DEF ClientMsgs, M
  <2>4. \/ Say(<<M("Complete"), M("Ready")>>) /\ subs' = CASE Asked.op = "listen"   -> subs \cup {Asked.c}
                                                          [] Asked.op = "unlisten" -> subs \ {Asked.c}
                                                          [] OTHER                 -> {}
        \/ Say(<<M("Error"), M("Ready")>>) /\ UNCHANGED subs
    BY <1>18 DEF Execute
  <2>5. M("Complete") \in ServerMsgs /\ M("Ready") \in ServerMsgs /\ M("Error") \in ServerMsgs
    BY ServerSays
  <2>6. <<M("Complete"), M("Ready")>> \in Seq(ServerMsgs) /\ <<M("Error"), M("Ready")>> \in Seq(ServerMsgs)
    BY <2>5
  <2>7. toCli' \in Seq(ServerMsgs)
    BY <2>4, <2>6, <1>w, SayType DEF Say
  <2>8. WireTyped'
    BY <2>1, <2>2, <2>7, <1>w DEF WireTyped, Talking
  <2>9. Asked.op \in {"listen", "unlisten", "unlisten_all"} /\ (Asked.op = "listen" => Asked.c \in Channels)
    BY <2>3 DEF Queries, Statements
  <2>10. subs' \subseteq Channels
    BY <2>4, <2>9, <1>l DEF ListenerTyped
  <2> QED
    BY <1>18, <2>8, <2>10, <1>l DEF Execute, Takes, ListenerTyped, Awaits, Typed
<1>19. CASE Publish
  <2>1. PICK f \in Fates :
          /\ fate' = Append(fate, f)
          /\ \/ toCli' = Append(toCli, [t |-> "Note", n |-> Len(fate) + 1])
             \/ toCli' = toCli
    BY <1>19 DEF Publish, Fates
  <2>n. fate \in Seq(Fates)
    BY <1>l DEF ListenerTyped
  <2>2. fate' \in Seq(Fates) /\ Len(fate) + 1 \in Nat
    BY <2>1, <2>n, Added
  <2>3. [t |-> "Note", n |-> Len(fate) + 1] \in ServerMsgs
    BY <2>2, ServerSays
  <2>4. toCli' \in Seq(ServerMsgs)
    <3>1. toCli \in Seq(ServerMsgs)
      BY <1>w DEF WireTyped
    <3>2. Append(toCli, [t |-> "Note", n |-> Len(fate) + 1]) \in Seq(ServerMsgs)
      BY <2>3, <3>1, Added
    <3> QED
      BY <2>1, <3>1, <3>2
  <2>5. WireTyped'
    BY <1>19, <2>4, <1>w DEF Publish, WireTyped, Talking
  <2> QED
    BY <1>19, <2>2, <2>5, <1>l DEF Publish, ListenerTyped, Awaits, Typed
<1> QED
  BY <1>0, <1>1, <1>2, <1>3, <1>4, <1>5, <1>6, <1>7, <1>8, <1>9, <1>10, <1>11, <1>12, <1>13, <1>14, <1>15, <1>16,
     <1>17, <1>18, <1>19 DEF Next, Work, Others
-----------------------------------------------------------------------------
(* The conversation: what the client reads and what the server is asked.   *)

LEMMA Prefixed ==
  ASSUME NEW S, NEW s \in Seq(S), NEW x \in S
  PROVE  <<x>> \o s # <<>> /\ Head(<<x>> \o s) = x /\ Tail(<<x>> \o s) = s
<1> DEFINE u == <<x>> \o s
           n == Len(s)
<1>1. <<x>> \in Seq(S) /\ Len(<<x>>) = 1 /\ <<x>>[1] = x
  OBVIOUS
<1>2. u \in Seq(S) /\ n \in Nat /\ DOMAIN u = 1..(1 + n) /\ u[1] = x /\ \A i \in 1..n : u[1 + i] = s[i]
  BY <1>1, Joined
<1>3. Len(u) = 1 + n
  BY <1>1, ConcatProperties
<1> HIDE DEF u, n
<1>4. u # <<>>
  BY <1>2, <1>3, EmptySeq
<1>5. Tail(u) \in Seq(S) /\ Head(u) = u[1] /\ DOMAIN Tail(u) = 1..(Len(u) - 1) /\ \A i \in DOMAIN Tail(u) : Tail(u)[i] = u[i + 1]
  BY <1>2, <1>4, FirstOf
<1>6. Len(u) - 1 = n /\ DOMAIN Tail(u) = 1..n
  BY <1>2, <1>3, <1>5
<1>7. Len(Tail(u)) = n
  BY <1>2, <1>5, <1>6, LenProperties
<1>8. \A i \in 1..n : Tail(u)[i] = s[i]
  <2> TAKE i \in 1..n
  <2>1. Tail(u)[i] = u[i + 1] /\ i + 1 = 1 + i
    BY <1>2, <1>5, <1>6
  <2> QED
    BY <2>1, <1>2
<1>9. Tail(u) = s
  BY <1>5, <1>7, <1>8, SeqEqual DEF n
<1> QED
  BY <1>2, <1>4, <1>5, <1>9 DEF u

LEMMA LongWelcome ==
  ASSUME srv.pid \in Nat
  PROVE  LET w == <<M("SaslFinal")>> \o Welcome
         IN w # <<>> /\ Head(w) = M("SaslFinal") /\ Tail(w) = Welcome
BY WelcomeType, ServerSays, Prefixed

\* The messages that the client reads from a server that is up, where it reads them and
\* what comes after them.
LEMMA Reading ==
  ASSUME WireTyped, Conversation, srv.at # "down", toCli # <<>>
  PROVE  \/ srv.at = "plain" /\ hs.at = "ssl" /\ toSrv = <<>> /\ Got = M("N") /\ Tail(toCli) = <<>>
         \/ srv.at = "secure" /\ hs.at = "ssl" /\ toSrv = <<>> /\ Got = M("S") /\ Tail(toCli) = <<>>
         \/ srv.at = "password" /\ hs.at = "auth" /\ toSrv = <<>> /\ Got = M("Notice") /\ Tail(toCli) = <<M(srv.auth)>>
         \/ srv.at = "password" /\ hs.at = "auth" /\ toSrv = <<>> /\ Got = M(srv.auth) /\ Tail(toCli) = <<>>
         \/ srv.at = "sasl" /\ hs.at = "auth" /\ toSrv = <<>> /\ Got = [t |-> "sasl", offered |-> Offered(hs.tls)] /\ Tail(toCli) = <<>>
         \/ srv.at \in {"proof", "bound proof"} /\ hs.at = "first" /\ toSrv = <<>> /\ Got.t = "Continue" /\ Tail(toCli) = <<>>
         \/ srv.at = "ready" /\ hs.at = "final" /\ toSrv = <<>> /\ Got = M("SaslFinal") /\ Tail(toCli) = Welcome
         \/ srv.at = "ready" /\ hs.at \in {"auth", "final"} /\ toSrv = <<>> /\ Got = M("Ok") /\ Tail(toCli) = <<M("Param"), Key, M("Ready")>>
         \/ srv.at = "ready" /\ hs.at = "auth" /\ toSrv = <<>> /\ Got = M("Param") /\ Tail(toCli) = <<Key, M("Ready")>>
         \/ srv.at = "ready" /\ hs.at = "auth" /\ toSrv = <<>> /\ Got = Key /\ Tail(toCli) = <<M("Ready")>>
         \/ srv.at = "ready" /\ hs.at = "auth" /\ toSrv = <<>> /\ Got = M("Ready") /\ Tail(toCli) = <<>> /\ hs.pid = srv.pid
<1>1. srv \in Sessions /\ srv.pid \in Nat
  BY UpType
<1>2. srv.at \in {"fresh", "plain", "secure", "password", "sasl", "proof", "bound proof", "ready"}
  BY <1>1 DEF Sessions
<1>3. CASE srv.at = "fresh"
  BY <1>3 DEF Conversation
<1>4. CASE srv.at = "plain"
  <2>1. hs.at = "ssl" /\ toSrv = <<>> /\ toCli = <<M("N")>>
    BY <1>4 DEF Conversation
  <2> QED
    BY <1>4, <2>1 DEF Got
<1>5. CASE srv.at = "secure"
  <2>1. hs.at = "ssl" /\ toSrv = <<>> /\ toCli = <<M("S")>>
    BY <1>5 DEF Conversation
  <2> QED
    BY <1>5, <2>1 DEF Got
<1>6. CASE srv.at = "password"
  <2>1. hs.at = "auth" /\ toSrv = <<>> /\ toCli \in {<<M("Notice"), M(srv.auth)>>, <<M(srv.auth)>>}
    BY <1>6 DEF Conversation
  <2>2. CASE toCli = <<M("Notice"), M(srv.auth)>>
    BY <1>6, <2>1, <2>2 DEF Got
  <2>3. CASE toCli = <<M(srv.auth)>>
    BY <1>6, <2>1, <2>3 DEF Got
  <2> QED
    BY <2>1, <2>2, <2>3
<1>7. CASE srv.at = "sasl"
  <2>1. hs.at = "auth" /\ toSrv = <<>> /\ toCli = <<[t |-> "sasl", offered |-> Offered(hs.tls)]>>
    BY <1>7 DEF Conversation
  <2> QED
    BY <1>7, <2>1 DEF Got
<1>8. CASE srv.at \in {"proof", "bound proof"}
  <2>1. hs.at = "first" /\ toSrv = <<>> /\ \E g \in BOOLEAN : toCli = <<[t |-> "Continue", good |-> g]>>
    BY <1>8 DEF Conversation
  <2>2. PICK g \in BOOLEAN : toCli = <<[t |-> "Continue", good |-> g]>>
    BY <2>1
  <2>3. Got = [t |-> "Continue", good |-> g] /\ Tail(toCli) = <<>>
    BY <2>2, Short DEF Got
  <2>4. Got.t = "Continue"
    BY <2>3
  <2> QED
    BY <1>8, <2>1, <2>3, <2>4
<1>9. CASE srv.at = "ready"
  <2>1. toSrv = <<>>
    BY <1>9 DEF Conversation
  <2>2. \/ hs.at = "final" /\ toCli = <<M("SaslFinal")>> \o Welcome
        \/ hs.at \in {"auth", "final"} /\ toCli = Welcome
        \/ hs.at = "auth" /\ toCli = <<M("Param"), Key, M("Ready")>>
        \/ hs.at = "auth" /\ toCli = <<Key, M("Ready")>>
        \/ hs.at = "auth" /\ toCli = <<M("Ready")>> /\ hs.pid = srv.pid
    BY <1>9 DEF Conversation
  <2>3. CASE hs.at = "final" /\ toCli = <<M("SaslFinal")>> \o Welcome
    BY <1>9, <2>1, <2>3, <1>1, LongWelcome DEF Got
  <2>4. CASE hs.at \in {"auth", "final"} /\ toCli = Welcome
    BY <1>9, <2>1, <2>4 DEF Got, Welcome, Key
  <2>5. CASE hs.at = "auth" /\ toCli = <<M("Param"), Key, M("Ready")>>
    BY <1>9, <2>1, <2>5 DEF Got
  <2>6. CASE hs.at = "auth" /\ toCli = <<Key, M("Ready")>>
    BY <1>9, <2>1, <2>6 DEF Got
  <2>7. CASE hs.at = "auth" /\ toCli = <<M("Ready")>> /\ hs.pid = srv.pid
    BY <1>9, <2>1, <2>7 DEF Got
  <2> QED
    BY <2>2, <2>3, <2>4, <2>5, <2>6, <2>7
<1> QED
  BY <1>2, <1>3, <1>4, <1>5, <1>6, <1>7, <1>8, <1>9

\* What a server that is up is asked, and that nothing else is on its way.
LEMMA Asking ==
  ASSUME WireTyped, Conversation, srv.at # "down", toSrv # <<>>
  PROVE  /\ toCli = <<>> /\ Tail(toSrv) = <<>>
         /\ \/ srv.at = "fresh" /\ hs.at = "ssl" /\ Asked = M("SSLRequest")
            \/ srv.at = "fresh" /\ hs.at = "auth" /\ Asked = M("Startup")
            \/ srv.at = "plain" /\ hs.at = "auth" /\ Asked = M("Startup")
            \/ srv.at = "secure" /\ hs.at = "auth" /\ hs.tls /\ Asked = M("Startup")
            \/ srv.at = "password" /\ hs.at = "auth" /\ Asked = [t |-> "Password", form |-> srv.auth] /\ hs.mech = srv.auth
            \/ srv.at = "sasl" /\ hs.at = "first" /\ Asked = [t |-> "Initial", mech |-> Agreed] /\ hs.mech = Agreed
               /\ Agreed \in srv.mechs
            \/ srv.at \in {"proof", "bound proof"} /\ hs.at = "final" /\ Asked = [t |-> "Response", binding |-> Binding(hs.mech, srv.sig)]
<1>1. srv \in Sessions
  BY UpType
<1>2. srv.at \in {"fresh", "plain", "secure", "password", "sasl", "proof", "bound proof", "ready"}
  BY <1>1 DEF Sessions
<1>3. CASE srv.at \in {"fresh", "plain", "secure"}
  <2>1. /\ toCli = <<>>
        /\ \/ srv.at = "fresh" /\ hs.at = "ssl" /\ toSrv = <<M("SSLRequest")>>
           \/ srv.at = "fresh" /\ hs.at = "auth" /\ toSrv = <<M("Startup")>>
           \/ srv.at = "plain" /\ hs.at = "auth" /\ toSrv = <<M("Startup")>>
           \/ srv.at = "secure" /\ hs.at = "auth" /\ hs.tls /\ toSrv = <<M("Startup")>>
    BY <1>3 DEF Conversation
  <2>2. CASE toSrv = <<M("SSLRequest")>>
    <3>1. Asked = M("SSLRequest") /\ Tail(toSrv) = <<>> /\ toSrv # <<M("Startup")>>
      BY <2>2, Short DEF Asked, M
    <3> QED
      BY <2>1, <3>1
  <2>3. CASE toSrv = <<M("Startup")>>
    <3>1. Asked = M("Startup") /\ Tail(toSrv) = <<>> /\ toSrv # <<M("SSLRequest")>>
      BY <2>3, Short DEF Asked, M
    <3> QED
      BY <2>1, <3>1
  <2> QED
    BY <2>1, <2>2, <2>3
<1>4. CASE srv.at = "password"
  <2>1. toCli = <<>> /\ hs.at = "auth" /\ toSrv = <<[t |-> "Password", form |-> srv.auth]>> /\ hs.mech = srv.auth
    BY <1>4 DEF Conversation
  <2> QED
    BY <1>4, <2>1 DEF Asked
<1>5. CASE srv.at = "sasl"
  <2>1. toCli = <<>> /\ hs.at = "first" /\ toSrv = <<[t |-> "Initial", mech |-> Agreed]>> /\ hs.mech = Agreed
        /\ Agreed \in srv.mechs
    BY <1>5 DEF Conversation
  <2> QED
    BY <1>5, <2>1 DEF Asked
<1>6. CASE srv.at \in {"proof", "bound proof"}
  <2>1. toCli = <<>> /\ hs.at = "final" /\ toSrv = <<[t |-> "Response", binding |-> Binding(hs.mech, srv.sig)]>>
    BY <1>6 DEF Conversation
  <2>2. Asked = [t |-> "Response", binding |-> Binding(hs.mech, srv.sig)] /\ Tail(toSrv) = <<>>
    BY <2>1, Short DEF Asked
  <2> QED
    BY <1>6, <2>1, <2>2
<1>7. CASE srv.at = "ready"
  BY <1>7 DEF Conversation
<1> QED
  BY <1>2, <1>3, <1>4, <1>5, <1>6, <1>7
LEMMA GoneQuiet ==
  ASSUME srv.at = "down"
  PROVE  Conversation
BY DEF Conversation

LEMMA GoneQuietNext ==
  ASSUME srv'.at = "down"
  PROVE  Conversation'
BY DEF Conversation

LEMMA DialKeeps ==
  ASSUME WireTyped, WireTyped', NEW s \in Servers, Dial(s)
  PROVE  Conversation' /\ Required'
<1>1. srv'.at = "fresh" /\ toCli' = <<>> /\ mode' = mode
  BY DEF Dial, Session
<1>2. CASE mode = "Disable"
  <2>1. hs'.at = "auth" /\ hs'.mech = "trust" /\ ~hs'.tls /\ toSrv' = <<M("Startup")>>
    BY <1>2 DEF Dial, Closed
  <2> QED
    BY <1>1, <1>2, <2>1 DEF Conversation, Required
<1>3. CASE mode # "Disable"
  <2>1. hs'.at = "ssl" /\ hs'.mech = "trust" /\ ~hs'.tls /\ toSrv' = <<M("SSLRequest")>>
    BY <1>3 DEF Dial, Closed
  <2> QED
    BY <1>1, <2>1 DEF Conversation, Required
<1> QED
  BY <1>2, <1>3

LEMMA ReadKeeps ==
  ASSUME WireTyped, WireTyped', Talking => Conversation, Required,
         \/ DialRefused \/ ReadSslAnswer \/ ReadPasswordRequest \/ ReadSasl \/ ReadServerFirst
         \/ ReadScramOk \/ ReadKey \/ ReadStartupReady \/ ReadStartupError \/ ReadIgnored \/ ReadEnd
  PROVE  (Talking' => Conversation') /\ Required'
<1>h. hs \in HandshakeStates
  BY DEF WireTyped
<1>f. ASSUME NEW e, Fails(e)
      PROVE  ~Talking' /\ Required'
  <2>1. hs'.at = "failed"
    BY <1>f, <1>h DEF Fails, HandshakeStates
  <2> QED
    BY <2>1 DEF Talking, Required
<1>1. CASE DialRefused
  <2>1. hs'.at = "failed"
    BY <1>1 DEF DialRefused, Closed
  <2> QED
    BY <2>1 DEF Talking, Required
<1>2. CASE ReadStartupError \/ ReadEnd
  BY <1>2, <1>f DEF ReadStartupError, ReadEnd
<1>3. CASE ReadStartupReady
  <2>1. hs'.at = "ready"
    BY <1>3, <1>h DEF ReadStartupReady, HandshakeStates
  <2> QED
    BY <2>1 DEF Talking, Required
\* What is left of the reads goes on talking; a server that is gone asks for nothing.
<1> DEFINE R == \/ ReadSslAnswer \/ ReadPasswordRequest \/ ReadSasl \/ ReadServerFirst
                \/ ReadScramOk \/ ReadKey \/ ReadIgnored
<1>r. R => /\ toCli # <<>> /\ toCli' = Tail(toCli) /\ UNCHANGED <<mode, srv, dials>>
           /\ hs.at \in {"ssl", "auth", "first", "final"} /\ Talking
  BY DEF ReadSslAnswer, ReadPasswordRequest, ReadSasl, ReadServerFirst, ReadScramOk, ReadKey, ReadIgnored, Reads, Talking
<1>s. ASSUME R, srv.at # "down"
      PROVE  Conversation
  BY <1>s, <1>r
<1>g. ASSUME R, srv.at = "down"
      PROVE  Conversation'
  BY <1>g, <1>r, GoneQuietNext
<1>4. CASE ReadSslAnswer
  <2>1. hs.at = "ssl" /\ toCli # <<>>
    BY <1>4 DEF ReadSslAnswer, Reads
  <2>2. \/ Give(M("Startup")) /\ hs' = [hs EXCEPT !.at = "auth", !.tls = TRUE] /\ Got.t = "S"
        \/ Give(M("Startup")) /\ hs' = [hs EXCEPT !.at = "auth"] /\ mode # "Require" /\ Got.t = "N"
        \/ Fails("Io") \/ Fails("Protocol")
    BY <1>4 DEF ReadSslAnswer, Refused
  <2>3. CASE Fails("Io") \/ Fails("Protocol")
    BY <2>3, <1>f
  <2>4. CASE Give(M("Startup")) /\ hs' = [hs EXCEPT !.at = "auth", !.tls = TRUE] /\ Got.t = "S"
    <3>1. hs'.at = "auth" /\ hs'.tls /\ hs'.mech = hs.mech
      BY <2>4, <1>h DEF HandshakeStates
    <3>2. ASSUME srv.at # "down"
          PROVE  Conversation'
      <4>1. srv.at = "secure" /\ toSrv = <<>> /\ Tail(toCli) = <<>>
        BY <3>2, <2>1, <2>4, <1>4, <1>s, Reading DEF M
      <4>2. hs.mech = "trust"
        BY <4>1, <1>4, <3>2, <1>s DEF Conversation
      <4>3. toSrv' = <<M("Startup")>>
        BY <2>4, <4>1, Short DEF Give
      <4>4. toCli' = <<>> /\ srv'.at = "secure"
        BY <1>4, <1>r, <4>1
      <4> QED
        BY <3>1, <4>2, <4>3, <4>4 DEF Conversation
    <3> QED
      BY <1>4, <1>g, <3>1, <3>2 DEF Required
  <2>5. CASE Give(M("Startup")) /\ hs' = [hs EXCEPT !.at = "auth"] /\ mode # "Require" /\ Got.t = "N"
    <3>1. hs'.at = "auth" /\ hs'.tls = hs.tls /\ hs'.mech = hs.mech
      BY <2>5, <1>h DEF HandshakeStates
    <3>2. ASSUME srv.at # "down"
          PROVE  Conversation'
      <4>1. srv.at = "plain" /\ toSrv = <<>> /\ Tail(toCli) = <<>>
        BY <3>2, <2>1, <2>5, <1>4, <1>s, Reading DEF M
      <4>2. hs.mech = "trust" /\ ~hs.tls
        BY <4>1, <1>4, <3>2, <1>s DEF Conversation
      <4>3. toSrv' = <<M("Startup")>>
        BY <2>5, <4>1, Short DEF Give
      <4>4. toCli' = <<>> /\ srv'.at = "plain"
        BY <1>4, <1>r, <4>1
      <4> QED
        BY <3>1, <4>2, <4>3, <4>4 DEF Conversation
    <3> QED
      BY <1>4, <1>g, <1>r, <2>5, <3>1, <3>2 DEF Required
  <2> QED
    BY <2>2, <2>3, <2>4, <2>5
<1>5. CASE ReadPasswordRequest
  <2>1. hs.at = "auth" /\ Got.t \in {"cleartext", "md5"} /\ hs' = [hs EXCEPT !.mech = Got.t] /\ Give([t |-> "Password", form |-> Got.t])
    BY <1>5 DEF ReadPasswordRequest, Reads
  <2>2. hs'.at = "auth" /\ hs'.tls = hs.tls /\ hs'.mech = Got.t
    BY <2>1, <1>h DEF HandshakeStates
  <2>3. ASSUME srv.at # "down"
        PROVE  Conversation'
    <3>1. srv.at = "password" /\ toSrv = <<>> /\ Tail(toCli) = <<>> /\ Got = M(srv.auth)
      BY <2>1, <2>3, <1>5, <1>r, <1>s, Reading DEF M, Key
    <3>2. srv.auth \in {"cleartext", "md5"}
      BY <3>1, <1>5, <2>3, <1>s DEF Conversation
    <3>3. Got.t = srv.auth
      BY <3>1 DEF M
    <3>4. toSrv' = <<[t |-> "Password", form |-> srv.auth]>>
      BY <2>1, <3>1, <3>3, Short DEF Give
    <3>5. toCli' = <<>> /\ srv' = srv
      BY <1>5, <1>r, <3>1
    <3> QED
      BY <2>2, <3>1, <3>2, <3>3, <3>4, <3>5 DEF Conversation
  <2> QED
    BY <1>5, <1>g, <1>r, <2>1, <2>2, <2>3 DEF Required
<1>6. CASE ReadSasl
  <2> DEFINE m == Mechanism(hs.tls, Got.offered)
  <2>1. hs.at = "auth" /\ Got.t = "sasl"
    BY <1>6 DEF ReadSasl, Reads
  <2>2. CASE m = "none"
    <3>1. Fails("Protocol")
      BY <1>6, <2>2 DEF ReadSasl
    <3> QED
      BY <3>1, <1>f
  <2>3. CASE m # "none"
    <3>1. hs' = [hs EXCEPT !.mech = m, !.at = "first"] /\ Give([t |-> "Initial", mech |-> m])
      BY <1>6, <2>3 DEF ReadSasl
    <3>2. hs'.at = "first" /\ hs'.tls = hs.tls /\ hs'.mech = m
      BY <3>1, <1>h DEF HandshakeStates
    <3>3. ASSUME srv.at # "down"
          PROVE  Conversation'
      <4>1. (srv.at = "sasl" /\ toSrv = <<>> /\ Tail(toCli) = <<>> /\ Got = [t |-> "sasl", offered |-> Offered(hs.tls)])
            \/ (srv.at = "password" /\ Got = M(srv.auth))
        BY <2>1, <3>3, <1>6, <1>r, <1>s, Reading DEF M, Key
      <4>2. srv.at = "password" => srv.auth \in {"cleartext", "md5"}
        BY <1>6, <3>3, <1>s DEF Conversation
      <4>3. srv.at = "sasl" /\ toSrv = <<>> /\ Tail(toCli) = <<>> /\ Got.offered = Offered(hs.tls)
        BY <2>1, <4>1, <4>2 DEF M
      <4>4. srv.auth = "sasl"
        BY <4>3, <1>6, <3>3, <1>s DEF Conversation
      <4>5. m = Agreed /\ Agreed \in srv.mechs
        BY <4>3, <4>4, <2>3 DEF Mechanism, Offered, Agreed
      <4>6. toCli' = <<>> /\ srv' = srv
        BY <1>6, <1>r, <4>3
      <4> HIDE DEF m
      <4>7. Agreed' = Agreed
        BY <3>2, <4>6 DEF Agreed
      <4>8. toSrv' = <<[t |-> "Initial", mech |-> Agreed']>>
        BY <3>1, <4>3, <4>5, <4>7, Short DEF Give
      <4> QED
        BY <3>2, <4>3, <4>4, <4>5, <4>6, <4>7, <4>8 DEF Conversation
    <3> QED
      BY <1>6, <1>g, <1>r, <2>1, <3>2, <3>3 DEF Required
  <2> QED
    BY <2>2, <2>3
<1>7. CASE ReadServerFirst
  <2>1. hs.at = "first" /\ Got.t = "Continue"
    BY <1>7 DEF ReadServerFirst, Reads
  <2>2. CASE ~Got.good
    <3>1. Fails("Protocol")
      BY <1>7, <2>2 DEF ReadServerFirst
    <3> QED
      BY <3>1, <1>f
  <2>3. CASE Got.good
    <3>1. hs' = [hs EXCEPT !.at = "final"] /\ Give([t |-> "Response", binding |-> Binding(hs.mech, srv.sig)])
      BY <1>7, <2>3 DEF ReadServerFirst
    <3>2. hs'.at = "final" /\ hs'.tls = hs.tls /\ hs'.mech = hs.mech
      BY <3>1, <1>h DEF HandshakeStates
    <3>3. ASSUME srv.at # "down"
          PROVE  Conversation'
      <4>1. srv.at \in {"proof", "bound proof"} /\ toSrv = <<>> /\ Tail(toCli) = <<>>
        BY <2>1, <3>3, <1>7, <1>r, <1>s, Reading DEF M, Key
      <4>2. srv.auth = "sasl" /\ hs.mech = Agreed /\ srv.at = IF Agreed = "SCRAM-SHA-256" THEN "proof" ELSE "bound proof"
        BY <4>1, <1>7, <3>3, <1>s DEF Conversation
      <4>3. toCli' = <<>> /\ srv' = srv
        BY <1>7, <1>r, <4>1
      <4>4. Agreed' = Agreed
        BY <3>2, <4>3 DEF Agreed
      <4>5. toSrv' = <<[t |-> "Response", binding |-> Binding(hs'.mech, srv'.sig)]>>
        BY <3>1, <3>2, <4>1, <4>3, Short DEF Give
      <4> QED
        BY <3>2, <4>1, <4>2, <4>3, <4>4, <4>5 DEF Conversation
    <3> QED
      BY <1>7, <1>g, <1>r, <2>1, <3>2, <3>3 DEF Required
  <2> QED
    BY <2>2, <2>3
<1>8. CASE ReadScramOk
  <2>1. hs.at = "final" /\ Got.t = "Ok" /\ hs' = [hs EXCEPT !.at = "auth"] /\ toSrv' = toSrv
    BY <1>8 DEF ReadScramOk, Reads
  <2>2. hs'.at = "auth" /\ hs'.tls = hs.tls /\ hs'.mech = hs.mech
    BY <2>1, <1>h DEF HandshakeStates
  <2>3. ASSUME srv.at # "down"
        PROVE  Conversation'
    <3>1. srv.at = "ready" /\ toSrv = <<>> /\ Tail(toCli) = <<M("Param"), Key, M("Ready")>>
      BY <2>1, <2>3, <1>8, <1>r, <1>s, Reading DEF M, Key
    <3>2. hs.mech = Agreed
      BY <3>1, <1>8, <2>3, <1>s DEF Conversation
    <3>3. toCli' = <<M("Param"), Key', M("Ready")>> /\ srv' = srv
      BY <1>8, <1>r, <3>1 DEF Key
    <3>4. Agreed' = Agreed
      BY <2>2, <3>3 DEF Agreed
    <3> QED
      BY <2>1, <2>2, <3>1, <3>2, <3>3, <3>4 DEF Conversation
  <2> QED
    BY <1>8, <1>g, <1>r, <2>1, <2>2, <2>3 DEF Required
<1>9. CASE ReadKey
  <2>1. hs.at = "auth" /\ Got.t = "Key" /\ hs' = [hs EXCEPT !.pid = Got.pid] /\ toSrv' = toSrv
    BY <1>9 DEF ReadKey, Reads
  <2>2. hs'.at = "auth" /\ hs'.tls = hs.tls /\ hs'.mech = hs.mech /\ hs'.pid = Got.pid
    BY <2>1, <1>h DEF HandshakeStates
  <2>3. ASSUME srv.at # "down"
        PROVE  Conversation'
    <3>1. (srv.at = "ready" /\ toSrv = <<>> /\ Got = Key /\ Tail(toCli) = <<M("Ready")>>) \/ (srv.at = "password" /\ Got = M(srv.auth))
      BY <2>1, <2>3, <1>9, <1>r, <1>s, Reading DEF M
    <3>2. srv.at = "password" => srv.auth \in {"cleartext", "md5"}
      BY <1>9, <2>3, <1>s DEF Conversation
    <3>3. srv.at = "ready" /\ toSrv = <<>> /\ Got.pid = srv.pid /\ Tail(toCli) = <<M("Ready")>>
      BY <2>1, <3>1, <3>2 DEF M, Key
    <3>4. hs.mech = Agreed
      BY <3>3, <1>9, <2>3, <1>s DEF Conversation
    <3>5. toCli' = <<M("Ready")>> /\ srv' = srv
      BY <1>9, <1>r, <3>3
    <3>6. Agreed' = Agreed
      BY <2>2, <3>5 DEF Agreed
    <3> QED
      BY <2>1, <2>2, <3>3, <3>4, <3>5, <3>6 DEF Conversation
  <2> QED
    BY <1>9, <1>g, <1>r, <2>1, <2>2, <2>3 DEF Required
<1>10. CASE ReadIgnored
  <2>1. /\ hs' = hs /\ toSrv' = toSrv
        /\ Got.t \in {"Param", "Notice", "Ok", "SaslFinal"} /\ (hs.at = "final" => Got.t # "Ok") /\ hs.at # "ssl"
    BY <1>10 DEF ReadIgnored, Reads
  <2>2. ASSUME srv.at # "down"
        PROVE  Conversation'
    <3>1. \/ srv.at = "password" /\ hs.at = "auth" /\ toSrv = <<>> /\ Tail(toCli) = <<M(srv.auth)>>
          \/ srv.at = "password" /\ Got = M(srv.auth)
          \/ srv.at = "ready" /\ hs.at = "final" /\ toSrv = <<>> /\ Tail(toCli) = Welcome
          \/ srv.at = "ready" /\ hs.at = "auth" /\ toSrv = <<>> /\ Tail(toCli) \in {<<M("Param"), Key, M("Ready")>>, <<Key, M("Ready")>>}
      <4> USE <2>1, <2>2, <1>10, <1>r, <1>s, Reading DEF M, Key
      <4>1. CASE Got.t = "Param"
        BY <4>1
      <4>2. CASE Got.t = "Notice"
        BY <4>2
      <4>3. CASE Got.t = "Ok"
        BY <4>3
      <4>4. CASE Got.t = "SaslFinal"
        BY <4>4
      <4> QED
        BY <4>1, <4>2, <4>3, <4>4
    <3>2. /\ srv.at = "password" => srv.auth \in {"cleartext", "md5"}
          /\ srv.at = "ready" => hs.mech = Agreed
      BY <1>10, <2>2, <1>s DEF Conversation
    <3>3. ~(srv.at = "password" /\ Got = M(srv.auth))
      BY <2>1, <3>2 DEF M
    <3>4. srv' = srv /\ toCli' = Tail(toCli) /\ Agreed' = Agreed /\ Key' = Key /\ Welcome' = Welcome
      BY <1>10, <1>r, <2>1 DEF Agreed, Key, Welcome
    <3>5. CASE srv.at = "password"
      BY <2>1, <3>1, <3>2, <3>3, <3>4, <3>5 DEF Conversation
    <3>6. CASE srv.at = "ready"
      <4>1. \/ hs'.at = "final" /\ toCli' = Welcome'
            \/ hs'.at = "auth" /\ toCli' \in {<<M("Param"), Key', M("Ready")>>, <<Key', M("Ready")>>}
        BY <2>1, <3>1, <3>4, <3>6
      <4>2. toSrv' = <<>> /\ hs'.mech = Agreed' /\ srv'.at = "ready"
        BY <2>1, <3>1, <3>2, <3>4, <3>6
      <4> QED
        BY <4>1, <4>2 DEF Conversation
    <3> QED
      BY <3>1, <3>5, <3>6
  <2> QED
    BY <1>10, <1>g, <1>r, <2>1, <2>2 DEF Required
<1> QED
  BY <1>1, <1>2, <1>3, <1>4, <1>5, <1>6, <1>7, <1>8, <1>9, <1>10
\* A server that is up has not sent an error.
LEMMA NoErrorYet ==
  ASSUME WireTyped, Conversation, srv.at # "down"
  PROVE  ~HasError(toCli)
<1>1. srv \in Sessions /\ srv.pid \in Nat
  BY UpType
<1>2. srv.at \in {"fresh", "plain", "secure", "password", "sasl", "proof", "bound proof", "ready"}
  BY <1>1 DEF Sessions
<1>e. ~HasError(<<>>)
  BY DEF HasError
<1>3. CASE srv.at \in {"fresh", "plain", "secure"}
  <2>1. toCli \in {<<>>, <<M("N")>>, <<M("S")>>}
    BY <1>3 DEF Conversation
  <2> QED
    BY <2>1, <1>e DEF HasError, M
<1>4. CASE srv.at = "password"
  <2>1. srv.auth \in {"cleartext", "md5"} /\ toCli \in {<<>>, <<M("Notice"), M(srv.auth)>>, <<M(srv.auth)>>}
    BY <1>4 DEF Conversation
  <2> QED
    BY <2>1, <1>e DEF HasError, M
<1>5. CASE srv.at = "sasl"
  <2>1. toCli \in {<<>>, <<[t |-> "sasl", offered |-> Offered(hs.tls)]>>}
    BY <1>5 DEF Conversation
  <2> QED
    BY <2>1, <1>e DEF HasError
<1>6. CASE srv.at \in {"proof", "bound proof"}
  <2>1. toCli = <<>> \/ \E g \in BOOLEAN : toCli = <<[t |-> "Continue", good |-> g]>>
    BY <1>6 DEF Conversation
  <2> QED
    BY <2>1, <1>e DEF HasError
<1>7. CASE srv.at = "ready"
  <2>1. \/ toCli = <<M("SaslFinal")>> \o Welcome
        \/ toCli = Welcome
        \/ toCli = <<M("Param"), Key, M("Ready")>>
        \/ toCli = <<Key, M("Ready")>>
        \/ toCli = <<M("Ready")>>
    BY <1>7 DEF Conversation
  <2>2. ~HasError(Welcome)
    BY DEF HasError, Welcome, M
  <2>3. ~HasError(<<M("SaslFinal")>> \o Welcome)
    <3>1. <<M("SaslFinal")>> \in Seq(ServerMsgs) /\ Welcome \in Seq(ServerMsgs)
      BY <1>1, WelcomeType, ServerSays
    <3>2. ~HasError(<<M("SaslFinal")>>)
      BY DEF HasError, M
    <3> QED
      BY <3>1, <3>2, <2>2, Joined DEF HasError
  <2>4. ~HasError(<<M("Param"), Key, M("Ready")>>)
    BY DEF HasError, M, Key
  <2>5. ~HasError(<<Key, M("Ready")>>) /\ ~HasError(<<M("Ready")>>)
    BY DEF HasError, M, Key
  <2> QED
    BY <2>1, <2>2, <2>3, <2>4, <2>5
<1> QED
  BY <1>2, <1>3, <1>4, <1>5, <1>6, <1>7

\* What the server answers, and that an error has a reason.
LEMMA ServerKeeps ==
  ASSUME WireTyped, WireTyped', Talking, Conversation, Excuse, SrvSsl \/ SrvStartup \/ SrvPassword \/ SrvInitial \/ SrvResponse \/ SrvGone
  PROVE  Conversation' /\ (HasError(toCli') => Reason')
<1>1. srv.at # "down"
  BY DEF SrvSsl, SrvStartup, SrvPassword, SrvInitial, SrvResponse, SrvGone, Takes
<1>2. /\ srv \in Sessions /\ srv.pid \in Nat /\ srv.auth \in {"trust", "cleartext", "md5", "sasl", "reject"}
      /\ srv.ssl \in {"S", "N", "E"} /\ srv.sig \in Sigs
  BY <1>1, UpType
<1>h. hs' = hs /\ mode' = mode
  BY DEF SrvSsl, SrvStartup, SrvPassword, SrvInitial, SrvResponse, SrvGone, Takes
<1>b. ASSUME NEW at, srv' = [srv EXCEPT !.at = at]
      PROVE  /\ srv'.at = at /\ srv'.auth = srv.auth /\ srv'.sig = srv.sig /\ srv'.knows = srv.knows /\ srv'.pid = srv.pid
             /\ srv'.mechs = srv.mechs /\ srv'.ssl = srv.ssl
             /\ Agreed' = Agreed /\ Welcome' = Welcome /\ Reason' = Reason
  <2>1. srv'.at = at /\ srv'.auth = srv.auth /\ srv'.sig = srv.sig /\ srv'.knows = srv.knows /\ srv'.pid = srv.pid
        /\ srv'.mechs = srv.mechs /\ srv'.ssl = srv.ssl
    BY <1>b, <1>2 DEF Sessions
  <2> QED
    BY <2>1, <1>h DEF Agreed, Welcome, Reason
<1>3. CASE SrvGone
  <2>1. srv' = [srv EXCEPT !.at = "down"] /\ toCli' \in {toCli, <<>>}
    BY <1>3 DEF SrvGone, Becomes
  <2>2. srv'.at = "down"
    BY <2>1, <1>b
  <2>3. ~HasError(<<>>)
    BY DEF HasError
  <2> QED
    BY <2>1, <2>2, <2>3, GoneQuietNext, NoErrorYet, <1>1
<1> SUFFICES ASSUME ~SrvGone PROVE Conversation' /\ (HasError(toCli') => Reason')
  BY <1>3
<1>4. toSrv # <<>> /\ toSrv' = Tail(toSrv)
  BY DEF SrvSsl, SrvStartup, SrvPassword, SrvInitial, SrvResponse, Takes
<1>5. toCli = <<>> /\ toSrv' = <<>>
  BY <1>1, <1>4, Asking
<1>s. ASSUME NEW ms \in Seq(ServerMsgs), Say(ms)
      PROVE  toCli' = ms
  <2>1. toCli \in Seq(ServerMsgs)
    BY DEF WireTyped
  <2> QED
    BY <2>1, <1>s, <1>5, Joined DEF Say
<1>o. \A m \in ServerMsgs : <<m>> \in Seq(ServerMsgs)
  OBVIOUS
<1>w. Welcome \in Seq(ServerMsgs) /\ <<M("SaslFinal")>> \o Welcome \in Seq(ServerMsgs)
  BY <1>2, WelcomeType
\* What is said by a server that stays up is no error.
<1>n. ASSUME Conversation', srv'.at # "down"
      PROVE  ~HasError(toCli')
  <2>1. (WireTyped /\ Conversation /\ srv.at # "down" => ~HasError(toCli))'
    BY NoErrorYet, PTL
  <2> QED
    BY <2>1, <1>n
<1>r. ASSUME Rejects, Reason
      PROVE  Conversation' /\ (HasError(toCli') => Reason')
  <2>1. srv' = [srv EXCEPT !.at = "down"]
    BY <1>r DEF Rejects
  <2>2. srv'.at = "down" /\ Reason'
    BY <2>1, <1>b, <1>r
  <2> QED
    BY <2>2, GoneQuietNext
<1>6. CASE SrvSsl
  <2>1. srv.at = "fresh" /\ Asked.t = "SSLRequest"
    BY <1>6 DEF SrvSsl, Takes
  <2>2. hs.at = "ssl" /\ hs.mech = "trust" /\ ~hs.tls
    BY <2>1, <1>4, <1>1, Asking DEF Conversation, M
  <2>3. CASE srv.ssl = "E"
    <3>1. Say(<<M("E")>>) /\ srv' = [srv EXCEPT !.at = "down"]
      BY <1>6, <2>3 DEF SrvSsl, Becomes
    <3>2. M("E") \in ServerMsgs
      BY ServerSays
    <3>3. toCli' = <<M("E")>>
      BY <3>1, <3>2, <1>o, <1>s
    <3>4. ~HasError(toCli')
      BY <3>3 DEF HasError, M
    <3> QED
      BY <3>1, <3>4, <1>b, GoneQuietNext
  <2>4. CASE srv.ssl # "E"
    <3>1. Say(<<M(srv.ssl)>>) /\ srv' = [srv EXCEPT !.at = IF srv.ssl = "S" THEN "secure" ELSE "plain"]
      BY <1>6, <2>4 DEF SrvSsl
    <3>2. M(srv.ssl) \in ServerMsgs
      BY <1>2, ServerSays
    <3>3. toCli' = <<M(srv.ssl)>>
      BY <3>1, <3>2, <1>o, <1>s
    <3>4. CASE srv.ssl = "S"
      <4>1. srv'.at = "secure" /\ toCli' = <<M("S")>>
        BY <3>1, <3>3, <3>4, <1>b
      <4>2. Conversation'
        BY <4>1, <2>2, <1>5, <1>h DEF Conversation
      <4> QED
        BY <4>1, <4>2, <1>n
    <3>5. CASE srv.ssl = "N"
      <4>1. srv'.at = "plain" /\ toCli' = <<M("N")>>
        BY <3>1, <3>3, <3>5, <1>b
      <4>2. Conversation'
        BY <4>1, <2>2, <1>5, <1>h DEF Conversation
      <4> QED
        BY <4>1, <4>2, <1>n
    <3> QED
      BY <1>2, <2>4, <3>4, <3>5
  <2> QED
    BY <2>3, <2>4
<1>7. CASE SrvStartup
  <2>1. PICK at \in {"fresh", "plain", "secure"} :
          /\ srv.at = at /\ Asked.t = "Startup"
          /\ CASE srv.auth = "trust"  -> Say(Welcome) /\ Becomes("ready")
               [] srv.auth = "reject" -> Rejects
               [] srv.auth = "sasl"   -> /\ Say(<<[t |-> "sasl", offered |-> Offered(at = "secure")]>>)
                                         /\ Becomes("sasl")
               [] OTHER               -> Say(<<M("Notice"), M(srv.auth)>>) /\ Becomes("password")
    BY <1>7 DEF SrvStartup, Takes
  <2>2. hs.at = "auth" /\ hs.mech = "trust" /\ hs.tls = (at = "secure")
    <3>1. hs.at = "auth"
      <4>1. srv.at \in {"fresh", "plain", "secure"} /\ Asked # M("SSLRequest")
        BY <2>1 DEF M
      <4>2. hs.at = "auth" \/ Asked = M("SSLRequest")
        BY <4>1, <1>4, <1>1, Asking
      <4> QED
        BY <4>1, <4>2
    <3>2. hs.mech = "trust" /\ hs.tls = (at = "secure")
      <4>1. hs.tls \in BOOLEAN
        BY DEF WireTyped, HandshakeStates
      <4>2. CASE at = "secure"
        BY <4>1, <4>2, <2>1, <3>1 DEF Conversation
      <4>3. CASE at \in {"fresh", "plain"}
        BY <4>1, <4>3, <2>1, <3>1 DEF Conversation
      <4> QED
        BY <4>2, <4>3
    <3> QED
      BY <3>1, <3>2
  <2>3. CASE srv.auth = "trust"
    <3>1. Say(Welcome) /\ srv' = [srv EXCEPT !.at = "ready"]
      BY <2>1, <2>3 DEF Becomes
    <3>2. srv'.at = "ready" /\ toCli' = Welcome' /\ Agreed' = "trust"
      BY <3>1, <2>3, <1>b, <1>s, <1>w DEF Agreed
    <3>3. Conversation'
      BY <3>2, <2>2, <1>5, <1>h DEF Conversation
    <3> QED
      BY <3>2, <3>3, <1>n
  <2>4. CASE srv.auth = "reject"
    BY <2>1, <2>4, <1>r DEF Reason
  <2>5. CASE srv.auth = "sasl"
    <3> DEFINE m == [t |-> "sasl", offered |-> Offered(hs.tls)]
    <3>1. Say(<<m>>) /\ srv' = [srv EXCEPT !.at = "sasl"]
      BY <2>1, <2>2, <2>5 DEF Becomes
    <3>2. hs.tls \in BOOLEAN
      BY <2>2
    <3>3. m \in ServerMsgs
      BY <3>2, <1>1, UpType
    <3>4. /\ srv'.at = "sasl" /\ srv'.auth = "sasl" /\ toCli' = <<[t |-> "sasl", offered |-> Offered(hs.tls)]>>
          /\ srv'.mechs = srv.mechs
      BY <3>1, <3>3, <2>5, <1>b, <1>s, <1>o, <1>h
    <3>6. Offered(hs.tls)' = Offered(hs.tls)
      BY <3>4, <1>h DEF Offered
    <3>7. toCli' = <<[t |-> "sasl", offered |-> Offered(hs.tls)']>>
      BY <3>4, <3>6
    <3>5. Conversation'
      BY <3>4, <3>7, <2>2, <1>5, <1>h DEF Conversation
    <3> QED
      BY <3>4, <3>5, <1>n
  <2>6. CASE srv.auth \in {"cleartext", "md5"}
    <3>1. Say(<<M("Notice"), M(srv.auth)>>) /\ srv' = [srv EXCEPT !.at = "password"]
      BY <2>1, <2>6 DEF Becomes
    <3>2. M("Notice") \in ServerMsgs /\ M(srv.auth) \in ServerMsgs
      BY <2>6, ServerSays
    <3>3. <<M("Notice"), M(srv.auth)>> \in Seq(ServerMsgs)
      BY <3>2
    <3>4. srv'.at = "password" /\ srv'.auth = srv.auth /\ toCli' = <<M("Notice"), M(srv'.auth)>>
      BY <3>1, <3>3, <1>b, <1>s
    <3>5. Conversation'
      BY <3>4, <2>2, <2>6, <1>5, <1>h DEF Conversation
    <3> QED
      BY <3>4, <3>5, <1>n
  <2> QED
    BY <1>2, <2>3, <2>4, <2>5, <2>6
<1>8. CASE SrvPassword
  <2>1. srv.at = "password" /\ IF srv.knows /\ Asked.form = srv.auth THEN Say(Welcome) /\ Becomes("ready") ELSE Rejects
    BY <1>8 DEF SrvPassword, Takes
  <2>2. hs.at = "auth" /\ Asked = [t |-> "Password", form |-> srv.auth] /\ hs.mech = srv.auth /\ srv.auth \in {"cleartext", "md5"}
    BY <2>1, <1>4, <1>1, Asking DEF Conversation
  <2>3. Asked.form = srv.auth
    BY <2>2
  <2>4. CASE srv.knows
    <3>1. Say(Welcome) /\ srv' = [srv EXCEPT !.at = "ready"]
      BY <2>1, <2>3, <2>4 DEF Becomes
    <3>2. srv'.at = "ready" /\ toCli' = Welcome' /\ Agreed' = hs'.mech
      BY <3>1, <2>2, <1>b, <1>s, <1>w, <1>h DEF Agreed
    <3>3. Conversation'
      BY <3>2, <2>2, <1>5, <1>h DEF Conversation
    <3> QED
      BY <3>2, <3>3, <1>n
  <2>5. CASE ~srv.knows
    BY <2>1, <2>2, <2>5, <1>r DEF Reason
  <2> QED
    BY <2>4, <2>5
<1>9. CASE SrvInitial
  <2>0. srv.at = "sasl"
    BY <1>9 DEF SrvInitial, Takes
  <2>2. /\ hs.at = "first" /\ Asked = [t |-> "Initial", mech |-> Agreed] /\ hs.mech = Agreed /\ srv.auth = "sasl"
        /\ Asked.mech \in srv.mechs
    BY <2>0, <1>4, <1>1, Asking DEF Conversation
  <2>1. /\ srv.at = "sasl" /\ srv' = [srv EXCEPT !.at = IF Asked.mech = "SCRAM-SHA-256" THEN "proof" ELSE "bound proof"]
        /\ \E good \in BOOLEAN : Say(<<[t |-> "Continue", good |-> good]>>)
    BY <1>9, <2>0, <2>2 DEF SrvInitial
  <2>3. PICK good \in BOOLEAN : Say(<<[t |-> "Continue", good |-> good]>>)
    BY <2>1
  <2>4. [t |-> "Continue", good |-> good] \in ServerMsgs
    BY ServerSays
  <2>5. toCli' = <<[t |-> "Continue", good |-> good]>>
    BY <2>3, <2>4, <1>o, <1>s
  <2>6. Asked.mech = Agreed
    BY <2>2
  <2>7. srv'.at = (IF Agreed = "SCRAM-SHA-256" THEN "proof" ELSE "bound proof") /\ Agreed' = Agreed /\ srv'.auth = "sasl"
    BY <2>1, <2>2, <2>6, <1>b
  <2>8. srv'.at \in {"proof", "bound proof"}
    BY <2>7
  <2>9. Conversation'
    BY <2>2, <2>5, <2>7, <2>8, <1>5, <1>h DEF Conversation
  <2> QED
    BY <2>8, <2>9, <1>n
<1>10. CASE SrvResponse
  <2> DEFINE Right == IF srv.at = "proof" THEN <<"n">> ELSE <<"p", ServerHash(srv.sig)>>
  <2>1. /\ srv.at \in {"proof", "bound proof"}
        /\ IF srv.knows /\ Asked.binding = Right THEN Say(<<M("SaslFinal")>> \o Welcome) /\ Becomes("ready") ELSE Rejects
    <3>1. CASE srv.at = "proof"
      BY <1>10, <3>1 DEF SrvResponse, Takes
    <3>2. CASE srv.at = "bound proof"
      BY <1>10, <3>2 DEF SrvResponse, Takes
    <3> QED
      BY <1>10, <3>1, <3>2 DEF SrvResponse, Takes
  <2>2. hs.at = "final" /\ Asked = [t |-> "Response", binding |-> Binding(hs.mech, srv.sig)]
    BY <2>1, <1>4, <1>1, Asking
  <2>3. /\ srv.auth = "sasl" /\ hs.mech = Agreed
        /\ srv.at = IF Agreed = "SCRAM-SHA-256" THEN "proof" ELSE "bound proof"
    BY <2>1 DEF Conversation
  <2>4. Asked.binding = Binding(hs.mech, srv.sig)
    BY <2>2
  <2>5. Binding(hs.mech, srv.sig) # Right => hs.tls /\ "SCRAM-SHA-256-PLUS" \in srv.mechs /\ srv.sig = "sha224"
    <3>1. CASE srv.at = "proof"
      BY <3>1, <2>3 DEF Agreed, Binding
    <3>2. CASE srv.at = "bound proof"
      <4>1. hs.tls /\ hs.mech = "SCRAM-SHA-256-PLUS" /\ "SCRAM-SHA-256-PLUS" \in srv.mechs
        BY <3>2, <2>3 DEF Agreed
      <4>2. srv.sig # "sha224" => CertHash(srv.sig) = ServerHash(srv.sig)
        BY <1>2 DEF CertHash, ServerHash, Sigs
      <4> QED
        BY <3>2, <4>1, <4>2 DEF Binding
    <3> QED
      BY <2>1, <3>1, <3>2
  <2> HIDE DEF Right
  <2>6. CASE srv.knows /\ Asked.binding = Right
    <3>1. Say(<<M("SaslFinal")>> \o Welcome) /\ srv' = [srv EXCEPT !.at = "ready"]
      BY <2>1, <2>6 DEF Becomes
    <3>2. srv'.at = "ready" /\ toCli' = <<M("SaslFinal")>> \o Welcome' /\ Agreed' = hs'.mech
      BY <3>1, <2>3, <1>b, <1>s, <1>w, <1>h
    <3>3. Conversation'
      BY <3>2, <2>2, <1>5, <1>h DEF Conversation
    <3> QED
      BY <3>2, <3>3, <1>n
  <2>7. CASE ~(srv.knows /\ Asked.binding = Right)
    BY <2>1, <2>3, <2>4, <2>5, <2>7, <1>r DEF Reason
  <2> QED
    BY <2>6, <2>7
<1> QED
  BY <1>6, <1>7, <1>8, <1>9, <1>10
-----------------------------------------------------------------------------
(* Every step keeps the handshake.                                         *)

ClientReads ==
  \/ DialRefused \/ ReadSslAnswer \/ ReadPasswordRequest \/ ReadSasl \/ ReadServerFirst
  \/ ReadScramOk \/ ReadKey \/ ReadStartupReady \/ ReadStartupError \/ ReadIgnored \/ ReadEnd

ServerActs == SrvSsl \/ SrvStartup \/ SrvPassword \/ SrvInitial \/ SrvResponse \/ SrvGone

\* A step of the listener on a connection that is ready.
OnReady == hs.at = "ready" /\ UNCHANGED <<mode, srv, hs, dials>>

\* A connection is dropped.
Dropping == hs' \in {Closed, [Closed EXCEPT !.at = "ready"]} /\ srv' = Down /\ UNCHANGED <<mode, dials>>

LEMMA WireSteps ==
  ASSUME Typed, Quiet, [Next]_vars
  PROVE  \/ UNCHANGED <<mode, handshakeVars>>
         \/ \E s \in Servers : Dial(s)
         \/ ClientReads \/ Dropping \/ ServerActs \/ OnReady
<1>0. CASE UNCHANGED vars
  BY <1>0 DEF vars
<1>1. CASE Connecting
  BY <1>1, ListenerAssumption DEF Connecting, Connect, ClientReads
<1>2. CASE Connected \/ Redial \/ Recv \/ AwaitFails \/ Reconnected
  BY <1>2 DEF Connected, Redial, Recv, AwaitFails, Reconnected
<1>3. CASE ConnectFailed
  BY <1>3 DEF ConnectFailed, DropAttempt, Dropping
<1>4. CASE Call \/ Relisten
  BY <1>4 DEF Call, Relisten, Query, OnReady, Quiet
<1>5. CASE ReadCall \/ CallReturns \/ RelistenReturns
  BY <1>5 DEF ReadCall, CallReturns, RelistenReturns, ReadSocket, OnReady, Quiet, Awaits
<1>6. CASE RecvNote \/ RecvOther
  BY <1>6 DEF RecvNote, RecvOther, ReadSocket, OnReady, Quiet
<1>7. CASE GiveUp \/ RecvEnd
  BY <1>7 DEF GiveUp, RecvEnd, Dropping
<1>8. CASE Cancel
  BY <1>8 DEF Cancel, Dropping
<1>9. CASE ServerStep \/ Loss
  BY <1>9 DEF ServerStep, Loss, ServerActs
<1>10. CASE Execute
  <2>1. toSrv # <<>> /\ Asked.t = "Query" /\ UNCHANGED <<mode, srv, hs, dials>>
    BY <1>10 DEF Execute, Takes
  <2>2. toSrv \in Seq(ClientMsgs)
    BY DEF Typed, WireTyped
  <2>3. 1 \in DOMAIN toSrv /\ Asked = toSrv[1]
    BY <2>1, <2>2, FirstOf DEF Asked
  <2> QED
    BY <2>1, <2>3 DEF Quiet, OnReady
<1>11. CASE Publish
  <2>1. CASE hs.at = "ready"
    BY <1>11, <2>1 DEF Publish, OnReady
  <2>2. CASE hs.at # "ready"
    <3>1. subs = {}
      BY <2>2 DEF Quiet
    <3> QED
      BY <1>11, <3>1 DEF Publish, handshakeVars
  <2> QED
    BY <2>1, <2>2
<1> QED
  BY <1>0, <1>1, <1>2, <1>3, <1>4, <1>5, <1>6, <1>7, <1>8, <1>9, <1>10, <1>11 DEF Next, Work, Others

LEMMA TalkStep ==
  ASSUME Typed, Typed', Handshaken, [Next]_vars
  PROVE  (Talking' => Conversation') /\ Required' /\ Excuse' /\ ReadyAsAgreed'
<1>w. WireTyped /\ WireTyped' /\ hs \in HandshakeStates
  BY DEF Typed, WireTyped
<1>h. (Talking => Conversation) /\ Required /\ Excuse /\ Quiet /\ ReadyAsAgreed
  BY DEF Handshaken
<1>1. CASE UNCHANGED <<mode, handshakeVars>>
  <2>1. mode' = mode /\ srv' = srv /\ hs' = hs /\ toSrv' = toSrv /\ toCli' = toCli
    BY <1>1 DEF handshakeVars
  <2>2. Talking' = Talking /\ Agreed' = Agreed /\ Welcome' = Welcome /\ Key' = Key /\ Offered(hs.tls)' = Offered(hs.tls)
    BY <2>1 DEF Talking, Agreed, Welcome, Key, Offered
  <2>3. Conversation => Conversation'
    BY <2>1, <2>2 DEF Conversation
  <2>4. Required'
    BY <2>1, <1>h DEF Required
  <2>5. Excuse'
    BY <2>1, <2>2, <1>h DEF Excuse, Reason
  <2>6. ReadyAsAgreed'
    BY <2>1, <1>h DEF ReadyAsAgreed
  <2> QED
    BY <1>h, <2>2, <2>3, <2>4, <2>5, <2>6
<1>2. ASSUME NEW s \in Servers, Dial(s)
      PROVE  (Talking' => Conversation') /\ Required' /\ Excuse' /\ ReadyAsAgreed'
  <2>1. Conversation' /\ Required'
    BY <1>2, <1>w, DialKeeps
  <2>2. hs'.at \in {"auth", "ssl"} /\ toCli' = <<>>
    BY <1>2 DEF Dial, Closed
  <2>3. ~HasError(toCli')
    BY <2>2 DEF HasError
  <2> QED
    BY <2>1, <2>2, <2>3 DEF Excuse, ReadyAsAgreed
<1>3. CASE ClientReads
  <2>1. (Talking' => Conversation') /\ Required'
    BY <1>3, <1>w, <1>h, ReadKeeps DEF ClientReads
  <2>2. CASE DialRefused
    <3>1. hs'.at = "failed" /\ hs'.err = "Io"
      BY <2>2 DEF DialRefused, Closed
    <3> QED
      BY <2>1, <3>1 DEF Excuse, ReadyAsAgreed, Talking
  <2>3. CASE ~DialRefused
    <3>1. srv' = srv /\ mode' = mode /\ Talking
      BY <1>3, <2>3 DEF ClientReads, ReadSslAnswer, ReadPasswordRequest, ReadSasl, ReadServerFirst, ReadScramOk, ReadKey, ReadStartupReady,
         ReadStartupError, ReadIgnored, ReadEnd, Reads, Talking
    <3>2. CASE ReadEnd
      <4>1. hs'.at = "failed" /\ hs'.err \in {"Io", "ConnectionClosed"}
        BY <3>2, <1>w DEF ReadEnd, Fails, HandshakeStates
      <4> QED
        BY <2>1, <4>1 DEF Excuse, ReadyAsAgreed, Talking
    <3>3. CASE ~ReadEnd
      <4>1. toCli # <<>> /\ toCli' = Tail(toCli)
        BY <1>3, <2>3, <3>3 DEF ClientReads, ReadSslAnswer, ReadPasswordRequest, ReadSasl, ReadServerFirst, ReadScramOk, ReadKey, ReadStartupReady,
           ReadStartupError, ReadIgnored, Reads
      <4>2. HasError(toCli') => HasError(toCli)
        <5>1. toCli \in Seq(ServerMsgs)
          BY <1>w DEF WireTyped
        <5> QED
          BY <4>1, <5>1, FirstOf DEF HasError
      <4>3. CASE ReadStartupError
        <5>1. Got.t = "Error" /\ hs'.at = "failed"
          BY <4>3, <1>w DEF ReadStartupError, Fails, HandshakeStates
        <5>2. toCli \in Seq(ServerMsgs)
          BY <1>w DEF WireTyped
        <5>3. HasError(toCli)
          BY <4>1, <5>1, <5>2, FirstOf DEF HasError, Got
        <5>4. Reason /\ srv \in Sessions
          BY <3>1, <5>3, <1>h, <1>w DEF Excuse, WireTyped
        <5>5. hs'.tls = hs.tls
          BY <4>3, <1>w DEF ReadStartupError, Fails, HandshakeStates
        <5>6. Reason'
          BY <5>4, <5>5, <3>1 DEF Reason
        <5> QED
          BY <2>1, <3>1, <5>1, <5>4, <5>6 DEF Excuse, ReadyAsAgreed, Talking
      <4>4. CASE ReadStartupReady
        <5>1. hs' = [hs EXCEPT !.at = "ready"] /\ hs.at = "auth" /\ Got.t = "Ready"
          BY <4>4 DEF ReadStartupReady, Reads
        <5>2. hs'.at = "ready" /\ hs'.tls = hs.tls /\ hs'.mech = hs.mech /\ hs'.pid = hs.pid
          BY <5>1, <1>w DEF HandshakeStates
        <5>3. ASSUME srv.at = "ready"
              PROVE  hs.pid = srv.pid /\ hs.mech = Agreed
          <6>1. Conversation
            BY <3>1, <1>h
          <6>2. hs.mech = Agreed
            BY <5>3, <6>1 DEF Conversation
          <6>3. hs.pid = srv.pid
            BY <5>1, <5>3, <6>1, <4>1, <1>w, Reading DEF M, Key
          <6> QED
            BY <6>2, <6>3
        <5>4. mode = "Require" => hs.tls
          BY <5>1, <1>h DEF Required
        <5> QED
          BY <2>1, <3>1, <5>2, <5>3, <5>4 DEF Excuse, ReadyAsAgreed, Talking, Agreed
      <4>5. CASE ~ReadStartupError /\ ~ReadStartupReady
        <5>1. /\ hs'.at # "ready" /\ (hs.tls => hs'.tls)
              /\ (hs'.at = "failed" => hs'.err # "Pg")
          <6> USE <1>w DEF HandshakeStates
          <6>1. CASE ReadSslAnswer
            <7>1. \/ hs' = [hs EXCEPT !.at = "auth", !.tls = TRUE] \/ hs' = [hs EXCEPT !.at = "auth"]
                  \/ Fails("Io") \/ Fails("Protocol")
              BY <6>1 DEF ReadSslAnswer
            <7> QED
              BY <7>1 DEF Fails
          <6>2. CASE ReadPasswordRequest
            BY <6>2 DEF ReadPasswordRequest, Reads
          <6>3. CASE ReadSasl
            <7>1. (\E m : hs' = [hs EXCEPT !.mech = m, !.at = "first"]) \/ Fails("Protocol")
              BY <6>3 DEF ReadSasl
            <7> QED
              BY <7>1 DEF Fails
          <6>4. CASE ReadServerFirst
            <7>1. hs' = [hs EXCEPT !.at = "final"] \/ Fails("Protocol")
              BY <6>4 DEF ReadServerFirst
            <7> QED
              BY <7>1 DEF Fails
          <6>5. CASE ReadScramOk
            BY <6>5 DEF ReadScramOk
          <6>6. CASE ReadKey
            BY <6>6 DEF ReadKey, Reads
          <6>7. CASE ReadIgnored
            BY <6>7, <3>1 DEF ReadIgnored, Talking
          <6> QED
            BY <1>3, <2>3, <3>3, <4>5, <6>1, <6>2, <6>3, <6>4, <6>5, <6>6, <6>7 DEF ClientReads
        <5>2. Talking /\ HasError(toCli') => Reason'
          BY <4>2, <3>1, <5>1, <1>h DEF Excuse, Reason
        <5> QED
          BY <2>1, <3>1, <5>1, <5>2 DEF Excuse, ReadyAsAgreed
      <4> QED
        BY <4>3, <4>4, <4>5
    <3> QED
      BY <3>2, <3>3
  <2> QED
    BY <2>2, <2>3
<1>4. CASE Dropping
  <2>1. hs'.at \in {"closed", "ready"} /\ srv'.at = "down"
    <3>1. Closed.at = "closed" /\ [Closed EXCEPT !.at = "ready"].at = "ready" /\ Down.at = "down"
      BY DEF Closed, Down
    <3> QED
      BY <1>4, <3>1 DEF Dropping
  <2> QED
    BY <2>1 DEF Talking, Required, Excuse, ReadyAsAgreed
<1>5. CASE ServerActs
  <2>1. srv.at # "down" /\ hs' = hs /\ mode' = mode
    BY <1>5 DEF ServerActs, SrvSsl, SrvStartup, SrvPassword, SrvInitial, SrvResponse, SrvGone, Takes
  <2>2. Talking' = Talking /\ Required'
    BY <2>1, <1>h DEF Talking, Required
  <2>3. CASE Talking
    <3>1. Conversation' /\ (HasError(toCli') => Reason')
      BY <1>5, <2>3, <1>w, <1>h, ServerKeeps DEF ServerActs
    <3>2. hs.at # "failed" /\ hs.at # "ready"
      BY <2>3 DEF Talking
    <3> QED
      BY <2>1, <2>2, <3>1, <3>2 DEF Excuse, ReadyAsAgreed
  <2>4. CASE hs.at = "ready"
    <3>1. srv.at = "ready"
      BY <2>1, <2>4, <1>h DEF Quiet
    <3>2. SrvGone
      BY <1>5, <3>1 DEF ServerActs, SrvSsl, SrvStartup, SrvPassword, SrvInitial, SrvResponse, Takes
    <3>3. srv'.at = "down"
      <4>1. srv \in Sessions
        BY <2>1, <1>w, UpType
      <4> QED
        BY <3>2, <4>1 DEF SrvGone, Becomes, Sessions
    <3>4. ~Talking'
      BY <2>1, <2>4 DEF Talking
    <3> QED
      BY <2>1, <2>2, <2>4, <3>3, <3>4 DEF Excuse, ReadyAsAgreed
  <2>5. CASE hs.at \in {"failed", "closed"}
    <3>1. \E at : srv' = [srv EXCEPT !.at = at]
      BY <1>5 DEF ServerActs, SrvSsl, SrvStartup, SrvPassword, SrvInitial, SrvResponse, SrvGone, Becomes, Rejects
    <3>2. srv \in Sessions
      BY <2>1, <1>w, UpType
    <3>3. srv'.auth = srv.auth /\ srv'.sig = srv.sig /\ srv'.knows = srv.knows /\ srv'.mechs = srv.mechs
      BY <3>1, <3>2 DEF Sessions
    <3>4. srv' \in Sessions
      <4>2. PICK at : srv' = [srv EXCEPT !.at = at]
        BY <3>1
      <4>3. srv'.pid = srv.pid /\ DOMAIN srv' = DOMAIN srv
        BY <4>2, <3>2 DEF Sessions
      <4>4. srv' # Down
        BY <4>3, <3>2 DEF Sessions, Down
      <4> QED
        BY <4>4, <1>w DEF WireTyped
    <3>5. Reason' = Reason
      BY <2>1, <3>3 DEF Reason
    <3>6. ~Talking' /\ hs.at # "ready"
      BY <2>1, <2>5 DEF Talking
    <3> QED
      BY <2>1, <2>2, <3>4, <3>5, <3>6, <1>h DEF Excuse, ReadyAsAgreed
  <2> QED
    BY <2>3, <2>4, <2>5, <1>w DEF Talking, HandshakeStates
<1>6. CASE OnReady
  <2>1. hs'.at = "ready" /\ hs' = hs /\ srv' = srv /\ mode' = mode
    BY <1>6 DEF OnReady
  <2> QED
    BY <2>1, <1>h DEF Talking, Required, Excuse, ReadyAsAgreed
<1> QED
  BY <1>1, <1>2, <1>3, <1>4, <1>5, <1>6, <1>h, WireSteps
NoQuery(s) == \A i \in DOMAIN s : s[i].t # "Query"

LEMMA NoQueryAdded ==
  ASSUME WireTyped, NoQuery(toSrv), NEW m \in ClientMsgs, m.t # "Query"
  PROVE  NoQuery(Append(toSrv, m)) /\ NoQuery(<<m>>)
<1>1. toSrv \in Seq(ClientMsgs)
  BY DEF WireTyped
<1>2. NoQuery(Append(toSrv, m))
  BY <1>1, Added DEF NoQuery
<1>3. NoQuery(<<m>>)
  BY DEF NoQuery
<1> QED
  BY <1>2, <1>3

LEMMA ConnectingQuiet ==
  ASSUME Typed, Typed', Handshaken, Connecting
  PROVE  Quiet'
<1>w. WireTyped /\ hs \in HandshakeStates
  BY DEF Typed, WireTyped
<1>h. (Talking => Conversation) /\ Quiet
  BY DEF Handshaken
<1>a. (\E s \in Servers : Dial(s)) \/ ClientReads
  BY ListenerAssumption DEF Connecting, Connect, ClientReads
<1>1. hs.at # "ready" /\ pc' = "connect" /\ subs' = subs /\ pc = "connect"
  BY <1>a DEF Connecting, listenerVars, ClientReads, Dial, DialRefused, ReadSslAnswer, ReadPasswordRequest, ReadSasl, ReadServerFirst, ReadScramOk, ReadKey,
     ReadStartupReady, ReadStartupError, ReadIgnored, ReadEnd, Reads
<1>2. subs' = {} /\ NoQuery(toSrv)
  BY <1>1, <1>h DEF Quiet, NoQuery
<1>e. NoQuery(<<>>)
  BY DEF NoQuery
<1>m. M("Startup").t # "Query" /\ M("SSLRequest").t # "Query"
  BY DEF M
<1>3. NoQuery(toSrv')
  <2>1. ASSUME NEW s \in Servers, Dial(s)
        PROVE  NoQuery(toSrv')
    <3>1. toSrv' = <<M("Startup")>> \/ toSrv' = <<M("SSLRequest")>>
      BY <2>1 DEF Dial
    <3> QED
      BY <3>1, <1>2, <1>m, <1>w, NoQueryAdded, ClientSays
  <2>2. CASE ClientReads
    <3>1. \/ toSrv' = toSrv \/ toSrv' = <<>>
          \/ \E m \in ClientMsgs : m.t # "Query" /\ toSrv' = Append(toSrv, m)
      <4>1. CASE DialRefused \/ ReadStartupReady \/ ReadStartupError \/ ReadIgnored \/ ReadEnd \/ ReadScramOk \/ ReadKey
        BY <4>1 DEF DialRefused, ReadStartupReady, ReadStartupError, ReadIgnored, ReadEnd, ReadScramOk, ReadKey, Fails
      <4>2. CASE ReadSslAnswer
        <5>1. Give(M("Startup")) \/ Fails("Io") \/ Fails("Protocol")
          BY <4>2 DEF ReadSslAnswer
        <5> QED
          BY <5>1, <1>m, ClientSays DEF Give, Fails
      <4>3. CASE ReadPasswordRequest
        <5> DEFINE m == [t |-> "Password", form |-> Got.t]
        <5>1. Give(m) /\ Got.t \in {"cleartext", "md5"} /\ m.t = "Password"
          BY <4>3 DEF ReadPasswordRequest
        <5>2. m \in ClientMsgs
          BY <5>1, ClientSays
        <5> QED
          BY <5>1, <5>2 DEF Give
      <4>4. CASE ReadSasl
        <5> DEFINE k == Mechanism(hs.tls, Got.offered)
                   m == [t |-> "Initial", mech |-> k]
        <5>1. Fails("Protocol") \/ (k # "none" /\ Give(m))
          BY <4>4 DEF ReadSasl
        <5>2. k # "none" => k \in Mechs
          BY DEF Mechanism, Mechs
        <5>3. k # "none" => m \in ClientMsgs
          BY <5>2, ClientSays
        <5>4. m.t = "Initial"
          OBVIOUS
        <5> HIDE DEF m, k
        <5> QED
          BY <5>1, <5>3, <5>4 DEF Give, Fails
      <4>5. CASE ReadServerFirst
        <5> DEFINE m == [t |-> "Response", binding |-> Binding(hs.mech, srv.sig)]
        <5>1. (Fails("Protocol") \/ Give(m)) /\ Talking
          BY <4>5 DEF ReadServerFirst, Reads, Talking
        <5>2. hs.mech \in Mechs /\ srv \in Sessions
          BY <5>1, <1>w DEF HandshakeStates, WireTyped
        <5>3. m \in ClientMsgs /\ m.t = "Response"
          BY <5>2, ClientSays
        <5> HIDE DEF m
        <5> QED
          BY <5>1, <5>3 DEF Give, Fails
      <4> QED
        BY <2>2, <4>1, <4>2, <4>3, <4>4, <4>5 DEF ClientReads
    <3> QED
      BY <3>1, <1>2, <1>e, <1>w, NoQueryAdded
  <2> QED
    BY <1>a, <2>1, <2>2
<1>4. ASSUME hs'.at = "ready"
      PROVE  srv'.at \in {"ready", "down"} /\ (srv'.at = "ready" => toSrv' = <<>> /\ toCli' = <<>>)
  <2>1. ReadStartupReady
    <3>1. ASSUME NEW s \in Servers, Dial(s)
          PROVE  FALSE
      <4>1. hs'.at \in {"auth", "ssl"}
        BY <3>1 DEF Dial, Closed
      <4> QED
        BY <4>1, <1>4
    <3>2. ASSUME NEW e, Fails(e)
          PROVE  FALSE
      BY <3>2, <1>4, <1>w DEF Fails, HandshakeStates
    <3>3. ~DialRefused
      BY <1>4 DEF DialRefused, Closed
    <3>4. ~ReadSslAnswer
      <4>1. ASSUME ReadSslAnswer PROVE FALSE
        <5>1. \/ hs' = [hs EXCEPT !.at = "auth", !.tls = TRUE] \/ hs' = [hs EXCEPT !.at = "auth"]
              \/ Fails("Io") \/ Fails("Protocol")
          BY <4>1 DEF ReadSslAnswer
        <5> QED
          BY <5>1, <3>2, <1>4, <1>w DEF HandshakeStates
      <4> QED
        BY <4>1
    <3>5. ~ReadPasswordRequest /\ ~ReadKey /\ ~ReadIgnored /\ ~ReadScramOk
      BY <1>1, <1>4, <1>w DEF ReadPasswordRequest, ReadKey, ReadIgnored, ReadScramOk, Reads, HandshakeStates
    <3>6. ~ReadSasl
      <4>1. ASSUME ReadSasl PROVE FALSE
        <5>1. (\E m : hs' = [hs EXCEPT !.mech = m, !.at = "first"]) \/ Fails("Protocol")
          BY <4>1 DEF ReadSasl
        <5> QED
          BY <5>1, <3>2, <1>4, <1>w DEF HandshakeStates
      <4> QED
        BY <4>1
    <3>7. ~ReadServerFirst
      <4>1. ASSUME ReadServerFirst PROVE FALSE
        <5>1. hs' = [hs EXCEPT !.at = "final"] \/ Fails("Protocol")
          BY <4>1 DEF ReadServerFirst
        <5> QED
          BY <5>1, <3>2, <1>4, <1>w DEF HandshakeStates
      <4> QED
        BY <4>1
    <3>8. ~ReadStartupError /\ ~ReadEnd
      BY <3>2 DEF ReadStartupError, ReadEnd
    <3> QED
      BY <1>a, <3>1, <3>3, <3>4, <3>5, <3>6, <3>7, <3>8 DEF ClientReads
  <2>2. hs.at = "auth" /\ Got.t = "Ready" /\ toCli # <<>> /\ toCli' = Tail(toCli) /\ srv' = srv /\ toSrv' = toSrv /\ Talking
    BY <2>1 DEF ReadStartupReady, Reads, Talking
  <2>3. ASSUME srv.at # "down"
        PROVE  srv.at = "ready" /\ toSrv = <<>> /\ Tail(toCli) = <<>>
    <3>1. Conversation
      BY <2>2, <1>h
    <3>2. srv.at = "password" => srv.auth \in {"cleartext", "md5"}
      BY <3>1 DEF Conversation
    <3> QED
      BY <2>2, <2>3, <3>1, <3>2, <1>w, Reading DEF M, Key
  <2> QED
    BY <2>2, <2>3
<1> QED
  BY <1>1, <1>2, <1>3, <1>4 DEF Quiet, NoQuery

LEMMA QuietStep ==
  ASSUME Typed, Typed', Handshaken, [Next]_vars
  PROVE  Quiet'
<1>w. WireTyped /\ hs \in HandshakeStates
  BY DEF Typed, WireTyped
<1>q. Quiet
  BY DEF Handshaken
<1>c. Closed.at = "closed" /\ [Closed EXCEPT !.at = "ready"].at = "ready" /\ Down.at = "down"
  BY DEF Closed, Down
<1>e. \A i \in DOMAIN <<>> : <<>>[i].t # "Query"
  OBVIOUS
<1>0. CASE UNCHANGED vars
  <2>1. hs' = hs /\ srv' = srv /\ pc' = pc /\ subs' = subs /\ toSrv' = toSrv /\ toCli' = toCli
    BY <1>0 DEF vars, handshakeVars, listenerVars
  <2> QED
    BY <2>1, <1>q DEF Quiet
<1>1. CASE Connecting
  BY <1>1, ConnectingQuiet
<1>2. CASE Connected
  <2>1. hs' = hs /\ srv' = srv /\ pc' \in {"idle", "again"} /\ subs' = {} /\ hs.at = "ready"
    BY <1>2 DEF Connected, handshakeVars
  <2> QED
    BY <2>1, <1>q DEF Quiet
<1>3. CASE ConnectFailed
  <2>1. hs'.at = "closed" /\ pc' \in {"ended", "backoff"} /\ subs' = subs /\ toSrv' = <<>> /\ hs.at = "failed"
    BY <1>3, <1>c DEF ConnectFailed, DropAttempt
  <2> QED
    BY <2>1, <1>q, <1>e DEF Quiet
<1>4. CASE Redial
  <2>1. hs' = hs /\ srv' = srv /\ pc = "backoff" /\ pc' = "connect" /\ subs' = subs /\ toSrv' = toSrv
    BY <1>4 DEF Redial, handshakeVars
  <2> QED
    BY <2>1, <1>q DEF Quiet
<1>5. CASE Recv \/ AwaitFails \/ Reconnected
  <2>1. hs' = hs /\ srv' = srv /\ pc \notin {"connect", "backoff", "ended"} /\ pc' \notin {"connect", "backoff", "ended"}
    BY <1>5 DEF Recv, AwaitFails, Reconnected, Awaits, handshakeVars
  <2> QED
    BY <2>1, <1>q DEF Quiet
<1>6. CASE Call \/ Relisten
  <2>1. hs' = hs /\ srv' = srv /\ pc \notin {"connect", "backoff", "ended"} /\ pc' \notin {"connect", "backoff", "ended"}
    BY <1>6 DEF Call, Relisten, Query
  <2> QED
    BY <2>1, <1>q DEF Quiet
<1>7. CASE ReadCall \/ CallReturns \/ RelistenReturns \/ RecvNote \/ RecvOther
  <2>1. hs' = hs /\ srv' = srv /\ pc \notin {"connect", "backoff", "ended"} /\ pc' \notin {"connect", "backoff", "ended"}
    BY <1>7 DEF ReadCall, CallReturns, RelistenReturns, RecvNote, RecvOther, Awaits, ReadSocket, listenerVars
  <2> QED
    BY <2>1, <1>q DEF Quiet
<1>8. CASE GiveUp \/ RecvEnd
  <2>1. hs'.at = "closed" /\ pc' = "backoff" /\ subs' = {} /\ toSrv' = <<>>
    BY <1>8, <1>c DEF GiveUp, RecvEnd
  <2> QED
    BY <2>1, <1>e DEF Quiet
<1>9. CASE Cancel
  <2>1. CASE pc \in {"call", "recv"}
    <3>1. hs' = hs /\ srv' = srv /\ pc' = "idle"
      BY <1>9, <2>1 DEF Cancel, handshakeVars
    <3> QED
      BY <2>1, <3>1, <1>q DEF Quiet
  <2>2. CASE pc \notin {"call", "recv"}
    <3>1. hs'.at = "ready" /\ srv'.at = "down" /\ pc' = "idle"
      BY <1>9, <2>2, <1>c DEF Cancel
    <3> QED
      BY <3>1 DEF Quiet
  <2> QED
    BY <2>1, <2>2
<1>10. CASE ServerStep \/ Loss
  <2>1. hs' = hs /\ pc' = pc /\ (subs' = subs \/ subs' = {}) /\ srv.at # "down"
    BY <1>10 DEF ServerStep, Loss, listenerVars, SrvSsl, SrvStartup, SrvPassword, SrvInitial, SrvResponse, SrvGone, Takes
  <2>2. toSrv' = toSrv \/ (toSrv # <<>> /\ toSrv' = Tail(toSrv))
    BY <1>10 DEF ServerStep, Loss, SrvSsl, SrvStartup, SrvPassword, SrvInitial, SrvResponse, SrvGone, Takes
  <2>3. NoQuery(toSrv) => NoQuery(toSrv')
    <3>1. toSrv \in Seq(ClientMsgs)
      BY <1>w DEF WireTyped
    <3> QED
      BY <2>2, <3>1, FirstOf DEF NoQuery
  <2>4. hs.at = "ready" => srv'.at = "down"
    <3> SUFFICES ASSUME hs.at = "ready" PROVE srv'.at = "down"
      OBVIOUS
    <3>1. srv.at = "ready"
      BY <2>1, <1>q DEF Quiet
    <3>2. SrvGone
      BY <1>10, <3>1 DEF ServerStep, Loss, SrvSsl, SrvStartup, SrvPassword, SrvInitial, SrvResponse, Takes
    <3>3. srv \in Sessions
      BY <2>1, <1>w, UpType
    <3> QED
      BY <3>2, <3>3 DEF SrvGone, Becomes, Sessions
  <2> QED
    BY <2>1, <2>3, <2>4, <1>q DEF Quiet, NoQuery
<1>11. CASE Execute
  <2>1. toSrv # <<>> /\ Asked.t = "Query" /\ srv' = srv /\ hs' = hs /\ pc' = pc /\ srv.at = "ready"
    BY <1>11 DEF Execute, Takes
  <2>2. toSrv \in Seq(ClientMsgs)
    BY <1>w DEF WireTyped
  <2>3. 1 \in DOMAIN toSrv /\ Asked = toSrv[1]
    BY <2>1, <2>2, FirstOf DEF Asked
  <2> QED
    BY <2>1, <2>3, <1>q DEF Quiet
<1>12. CASE Publish
  <2>1. hs' = hs /\ srv' = srv /\ pc' = pc /\ subs' = subs /\ toSrv' = toSrv /\ (subs = {} => toCli' = toCli)
    BY <1>12 DEF Publish
  <2> QED
    BY <2>1, <1>q DEF Quiet
<1> QED
  BY <1>0, <1>1, <1>2, <1>3, <1>4, <1>5, <1>6, <1>7, <1>8, <1>9, <1>10, <1>11, <1>12 DEF Next, Work, Others

LEMMA HandshakenInit ==
  ASSUME Init
  PROVE  Handshaken
<1>1. hs.at = "closed" /\ srv.at = "down" /\ pc = "connect" /\ subs = {} /\ toSrv = <<>>
  BY DEF Init, HandshakeInit, Closed, Down
<1>2. \A i \in DOMAIN <<>> : <<>>[i].t # "Query"
  OBVIOUS
<1> QED
  BY <1>1, <1>2 DEF Handshaken, Talking, Required, Excuse, Quiet, ReadyAsAgreed

\* At every moment the client (connection.rs:275-381) and the server are at the same
\* place of the same conversation, one speaks and the other listens, and what is in the
\* socket is what the place allows.
THEOREM HandshakeInvariant == Spec => [](Typed /\ Handshaken)
<1>1. Init => Typed /\ Handshaken
  BY TypedInit, HandshakenInit
<1>2. Typed /\ Handshaken /\ [Next]_vars => (Typed /\ Handshaken)'
  BY TypedStep, TalkStep, QuietStep DEF Handshaken
<1> QED
  BY <1>1, <1>2, PTL DEF Spec

\* A connection that is ready is the one the server gave, and a connection that the
\* server refused was refused for a reason (connection.rs:78-113, 275-381,
\* cert_hash.rs:22-52), whatever servers there are and however often they are met.
THEOREM HandshakesAreSound == Spec => []HandshakeSound
<1>1. Handshaken => HandshakeSound
  BY DEF Handshaken, HandshakeSound, RefusedForAReason, Excuse, Reason
<1> QED
  BY <1>1, HandshakeInvariant, PTL
-----------------------------------------------------------------------------
(* The order of the notifications.                                         *)

\* The answers of the handshake hold no notification.
LEMMA ServerAnswers ==
  ASSUME WireTyped, SrvSsl \/ SrvStartup \/ SrvPassword \/ SrvInitial \/ SrvResponse
  PROVE  \E ms \in Seq(ServerMsgs) : NoNotes(ms) /\ toCli' = toCli \o ms
<1>1. srv.at # "down"
  BY DEF SrvSsl, SrvStartup, SrvPassword, SrvInitial, SrvResponse, Takes
<1>2. /\ srv \in Sessions /\ srv.pid \in Nat /\ srv.auth \in {"trust", "cleartext", "md5", "sasl", "reject"}
      /\ srv.ssl \in {"S", "N", "E"} /\ srv.sig \in Sigs
  BY <1>1, UpType
<1>w. Welcome \in Seq(ServerMsgs) /\ <<M("SaslFinal")>> \o Welcome \in Seq(ServerMsgs)
  BY <1>2, WelcomeType
<1>v. NoNotes(Welcome)
  BY DEF NoNotes, Note, Welcome, M
<1>u. NoNotes(<<M("SaslFinal")>> \o Welcome)
  <2>1. <<M("SaslFinal")>> \in Seq(ServerMsgs)
    BY ServerSays
  <2>2. NoNotes(<<M("SaslFinal")>>)
    BY DEF NoNotes, Note, M
  <2> QED
    BY <2>1, <2>2, <1>w, <1>v, Joined DEF NoNotes
<1>o. ASSUME NEW m \in ServerMsgs, m.t # "Note"
      PROVE  <<m>> \in Seq(ServerMsgs) /\ NoNotes(<<m>>)
  BY <1>o DEF NoNotes, Note
<1>r. Rejects => \E ms \in Seq(ServerMsgs) : NoNotes(ms) /\ toCli' = toCli \o ms
  <2>1. M("Error") \in ServerMsgs /\ M("Error").t # "Note"
    BY ServerSays DEF M
  <2> QED
    BY <2>1, <1>o DEF Rejects, Say
<1>3. CASE SrvSsl
  <2>1. Say(<<M("E")>>) \/ Say(<<M(srv.ssl)>>)
    BY <1>3 DEF SrvSsl
  <2>2. M("E") \in ServerMsgs /\ M(srv.ssl) \in ServerMsgs
    BY <1>2, ServerSays
  <2>3. M("E").t # "Note" /\ M(srv.ssl).t # "Note"
    BY <1>2 DEF M
  <2> QED
    BY <2>1, <2>2, <2>3, <1>o DEF Say
<1>4. CASE SrvStartup
  <2>1. PICK at \in {"fresh", "plain", "secure"} :
          CASE srv.auth = "trust"  -> Say(Welcome) /\ Becomes("ready")
            [] srv.auth = "reject" -> Rejects
            [] srv.auth = "sasl"   -> /\ Say(<<[t |-> "sasl", offered |-> Offered(at = "secure")]>>)
                                      /\ Becomes("sasl")
            [] OTHER               -> Say(<<M("Notice"), M(srv.auth)>>) /\ Becomes("password")
    BY <1>4 DEF SrvStartup
  <2>2. CASE srv.auth = "trust"
    BY <2>1, <2>2, <1>w, <1>v DEF Say
  <2>3. CASE srv.auth = "reject"
    BY <2>1, <2>3, <1>r
  <2>4. CASE srv.auth = "sasl"
    <3> DEFINE m == [t |-> "sasl", offered |-> Offered(at = "secure")]
    <3>1. m \in ServerMsgs /\ m.t # "Note"
      BY <1>1, UpType
    <3>2. Say(<<m>>)
      BY <2>1, <2>4
    <3> HIDE DEF m
    <3> QED
      BY <3>1, <3>2, <1>o DEF Say
  <2>5. CASE srv.auth \in {"cleartext", "md5"}
    <3>1. M("Notice") \in ServerMsgs /\ M(srv.auth) \in ServerMsgs
      BY <2>5, ServerSays
    <3>2. <<M("Notice"), M(srv.auth)>> \in Seq(ServerMsgs)
      BY <3>1
    <3>3. NoNotes(<<M("Notice"), M(srv.auth)>>)
      BY <2>5 DEF NoNotes, Note, M
    <3>4. Say(<<M("Notice"), M(srv.auth)>>)
      BY <2>1, <2>5
    <3> QED
      BY <3>2, <3>3, <3>4 DEF Say
  <2> QED
    BY <1>2, <2>2, <2>3, <2>4, <2>5
<1>5. CASE SrvPassword
  <2>1. Say(Welcome) \/ Rejects
    BY <1>5 DEF SrvPassword
  <2> QED
    BY <2>1, <1>w, <1>v, <1>r DEF Say
<1>8. CASE SrvInitial /\ Asked.mech \notin srv.mechs
  <2>1. Rejects
    BY <1>8 DEF SrvInitial
  <2> QED
    BY <2>1, <1>r
<1>6. CASE SrvInitial /\ Asked.mech \in srv.mechs
  <2>1. PICK good \in BOOLEAN : Say(<<[t |-> "Continue", good |-> good]>>)
    BY <1>6 DEF SrvInitial
  <2>2. [t |-> "Continue", good |-> good] \in ServerMsgs /\ [t |-> "Continue", good |-> good].t # "Note"
    BY ServerSays
  <2> QED
    BY <2>1, <2>2, <1>o DEF Say
<1>7. CASE SrvResponse
  <2>1. Say(<<M("SaslFinal")>> \o Welcome) \/ Rejects
    BY <1>7 DEF SrvResponse
  <2> QED
    BY <2>1, <1>w, <1>u, <1>r DEF Say
<1> QED
  BY <1>3, <1>4, <1>5, <1>6, <1>7, <1>8

\* The numbers of the notifications in s.
Numbers(s) == {s[i].n : i \in {j \in DOMAIN s : Note(s[j])}}

LEMMA NumbersOf ==
  ASSUME NEW s \in Seq(ServerMsgs)
  PROVE  /\ Numbers(<<>>) = {}
         /\ \A ms \in Seq(ServerMsgs) : NoNotes(ms) => Numbers(s \o ms) = Numbers(s)
         /\ \A m \in ServerMsgs : Note(m) => Numbers(Append(s, m)) = Numbers(s) \cup {m.n}
         /\ s # <<>> => /\ Numbers(Tail(s)) \subseteq Numbers(s)
                        /\ ~Note(Head(s)) => Numbers(Tail(s)) = Numbers(s)
                        /\ Note(Head(s)) => Numbers(s) = Numbers(Tail(s)) \cup {Head(s).n}
<1>1. Numbers(<<>>) = {}
  BY DEF Numbers
<1>2. ASSUME NEW ms \in Seq(ServerMsgs), NoNotes(ms)
      PROVE  Numbers(s \o ms) = Numbers(s)
  <2> DEFINE u == s \o ms
  <2>1. \A i \in DOMAIN s : i \in DOMAIN u /\ u[i] = s[i]
    BY Joined
  <2>2. \A i \in DOMAIN u : Note(u[i]) => i \in DOMAIN s /\ u[i] = s[i]
    BY <1>2, Joined DEF NoNotes
  <2> HIDE DEF u
  <2>3. Numbers(u) = Numbers(s)
    BY <2>1, <2>2 DEF Numbers
  <2> QED
    BY <2>3 DEF u
<1>3. ASSUME NEW m \in ServerMsgs, Note(m)
      PROVE  Numbers(Append(s, m)) = Numbers(s) \cup {m.n}
  <2> DEFINE u == Append(s, m)
             k == Len(s) + 1
  <2>1. /\ \A i \in DOMAIN s : i \in DOMAIN u /\ u[i] = s[i]
        /\ k \in DOMAIN u /\ u[k] = m
        /\ \A i \in DOMAIN u : (i \in DOMAIN s /\ u[i] = s[i]) \/ u[i] = m
    BY Added
  <2> HIDE DEF u, k
  <2>2. Numbers(u) = Numbers(s) \cup {m.n}
    BY <2>1, <1>3 DEF Numbers
  <2> QED
    BY <2>2 DEF u
<1>4. ASSUME s # <<>>
      PROVE  /\ Numbers(Tail(s)) \subseteq Numbers(s)
             /\ ~Note(Head(s)) => Numbers(Tail(s)) = Numbers(s)
             /\ Note(Head(s)) => Numbers(s) = Numbers(Tail(s)) \cup {Head(s).n}
  <2> DEFINE u == Tail(s)
             k == Len(s)
  <2>1. /\ 1 \in DOMAIN s /\ Head(s) = s[1] /\ DOMAIN s = 1..k /\ k \in Nat /\ DOMAIN u = 1..(k - 1)
        /\ \A i \in DOMAIN u : i + 1 \in DOMAIN s /\ u[i] = s[i + 1]
    BY <1>4, FirstOf
  <2> HIDE DEF u, k
  <2>2. \A i \in DOMAIN s : i = 1 \/ (\E j \in DOMAIN u : s[i] = u[j])
    <3> TAKE i \in DOMAIN s
    <3>1. CASE i # 1
      <4> DEFINE j == i - 1
      <4>1. j \in DOMAIN u /\ j + 1 = i
        BY <3>1, <2>1
      <4> HIDE DEF j
      <4> QED
        BY <4>1, <2>1
    <3> QED
      BY <3>1
  <2>3. Numbers(u) \subseteq Numbers(s)
    BY <2>1 DEF Numbers
  <2>4. Numbers(s) \subseteq Numbers(u) \cup (IF Note(s[1]) THEN {s[1].n} ELSE {})
    BY <2>2 DEF Numbers
  <2>5. Note(s[1]) => s[1].n \in Numbers(s)
    BY <2>1 DEF Numbers
  <2> QED
    BY <2>1, <2>3, <2>4, <2>5 DEF u
<1> QED
  BY <1>1, <1>2, <1>3, <1>4

LEMMA TurnKeeps ==
  ASSUME Typed, Turn("sent", "lost") \/ Turn("lost", "told")
  PROVE  HandedOut' \subseteq HandedOut /\ Len(fate') = Len(fate)
<1>1. DOMAIN fate' = DOMAIN fate /\ Len(fate') = Len(fate)
  BY FateTyped DEF Fates
<1>2. \A n \in DOMAIN fate : fate'[n] = "got" => fate[n] = "got"
  BY DEF Turn
<1> QED
  BY <1>1, <1>2 DEF HandedOut

LEMMA MarkKeeps ==
  ASSUME Typed, NEW n, NEW g \in {"read", "got"}, fate' = [fate EXCEPT ![n] = g]
  PROVE  /\ Len(fate') = Len(fate) /\ DOMAIN fate' = DOMAIN fate
         /\ g = "read" => HandedOut' \subseteq HandedOut
         /\ HandedOut' \subseteq HandedOut \cup {n}
         /\ \A m \in DOMAIN fate : fate'[m] = IF m = n THEN g ELSE fate[m]
<1>1. DOMAIN fate' = DOMAIN fate /\ Len(fate') = Len(fate)
  BY FateTyped DEF Fates
<1>2. \A m \in DOMAIN fate : fate'[m] = IF m = n THEN g ELSE fate[m]
  OBVIOUS
<1> QED
  BY <1>1, <1>2 DEF HandedOut

LEMMA PublishKeeps ==
  ASSUME Typed, Publish
  PROVE  /\ HandedOut' \subseteq HandedOut /\ Len(fate') = Len(fate) + 1
         /\ DOMAIN fate' = DOMAIN fate \cup {Len(fate) + 1} /\ Len(fate) + 1 \notin DOMAIN fate
         /\ \A m \in DOMAIN fate : fate'[m] = fate[m] /\ m < Len(fate) + 1
<1>1. PICK f \in {"sent", "lost", "unheard"} : fate' = Append(fate, f)
  BY DEF Publish
<1>2. fate \in Seq(Fates) /\ f \in Fates
  BY FateTyped DEF Fates
<1>3. /\ DOMAIN fate = 1..Len(fate) /\ Len(fate) \in Nat /\ DOMAIN fate' = 1..(Len(fate) + 1)
      /\ \A m \in DOMAIN fate : fate'[m] = fate[m]
      /\ fate'[Len(fate) + 1] = f
  BY <1>1, <1>2, Added
<1>4. fate' \in Seq(Fates) /\ Len(fate') = Len(fate) + 1
  BY <1>1, <1>2, AppendProperties
<1>5. \A m \in DOMAIN fate' : m \in DOMAIN fate \/ m = Len(fate) + 1
  BY <1>3
<1>6. HandedOut' \subseteq HandedOut
  BY <1>3, <1>5 DEF HandedOut
<1> QED
  BY <1>3, <1>4, <1>6

\* What a step does to what is in the socket.
LEMMA SocketSteps ==
  ASSUME Typed, [Next]_vars
  PROVE  /\ \/ toCli' \in {toCli, <<>>}
            \/ toCli # <<>> /\ toCli' = Tail(toCli)
            \/ \E ms \in Seq(ServerMsgs) : NoNotes(ms) /\ toCli' = toCli \o ms
            \/ Publish /\ toCli' = Append(toCli, [t |-> "Note", n |-> Len(fate) + 1])
         /\ HandedOut' \subseteq HandedOut \/ RecvNote
         /\ Len(fate') = Len(fate) \/ Publish
<1>w. WireTyped
  BY DEF Typed
<1>f. fate' = fate => HandedOut' \subseteq HandedOut /\ Len(fate') = Len(fate)
  BY DEF HandedOut
<1>0. CASE UNCHANGED vars
  BY <1>0, <1>f DEF vars, handshakeVars, listenerVars
<1>1. CASE Connecting
  <2>1. (\E s \in Peers \cup Servers : Dial(s)) \/ ClientReads
    BY <1>1 DEF Connecting, Connect, ClientReads
  <2>2. toCli' \in {toCli, <<>>} \/ (toCli # <<>> /\ toCli' = Tail(toCli))
    BY <2>1 DEF Dial, ClientReads, DialRefused, ReadSslAnswer, ReadPasswordRequest, ReadSasl, ReadServerFirst, ReadScramOk, ReadKey,
       ReadStartupReady, ReadStartupError, ReadIgnored, ReadEnd, Reads
  <2> QED
    BY <1>1, <2>2, <1>f DEF Connecting, listenerVars
<1>t. Turn("sent", "lost") \/ Turn("lost", "told") => HandedOut' \subseteq HandedOut /\ Len(fate') = Len(fate)
  BY TurnKeeps
<1>e. ASSUME NEW n, NEW g \in {"read", "got"}, fate' = [fate EXCEPT ![n] = g]
      PROVE  Len(fate') = Len(fate) /\ (g = "read" => HandedOut' \subseteq HandedOut)
  BY <1>e, MarkKeeps
<1>2. CASE Connected \/ Redial \/ Recv \/ AwaitFails \/ Reconnected
  BY <1>2, <1>f, <1>t DEF Connected, Redial, Recv, AwaitFails, Reconnected, handshakeVars
<1>3. CASE ConnectFailed \/ GiveUp \/ RecvEnd \/ Call \/ Relisten
  BY <1>3, <1>f, <1>t DEF ConnectFailed, DropAttempt, GiveUp, RecvEnd, Call, Relisten, Query
<1>4. CASE ReadCall \/ CallReturns \/ RelistenReturns \/ RecvNote \/ RecvOther
  BY <1>4, <1>f, <1>e DEF ReadCall, CallReturns, RelistenReturns, RecvNote, RecvOther, ReadSocket, listenerVars
<1>5. CASE Cancel
  BY <1>5, <1>f, <1>t DEF Cancel, handshakeVars
<1>6. CASE ServerStep
  BY <1>6, <1>w, <1>f, ServerAnswers DEF ServerStep, listenerVars
<1>7. CASE Loss
  BY <1>7, <1>f, <1>t DEF Loss, SrvGone
<1>8. CASE Execute
  <2>1. Say(<<M("Complete"), M("Ready")>>) \/ Say(<<M("Error"), M("Ready")>>)
    BY <1>8 DEF Execute
  <2>2. M("Complete") \in ServerMsgs /\ M("Error") \in ServerMsgs /\ M("Ready") \in ServerMsgs
    BY ServerSays
  <2>3. <<M("Complete"), M("Ready")>> \in Seq(ServerMsgs) /\ <<M("Error"), M("Ready")>> \in Seq(ServerMsgs)
    BY <2>2
  <2>4. NoNotes(<<M("Complete"), M("Ready")>>) /\ NoNotes(<<M("Error"), M("Ready")>>)
    BY DEF NoNotes, Note, M
  <2>5. \E ms \in Seq(ServerMsgs) : NoNotes(ms) /\ toCli' = toCli \o ms
    BY <2>1, <2>3, <2>4 DEF Say
  <2> QED
    BY <1>8, <2>5, <1>f DEF Execute
<1>9. CASE Publish
  <2>1. /\ toCli' = toCli \/ toCli' = Append(toCli, [t |-> "Note", n |-> Len(fate) + 1])
        /\ HandedOut' \subseteq HandedOut
    BY <1>9, PublishKeeps DEF Publish
  <2> QED
    BY <1>9, <2>1
<1> QED
  BY <1>0, <1>1, <1>2, <1>3, <1>4, <1>5, <1>6, <1>7, <1>8, <1>9 DEF Next, Work, Others

LEMMA OrderedStep ==
  ASSUME Typed, Typed', Ordered, [Next]_vars
  PROVE  Ordered'
<1>t. /\ toCli \in Seq(ServerMsgs) /\ toCli' \in Seq(ServerMsgs) /\ HandedOut \subseteq Nat
      /\ Len(fate) \in Nat
  <2>1. toCli \in Seq(ServerMsgs) /\ toCli' \in Seq(ServerMsgs)
    BY DEF Typed, WireTyped
  <2>2. DOMAIN fate \subseteq Nat /\ Len(fate) \in Nat
    BY FateTyped
  <2> QED
    BY <2>1, <2>2 DEF HandedOut
<1>n. \A i \in DOMAIN toCli : Note(toCli[i]) => toCli[i].n \in Nat
  <2> TAKE i \in DOMAIN toCli
  <2>1. toCli[i] \in ServerMsgs
    BY <1>t, LenProperties, ElementOfSeq
  <2> QED
    BY <2>1, Types DEF Note
<1>p. CASE Publish
  <2>2. Len(fate') = Len(fate) + 1 /\ HandedOut' \subseteq HandedOut
    BY <1>p, PublishKeeps
  <2>3. \A m \in HandedOut : m <= Len(fate) /\ m \in Nat
    BY <1>t DEF Ordered
  <2>4. CASE toCli' = toCli
    <3>1. \A i \in DOMAIN toCli : Note(toCli[i]) => toCli[i].n <= Len(fate) + 1
      BY <1>t, <1>n DEF Ordered
    <3>2. \A m \in HandedOut : m <= Len(fate) + 1
      BY <2>3, <1>t
    <3> QED
      BY <2>2, <2>4, <3>1, <3>2 DEF Ordered
  <2>5. CASE toCli' = Append(toCli, [t |-> "Note", n |-> Len(fate) + 1])
    <3> DEFINE x == [t |-> "Note", n |-> Len(fate) + 1]
               k == Len(toCli)
    <3>0. Len(fate) + 1 \in Nat
      BY <1>t
    <3>1. x \in ServerMsgs /\ x.n = Len(fate) + 1
      BY <3>0, ServerSays
    <3>2. /\ DOMAIN toCli = 1..k /\ k \in Nat /\ DOMAIN toCli' = 1..(k + 1)
          /\ \A i \in 1..k : toCli'[i] = toCli[i]
          /\ toCli'[k + 1] = x
      BY <2>5, <3>1, <1>t, Added
    <3> HIDE DEF x, k
    <3>3. \A i \in 1..(k + 1) : i \in 1..k \/ i = k + 1
      BY <3>2
    <3>4. \A m \in HandedOut : m <= Len(fate) + 1 /\ m < Len(fate) + 1
      BY <2>3, <1>t
    <3>5. \A i \in 1..k : Note(toCli[i]) => toCli[i].n <= Len(fate) + 1 /\ toCli[i].n < Len(fate) + 1
      BY <1>t, <1>n, <3>2 DEF Ordered
    <3>6. \A i \in DOMAIN toCli' : Note(toCli'[i]) => toCli'[i].n <= Len(fate) + 1 /\ \A m \in HandedOut : m < toCli'[i].n
      <4> TAKE i \in DOMAIN toCli'
      <4>1. CASE i \in 1..k
        BY <4>1, <3>2, <3>5 DEF Ordered
      <4>2. CASE i = k + 1
        <5>1. toCli'[i].n = Len(fate) + 1
          BY <4>2, <3>1, <3>2
        <5>2. Len(fate) + 1 <= Len(fate) + 1
          BY <1>t
        <5> QED
          BY <5>1, <5>2, <3>4
      <4> QED
        BY <4>1, <4>2, <3>2, <3>3
    <3>7. \A i, j \in DOMAIN toCli' : i < j /\ Note(toCli'[i]) /\ Note(toCli'[j]) => toCli'[i].n < toCli'[j].n
      <4> TAKE i, j \in DOMAIN toCli'
      <4> SUFFICES ASSUME i < j, Note(toCli'[i]), Note(toCli'[j]) PROVE toCli'[i].n < toCli'[j].n
        OBVIOUS
      <4>1. i \in 1..k
        BY <3>2
      <4>2. CASE j \in 1..k
        BY <4>1, <4>2, <3>2 DEF Ordered
      <4>3. CASE j = k + 1
        BY <4>1, <4>3, <3>1, <3>2, <3>5
      <4> QED
        BY <4>2, <4>3, <3>2, <3>3
    <3> QED
      BY <2>2, <3>4, <3>6, <3>7 DEF Ordered
  <2> QED
    BY <1>p, <2>4, <2>5 DEF Publish
<1>q. CASE ~Publish
  <2>1. Len(fate') = Len(fate)
    BY <1>q, SocketSteps
  <2>2. CASE RecvNote
    <3> DEFINE k == Len(toCli)
    <3>1. /\ toCli # <<>> /\ toCli' = Tail(toCli) /\ Got.t = "Note" /\ HandedOut' \subseteq HandedOut \cup {Got.n}
      BY <2>2, MarkKeeps DEF RecvNote, ReadSocket
    <3>2. /\ 1 \in DOMAIN toCli /\ Got = toCli[1] /\ DOMAIN toCli = 1..k /\ k \in Nat /\ DOMAIN toCli' = 1..(k - 1)
          /\ \A i \in 1..(k - 1) : i + 1 \in 1..k /\ toCli'[i] = toCli[i + 1] /\ 1 < i + 1
      BY <3>1, <1>t, FirstOf DEF Got
    <3> HIDE DEF k
    <3>3. Note(toCli[1])
      BY <3>1, <3>2 DEF Note
    <3>4. \A m \in HandedOut' : m <= Len(fate)
      BY <3>1, <3>2, <3>3 DEF Ordered
    <3>5. \A i \in DOMAIN toCli' : Note(toCli'[i]) => toCli'[i].n <= Len(fate) /\ \A m \in HandedOut' : m < toCli'[i].n
      BY <3>1, <3>2, <3>3 DEF Ordered
    <3>6. \A i, j \in DOMAIN toCli' : i < j => i + 1 < j + 1
      BY <3>2
    <3>7. \A i, j \in DOMAIN toCli' : i < j /\ Note(toCli'[i]) /\ Note(toCli'[j]) => toCli'[i].n < toCli'[j].n
      BY <3>2, <3>6 DEF Ordered
    <3> QED
      BY <2>1, <3>4, <3>5, <3>7 DEF Ordered
  <2>3. CASE ~RecvNote
    <3>1. HandedOut' \subseteq HandedOut
      BY <2>3, SocketSteps
    <3>2. \/ toCli' \in {toCli, <<>>}
          \/ toCli # <<>> /\ toCli' = Tail(toCli)
          \/ \E ms \in Seq(ServerMsgs) : NoNotes(ms) /\ toCli' = toCli \o ms
      BY <1>q, SocketSteps
    <3>3. CASE toCli' = toCli
      BY <2>1, <3>1, <3>3 DEF Ordered
    <3>4. CASE toCli' = <<>>
      <4>1. DOMAIN toCli' = {}
        BY <3>4
      <4> QED
        BY <2>1, <3>1, <4>1 DEF Ordered
    <3>5. CASE toCli # <<>> /\ toCli' = Tail(toCli)
      <4> DEFINE k == Len(toCli)
      <4>1. /\ DOMAIN toCli = 1..k /\ k \in Nat /\ DOMAIN toCli' = 1..(k - 1)
            /\ \A i \in 1..(k - 1) : i + 1 \in 1..k /\ toCli'[i] = toCli[i + 1]
        BY <3>5, <1>t, FirstOf
      <4> HIDE DEF k
      <4>2. \A i, j \in DOMAIN toCli' : i < j => i + 1 < j + 1
        BY <4>1
      <4> QED
        BY <2>1, <3>1, <4>1, <4>2 DEF Ordered
    <3>6. ASSUME NEW ms \in Seq(ServerMsgs), NoNotes(ms), toCli' = toCli \o ms
          PROVE  Ordered'
      <4>1. \A i \in DOMAIN toCli' : Note(toCli'[i]) => i \in DOMAIN toCli /\ toCli'[i] = toCli[i]
        BY <3>6, <1>t, Joined DEF NoNotes
      <4> QED
        BY <2>1, <3>1, <4>1 DEF Ordered
    <3> QED
      BY <3>2, <3>3, <3>4, <3>5, <3>6
  <2> QED
    BY <2>2, <2>3
<1> QED
  BY <1>p, <1>q
\* The channels after a call that went well: what the session has after it.
LEMMA RecordedElements ==
  ASSUME Typed, Distinct(channels), pc = "call"
  PROVE  /\ Distinct(Recorded)
         /\ call.op = "listen" => Elements(Recorded) = Elements(channels) \cup {call.c}
         /\ call.op = "unlisten" => Elements(Recorded) = Elements(channels) \ {call.c}
         /\ call.op = "unlisten_all" => Elements(Recorded) = {}
<1>1. call \in Statements /\ channels \in Seq(Channels)
  BY DEF Typed, ListenerTyped, Awaits
<1>2. call.op \in {"listen", "unlisten", "unlisten_all"} /\ (call.op = "listen" => call.c \in Channels)
  BY <1>1 DEF Statements
<1>3. CASE call.op = "listen"
  <2>1. CASE call.c \in Elements(channels)
    <3>1. Recorded = channels
      BY <1>3, <2>1 DEF Recorded, Elements
    <3> QED
      BY <1>3, <2>1, <3>1
  <2>2. CASE call.c \notin Elements(channels)
    <3>1. Recorded = Append(channels, call.c)
      BY <1>3, <2>2 DEF Recorded, Elements
    <3> QED
      BY <1>1, <1>2, <1>3, <2>2, <3>1, AppendElements
  <2> QED
    BY <2>1, <2>2
<1>4. CASE call.op = "unlisten"
  <2>1. Recorded = Without(channels, call.c)
    BY <1>4 DEF Recorded
  <2> QED
    BY <1>1, <1>4, <2>1, WithoutProperties
<1>5. CASE call.op = "unlisten_all"
  <2>1. Recorded = <<>>
    BY <1>5 DEF Recorded
  <2>2. Distinct(<<>>) /\ Elements(<<>>) = {}
    BY DEF Distinct, Elements
  <2> QED
    BY <1>5, <2>1, <2>2
<1> QED
  BY <1>2, <1>3, <1>4, <1>5

LEMMA StandingStep ==
  ASSUME Typed, Quiet, Standing, [Next]_vars
  PROVE  Standing'
<1> USE DEF Standing
<1>0. CASE UNCHANGED vars
  <2>1. channels' = channels /\ pc' = pc /\ told' = told /\ srv' = srv /\ toCli' = toCli /\ subs' = subs
    BY <1>0 DEF vars, handshakeVars, listenerVars
  <2> QED
    BY <2>1
<1>1. CASE Connecting
  <2>1. channels' = channels /\ pc = "connect" /\ pc' = pc /\ told' = told
    BY <1>1 DEF Connecting, listenerVars
  <2> QED
    BY <2>1
<1>2. CASE Connected \/ ConnectFailed \/ Redial
  <2>1. channels' = channels /\ told' = told /\ (pc = "backoff" => ~told)
    BY <1>2 DEF Connected, ConnectFailed, Redial
  <2>2. \/ pc' = "connect" /\ pc = "backoff"
        \/ pc' \in {"idle", "ended"} /\ told
        \/ pc' \in {"again", "backoff"} /\ ~told
    BY <1>2 DEF Connected, ConnectFailed, Redial
  <2> QED
    BY <2>1, <2>2
<1>3. CASE Call \/ Relisten \/ Recv
  <2>1. channels' = channels /\ told' = told /\ srv' = srv /\ toCli' = toCli /\ subs' = subs
    BY <1>3 DEF Call, Relisten, Recv, Query, handshakeVars
  <2>2. (pc = "idle" /\ pc' \in {"call", "recv"}) \/ (pc = "again" /\ pc' = "again call")
    BY <1>3 DEF Call, Relisten, Recv
  <2> QED
    BY <2>1, <2>2
<1>4. CASE ReadCall \/ RecvNote \/ RecvOther
  <2>1. channels' = channels /\ told' = told /\ toCli # <<>> /\ (pc' = pc \/ (pc = "recv" /\ pc' = "idle"))
    BY <1>4 DEF ReadCall, RecvNote, RecvOther, ReadSocket, listenerVars
  <2>2. pc \in {"call", "again call", "recv"}
    BY <1>4 DEF ReadCall, RecvNote, RecvOther, Awaits
  <2> QED
    BY <2>1, <2>2
<1>5. CASE CallReturns
  <2>1. toCli # <<>> /\ pc = "call" /\ pc' = "idle" /\ told' = told /\ channels' = IF failed THEN channels ELSE Recorded
    BY <1>5 DEF CallReturns, ReadSocket
  <2>2. told /\ Distinct(channels')
    BY <2>1, RecordedElements
  <2> QED
    BY <2>1, <2>2
<1>6. CASE RelistenReturns
  <2>1. pc = "again call" /\ pc' \in {"again", "giveup"} /\ told' = told /\ channels' = channels
    BY <1>6 DEF RelistenReturns
  <2> QED
    BY <2>1
<1>7. CASE AwaitFails
  <2>1. /\ told' = told /\ channels' = channels /\ srv' = srv /\ toCli' = toCli /\ subs' = subs
        /\ (pc = "call" /\ pc' = "idle") \/ (pc = "again call" /\ pc' = "giveup")
    BY <1>7 DEF AwaitFails, Awaits, handshakeVars
  <2> QED
    BY <2>1
<1>8. CASE GiveUp \/ RecvEnd
  <2>1. pc' = "backoff" /\ channels' = channels /\ told' = IF pc = "giveup" THEN told ELSE FALSE
    BY <1>8 DEF GiveUp, RecvEnd
  <2>2. ~told'
    BY <2>1
  <2> QED
    BY <2>1, <2>2
<1>9. CASE Reconnected
  BY <1>9 DEF Reconnected
<1>10. CASE Cancel
  <2>1. pc' = "idle" /\ told' = told /\ channels' = channels
    BY <1>10 DEF Cancel
  <2>2. CASE pc \in {"call", "recv"}
    <3>1. srv' = srv /\ toCli' = toCli /\ subs' = subs
      BY <1>10, <2>2 DEF Cancel, handshakeVars
    <3> QED
      BY <2>1, <2>2, <3>1
  <2>3. CASE pc \notin {"call", "recv"}
    <3>1. srv'.at = "down" /\ toCli' = <<>> /\ subs' = {}
      <4>1. srv' = Down /\ toCli' = <<>> /\ subs' = {}
        BY <1>10, <2>3 DEF Cancel
      <4> QED
        BY <4>1 DEF Down
    <3> QED
      BY <2>1, <3>1
  <2> QED
    BY <2>2, <2>3
<1>11. CASE ServerStep \/ Loss \/ Execute
  <2>1. srv.at # "down" /\ pc' = pc /\ told' = told /\ channels' = channels
    BY <1>11 DEF ServerStep, Loss, Execute, SrvSsl, SrvStartup, SrvPassword, SrvInitial, SrvResponse, SrvGone, Takes, listenerVars
  <2> QED
    BY <2>1
<1>12. CASE Publish
  <2>1. pc' = pc /\ told' = told /\ channels' = channels /\ srv' = srv /\ subs' = subs /\ (subs = {} => toCli' = toCli)
    BY <1>12 DEF Publish
  <2> QED
    BY <2>1
<1> QED
  BY <1>0, <1>1, <1>2, <1>3, <1>4, <1>5, <1>6, <1>7, <1>8, <1>9, <1>10, <1>11, <1>12 DEF Next, Work, Others

-----------------------------------------------------------------------------
(* No silent gap: what becomes of the notifications that are not handed out. *)

InSocket == Numbers(toCli)
NoneLost == \A m \in DOMAIN fate : fate[m] # "lost"

\* What was sent and not read is in the socket.  What is lost and not told of yet comes
\* after it; and there is nothing of the kind on a connection that the caller knows of.
InTransit == InSocket = {n \in DOMAIN fate : fate[n] = "sent"}
LostLast  == told => \A m \in DOMAIN fate, n \in InSocket : fate[m] = "lost" => n < m
LostTold  == told /\ (srv.at = "ready" \/ pc \in {"connect", "ended"}) => NoneLost
Idle      == (hs.at # "ready" => InSocket = {}) /\ (subs # {} => srv.at = "ready")
Accounted == InTransit /\ LostLast /\ LostTold /\ Idle

\* The ways in which a step deals with the socket and the fates.
Untouched == InSocket' = InSocket /\ fate' = fate
MarkedAs(g) ==
  /\ fate' = [fate EXCEPT ![Got.n] = g]
  /\ Note(Got) /\ toCli # <<>> /\ toCli' = Tail(toCli)
SocketLost == toCli' = <<>> /\ Turn("sent", "lost")

LEMMA FateSteps ==
  ASSUME Typed, Quiet, Idle, [Next]_vars
  PROVE  \/ Untouched \/ (ReadCall /\ MarkedAs("read")) \/ (RecvNote /\ MarkedAs("got"))
         \/ ((GiveUp \/ Loss \/ Cancel) /\ SocketLost)
         \/ Reconnected \/ Publish
<1>w. WireTyped /\ toCli \in Seq(ServerMsgs)
  BY DEF Typed, WireTyped
<1>t. toCli # <<>> /\ toCli' = Tail(toCli) /\ ~Note(Got) => InSocket' = InSocket
  BY <1>w, NumbersOf DEF InSocket, Got
<1>n. InSocket = {} /\ (toCli' \in {toCli, <<>>} \/ (toCli # <<>> /\ toCli' = Tail(toCli))) => InSocket' = InSocket
  BY <1>w, NumbersOf DEF InSocket
<1>a. ASSUME NEW ms \in Seq(ServerMsgs), NoNotes(ms), toCli' = toCli \o ms
      PROVE  InSocket' = InSocket
  BY <1>a, <1>w, NumbersOf DEF InSocket
<1>0. CASE UNCHANGED vars
  <2>1. toCli' = toCli /\ fate' = fate
    BY <1>0 DEF vars, handshakeVars, listenerVars
  <2> QED
    BY <2>1 DEF Untouched, InSocket
<1>1. CASE Connecting
  <2>1. (\E s \in Peers \cup Servers : Dial(s)) \/ ClientReads
    BY <1>1 DEF Connecting, Connect, ClientReads
  <2>2. /\ hs.at # "ready"
        /\ toCli' \in {toCli, <<>>} \/ (toCli # <<>> /\ toCli' = Tail(toCli))
    BY <2>1 DEF Dial, ClientReads, DialRefused, ReadSslAnswer, ReadPasswordRequest, ReadSasl, ReadServerFirst, ReadScramOk, ReadKey,
       ReadStartupReady, ReadStartupError, ReadIgnored, ReadEnd, Reads
  <2>3. fate' = fate
    BY <1>1 DEF Connecting, listenerVars
  <2>4. InSocket = {}
    BY <2>2 DEF Idle
  <2> QED
    BY <2>2, <2>3, <2>4, <1>n DEF Untouched
<1>2. CASE Connected \/ Redial \/ Recv \/ AwaitFails \/ Call \/ Relisten
  <2>1. toCli' = toCli /\ fate' = fate
    BY <1>2 DEF Connected, Redial, Recv, AwaitFails, Call, Relisten, Query, handshakeVars
  <2> QED
    BY <2>1 DEF Untouched, InSocket
<1>3. CASE ConnectFailed
  <2>1. hs.at # "ready" /\ toCli' = <<>> /\ fate' = fate
    BY <1>3 DEF ConnectFailed, DropAttempt
  <2> QED
    BY <2>1, <1>n DEF Untouched, Idle
<1>4. CASE CallReturns \/ RelistenReturns \/ RecvOther
  <2>1. toCli # <<>> /\ toCli' = Tail(toCli) /\ Got.t # "Note" /\ fate' = fate
    BY <1>4 DEF CallReturns, RelistenReturns, RecvOther, ReadSocket, listenerVars
  <2> QED
    BY <2>1, <1>t DEF Untouched, Note
<1>5. CASE ReadCall
  <2>1. /\ toCli # <<>> /\ toCli' = Tail(toCli)
        /\ fate' = IF Got.t = "Note" THEN [fate EXCEPT ![Got.n] = "read"] ELSE fate
    BY <1>5 DEF ReadCall, ReadSocket
  <2>2. CASE Got.t = "Note"
    BY <2>1, <2>2, <1>5 DEF MarkedAs, Note
  <2>3. CASE Got.t # "Note"
    BY <2>1, <2>3, <1>t DEF Untouched, Note
  <2> QED
    BY <2>2, <2>3
<1>6. CASE RecvNote
  BY <1>6 DEF RecvNote, ReadSocket, MarkedAs, Note
<1>7. CASE RecvEnd
  <2>1. toCli' = toCli /\ fate' = fate
    BY <1>7 DEF RecvEnd
  <2> QED
    BY <2>1 DEF Untouched, InSocket
<1>8. CASE GiveUp
  BY <1>8 DEF GiveUp, SocketLost
<1>9. CASE Cancel
  <2>1. CASE pc \in {"call", "recv"}
    <3>1. toCli' = toCli /\ fate' = fate
      BY <1>9, <2>1 DEF Cancel, handshakeVars
    <3> QED
      BY <3>1 DEF Untouched, InSocket
  <2>2. CASE pc \notin {"call", "recv"}
    BY <1>9, <2>2 DEF Cancel, SocketLost
  <2> QED
    BY <2>1, <2>2
<1>10. CASE Loss
  <2>1. CASE toCli' = <<>>
    BY <1>10, <2>1 DEF Loss, SocketLost
  <2>2. CASE toCli' # <<>>
    <3>1. toCli' = toCli /\ fate' = fate
      BY <1>10, <2>2 DEF Loss, SrvGone
    <3> QED
      BY <3>1 DEF Untouched, InSocket
  <2> QED
    BY <2>1, <2>2
<1>11. CASE ServerStep
  <2>1. fate' = fate /\ (SrvSsl \/ SrvStartup \/ SrvPassword \/ SrvInitial \/ SrvResponse)
    BY <1>11 DEF ServerStep, listenerVars
  <2>2. \E ms \in Seq(ServerMsgs) : NoNotes(ms) /\ toCli' = toCli \o ms
    BY <2>1, <1>w, ServerAnswers
  <2> QED
    BY <2>1, <2>2, <1>a DEF Untouched
<1>12. CASE Execute
  <2>1. (Say(<<M("Complete"), M("Ready")>>) \/ Say(<<M("Error"), M("Ready")>>)) /\ fate' = fate
    BY <1>12 DEF Execute
  <2>2. M("Complete") \in ServerMsgs /\ M("Error") \in ServerMsgs /\ M("Ready") \in ServerMsgs
    BY ServerSays
  <2>3. <<M("Complete"), M("Ready")>> \in Seq(ServerMsgs) /\ <<M("Error"), M("Ready")>> \in Seq(ServerMsgs)
    BY <2>2
  <2>4. NoNotes(<<M("Complete"), M("Ready")>>) /\ NoNotes(<<M("Error"), M("Ready")>>)
    BY DEF NoNotes, Note, M
  <2> QED
    BY <2>1, <2>3, <2>4, <1>a DEF Say, Untouched
<1> QED
  BY <1>0, <1>1, <1>2, <1>3, <1>4, <1>5, <1>6, <1>7, <1>8, <1>9, <1>10, <1>11, <1>12 DEF Next, Work, Others

\* The three ways in which the fates of many change, and that of one.
LEMMA MarkedOne ==
  ASSUME Typed, Ordered, InTransit, NEW g \in {"read", "got"}, MarkedAs(g)
  PROVE  /\ InTransit' /\ InSocket' \subseteq InSocket /\ DOMAIN fate' = DOMAIN fate
         /\ \A m \in DOMAIN fate : fate'[m] = "lost" => fate[m] = "lost"
<1>1. /\ toCli \in Seq(ServerMsgs) /\ toCli # <<>> /\ toCli' = Tail(toCli) /\ Note(Got) /\ fate' = [fate EXCEPT ![Got.n] = g]
  BY DEF Typed, WireTyped, MarkedAs
<1>2. InSocket' \subseteq InSocket /\ InSocket = InSocket' \cup {Got.n}
  BY <1>1, NumbersOf DEF InSocket, Got
<1>3. /\ DOMAIN fate' = DOMAIN fate
      /\ \A m \in DOMAIN fate : fate'[m] = IF m = Got.n THEN g ELSE fate[m]
  BY <1>1, MarkKeeps
<1>4. Got.n \notin InSocket'
  <2> DEFINE k == Len(toCli)
  <2>1. /\ 1 \in DOMAIN toCli /\ Got = toCli[1] /\ DOMAIN toCli = 1..k /\ k \in Nat /\ DOMAIN toCli' = 1..(k - 1)
        /\ \A i \in DOMAIN toCli' : i + 1 \in DOMAIN toCli /\ toCli'[i] = toCli[i + 1] /\ 1 < i + 1
    BY <1>1, FirstOf DEF Got
  <2> HIDE DEF k
  <2>2. \A i \in DOMAIN toCli' : Note(toCli'[i]) => Got.n < toCli'[i].n
    BY <2>1, <1>1 DEF Ordered
  <2>3. Got \in ServerMsgs
    BY <2>1, <1>1, ElementOfSeq
  <2>4. Got.n \in Nat
    BY <2>3, <1>1, Types DEF Note
  <2>5. \A x : Got.n < x => x # Got.n
    BY <2>4
  <2> QED
    BY <2>2, <2>5 DEF InSocket, Numbers
<1>5. \A m \in DOMAIN fate : fate'[m] = "sent" <=> m \in InSocket'
  <2> TAKE m \in DOMAIN fate
  <2>1. m \in InSocket <=> fate[m] = "sent"
    BY DEF InTransit
  <2>2. CASE m = Got.n
    BY <2>2, <1>3, <1>4
  <2>3. CASE m # Got.n
    BY <2>1, <2>3, <1>2, <1>3
  <2> QED
    BY <2>2, <2>3
<1>6. InSocket' \subseteq DOMAIN fate
  BY <1>2 DEF InTransit
<1> QED
  BY <1>2, <1>3, <1>5, <1>6 DEF InTransit

LEMMA AllLost ==
  ASSUME Typed, SocketLost
  PROVE  InTransit' /\ InSocket' = {} /\ DOMAIN fate' = DOMAIN fate
         /\ (InTransit /\ InSocket = {} => fate' = fate)
<1>1. InSocket' = {}
  <2>1. Numbers(<<>>) = {}
    BY DEF Numbers
  <2> QED
    BY <2>1 DEF InSocket, SocketLost
<1>2. DOMAIN fate' = DOMAIN fate /\ \A m \in DOMAIN fate : fate'[m] = IF fate[m] = "sent" THEN "lost" ELSE fate[m]
  BY DEF SocketLost, Turn
<1>3. ASSUME InTransit, InSocket = {}
      PROVE  fate' = fate
  <2>1. \A m \in DOMAIN fate : fate[m] # "sent"
    BY <1>3 DEF InTransit
  <2>2. fate = [m \in DOMAIN fate |-> fate[m]] /\ fate' = [m \in DOMAIN fate |-> IF fate[m] = "sent" THEN "lost" ELSE fate[m]]
    <3>1. fate \in Seq(Fates) /\ DOMAIN fate = 1..Len(fate) /\ Len(fate) \in Nat
      BY FateTyped
    <3>2. fate \in [1..Len(fate) -> Fates]
      BY <3>1, LenProperties
    <3> QED
      BY <3>1, <3>2 DEF SocketLost, Turn
  <2> QED
    BY <2>1, <2>2
<1> QED
  BY <1>1, <1>2, <1>3 DEF InTransit

LEMMA AllTold ==
  ASSUME Reconnected
  PROVE  /\ InSocket' = InSocket /\ (InTransit => InTransit') /\ NoneLost'
         /\ DOMAIN fate' = DOMAIN fate
<1>1. toCli' = toCli /\ Turn("lost", "told")
  BY DEF Reconnected, handshakeVars
<1>2. DOMAIN fate' = DOMAIN fate /\ \A m \in DOMAIN fate : fate'[m] = IF fate[m] = "lost" THEN "told" ELSE fate[m]
  BY <1>1 DEF Turn
<1>3. InSocket' = InSocket
  BY <1>1 DEF InSocket
<1> QED
  BY <1>2, <1>3 DEF InTransit, NoneLost

\* A notification that is published is sent, and then nothing is lost that was not told
\* of, or is not sent, and then it is the last.
LEMMA Published ==
  ASSUME Typed, Quiet, Standing, Accounted, Publish
  PROVE  Accounted'
<1> DEFINE k == Len(fate) + 1
<1>1. PICK c \in Channels :
        \/ /\ c \in subs
           /\ toCli' = Append(toCli, [t |-> "Note", n |-> k]) /\ fate' = Append(fate, "sent")
        \/ /\ c \notin subs /\ toCli' = toCli
           /\ fate' = Append(fate, IF (\E i \in DOMAIN channels : channels[i] = c) /\ (srv.at # "ready" \/ ~told)
                                   THEN "lost" ELSE "unheard")
  BY DEF Publish
<1>2. /\ fate \in Seq(Fates) /\ Len(fate) \in Nat /\ DOMAIN fate = 1..Len(fate) /\ toCli \in Seq(ServerMsgs)
  BY FateTyped DEF Typed, WireTyped
<1>3. /\ DOMAIN fate' = DOMAIN fate \cup {k} /\ k \notin DOMAIN fate /\ k \in Nat
      /\ \A m \in DOMAIN fate : fate'[m] = fate[m] /\ m < k
  BY <1>2, PublishKeeps
<1>4. \A f \in Fates : fate' = Append(fate, f) => fate'[k] = f
  BY <1>2, Added
<1>5. /\ pc' = pc /\ told' = told /\ srv' = srv /\ hs' = hs /\ subs' = subs /\ pc # "ended"
  BY DEF Publish
<1> HIDE DEF k
<1>6. CASE c \in subs /\ toCli' = Append(toCli, [t |-> "Note", n |-> k]) /\ fate' = Append(fate, "sent")
  <2>1. fate'[k] = "sent"
    BY <1>4, <1>6 DEF Fates
  <2>2. InSocket' = InSocket \cup {k}
    <3>1. [t |-> "Note", n |-> k] \in ServerMsgs /\ Note([t |-> "Note", n |-> k]) /\ [t |-> "Note", n |-> k].n = k
      BY <1>3, ServerSays DEF Note
    <3> QED
      BY <3>1, <1>2, <1>6, NumbersOf DEF InSocket
  <2>3. srv.at = "ready" /\ hs.at = "ready"
    BY <1>6 DEF Accounted, Idle, Quiet
  <2>4. told => NoneLost'
    BY <2>1, <2>3, <1>3 DEF Accounted, LostTold, NoneLost
  <2>5. InTransit'
    BY <2>1, <2>2, <1>3 DEF Accounted, InTransit
  <2> QED
    BY <2>3, <2>4, <2>5, <1>5 DEF Accounted, LostLast, LostTold, Idle, NoneLost
<1>7. CASE /\ c \notin subs /\ toCli' = toCli
           /\ fate' = Append(fate, IF (\E i \in DOMAIN channels : channels[i] = c) /\ (srv.at # "ready" \/ ~told)
                                   THEN "lost" ELSE "unheard")
  <2>1. InSocket' = InSocket
    BY <1>7 DEF InSocket
  <2>2. /\ fate'[k] \in {"lost", "unheard"}
        /\ fate'[k] = "lost" => channels # <<>> /\ (srv.at # "ready" \/ ~told)
    <3>1. CASE (\E i \in DOMAIN channels : channels[i] = c) /\ (srv.at # "ready" \/ ~told)
      <4>1. fate'[k] = "lost" /\ channels # <<>>
        <5>1. fate'[k] = "lost"
          BY <3>1, <1>4, <1>7 DEF Fates
        <5>2. DOMAIN <<>> = {}
          OBVIOUS
        <5> QED
          BY <5>1, <5>2, <3>1
      <4> QED
        BY <4>1, <3>1
    <3>2. CASE ~((\E i \in DOMAIN channels : channels[i] = c) /\ (srv.at # "ready" \/ ~told))
      <4>1. fate'[k] = "unheard"
        BY <3>2, <1>4, <1>7 DEF Fates
      <4> QED
        BY <4>1
    <3> QED
      BY <3>1, <3>2
  <2>3. InTransit' /\ \A n \in InSocket : n < k
    BY <2>1, <2>2, <1>3 DEF Accounted, InTransit
  <2>4. LostLast'
    <3>1. \A m \in DOMAIN fate', n \in InSocket : told /\ fate'[m] = "lost" => n < m
      <4> TAKE m \in DOMAIN fate', n \in InSocket
      <4>1. CASE m \in DOMAIN fate
        BY <4>1, <1>3 DEF Accounted, LostLast
      <4>2. CASE m = k
        BY <4>2, <2>3
      <4> QED
        BY <4>1, <4>2, <1>3
    <3> QED
      BY <3>1, <2>1, <1>5 DEF LostLast
  <2>5. told /\ (srv.at = "ready" \/ pc \in {"connect", "ended"}) => NoneLost'
    <3> SUFFICES ASSUME told, srv.at = "ready" \/ pc = "connect" PROVE NoneLost'
      BY <1>5
    <3>1. fate'[k] # "lost"
      BY <2>2 DEF Standing
    <3>2. NoneLost
      BY DEF Accounted, LostTold
    <3> QED
      BY <3>1, <3>2, <1>3 DEF NoneLost
  <2> QED
    BY <2>1, <2>3, <2>4, <2>5, <1>5 DEF Accounted, LostTold, Idle
<1> QED
  BY <1>1, <1>6, <1>7

LEMMA GoneAccounted ==
  ASSUME Typed, Quiet, Standing, Accounted, GiveUp \/ Loss \/ Cancel, SocketLost
  PROVE  Accounted'
<1>1. InTransit' /\ InSocket' = {} /\ (InSocket = {} => fate' = fate)
  BY AllLost DEF Accounted
<1>d. Closed.at = "closed"
  BY DEF Closed
<1>2. CASE GiveUp
  <2>1. ~told' /\ subs' = {}
    BY <1>2 DEF GiveUp, Standing
  <2> QED
    BY <2>1, <1>1 DEF Accounted, LostLast, LostTold, Idle
<1>3. CASE Loss
  <2>1. srv'.at = "down" /\ subs' = {} /\ pc' = pc /\ told' = told /\ srv.at # "down"
    <3>1. srv \in Sessions
      BY <1>3, UpType DEF Loss, SrvGone, Typed
    <3> QED
      BY <1>3, <3>1 DEF Loss, SrvGone, Becomes, Sessions
  <2>2. CASE pc \in {"connect", "ended"}
    <3>1. InSocket = {}
      <4>1. CASE hs.at = "ready"
        <5>1. toCli = <<>>
          BY <2>1, <2>2, <4>1, <1>d DEF Quiet
        <5>2. Numbers(<<>>) = {}
          BY DEF Numbers
        <5> QED
          BY <5>1, <5>2 DEF InSocket
      <4>2. CASE hs.at # "ready"
        BY <4>2 DEF Accounted, Idle
      <4> QED
        BY <4>1, <4>2
    <3>2. told => NoneLost'
      BY <3>1, <2>2, <1>1 DEF Accounted, LostTold, NoneLost
    <3> QED
      BY <2>1, <3>2, <1>1 DEF Accounted, LostLast, LostTold, Idle
  <2>3. CASE pc \notin {"connect", "ended"}
    BY <2>1, <2>3, <1>1 DEF Accounted, LostLast, LostTold, Idle
  <2> QED
    BY <2>2, <2>3
<1>4. CASE Cancel
  <2>1. pc' = "idle" /\ told' = told
    BY <1>4 DEF Cancel
  <2>2. CASE pc \in {"call", "recv"}
    <3>1. toCli' = toCli /\ toCli' = <<>> /\ srv' = srv /\ subs' = subs
      BY <1>4, <2>2 DEF Cancel, SocketLost, handshakeVars
    <3>2. InSocket = {}
      <4>1. Numbers(<<>>) = {}
        BY DEF Numbers
      <4> QED
        BY <3>1, <4>1 DEF InSocket
    <3>3. NoneLost => NoneLost'
      BY <3>2, <1>1 DEF NoneLost
    <3> QED
      BY <2>1, <3>1, <3>3, <1>1 DEF Accounted, LostLast, LostTold, Idle
  <2>3. CASE pc \notin {"call", "recv"}
    <3>1. srv'.at = "down" /\ subs' = {}
      <4>1. srv' = Down /\ subs' = {}
        BY <1>4, <2>3 DEF Cancel
      <4> QED
        BY <4>1 DEF Down
    <3> QED
      BY <2>1, <3>1, <1>1 DEF Accounted, LostLast, LostTold, Idle
  <2> QED
    BY <2>2, <2>3
<1> QED
  BY <1>2, <1>3, <1>4

\* Who knows of the connection that is up knew of it before, unless it was told now.
LEMMA ReadyServer ==
  ASSUME Typed, Quiet, Standing, Idle, [Next]_vars
  PROVE  /\ subs' # {} => srv'.at = "ready"
         /\ hs'.at # "ready" => hs.at # "ready" \/ toCli' = <<>>
         /\ told' /\ (srv'.at = "ready" \/ pc' \in {"connect", "ended"}) =>
              \/ Reconnected
              \/ told /\ (srv.at = "ready" \/ pc \in {"connect", "ended"})
<1>w. WireTyped
  BY DEF Typed
<1>d. Down.at = "down" /\ Closed.at = "closed"
  BY DEF Down, Closed
<1>i. subs # {} => srv.at = "ready"
  BY DEF Idle
<1>0. CASE UNCHANGED vars
  <2>1. UNCHANGED <<subs, srv, hs, toCli, told, pc>>
    BY <1>0 DEF vars, handshakeVars, listenerVars
  <2> QED
    BY <2>1, <1>i
<1>1. CASE Connecting
  <2>1. (\E s \in Peers \cup Servers : Dial(s)) \/ ClientReads
    BY <1>1 DEF Connecting, Connect, ClientReads
  <2>2. hs.at # "ready"
    BY <2>1 DEF Dial, ClientReads, DialRefused, ReadSslAnswer, ReadPasswordRequest, ReadSasl, ReadServerFirst, ReadScramOk, ReadKey,
       ReadStartupReady, ReadStartupError, ReadIgnored, ReadEnd, Reads
  <2>3. subs' = subs /\ told' = told /\ pc' = pc /\ pc = "connect"
    BY <1>1 DEF Connecting, listenerVars
  <2>4. subs = {}
    BY <2>2 DEF Quiet
  <2> QED
    BY <2>2, <2>3, <2>4
<1>2. CASE Connected \/ Redial \/ Recv \/ AwaitFails \/ Call \/ Relisten \/ ReadCall \/ CallReturns \/ RelistenReturns \/ RecvNote \/ RecvOther
  <2>1. hs' = hs /\ srv' = srv /\ told' = told /\ (subs' = subs \/ subs' = {})
    BY <1>2 DEF Connected, Redial, Recv, AwaitFails, Call, Relisten, Query, ReadCall, CallReturns, RelistenReturns, RecvNote, RecvOther,
       ReadSocket, handshakeVars, listenerVars
  <2>2. pc' \in {"connect", "ended"} => pc = "connect" \/ ~told
    BY <1>2 DEF Connected, Redial, Recv, AwaitFails, Call, Relisten, ReadCall, CallReturns, RelistenReturns, RecvNote, RecvOther, listenerVars,
       Awaits, Standing
  <2> QED
    BY <2>1, <2>2, <1>i
<1>3. CASE ConnectFailed
  <2>1. pc = "connect" /\ hs.at = "failed" /\ toCli' = <<>> /\ subs' = subs /\ told' = told
    BY <1>3 DEF ConnectFailed, DropAttempt
  <2>2. subs = {}
    BY <2>1 DEF Quiet
  <2> QED
    BY <2>1, <2>2
<1>4. CASE GiveUp \/ RecvEnd
  <2>1. toCli' = <<>> /\ subs' = {} /\ ~told'
    <3>1. CASE GiveUp
      BY <3>1 DEF GiveUp, Standing
    <3>2. CASE RecvEnd
      BY <3>2 DEF RecvEnd
    <3> QED
      BY <1>4, <3>1, <3>2
  <2> QED
    BY <2>1
<1>5. CASE Reconnected
  <2>1. hs' = hs /\ srv' = srv /\ subs' = subs
    BY <1>5 DEF Reconnected, handshakeVars
  <2> QED
    BY <2>1, <1>5, <1>i
<1>6. CASE Cancel
  <2>1. pc' = "idle" /\ told' = told
    BY <1>6 DEF Cancel
  <2>2. CASE pc \in {"call", "recv"}
    <3>1. hs' = hs /\ srv' = srv /\ subs' = subs
      BY <1>6, <2>2 DEF Cancel, handshakeVars
    <3> QED
      BY <2>1, <3>1, <1>i
  <2>3. CASE pc \notin {"call", "recv"}
    <3>1. srv' = Down /\ subs' = {} /\ toCli' = <<>>
      BY <1>6, <2>3 DEF Cancel
    <3> QED
      BY <2>1, <3>1, <1>d
  <2> QED
    BY <2>2, <2>3
<1>7. CASE ServerStep
  <2>1. /\ hs' = hs /\ subs' = subs /\ told' = told /\ pc' = pc
        /\ srv.at \in {"fresh", "plain", "secure", "password", "sasl", "proof", "bound proof"}
    BY <1>7 DEF ServerStep, SrvSsl, SrvStartup, SrvPassword, SrvInitial, SrvResponse, Takes, listenerVars
  <2>2. hs.at # "ready"
    BY <2>1 DEF Quiet
  <2>3. pc \in {"connect", "backoff", "ended"}
    BY <2>2 DEF Quiet
  <2> QED
    BY <2>1, <2>2, <2>3, <1>i DEF Standing
<1>8. CASE Loss
  <2>1. srv \in Sessions
    BY <1>8, <1>w, UpType DEF Loss, SrvGone
  <2>2. srv'.at = "down" /\ subs' = {} /\ pc' = pc /\ told' = told /\ hs' = hs
    BY <1>8, <2>1 DEF Loss, SrvGone, Becomes, Sessions
  <2> QED
    BY <2>2
<1>9. CASE Execute
  <2>1. hs' = hs /\ srv' = srv /\ told' = told /\ pc' = pc /\ srv.at = "ready"
    BY <1>9 DEF Execute, Takes
  <2> QED
    BY <2>1
<1>10. CASE Publish
  <2>1. hs' = hs /\ srv' = srv /\ told' = told /\ pc' = pc /\ subs' = subs
    BY <1>10 DEF Publish
  <2> QED
    BY <2>1, <1>i
<1> QED
  BY <1>0, <1>1, <1>2, <1>3, <1>4, <1>5, <1>6, <1>7, <1>8, <1>9, <1>10 DEF Next, Work, Others

LEMMA ToldStep ==
  ASSUME [Next]_vars, told'
  PROVE  told \/ Reconnected
<1> SUFFICES ASSUME ~Reconnected PROVE told' = told \/ ~told'
  OBVIOUS
<1>1. CASE UNCHANGED vars \/ Connecting \/ ServerStep \/ RecvOther
  BY <1>1 DEF vars, listenerVars, Connecting, ServerStep, RecvOther
<1>2. CASE Connected \/ ConnectFailed \/ Redial \/ Relisten \/ ReadCall \/ CallReturns \/ RelistenReturns \/ AwaitFails \/ GiveUp
  BY <1>2 DEF Connected, ConnectFailed, Redial, Relisten, ReadCall, CallReturns, RelistenReturns, AwaitFails, GiveUp
<1>3. CASE RecvNote \/ RecvEnd \/ Execute \/ Call \/ Recv \/ Cancel \/ Loss \/ Publish
  BY <1>3 DEF RecvNote, RecvEnd, Execute, Call, Recv, Cancel, Loss, Publish
<1> QED
  BY <1>1, <1>2, <1>3 DEF Next, Work, Others

LEMMA AccountedStep ==
  ASSUME Typed, Quiet, Standing, Ordered, Accounted, [Next]_vars
  PROVE  Accounted'
<1>r. /\ subs' # {} => srv'.at = "ready"
      /\ hs'.at # "ready" => hs.at # "ready" \/ toCli' = <<>>
      /\ told' /\ (srv'.at = "ready" \/ pc' \in {"connect", "ended"}) =>
           \/ Reconnected
           \/ told /\ (srv.at = "ready" \/ pc \in {"connect", "ended"})
  BY ReadyServer DEF Accounted
<1>e. toCli' = <<>> => InSocket' = {}
  <2>1. Numbers(<<>>) = {}
    BY DEF Numbers
  <2> QED
    BY <2>1 DEF InSocket
<1>t. told' => told \/ Reconnected
  BY ToldStep
<1>1. CASE Untouched /\ ~Reconnected
  BY <1>1, <1>r, <1>e, <1>t DEF Untouched, Accounted, InTransit, LostLast, LostTold, NoneLost, Idle
<1>2. CASE (ReadCall /\ MarkedAs("read")) \/ (RecvNote /\ MarkedAs("got"))
  <2>1. /\ InTransit' /\ InSocket' \subseteq InSocket /\ DOMAIN fate' = DOMAIN fate
        /\ \A m \in DOMAIN fate : fate'[m] = "lost" => fate[m] = "lost"
    BY <1>2, MarkedOne DEF Accounted
  <2>2. ~Reconnected
    BY <1>2 DEF ReadCall, RecvNote, Awaits, Reconnected
  <2> QED
    BY <2>1, <2>2, <1>r, <1>e, <1>t DEF Accounted, LostLast, LostTold, NoneLost, Idle
<1>3. CASE (GiveUp \/ Loss \/ Cancel) /\ SocketLost
  BY <1>3, GoneAccounted
<1>4. CASE Reconnected
  <2>1. InSocket' = InSocket /\ InTransit' /\ NoneLost' /\ DOMAIN fate' = DOMAIN fate
    BY <1>4, AllTold DEF Accounted
  <2>2. hs' = hs
    BY <1>4 DEF Reconnected, handshakeVars
  <2> QED
    BY <2>1, <2>2, <1>r DEF Accounted, LostLast, LostTold, NoneLost, Idle
<1>5. CASE Publish
  BY <1>5, Published
<1> QED
  BY <1>1, <1>2, <1>3, <1>4, <1>5, FateSteps DEF Accounted

LEMMA OrderInit ==
  ASSUME Init
  PROVE  Ordered /\ Standing /\ Accounted
<1>1. fate = <<>> /\ toCli = <<>> /\ channels = <<>> /\ pc = "connect" /\ told = TRUE /\ subs = {}
  BY DEF Init, HandshakeInit
<1>2. DOMAIN toCli = {} /\ DOMAIN channels = {} /\ DOMAIN fate = {}
  BY <1>1
<1>3. HandedOut = {} /\ InSocket = {}
  BY <1>2 DEF HandedOut, InSocket, Numbers
<1>4. Ordered /\ Standing
  BY <1>1, <1>2, <1>3 DEF Ordered, Standing, Distinct
<1> QED
  BY <1>1, <1>2, <1>3, <1>4 DEF Accounted, InTransit, LostLast, LostTold, NoneLost, Idle

LEMMA HandedOutInOrder ==
  ASSUME Typed, Ordered, Standing, Accounted, [Next]_vars, NEW n \in HandedOut' \ HandedOut
  PROVE  /\ \A m \in HandedOut : m < n
         /\ \A m \in 1..(n - 1) : fate[m] \in {"got", "read", "told", "unheard"}
<1>1. RecvNote
  BY SocketSteps
<1>2. /\ pc = "recv" /\ toCli # <<>> /\ Note(Got) /\ HandedOut' \subseteq HandedOut \cup {Got.n}
  BY <1>1, MarkKeeps DEF RecvNote, ReadSocket, Note
<1>3. n = Got.n /\ toCli \in Seq(ServerMsgs)
  BY <1>2 DEF Typed, WireTyped
<1>4. 1 \in DOMAIN toCli /\ Got = toCli[1] /\ DOMAIN toCli = 1..Len(toCli) /\ Len(toCli) \in Nat
  BY <1>2, <1>3, FirstOf DEF Got
<1>5. told
  BY <1>2 DEF Standing
<1>6. \A m \in HandedOut : m < n
  BY <1>2, <1>3, <1>4 DEF Ordered
<1>7. n \in InSocket /\ n \in DOMAIN fate
  BY <1>2, <1>3, <1>4 DEF InSocket, Numbers, Accounted, InTransit
<1>8. ASSUME NEW m \in 1..(n - 1)
      PROVE  fate[m] \in {"got", "read", "told", "unheard"}
  <2>1. fate \in Seq(Fates) /\ DOMAIN fate = 1..Len(fate) /\ Len(fate) \in Nat
    BY FateTyped
  <2>2. m \in DOMAIN fate /\ m < n /\ n \in Nat /\ m \in Nat
    BY <2>1, <1>7
  <2>3. fate[m] \in Fates
    BY <2>1, <2>2, ElementOfSeq
  <2>4. fate[m] # "lost"
    <3>1. fate[m] = "lost" => n < m
      BY <2>2, <1>5, <1>7 DEF Accounted, LostLast
    <3> QED
      BY <3>1, <2>2
  <2>5. fate[m] # "sent"
    <3> SUFFICES ASSUME m \in InSocket PROVE FALSE
      BY <2>2 DEF Accounted, InTransit
    <3>1. PICK i \in DOMAIN toCli : Note(toCli[i]) /\ m = toCli[i].n
      BY DEF InSocket, Numbers
    <3>2. i # 1
      BY <3>1, <2>2, <1>3, <1>4
    <3>3. 1 < i
      BY <3>2, <1>4
    <3>4. n < m
      BY <3>1, <3>3, <1>2, <1>3, <1>4 DEF Ordered
    <3> QED
      BY <3>4, <2>2
  <2> QED
    BY <2>3, <2>4, <2>5 DEF Fates
<1> QED
  BY <1>6, <1>8

\* Notifications are handed out in the order in which they were published, and an earlier
\* one that was not is one that a call read, that was lost and told of, or that the session
\* was not subscribed to (listener.rs:130-155, pipeline.rs:111-130).
THEOREM NotificationsInOrder == Spec => InOrder
<1>1. Init => Typed /\ Handshaken /\ Ordered /\ Standing /\ Accounted
  BY TypedInit, HandshakenInit, OrderInit
<1>2. Typed /\ Handshaken /\ Ordered /\ Standing /\ Accounted /\ [Next]_vars
        => (Typed /\ Handshaken /\ Ordered /\ Standing /\ Accounted)'
  BY TypedStep, TalkStep, QuietStep, OrderedStep, StandingStep, AccountedStep DEF Handshaken
<1>3. Typed /\ Ordered /\ Standing /\ Accounted /\ [Next]_vars
        => [\A n \in HandedOut' \ HandedOut :
              /\ \A m \in HandedOut : m < n
              /\ \A m \in 1..(n - 1) : fate[m] \in {"got", "read", "told", "unheard"}]_vars
  BY HandedOutInOrder
<1> QED
  BY <1>1, <1>2, <1>3, PTL DEF Spec, InOrder
-----------------------------------------------------------------------------
LEMMA NotesOnlyFacts ==
  ASSUME NEW s \in Seq(ServerMsgs), NotesOnly(s)
  PROVE  /\ ~HasError(s)
         /\ \A x \in ServerMsgs : Note(x) => NotesOnly(Append(s, x))
         /\ s # <<>> => Note(Head(s)) /\ NotesOnly(Tail(s))
<1>1. ~HasError(s)
  BY DEF NotesOnly, Note, HasError
<1>2. ASSUME NEW x \in ServerMsgs, Note(x)
      PROVE  NotesOnly(Append(s, x))
  BY <1>2, Added DEF NotesOnly
<1>3. ASSUME s # <<>>
      PROVE  Note(Head(s)) /\ NotesOnly(Tail(s))
  BY <1>3, FirstOf DEF NotesOnly
<1> QED
  BY <1>1, <1>2, <1>3

LEMMA AnswerGiven ==
  ASSUME NEW s \in Seq(ServerMsgs), NotesOnly(s), NEW type \in {"Complete", "Error"}
  PROVE  /\ Answer(s \o <<M(type), M("Ready")>>)
         /\ HasError(s \o <<M(type), M("Ready")>>) <=> type = "Error"
<1> DEFINE v == <<M(type), M("Ready")>>
           u == s \o v
           n == Len(s)
<1>1. M(type) \in ServerMsgs /\ M("Ready") \in ServerMsgs
  BY ServerSays
<1>2. v \in Seq(ServerMsgs) /\ Len(v) = 2 /\ v[1] = M(type) /\ v[2] = M("Ready")
  BY <1>1
<1>3. M(type).t = type /\ M("Ready").t = "Ready"
  BY DEF M
<1> HIDE DEF v
<1>4. /\ n \in Nat /\ DOMAIN s = 1..n /\ DOMAIN u = 1..(n + Len(v))
      /\ \A i \in 1..n : u[i] = s[i]
      /\ \A i \in 1..Len(v) : u[n + i] = v[i]
  BY <1>2, Joined, SMTT(40)
<1> HIDE DEF u, n
<1>5. DOMAIN u = 1..(n + 2) /\ u[n + 1] = M(type) /\ u[n + 2] = M("Ready")
  <2>1. 1 \in 1..Len(v) /\ 2 \in 1..Len(v)
    BY <1>2
  <2> QED
    BY <2>1, <1>2, <1>4
<1>6. \A i \in 1..(n + 2) : i \in 1..n \/ i = n + 1 \/ i = n + 2
  BY <1>4
<1>7. \A i \in 1..n : u[i].t = "Note"
  BY <1>4 DEF NotesOnly, Note
<1>8. n + 1 \in DOMAIN u /\ n + 2 \in DOMAIN u /\ ~(n + 2 < n + 2) /\ \A j \in 1..(n + 2) : ~(j > n + 2)
  BY <1>4, <1>5
<1>9. Answer(u)
  <2>1. \A j \in DOMAIN u : j < n + 2 => u[j].t \in {"Note", "Complete", "Error"}
    BY <1>3, <1>5, <1>6, <1>7, <1>8
  <2> QED
    BY <2>1, <1>3, <1>5, <1>8 DEF Answer
<1>10. HasError(u) <=> type = "Error"
  BY <1>3, <1>5, <1>6, <1>7, <1>8 DEF HasError
<1> QED
  BY <1>9, <1>10 DEF u, v

LEMMA AnswerWithNote ==
  ASSUME NEW s \in Seq(ServerMsgs), Answer(s), NEW x \in ServerMsgs, Note(x)
  PROVE  Answer(Append(s, x)) /\ (HasError(Append(s, x)) <=> HasError(s))
<1> DEFINE u == Append(s, x)
           n == Len(s)
<1>1. /\ n \in Nat /\ DOMAIN s = 1..n /\ DOMAIN u = 1..(n + 1) /\ u[n + 1] = x
      /\ \A i \in 1..n : u[i] = s[i]
  BY Added
<1> HIDE DEF u, n
<1>2. \A i \in 1..(n + 1) : i \in 1..n \/ i = n + 1
  BY <1>1
<1>3. \A i \in 1..n : i \in 1..(n + 1) /\ ~(n + 1 < i)
  BY <1>1
<1>4. PICK i \in 1..n :
        /\ s[i].t = "Ready"
        /\ \A j \in 1..n : (j < i => s[j].t \in {"Note", "Complete", "Error"}) /\ (j > i => Note(s[j]))
  BY <1>1 DEF Answer
<1>5. \A j \in 1..(n + 1) : (j < i => u[j].t \in {"Note", "Complete", "Error"}) /\ (j > i => Note(u[j]))
  BY <1>1, <1>2, <1>3, <1>4
<1>6. Answer(u)
  BY <1>1, <1>3, <1>4, <1>5 DEF Answer
<1>7. HasError(u) <=> HasError(s)
  BY <1>1, <1>2, <1>3 DEF HasError, Note
<1> QED
  BY <1>6, <1>7 DEF u

LEMMA AnswerRead ==
  ASSUME NEW s \in Seq(ServerMsgs), Answer(s)
  PROVE  /\ s # <<>>
         /\ Head(s).t = "Ready" => NotesOnly(Tail(s)) /\ ~HasError(s)
         /\ Head(s).t # "Ready" => Answer(Tail(s)) /\ (HasError(s) <=> Head(s).t = "Error" \/ HasError(Tail(s)))
<1>1. PICK i \in DOMAIN s :
        /\ s[i].t = "Ready"
        /\ \A j \in DOMAIN s : (j < i => s[j].t \in {"Note", "Complete", "Error"}) /\ (j > i => Note(s[j]))
  BY DEF Answer
<1>2. s # <<>>
  BY <1>1
<1> DEFINE u == Tail(s)
           n == Len(s)
<1>3. /\ 1 \in DOMAIN s /\ Head(s) = s[1] /\ DOMAIN s = 1..n /\ n \in Nat /\ DOMAIN u = 1..(n - 1)
      /\ \A k \in 1..(n - 1) : k + 1 \in 1..n /\ u[k] = s[k + 1]
  BY <1>2, FirstOf
<1> HIDE DEF u, n
<1>4. \A k \in 1..n : k = 1 \/ (k - 1 \in 1..(n - 1) /\ (k - 1) + 1 = k)
  BY <1>3
<1>5. ASSUME s[1].t = "Ready"
      PROVE  NotesOnly(u) /\ ~HasError(s)
  <2>1. i = 1
    <3>1. ~(1 < i)
      BY <1>1, <1>3, <1>5
    <3> QED
      BY <3>1, <1>1, <1>3
  <2>2. \A j \in 1..n : j # 1 => Note(s[j])
    <3>1. \A j \in 1..n : j # 1 => j > 1
      BY <1>3
    <3> QED
      BY <3>1, <2>1, <1>1, <1>3
  <2>3. \A k \in 1..(n - 1) : k + 1 # 1
    BY <1>3
  <2>4. NotesOnly(u)
    BY <2>2, <2>3, <1>3 DEF NotesOnly
  <2>5. ~HasError(s)
    BY <2>2, <1>5, <1>3 DEF HasError, Note
  <2> QED
    BY <2>4, <2>5
<1>6. ASSUME s[1].t # "Ready"
      PROVE  Answer(u) /\ (HasError(s) <=> s[1].t = "Error" \/ HasError(u))
  <2> DEFINE h == i - 1
  <2>1. h \in 1..(n - 1) /\ h + 1 = i
    BY <1>1, <1>3, <1>4, <1>6
  <2> HIDE DEF h
  <2>2. \A k \in 1..(n - 1) : (k < h => k + 1 < i) /\ (k > h => k + 1 > i)
    BY <2>1, <1>3
  <2>3. u[h].t = "Ready"
    BY <2>1, <1>1, <1>3
  <2>4. \A k \in 1..(n - 1) : (k < h => u[k].t \in {"Note", "Complete", "Error"}) /\ (k > h => Note(u[k]))
    BY <2>2, <1>1, <1>3
  <2>5. Answer(u)
    BY <2>1, <2>3, <2>4, <1>3 DEF Answer
  <2>6. HasError(u) => HasError(s)
    BY <1>3 DEF HasError
  <2>7. ASSUME HasError(s), s[1].t # "Error"
        PROVE  HasError(u)
    <3>1. PICK k \in 1..n : s[k].t = "Error"
      BY <2>7, <1>3 DEF HasError
    <3>2. k - 1 \in 1..(n - 1) /\ (k - 1) + 1 = k
      BY <3>1, <2>7, <1>4
    <3>3. u[k - 1] = s[k]
      BY <3>2, <1>3
    <3> QED
      BY <3>1, <3>2, <3>3, <1>3 DEF HasError
  <2>8. s[1].t = "Error" => HasError(s)
    BY <1>3 DEF HasError
  <2> QED
    BY <2>5, <2>6, <2>7, <2>8
<1> QED
  BY <1>2, <1>3, <1>5, <1>6 DEF u
InOrderOfCalls == Settled /\ Waiting /\ InStep

\* A message is read while a call waits for its answer.
LEMMA CallReads ==
  ASSUME Typed, Awaits, InOrderOfCalls, ReadCall
  PROVE  InOrderOfCalls'
<1>1. /\ toCli # <<>> /\ toCli' = Tail(toCli) /\ Got.t # "Ready" /\ failed' = (failed \/ Got.t = "Error")
      /\ UNCHANGED <<toSrv, pc, call, channels, todo, subs>>
  BY DEF ReadCall, ReadSocket
<1>2. toCli \in Seq(ServerMsgs)
  BY DEF Typed, WireTyped
<1>3. Recorded' = Recorded
  BY <1>1 DEF Recorded
<1>4. CASE Sent
  <2>1. Note(Head(toCli)) /\ NotesOnly(Tail(toCli))
    BY <1>1, <1>2, <1>4, NotesOnlyFacts DEF Sent
  <2>2. ~failed'
    <3>1. Got.t = "Note"
      BY <2>1 DEF Got, Note
    <3>2. ~failed /\ ~(Got.t = "Error")
      BY <1>4, <3>1 DEF Sent
    <3> QED
      BY <1>1, <3>2
  <2>3. Sent'
    BY <1>1, <1>4, <2>1, <2>2 DEF Sent
  <2>4. ~Answered /\ ~Answered'
    BY <1>1, <1>4 DEF Sent, Answered
  <2> QED
    BY <1>1, <1>3, <2>3, <2>4 DEF InOrderOfCalls, Settled, Waiting, InStep, Awaits
<1>5. CASE Answered
  <2>1. Answer(Tail(toCli)) /\ (HasError(toCli) <=> Got.t = "Error" \/ HasError(Tail(toCli)))
    BY <1>1, <1>2, <1>5, AnswerRead DEF Answered, Got
  <2>2. Answered' /\ (Refusal' <=> Refusal)
    BY <1>1, <1>5, <2>1 DEF Answered, Refusal
  <2> QED
    BY <1>1, <1>3, <1>5, <2>2 DEF InOrderOfCalls, Settled, Waiting, InStep, Awaits
<1> QED
  BY <1>4, <1>5 DEF InOrderOfCalls, Waiting, Awaits

\* The answer ends, for a call or for a LISTEN of a reconnect.
LEMMA AnswerEnds ==
  ASSUME Typed, Awaits, InOrderOfCalls, ReadSocket, Got.t = "Ready"
  PROVE  /\ toSrv = <<>> /\ toSrv' = <<>> /\ NotesOnly(toCli')
         /\ Answered /\ (Refusal <=> failed)
<1>1. toCli # <<>> /\ toCli' = Tail(toCli) /\ toSrv' = toSrv
  BY DEF ReadSocket
<1>2. toCli \in Seq(ServerMsgs)
  BY DEF Typed, WireTyped
<1>3. ~Sent
  <2> SUFFICES ASSUME Sent PROVE FALSE
    OBVIOUS
  <2>1. Note(Head(toCli))
    BY <1>1, <1>2, NotesOnlyFacts DEF Sent
  <2> QED
    BY <2>1 DEF Got, Note
<1>4. Answered
  BY <1>3 DEF InOrderOfCalls, Waiting, Awaits
<1>5. NotesOnly(Tail(toCli)) /\ ~HasError(toCli)
  BY <1>2, <1>4, AnswerRead DEF Answered, Got
<1> QED
  BY <1>1, <1>4, <1>5 DEF Answered, Refusal

\* The server executes the statement of the call, or refuses it.
LEMMA Executes ==
  ASSUME Typed, Standing, Awaits, InOrderOfCalls, Execute
  PROVE  InOrderOfCalls'
<1>1. toSrv # <<>> /\ toSrv' = Tail(toSrv) /\ UNCHANGED <<pc, call, channels, todo, failed>>
  BY DEF Execute, Takes
<1>2. Sent
  BY <1>1 DEF InOrderOfCalls, Waiting, Awaits, Answered
<1>3. Asked = [t |-> "Query", op |-> call.op, c |-> call.c] /\ toSrv' = <<>> /\ NotesOnly(toCli) /\ ~failed
  BY <1>1, <1>2, Short DEF Sent, Asked
<1>4. Asked.op = call.op /\ Asked.c = call.c
  BY <1>3
<1>5. toCli \in Seq(ServerMsgs) /\ call \in Statements /\ todo \in Seq(Channels)
  BY DEF Typed, WireTyped, ListenerTyped
<1>6. call.op \in {"listen", "unlisten", "unlisten_all"}
  BY <1>5 DEF Statements
<1>7. ~Answered
  BY <1>1 DEF Answered
<1>8. Recorded' = Recorded
  BY <1>1 DEF Recorded
<1>9. CASE Say(<<M("Error"), M("Ready")>>) /\ subs' = subs
  <2>1. Answer(toCli') /\ HasError(toCli')
    BY <1>3, <1>5, <1>9, AnswerGiven DEF Say
  <2>2. Answered' /\ Refusal'
    BY <1>3, <2>1 DEF Answered, Refusal
  <2> QED
    BY <1>1, <1>7, <1>9, <2>2 DEF InOrderOfCalls, Settled, Waiting, InStep, Awaits
<1>10. CASE Say(<<M("Complete"), M("Ready")>>) /\ subs' = CASE Asked.op = "listen"   -> subs \cup {Asked.c}
                                                            [] Asked.op = "unlisten" -> subs \ {Asked.c}
                                                            [] OTHER                 -> {}
  <2>1. Answer(toCli') /\ ~HasError(toCli')
    BY <1>3, <1>5, <1>10, AnswerGiven DEF Say
  <2>2. Answered' /\ ~Refusal'
    BY <1>1, <1>3, <2>1 DEF Answered, Refusal
  <2>3. CASE pc = "call"
    <3>1. subs = Elements(channels)
      BY <1>7, <2>3 DEF InOrderOfCalls, InStep
    <3>2. subs' = Elements(Recorded)
      BY <1>4, <1>6, <1>10, <2>3, <3>1, RecordedElements DEF Standing
    <3> QED
      BY <1>1, <1>8, <2>2, <2>3, <3>2 DEF InOrderOfCalls, Settled, Waiting, InStep
  <2>4. CASE pc = "again call"
    <3>1. call.op = "listen" /\ todo # <<>> /\ call.c = Head(todo) /\ subs \cup Elements(todo) = Elements(channels)
      BY <2>4 DEF InOrderOfCalls, InStep
    <3>2. subs' = subs \cup {call.c}
      BY <1>4, <1>10, <3>1
    <3>3. call.c \in Elements(todo)
      BY <1>5, <3>1, TailElements
    <3> QED
      BY <1>1, <2>2, <2>4, <3>1, <3>2, <3>3 DEF InOrderOfCalls, Settled, Waiting, InStep
  <2> QED
    BY <2>3, <2>4 DEF Awaits
<1> QED
  BY <1>9, <1>10 DEF Execute

LEMMA Publishes ==
  ASSUME Typed, InOrderOfCalls, Publish
  PROVE  InOrderOfCalls'
<1>1. UNCHANGED <<toSrv, pc, call, channels, todo, failed, subs>>
  BY DEF Publish
<1>2. toCli' = toCli \/ toCli' = Append(toCli, [t |-> "Note", n |-> Len(fate) + 1])
  BY DEF Publish
<1>3. toCli \in Seq(ServerMsgs) /\ Len(fate) \in Nat
  BY FateTyped DEF Typed, WireTyped
<1>4. Len(fate) + 1 \in Nat
  BY <1>3
<1>5. [t |-> "Note", n |-> Len(fate) + 1] \in ServerMsgs /\ Note([t |-> "Note", n |-> Len(fate) + 1])
  BY <1>4, ServerSays DEF Note
<1>6. NotesOnly(toCli) => NotesOnly(toCli')
  BY <1>2, <1>3, <1>5, NotesOnlyFacts
<1>7. Answer(toCli) => Answer(toCli') /\ (HasError(toCli') <=> HasError(toCli))
  BY <1>2, <1>3, <1>5, AnswerWithNote
<1>8. Recorded' = Recorded
  BY <1>1 DEF Recorded
<1>9. Settled'
  BY <1>1, <1>6 DEF InOrderOfCalls, Settled
<1>10. CASE pc \in {"call", "again call"} /\ Sent
  <2>1. Sent' /\ ~Answered /\ ~Answered'
    BY <1>1, <1>6, <1>10 DEF Sent, Answered
  <2> QED
    BY <1>1, <1>8, <1>9, <2>1 DEF InOrderOfCalls, Waiting, InStep
<1>11. CASE pc \in {"call", "again call"} /\ Answered
  <2>1. Answered' /\ (Refusal' <=> Refusal)
    BY <1>1, <1>7, <1>11 DEF Answered, Refusal
  <2> QED
    BY <1>1, <1>8, <1>9, <1>11, <2>1 DEF InOrderOfCalls, Waiting, InStep
<1>12. CASE pc \notin {"call", "again call"}
  BY <1>1, <1>9, <1>12 DEF InOrderOfCalls, Waiting, InStep
<1> QED
  BY <1>10, <1>11, <1>12 DEF InOrderOfCalls, Waiting

LEMMA SubscriptionsStep ==
  ASSUME Typed, Quiet, Standing, Subscriptions, [Next]_vars
  PROVE  Subscriptions'
<1> SUFFICES ASSUME Live'
             PROVE  InOrderOfCalls'
  BY DEF Subscriptions, InOrderOfCalls
<1>t. /\ toCli \in Seq(ServerMsgs) /\ todo \in Seq(Channels) /\ channels \in Seq(Channels)
      /\ (Awaits => call \in Statements)
  BY DEF Typed, WireTyped, ListenerTyped
<1>l. ASSUME UNCHANGED <<hs, srv, cut>>
      PROVE  Live /\ InOrderOfCalls
  BY <1>l DEF Live, Subscriptions, InOrderOfCalls
<1>v. ASSUME pc' \notin {"idle", "recv", "again", "call", "again call"}
      PROVE  InOrderOfCalls'
  BY <1>v DEF InOrderOfCalls, Settled, Waiting, InStep
<1>e. NotesOnly(<<>>) /\ Elements(<<>>) = {}
  BY DEF NotesOnly, Elements
<1>0. CASE UNCHANGED vars
  <2>1. UNCHANGED <<hs, srv, toSrv, toCli, pc, call, failed, channels, todo, subs, cut>>
    BY <1>0 DEF vars, handshakeVars, listenerVars
  <2>2. InOrderOfCalls
    BY <2>1, <1>l
  <2> QED
    BY <2>1, <2>2 DEF InOrderOfCalls, Settled, Waiting, InStep, Sent, Answered, Refusal, Recorded
<1>1. CASE Connecting
  <2>1. pc' = "connect"
    BY <1>1 DEF Connecting, listenerVars
  <2> QED
    BY <2>1, <1>v
<1>2. CASE Connected
  <2>1. pc = "connect" /\ hs.at = "ready" /\ UNCHANGED <<hs, srv, toSrv, toCli, channels, told>> /\ subs' = {} /\ todo' = channels
    BY <1>2 DEF Connected, handshakeVars
  <2>2. srv.at = "ready"
    BY <2>1 DEF Live
  <2>3. toSrv = <<>> /\ toCli = <<>>
    BY <2>1, <2>2 DEF Quiet
  <2>4. (told /\ pc' = "idle" /\ channels = <<>>) \/ (~told /\ pc' = "again")
    BY <1>2, <2>1 DEF Connected, Standing
  <2> QED
    BY <2>1, <2>3, <2>4, <1>e DEF InOrderOfCalls, Settled, Waiting, InStep
<1>3. CASE ConnectFailed \/ Redial
  <2>1. pc' \in {"ended", "backoff", "connect"}
    BY <1>3 DEF ConnectFailed, Redial
  <2> QED
    BY <2>1, <1>v
<1>4. CASE Call
  <2>1. PICK o \in Statements : Query(o)
    BY <1>4 DEF Call, Statements
  <2>2. pc = "idle" /\ pc' = "call" /\ UNCHANGED <<channels, todo, subs, cut, hs, srv, toCli>> /\ call' = o /\ ~failed'
    BY <1>4, <2>1 DEF Call, Query
  <2>3. toSrv = <<>> /\ NotesOnly(toCli) /\ subs = Elements(channels)
    BY <2>2, <1>l DEF InOrderOfCalls, Settled, InStep
  <2>4. toSrv' = <<[t |-> "Query", op |-> o.op, c |-> o.c]>>
    BY <2>1, <2>3, Short DEF Query
  <2>5. Sent' /\ ~Answered'
    BY <2>2, <2>3, <2>4 DEF Sent, Answered
  <2> QED
    BY <2>2, <2>3, <2>5 DEF InOrderOfCalls, Settled, Waiting, InStep
<1>5. CASE Relisten
  <2> DEFINE o == [op |-> "listen", c |-> Head(todo)]
  <2>1. Query(o) /\ todo # <<>> /\ pc = "again" /\ pc' = "again call"
    BY <1>5 DEF Relisten
  <2>2. UNCHANGED <<channels, todo, subs, cut, hs, srv, toCli>> /\ call' = o /\ ~failed'
    BY <1>5, <2>1 DEF Relisten, Query
  <2>3. toSrv = <<>> /\ NotesOnly(toCli) /\ subs \cup Elements(todo) = Elements(channels)
    BY <2>1, <2>2, <1>l DEF InOrderOfCalls, Settled, InStep
  <2>4. toSrv' = <<[t |-> "Query", op |-> o.op, c |-> o.c]>>
    BY <2>1, <2>3, Short DEF Query
  <2>5. call'.op = "listen" /\ call'.c = Head(todo)
    BY <2>2
  <2> HIDE DEF o
  <2>6. Sent' /\ ~Answered'
    BY <2>2, <2>3, <2>4 DEF Sent, Answered
  <2> QED
    BY <2>1, <2>2, <2>3, <2>5, <2>6 DEF InOrderOfCalls, Settled, Waiting, InStep
<1>6. CASE ReadCall
  <2>1. UNCHANGED <<hs, srv, cut>> /\ Awaits
    BY <1>6 DEF ReadCall, ReadSocket
  <2> QED
    BY <2>1, <1>6, <1>l, CallReads
<1>7. CASE CallReturns
  <2>1. /\ pc = "call" /\ pc' = "idle" /\ ReadSocket /\ Got.t = "Ready" /\ UNCHANGED <<hs, srv, cut, subs>>
        /\ channels' = IF failed THEN channels ELSE Recorded
    BY <1>7 DEF CallReturns, ReadSocket
  <2>2. toSrv' = <<>> /\ NotesOnly(toCli') /\ Answered /\ (Refusal <=> failed)
    BY <2>1, <1>l, AnswerEnds DEF Awaits
  <2>3. subs = Elements(channels')
    BY <2>1, <2>2, <1>l DEF InOrderOfCalls, InStep
  <2> QED
    BY <2>1, <2>2, <2>3 DEF InOrderOfCalls, Settled, Waiting, InStep
<1>8. CASE RelistenReturns
  <2>1. pc = "again call" /\ ReadSocket /\ Got.t = "Ready" /\ UNCHANGED <<hs, srv, cut, subs, channels>>
    BY <1>8 DEF RelistenReturns, ReadSocket
  <2>2. CASE failed
    <3>1. pc' = "giveup"
      BY <1>8, <2>2 DEF RelistenReturns
    <3> QED
      BY <3>1, <1>v
  <2>3. CASE ~failed
    <3>1. pc' = "again" /\ todo' = Tail(todo)
      BY <1>8, <2>3 DEF RelistenReturns
    <3>2. toSrv' = <<>> /\ NotesOnly(toCli') /\ Answered /\ ~Refusal
      BY <2>1, <2>3, <1>l, AnswerEnds DEF Awaits
    <3>3. todo # <<>> /\ call.c = Head(todo) /\ call.c \in subs /\ subs \cup Elements(todo) = Elements(channels)
      BY <2>1, <3>2, <1>l DEF InOrderOfCalls, InStep
    <3>4. subs \cup Elements(Tail(todo)) = Elements(channels)
      BY <3>3, <1>t, TailElements
    <3> QED
      BY <2>1, <3>1, <3>2, <3>4 DEF InOrderOfCalls, Settled, Waiting, InStep
  <2> QED
    BY <2>2, <2>3
<1>9. CASE AwaitFails
  <2>1. srv.at = "down" /\ srv' = srv
    BY <1>9 DEF AwaitFails, handshakeVars
  <2> QED
    BY <2>1 DEF Live
<1>10. CASE GiveUp \/ RecvEnd
  <2>1. srv' = Down
    BY <1>10 DEF GiveUp, RecvEnd
  <2> QED
    BY <2>1 DEF Live, Down
<1>11. CASE Reconnected
  <2>1. pc = "again" /\ pc' = "idle" /\ todo = <<>> /\ UNCHANGED <<hs, srv, cut, toSrv, toCli, subs, channels>>
    BY <1>11 DEF Reconnected, handshakeVars
  <2>2. toSrv = <<>> /\ NotesOnly(toCli) /\ subs \cup Elements(todo) = Elements(channels)
    BY <2>1, <1>l DEF InOrderOfCalls, Settled, InStep
  <2> QED
    BY <2>1, <2>2, <1>e DEF InOrderOfCalls, Settled, Waiting, InStep
<1>12. CASE Recv
  <2>1. pc = "idle" /\ pc' = "recv" /\ UNCHANGED <<hs, srv, cut, toSrv, toCli, subs, channels>>
    BY <1>12 DEF Recv, handshakeVars
  <2> QED
    BY <2>1, <1>l DEF InOrderOfCalls, Settled, Waiting, InStep
<1>13. CASE RecvNote
  <2>1. pc = "recv" /\ pc' = "idle" /\ toCli # <<>> /\ toCli' = Tail(toCli) /\ UNCHANGED <<hs, srv, cut, toSrv, subs, channels>>
    BY <1>13 DEF RecvNote, ReadSocket
  <2>2. toSrv = <<>> /\ NotesOnly(toCli) /\ subs = Elements(channels)
    BY <2>1, <1>l DEF InOrderOfCalls, Settled, InStep
  <2>3. NotesOnly(toCli')
    BY <2>1, <2>2, <1>t, NotesOnlyFacts
  <2> QED
    BY <2>1, <2>2, <2>3 DEF InOrderOfCalls, Settled, Waiting, InStep
<1>14. CASE RecvOther
  <2>1. pc = "recv" /\ toCli # <<>> /\ Got.t # "Note" /\ UNCHANGED <<hs, srv, cut>>
    BY <1>14 DEF RecvOther, ReadSocket, listenerVars
  <2>2. NotesOnly(toCli)
    BY <2>1, <1>l DEF InOrderOfCalls, Settled
  <2> QED
    BY <2>1, <2>2, <1>t, NotesOnlyFacts DEF Note, Got
<1>15. CASE Cancel
  <2>1. CASE pc = "recv"
    <3>1. pc' = "idle" /\ UNCHANGED <<hs, srv, cut, toSrv, toCli, subs, channels>>
      BY <1>15, <2>1, <1>t DEF Cancel, handshakeVars, Typed, ListenerTyped
    <3> QED
      BY <2>1, <3>1, <1>l DEF InOrderOfCalls, Settled, Waiting, InStep
  <2>2. CASE pc = "call"
    <3>1. cut'
      BY <1>15, <2>2 DEF Cancel
    <3> QED
      BY <3>1 DEF Live
  <2>3. CASE pc \notin {"call", "recv"}
    <3>1. srv' = Down
      BY <1>15, <2>3 DEF Cancel
    <3> QED
      BY <3>1 DEF Live, Down
  <2> QED
    BY <2>1, <2>2, <2>3
<1>16. CASE ServerStep
  <2>1. hs.at = "ready"
    BY <1>16 DEF Live, ServerStep, SrvSsl, SrvStartup, SrvPassword, SrvInitial, SrvResponse, Takes
  <2>2. srv.at \in {"ready", "down"}
    BY <2>1 DEF Quiet
  <2> QED
    BY <1>16, <2>2 DEF ServerStep, SrvSsl, SrvStartup, SrvPassword, SrvInitial, SrvResponse, Takes
<1>17. CASE Loss
  <2>1. srv.at # "down" /\ srv' = [srv EXCEPT !.at = "down"]
    BY <1>17 DEF Loss, SrvGone, Becomes
  <2>2. srv \in Sessions
    BY <2>1, UpType DEF Typed
  <2>3. srv'.at = "down"
    BY <2>1, <2>2 DEF Sessions
  <2> QED
    BY <2>3 DEF Live
<1>18. CASE Execute
  <2>1. UNCHANGED <<hs, srv, cut, pc>> /\ toSrv # <<>>
    BY <1>18 DEF Execute, Takes
  <2>2. InOrderOfCalls
    BY <2>1, <1>l
  <2>3. CASE Awaits
    BY <1>18, <2>2, <2>3, Executes
  <2>4. CASE ~Awaits
    <3>1. pc \notin {"idle", "recv", "again", "call", "again call"}
      BY <2>1, <2>2, <2>4 DEF InOrderOfCalls, Settled, Awaits
    <3> QED
      BY <2>1, <3>1, <1>v
  <2> QED
    BY <2>3, <2>4
<1>19. CASE Publish
  <2>1. UNCHANGED <<hs, srv, cut>>
    BY <1>19 DEF Publish
  <2> QED
    BY <1>19, <2>1, <1>l, Publishes
<1> QED
  BY <1>0, <1>1, <1>2, <1>3, <1>4, <1>5, <1>6, <1>7, <1>8, <1>9, <1>10, <1>11, <1>12, <1>13, <1>14, <1>15, <1>16,
     <1>17, <1>18, <1>19 DEF Next, Work, Others

\* Between two calls a session that is up is subscribed to the channels that the
\* listener has (listener.rs:86-113, 172-212), whatever was refused, lost and taken
\* again before, unless a call was dropped on this connection.
THEOREM SessionsAreSubscribed == Spec => []Subscribed
<1>1. Init => Subscriptions
  <2> SUFFICES ASSUME Init PROVE Subscriptions
    OBVIOUS
  <2>1. hs.at = "closed"
    BY DEF Init, HandshakeInit, Closed
  <2> QED
    BY <2>1 DEF Subscriptions, Live
<1>2. Init => Typed /\ Handshaken /\ Ordered /\ Standing /\ Subscriptions
  BY <1>1, TypedInit, HandshakenInit, OrderInit
<1>3. Typed /\ Handshaken /\ Ordered /\ Standing /\ Subscriptions /\ [Next]_vars
        => (Typed /\ Handshaken /\ Ordered /\ Standing /\ Subscriptions)'
  BY TypedStep, TalkStep, QuietStep, OrderedStep, StandingStep, SubscriptionsStep DEF Handshaken
<1>4. Handshaken /\ Subscriptions => Subscribed
  <2> SUFFICES ASSUME Handshaken, Subscriptions, pc \in {"idle", "recv"}, srv.at = "ready", ~cut
               PROVE  subs = Elements(channels)
    BY DEF Subscribed
  <2>1. hs.at = "ready"
    BY DEF Handshaken, Quiet
  <2> QED
    BY <2>1 DEF Subscriptions, Live, InStep
<1> QED
  BY <1>2, <1>3, <1>4, PTL DEF Spec
=============================================================================
