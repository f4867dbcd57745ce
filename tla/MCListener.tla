------------------------------ MODULE MCListener ------------------------------
(***************************************************************************)
(* The servers of the runs: one for every way through the handshake.       *)
(***************************************************************************)
EXTENDS ListenerProperties

Basic == [ssl |-> "N", trusted |-> TRUE, sig |-> "sha256", auth |-> "trust", mechs |-> {}, knows |-> TRUE]
Scram == [Basic EXCEPT !.auth = "sasl", !.mechs = ScramMechanisms]
Bound == [Scram EXCEPT !.ssl = "S"]

MCServers ==
  {Basic, [Basic EXCEPT !.ssl = "E"], [Basic EXCEPT !.auth = "reject"], Scram}
  \cup {[Basic EXCEPT !.auth = a, !.knows = k] : a \in {"cleartext", "md5"}, k \in BOOLEAN}
  \cup {[Bound EXCEPT !.sig = g] : g \in {"sha1", "sha384", "sha224"}}
  \cup {[Bound EXCEPT !.sig = "sha512", !.trusted = t, !.knows = FALSE] : t \in BOOLEAN}
  \cup {[Bound EXCEPT !.sig = "sha224", !.mechs = m] : m \in {{}, {"SCRAM-SHA-256"}, {"SCRAM-SHA-256-PLUS"}}}

MCPeers == {Basic, [Basic EXCEPT !.auth = "reject"]}
=============================================================================
