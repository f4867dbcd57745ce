SPECIFICATION FairSpec
CONSTANTS
  Modes = {"Disable", "Prefer", "Require"}
  Servers <- MCServers
  Peers <- MCPeers
  DialBound = 3
  Channels = {a, b}
  CallBound = 2
  NoteBound = 3
  None = none
CHECK_DEADLOCK FALSE
INVARIANTS Subscribed HandshakeSound
PROPERTIES InOrder ReconnectEnds
