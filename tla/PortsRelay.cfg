SPECIFICATION Spec
CONSTANTS
  n1 = n1  n2 = n2  n3 = n3
  carrier = carrier  relay = relay  data = data
  Nodes = {n1, n2, n3}
  NoNode = NoNode
  Pipes = {carrier, relay, data}
  NoPort = NoPort
  kInvalidSequenceNum = 99
  Home <- HomeRelay
  Established = {relay}
  Cargo <- CargoRelay
  MaxPorts = 1
  MaxGen <- MaxGenRelay
  Embedder <- EmbedderRelay
  MaxCrashes = 0
INVARIANTS
  TypeOK
  NoOops
  OneRemovalAtATime
  NoMessageLost
  ClosureKnown
  NoProxyLeft
  PeersMeet

  
CHECK_DEADLOCK FALSE
