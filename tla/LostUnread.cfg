SPECIFICATION Spec
CONSTANTS
  n1 = n1  n2 = n2  n3 = n3
  carrier = carrier  relay = relay  data = data
  Nodes = {n1, n2}
  NoNode = NoNode
  Pipes = {carrier, data}
  NoPort = NoPort
  kInvalidSequenceNum = 99
  Home <- HomeMove
  Established = {carrier, data}
  Cargo <- CargoMove
  MaxPorts = 1
  MaxGen <- MaxGenMove
  Embedder <- EmbedderCrash
  MaxCrashes = 1
INVARIANTS
  ReadBeforePeerClosed
CHECK_DEADLOCK FALSE
