SPECIFICATION Spec
CONSTANTS
  n1 = n1  n2 = n2  n3 = n3
  carrier = carrier  relay = relay  data = data
  Nodes = {n1, n2}
  NoNode = NoNode
  Pipes = {carrier, data}
  NoPort = NoPort
  kInvalidSequenceNum = 99
  Home <- HomeAway
  Established = {carrier, data}
  Cargo <- CargoMove
  MaxPorts = 1
  MaxGen <- MaxGenMove
  Embedder <- EmbedderMove
  MaxCrashes = 0
INVARIANTS
  CleanShutdown
PROPERTIES
  ImplementsPipe
CHECK_DEADLOCK FALSE
