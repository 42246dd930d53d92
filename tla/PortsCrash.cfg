SPECIFICATION Spec
CONSTANTS
  n1 = n1  n2 = n2  n3 = n3
  carrier = carrier  relay = relay  data = data
  Nodes = {n1, n2, n3}
  NoNode = NoNode
  Pipes = {carrier, relay, data}
  NoPort = NoPort
  kInvalidSequenceNum = 99
  Home <- HomeRelay
  Established = {carrier, relay, data}
  Cargo <- CargoCrash
  MaxPorts = 1
  MaxGen <- MaxGenCrash
  Embedder <- EmbedderRelayCrash
  MaxCrashes = 1
INVARIANTS
  NoLostWakeup

  
CHECK_DEADLOCK FALSE
