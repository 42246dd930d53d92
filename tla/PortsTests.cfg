SPECIFICATION TestSpec
CONSTANTS
  node0 = node0  node1 = node1
  x = x  y = y  a = a  b = b
  Nodes = {node0, node1}
  NoNode = NoNode
  Pipes = {x, y, a, b}
  NoPort = NoPort
  kInvalidSequenceNum = 99
  Home <- TestHome
  Established = {}
  Cargo <- NoCargo
  MaxPorts = 1
  MaxGen <- TestMaxGen
  Embedder <- TestEmbedder
  MaxCrashes = 1
INVARIANTS
  Passes
PROPERTIES
  PumpTasksReturns
