CONSTANTS
  p1 = p1
  p2 = p2
  c1 = c1
  c2 = c2
  c3 = c3
  None = None
  Peers <- MC_Peers
  Conns <- MC_Conns
  MultiThreaded = FALSE
SPECIFICATION Spec
INVARIANTS  QuiescentConsistency
PROPERTIES ConnectedEventuallyRegistered 
CHECK_DEADLOCK FALSE
