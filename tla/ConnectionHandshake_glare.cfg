CONSTANTS
  n1 = n1
  n2 = n2
  n3 = n3
  c1 = c1
  c2 = c2
  c3 = c3
  c4 = c4
  None = None
  Nodes <- MC_Pair
  Conns <- MC_Conns
  Initiators = {n1, n2}
  ConnectAttempts = 2
  Duplicates = TRUE
SPECIFICATION Spec
INVARIANTS TypeOK
 
CHECK_DEADLOCK FALSE
