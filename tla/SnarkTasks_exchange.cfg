CONSTANTS
  v1 = v1
  v2 = v2
  i1 = i1
  i2 = i2
  s1 = s1
  s2 = s2
  None = None
  Nodes <- MC_Nodes
  TaskIds <- MC_TaskIds
  Circuits <- MC_Circuits
  MaxRequests = 2
SPECIFICATION Spec
INVARIANTS TypeOK ReplyAnswersRequest
CHECK_DEADLOCK FALSE
