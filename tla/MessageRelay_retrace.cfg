\* Handlers let relay infer every REPORT hop and never name themselves.
CONSTANTS
  n1 = n1
  n2 = n2
  n3 = n3
  None = None
  Nodes <- MC_Nodes
  MaxPath = 5
  MaxReportHops = 6
  SelfHop = FALSE
  ExplicitReportHops = FALSE
SPECIFICATION Spec
INVARIANTS  ReportRetracesPath 
PROPERTIES ReportReachesOrigin
CHECK_DEADLOCK FALSE
