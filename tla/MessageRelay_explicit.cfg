\* Handlers may pass any DID as the next hop, their own included, and REPORT
\* handlers may name the next hop themselves (Some(next_hop)).
CONSTANTS
  n1 = n1
  n2 = n2
  n3 = n3
  None = None
  Nodes <- MC_Nodes
  MaxPath = 5
  MaxReportHops = 6
  SelfHop = TRUE
  ExplicitReportHops = TRUE
SPECIFICATION Spec
INVARIANTS TypeOK ReportEndsAtOrigin
CHECK_DEADLOCK FALSE
