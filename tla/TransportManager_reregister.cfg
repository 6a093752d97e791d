CONSTANTS
  a1 = a1
  a2 = a2
  t1 = t1
  t2 = t2
  t3 = t3
  None = None
  Addrs <- MC_Addrs
  Trans <- MC_Trans
  ChannelCap = 1
  MaxMsgs = 0
SPECIFICATION Spec
PROPERTIES RegisterKeepsNewOpen
CHECK_DEADLOCK FALSE
