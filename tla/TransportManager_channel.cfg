CONSTANTS
  a1 = a1
  a2 = a2
  t1 = t1
  t2 = t2
  t3 = t3
  None = None
  Addrs <- MC_Addrs
  Trans <- MC_Trans2
  ChannelCap = 1
  MaxMsgs = 2
SPECIFICATION Spec
INVARIANTS TypeOK 
PROPERTIES FrameDeliveryRefined CallbacksDrain
CHECK_DEADLOCK FALSE
