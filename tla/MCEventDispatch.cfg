SPECIFICATION FairSpec
CONSTANTS
  MaxEvents = 2
  ChanCap = 1
INVARIANTS
  FifoNoLoss
  NoLostWakeup
PROPERTIES
  CometDelivery
  StopTerminates
CHECK_DEADLOCK FALSE
