SPECIFICATION FairSpec
CONSTANTS
  MaxEvents = 4
  MaxForwards = 2
INVARIANTS NoLostWakeup NothingLost LeavingAborts
PROPERTIES InOrder Delivered
CHECK_DEADLOCK FALSE
