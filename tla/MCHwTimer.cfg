SPECIFICATION FairSpec
CONSTANTS
  HWTIMER_NUM = 3
  Ticks <- MCTicks
  MaxElapsed = 3
  MaxPostponed = 1
INVARIANTS
  TypeOK
  ListsMatchStates
  HardwareForHead
  NeverPlannedLate
PROPERTIES
  Fires
  FiredIsHandled
