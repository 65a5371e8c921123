SPECIFICATION Spec
CONSTANTS
  HWTIMER_NUM = 2
  Ticks <- MCTicks
  MaxElapsed = 4
  MaxPostponed = 1
INVARIANT
  NoNullWrite
