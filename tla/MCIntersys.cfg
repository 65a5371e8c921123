SPECIFICATION Live
CONSTANTS
  Records = {0, 1, 2}
  MaxSend = 4
  Batches <- TwoLists
INVARIANTS TypeOK ConfirmedIsHeard BusyWhileSending
PROPERTIES Arrives SendIsConfirmed
CHECK_DEADLOCK FALSE
