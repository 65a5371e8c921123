SPECIFICATION HciSpec
CONSTANTS
  Size = 6
  Items = {0, 1, 2, 3, 4, 5, 6, 7, 8, 9, 10}
  Chunks <- Runs
  Wanted = {0, 1, 2, 3, 4, 5, 6}
  Packets <- Three
  Preamble <- Lengths
  MaxMail = 2
  MaxSend = 2
INVARIANTS HciTypeOK PacketsWhole
PROPERTIES AllIsRead
CHECK_DEADLOCK FALSE
