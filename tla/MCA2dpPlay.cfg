SPECIFICATION A2dpSpec
CONSTANTS
  Size = 6
  Items = {"fresh", "stray", "blank"}
  Chunks <- Packets
  Wanted = {0, 1, 2, 3, 4}
  Half = 2
  Start = 3
  MaxWait = 2
  Lengths = {2, 3}
  MaxFaults = 2
INVARIANTS A2dpTypeOK PeekIsFront StrayFirst
PROPERTIES IsFifo LossIsExcused MusicResumes
