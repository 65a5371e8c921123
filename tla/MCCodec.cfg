SPECIFICATION CodecFairSpec
CONSTANTS
  app = app
  tmr = tmr
  rx = rx
  BootUser = 8
  AppUsers = {8, 10}
  Users = {0, 4, 5, 8, 10}
  Threads = {app, tmr, rx}
  Requests <- MCRequests
  IrqRequests <- MCIrqs
INVARIANTS CodecTypeOK Served VotesFollowCodec
PROPERTIES PllFollowsClock OffWhenClosed GoesOff
