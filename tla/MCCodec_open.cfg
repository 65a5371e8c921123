SPECIFICATION CodecSpec
CONSTANTS
  app = app
  tmr = tmr
  rx = rx
  BootUser = 8
  AppUsers = {8, 10}
  Users = {0, 4, 5, 8, 10}
  Threads = {app, tmr, rx}
  Requests <- MCRequests
  IrqRequests <- MCIrqs
INVARIANT StreamHasCodec
