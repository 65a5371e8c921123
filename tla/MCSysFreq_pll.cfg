SPECIFICATION Spec
CONSTANTS
  app = app
  bt = bt
  BootUser = 8
  AppUsers = {0, 8, 9}
  Users = {0, 8, 9}
  Threads = {app, bt}
  Requests <- Headset
  IrqRequests = {}
INVARIANT PllRuns
