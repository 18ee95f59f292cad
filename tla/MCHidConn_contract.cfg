\* One caller and one device: what a ping tells its caller.
SPECIFICATION Spec
CONSTANTS
  Callers = {c1}
  Devices <- One
  HostDevices <- One
  Operations = {"ping", "setHost"}
  ErrorFrames = {"short"}
  Attempts = 2
  RespCap = 1
  NoteCap = 1
  ReadsCap = 1
  WireBound = 1
  MayClose = FALSE
INVARIANTS TypeOK PingTellsPresence
