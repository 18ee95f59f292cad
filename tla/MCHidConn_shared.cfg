\* Two callers share the connection, which may be closed.
SPECIFICATION Spec
CONSTANTS
  Callers = {c1, c2}
  Devices <- One
  HostDevices <- One
  Operations = {"ping", "enumerate"}
  ErrorFrames = {"short"}
  Attempts = 1
  RespCap = 1
  NoteCap = 1
  ReadsCap = 1
  WireBound = 1
  MayClose = TRUE
SYMMETRY CallersAlike
INVARIANTS RequestsAreSerialized PingTellsPresence
