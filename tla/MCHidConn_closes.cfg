\* The connection is closed, possibly under a request, and nobody has to listen.
SPECIFICATION FairSpec
CONSTANTS
  Callers = {c1}
  Devices <- One
  HostDevices = {}
  Operations = {"setHost"}
  ErrorFrames = {"short"}
  Attempts = 2
  RespCap = 1
  NoteCap = 1
  ReadsCap = 1
  WireBound = 1
  MayClose = TRUE
PROPERTIES OperationsReturn CloseReturns
