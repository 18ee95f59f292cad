\* Two processes over one file and one monitor.
SPECIFICATION FairSpec
CONSTANTS
  Procs = {p1, p2}
  Inputs = {"in1", "in2"}
  DefaultInput = "in1"
  LockChecks = {TRUE}
  DisplayLists <- Lists
  Matching = {"mine"}
  Codes = {"in1", "in2"}
  FragLen = 3
  TextCap = 9
  CapsAttempts = 2
  InputTable = {"in2"}
  ClickBound = 2
INVARIANTS TypeOK RestartRestores OneInstance CapsArePrefix InputsAreAllOrNone MenuFollowsSettings
PROPERTIES FileStaysWhole OnlyMatchIsDriven MenuGetsReady
