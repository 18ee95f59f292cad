\* A busy mouse whose type cannot be read while devices are identified.
SPECIFICATION Spec
CONSTANTS
  Grace = 1
  EventCap = 1
  PowerEvents = {}
  Keyboards <- Keyboard
  Mice <- Mouse
  Others <- None
  TriggerChoices = {"keyboard"}
  EnableChoices = {TRUE}
  PushChoices = {FALSE}
  PortChanges = {"in"}
  NoteCap = 1
  PendingBound = 1
  LateBound = 1
  MayQuit = FALSE
INVARIANTS BusyMouseFillsMouseSlot
