\* A keyboard away at start is not noticed when it comes back.
SPECIFICATION FairSpec
CONSTANTS
  Grace = 1
  EventCap = 1
  PowerEvents = {}
  Keyboards <- Keyboard
  Mice <- None
  Others <- None
  TriggerChoices = {"keyboard"}
  EnableChoices = {TRUE}
  PushChoices = {TRUE}
  PortChanges = {"in"}
  NoteCap = 1
  PendingBound = 1
  LateBound = 1
  MayQuit = FALSE
PROPERTIES ReturnIsNoticed
