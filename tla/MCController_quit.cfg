\* Quitting ends the supervisor wherever it is, and a switch ends, with a mouse to
\* push or without one: the mouse is the trigger, and may be taken for a keyboard.
SPECIFICATION FairSpec
CONSTANTS
  Grace = 1
  EventCap = 1
  PowerEvents = {}
  Keyboards <- None
  Mice <- Mouse
  Others <- None
  TriggerChoices = {"either"}
  EnableChoices = {TRUE}
  PushChoices = {TRUE, FALSE}
  PortChanges = {"in", "out"}
  NoteCap = 1
  PendingBound = 1
  LateBound = 1
  MayQuit = TRUE
PROPERTIES StopReturns KeepsFairPromise
CHECK_DEADLOCK FALSE
