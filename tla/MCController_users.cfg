\* The tray against the detection loop: two devices, on and off, the trigger;
\* no power events.
SPECIFICATION Spec
CONSTANTS
  Grace = 1
  EventCap = 1
  PowerEvents = {}
  Keyboards <- Keyboard
  Mice <- Mouse
  Others <- None
  TriggerChoices = {"keyboard", "mouse"}
  EnableChoices = {TRUE, FALSE}
  PushChoices = {TRUE}
  PortChanges = {"in"}
  NoteCap = 1
  PendingBound = 2
  LateBound = 1
  MayQuit = FALSE
INVARIANTS DepartureTracked
PROPERTIES NoRefireWithoutReturn
