\* A lasting roam is acted on, and switching resumes after any sleep and wake.
SPECIFICATION FairSpec
CONSTANTS
  Grace = 1
  EventCap = 1
  PowerEvents = {"Sleep", "Wake"}
  Keyboards <- Keyboard
  Mice <- None
  Others <- None
  TriggerChoices = {"keyboard"}
  EnableChoices = {TRUE}
  PushChoices = {TRUE}
  PortChanges = {"in"}
  NoteCap = 1
  PendingBound = 1
  LateBound = 1
  MayQuit = FALSE
PROPERTIES RoamIsActedOn RearmsWhenBack
