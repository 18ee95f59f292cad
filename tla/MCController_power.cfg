\* Sleeps, wakes and the on/off switch against the detection loop; one keyboard.
SPECIFICATION Spec
CONSTANTS
  Grace = 2
  EventCap = 2
  PowerEvents = {"Sleep", "Wake"}
  Keyboards <- Keyboard
  Mice <- None
  Others <- None
  TriggerChoices = {"keyboard"}
  EnableChoices = {TRUE, FALSE}
  PushChoices = {TRUE}
  PortChanges = {"in"}
  NoteCap = 1
  PendingBound = 1
  LateBound = 1
  MayQuit = FALSE
INVARIANTS TypeOK PowerViewAgrees HoldOffCovers DepartureTracked ArmedIsClear
PROPERTIES NoFireInPowerWindow NoRefireWithoutReturn KeepsPromise
