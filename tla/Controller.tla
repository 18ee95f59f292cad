----------------------------- MODULE Controller -----------------------------
(***************************************************************************)
(* Package app: the detect-and-switch state machine, with the goroutines   *)
(* that share its state under c.mu:                                        *)
(*   supervise   opens the receiver and runs the select loop (variable pc) *)
(*   watchPower  drains the power events of PowerMon                       *)
(*   tray        one goroutine per menu item: SetEnabled, SetTrigger, ...  *)
(*   AfterFunc   the debounce timer, which posts to pendingC               *)
(* Every step below is one critical section of c.mu, one channel operation *)
(* or one HID++ exchange, so anything may happen between a ping's answer   *)
(* and its use.  The receiver, the wireless links and the operating system *)
(* are the environment; a ping is the contract hidpp gives its caller.     *)
(* Which input is written to the monitor, the target host of the mouse and *)
(* the texts shown by the tray steer nothing here and are left out.        *)
(***************************************************************************)
EXTENDS PowerMon

CONSTANTS Keyboards, Mice,  \* receiver slots by device type
          Others,           \* slots of paired devices of another type
          TriggerChoices,   \* values the user gives cfg.Trigger
          EnableChoices,    \* values the user gives cfg.Enabled
          PushChoices,      \* values of cfg.PushMouse
          PortChanges,      \* where the receiver may be: "in", "out"
          NoteCap,          \* capacity of notifyCh (32 in the code)
          PendingBound,     \* bound: departures posted and not yet taken
          LateBound,        \* bound: late replies outstanding at once
          MayQuit           \* whether the user may quit

Devices == Keyboards \cup Mice \cup Others
NoDev == 0
Via == {"note", "poll"}

ASSUME ControllerAssumption ==
  /\ Devices \subseteq Nat \ {0}
  /\ Keyboards \cap Mice = {}
  /\ TriggerChoices \subseteq {"keyboard", "mouse", "either"}
  /\ EnableChoices \subseteq BOOLEAN
  /\ PushChoices \subseteq BOOLEAN
  /\ PortChanges \subseteq {"in", "out"}
  /\ NoteCap \in Nat \ {0}
  /\ PendingBound \in Nat \ {0}
  /\ LateBound \in Nat
  /\ MayQuit \in BOOLEAN

VARIABLES
  enabled, trigger, pushMouse,    \* cfg.Enabled, cfg.Trigger, cfg.PushMouse
  keyboardDev, mouseDev,          \* the devices identified in this session
  present, armed,                 \* is the trigger here; may we fire
  asleep, suppressLeft,           \* watchPower's own view; suppressUntil
  pc,        \* where supervise / runOnce is
  cur,       \* locals of the step runOnce is in
  timer,     \* the running debounce timer: "none", or how it was scheduled
  pendingC,  \* departures whose debounce elapsed (1 buffered, others blocked)
  conn,      \* the open handle: "none", "live", or "dead" once unplugged
  stopping,  \* c.stop is closed
  watching,  \* watchPower runs
  port,      \* environment: the receiver is plugged "in" or "out"
  link,      \* environment: devices whose link to this host is up
  notes,     \* notifyCh: connection notifications not yet read
  late,      \* replies of timed-out requests that are still to come
  userAct,   \* history: what the user did since the last sighting: nothing ("no"),
             \* enabled with the trigger "here" or "away", or picked another ("retarget")
  firedAway  \* history: fired, and the trigger was not seen since

cfgVars == <<enabled, trigger, pushMouse>>
devVars == <<keyboardDev, mouseDev>>
armVars == <<present, armed>>
watchVars == <<asleep, suppressLeft, watching>>
waitVars == <<timer, pendingC>>
envVars == <<port, link, notes, late>>
histVars == <<userAct, firedAway>>
vars == <<pmVars, cfgVars, devVars, armVars, watchVars, pc, cur, waitVars,
          conn, stopping, envVars, histVars>>

\* The locals of a step: the device it is about, how a departure was seen, the
\* pings it may still send, what the device answered.
Work(dev, via, tries, ans) ==
  [dev |-> dev, via |-> via, tries |-> tries, ans |-> ans, found |-> {}]
Idle == Work(NoDev, "poll", 0, FALSE)

PC == {"open", "collect", "assign", "initPing", "initSet", "select", "poll",
       "observed", "confirm", "confirmed", "switching", "backoff", "done"}

\* The detection loop is running.
Looping == pc \in {"select", "poll", "observed", "confirm", "confirmed", "switching"}

SettingsOK ==
  /\ enabled \in BOOLEAN /\ pushMouse \in BOOLEAN
  /\ trigger \in {"keyboard", "mouse", "either"}
  /\ keyboardDev \in Devices \cup {NoDev}
  /\ mouseDev \in Devices \cup {NoDev}

ArmingOK ==
  /\ present \in BOOLEAN /\ armed \in BOOLEAN
  /\ asleep \in BOOLEAN
  /\ watching \in BOOLEAN /\ stopping \in BOOLEAN
  /\ userAct \in {"no", "here", "away", "retarget"} /\ firedAway \in BOOLEAN

\* What notifyCh carries: the link of a device was established or lost.
Notifications == [dev : Devices, up : BOOLEAN]

Works == [dev : Devices \cup {NoDev}, via : Via, tries : 0..3,
          ans : BOOLEAN, found : SUBSET Devices]

HoldOffOK == suppressLeft \in 0..Grace

StepOK ==
  /\ pc \in PC
  /\ cur \in Works
  /\ pc = "confirm" => cur.tries > 0

WaitOK ==
  /\ timer \in Via \cup {"none"}
  /\ pendingC \in Seq(Via) /\ Len(pendingC) <= PendingBound

LinksOK ==
  /\ conn \in {"none", "live", "dead"} /\ port \in {"in", "out"}
  /\ link \subseteq Devices

LateOK == late \in 0..LateBound

NotesOK == notes \in Seq(Notifications) /\ Len(notes) <= NoteCap

TypeOK ==
  /\ PmTypeOK /\ SettingsOK /\ ArmingOK /\ HoldOffOK
  /\ StepOK /\ WaitOK /\ LinksOK /\ LateOK /\ NotesOK

-----------------------------------------------------------------------------
(* Decisions, each taken under c.mu.                                       *)

\* Bug: trust only what watchPower has already handled.
SuppressedOnceHandled == asleep \/ suppressLeft > 0

\* isSuppressedLocked.
IsSuppressed == asleep \/ suppressLeft > 0 \/ PmSuppressed

\* triggerDevice, for a trigger setting and a pair of identified devices.
TriggerOf(t, kbd, mouse) ==
  IF t = "mouse" \/ (t = "either" /\ kbd = NoDev) THEN mouse ELSE kbd

TriggerDevice == TriggerOf(trigger, keyboardDev, mouseDev)

\* onDepartStart's answer, and fireSwitch's re-check.
MayFire == armed /\ enabled /\ ~IsSuppressed

\* The lowest slot of S, or NoDev.
First(S) == IF \E d \in S : \A e \in S : d <= e
            THEN CHOOSE d \in S : \A e \in S : d <= e
            ELSE NoDev

\* What identifyDevices assigns, given the connected slots whose type was read
\* and those whose type was not.  A slot without an entry in "types" reads as 0,
\* which is DeviceKeyboard: the first pass takes it for a keyboard.  What is left
\* of the untyped slots then fills an empty mouse slot.
AssignKeyboard(typed, untyped) == First((typed \cap Keyboards) \cup untyped)
AssignMouse(typed, untyped) ==
  IF typed \cap Mice # {} THEN First(typed \cap Mice)
  ELSE First(untyped \ {AssignKeyboard(typed, untyped)})

\* How many failed pings confirm a departure: one after an authoritative
\* notification (pingPresentQuick), three after a poll (pingPresentConfirm).
Confirmations(via) == IF via = "note" THEN 1 ELSE 3

-----------------------------------------------------------------------------
(* One HID++ ping.  A device on this host may fail to answer in time (its  *)
(* reply drowns in its input stream, or another program holds it).  Its    *)
(* late reply may then be taken for the reply of a later ping: hidpp tells *)
(* replies apart by device and function only, and what is left in respCh   *)
(* not even by those (module HidConn).                                     *)

OneMoreLate == IF late < LateBound THEN late + 1 ELSE late

Ping(d, answer) ==
  IF answer
  THEN /\ conn = "live"
       /\ d \in link \/ late > 0
       /\ late' = IF d \in link THEN late ELSE late - 1
  ELSE late' = IF conn = "live" /\ d \in link THEN OneMoreLate ELSE late

-----------------------------------------------------------------------------
(* onPresent and onDepartStart, the two state helpers.                     *)

\* Bug: onPresent without the suppression test.
ArmOnSight == armed' = TRUE

\* Bug: arm only on the absent-to-present edge.
ArmOnEdge == armed' = (armed \/ (~present /\ ~IsSuppressed))

\* onPresent's assignment to armed.
Rearm == armed' = (armed \/ ~IsSuppressed)

\* onPresent.  "sighted" tells a real sighting from the caller that has no
\* trigger device at all (trig == 0 when a departure is confirmed).
OnPresent(sighted) ==
  /\ present' = TRUE
  /\ Rearm
  /\ userAct' = IF ~IsSuppressed \/ userAct = "retarget" THEN "no"
                ELSE IF userAct = "away" THEN "here" ELSE userAct
  /\ firedAway' = (firedAway /\ ~sighted)

\* Bug: a departure that only the polling backstop sees is not scheduled.
DepartUnscheduled(via) ==
  /\ present' = FALSE
  /\ timer' = IF present /\ MayFire /\ via = "note" THEN via ELSE timer
  /\ UNCHANGED <<armed, pendingC, userAct, firedAway>>

\* onDepartStart; when it answers true, scheduleDepart restarts the timer.
OnDepart(via) ==
  /\ present' = FALSE
  /\ timer' = IF present /\ MayFire THEN via ELSE timer
  /\ UNCHANGED <<armed, pendingC, userAct, firedAway>>

-----------------------------------------------------------------------------
(* supervise and the opening half of runOnce.                              *)

\* What every step of supervise leaves alone.
SupervisorFrame ==
  UNCHANGED <<pmVars, cfgVars, watchVars, stopping, port>>

\* OpenFirst finds the receiver; hidpp.Open starts on fresh channels.  The
\* requests made before the loop starts may already leave late replies.
OpenReceiver ==
  /\ pc = "open" /\ ~stopping /\ port = "in"
  /\ conn' = "live" /\ notes' = <<>> /\ late' \in 0..LateBound
  /\ pc' = "collect"
  /\ SupervisorFrame /\ UNCHANGED <<devVars, armVars, waitVars, cur, link, histVars>>

\* OpenFirst fails: no receiver, or none of its collections opens.
OpenFails ==
  /\ pc = "open" /\ ~stopping
  /\ pc' = "backoff"
  /\ SupervisorFrame
  /\ UNCHANGED <<devVars, armVars, waitVars, cur, conn, link, notes, late, histVars>>

\* The 3 s backoff elapses.
Retry ==
  /\ pc = "backoff" /\ ~stopping
  /\ pc' = "open"
  /\ SupervisorFrame
  /\ UNCHANGED <<devVars, armVars, waitVars, cur, conn, link, notes, late, histVars>>

\* discoverConnected: some of the devices on this host are announced (or, if
\* none is, answer a ping); every notification read on the way is consumed.
Collect ==
  /\ pc = "collect"
  /\ \E s \in SUBSET (IF conn = "live" THEN link ELSE {}) :
        cur' = [Idle EXCEPT !.found = s]
  /\ notes' = <<>>
  /\ pc' = "assign"
  /\ SupervisorFrame /\ UNCHANGED <<devVars, armVars, waitVars, conn, link, late, histVars>>

\* identifyDevices' assignment, then runOnce's reading of the trigger device (a
\* setting changed between the two might as well have changed just before).
Assign ==
  /\ pc = "assign"
  /\ \E typed \in SUBSET cur.found :
       LET kbd   == AssignKeyboard(typed, cur.found \ typed)
           mouse == AssignMouse(typed, cur.found \ typed)
           trig  == TriggerOf(trigger, kbd, mouse)
       IN /\ keyboardDev' = kbd
          /\ mouseDev' = mouse
          /\ cur' = Work(trig, "poll", 0, FALSE)
          /\ pc' = IF trig = NoDev THEN "initSet" ELSE "initPing"
  /\ SupervisorFrame
  /\ UNCHANGED <<armVars, waitVars, conn, link, notes, late, histVars>>

InitPing ==
  /\ pc = "initPing"
  /\ \E a \in BOOLEAN : Ping(cur.dev, a) /\ cur' = [cur EXCEPT !.ans = a]
  /\ pc' = "initSet"
  /\ SupervisorFrame
  /\ UNCHANGED <<devVars, armVars, waitVars, conn, link, notes, histVars>>

\* Presence is initialised; arm only if the trigger is here now.
InitSet ==
  /\ pc = "initSet"
  /\ present' = cur.ans
  /\ armed' = (cur.ans /\ ~IsSuppressed)
  /\ userAct' = "no"
  /\ firedAway' = (firedAway /\ ~cur.ans)
  /\ timer' = "none" /\ pendingC' = <<>>
  /\ cur' = Idle /\ pc' = "select"
  /\ SupervisorFrame /\ UNCHANGED <<devVars, conn, link, notes, late>>

\* Bug: the supervisor does not watch c.stop during its backoff.
ExitOnlyInSession ==
  /\ pc = "select" /\ stopping
  /\ pc' = "done" /\ conn' = "none" /\ cur' = Idle
  /\ timer' = "none" /\ pendingC' = <<>> /\ notes' = <<>> /\ late' = 0
  /\ SupervisorFrame /\ UNCHANGED <<devVars, armVars, link, histVars>>

\* c.stop is seen at the top of supervise, in its backoff, or in the select of
\* runOnce; leaving runOnce closes the connection.
Exit ==
  /\ pc \in {"open", "backoff", "select"} /\ stopping
  /\ pc' = "done" /\ conn' = "none" /\ cur' = Idle
  /\ timer' = "none" /\ pendingC' = <<>> /\ notes' = <<>> /\ late' = 0
  /\ SupervisorFrame /\ UNCHANGED <<devVars, armVars, link, histVars>>

-----------------------------------------------------------------------------
(* The select loop of runOnce.  Go picks at random among the ready cases.  *)

\* case n := <-notes.  A notification of another device, or while there is no
\* trigger device, is only consumed (interpret).
TakeNote ==
  /\ pc = "select" /\ notes # <<>>
  /\ notes' = Tail(notes)
  /\ IF TriggerDevice # NoDev /\ Head(notes).dev = TriggerDevice
     THEN /\ pc' = "observed"
          /\ cur' = Work(TriggerDevice, "note", 0, Head(notes).up)
     ELSE UNCHANGED <<pc, cur>>
  /\ SupervisorFrame
  /\ UNCHANGED <<devVars, armVars, waitVars, conn, link, late, histVars>>

\* case <-poll.C; without a trigger device the tick is skipped.
PollTick ==
  /\ pc = "select" /\ TriggerDevice # NoDev
  /\ pc' = "poll"
  /\ cur' = Work(TriggerDevice, "poll", 0, FALSE)
  /\ SupervisorFrame
  /\ UNCHANGED <<devVars, armVars, waitVars, conn, link, notes, late, histVars>>

\* pingPresent.
Poll ==
  /\ pc = "poll"
  /\ \E a \in BOOLEAN : Ping(cur.dev, a) /\ cur' = [cur EXCEPT !.ans = a]
  /\ pc' = "observed"
  /\ SupervisorFrame
  /\ UNCHANGED <<devVars, armVars, waitVars, conn, link, notes, histVars>>

\* The rest of both cases: cancelPending and onPresent, or onDepartStart.
\* Stopping a timer that has already fired does not take back what it posted.
Observe ==
  /\ pc = "observed"
  /\ \/ cur.ans /\ timer' = "none" /\ OnPresent(TRUE) /\ UNCHANGED pendingC
     \/ ~cur.ans /\ OnDepart(cur.via)
  /\ pc' = "select" /\ cur' = Idle
  /\ SupervisorFrame /\ UNCHANGED <<devVars, conn, link, notes, late>>

\* The AfterFunc of scheduleDepart posts to pendingC.
DebounceElapses ==
  /\ timer # "none" /\ Len(pendingC) < PendingBound
  /\ pendingC' = Append(pendingC, timer)
  /\ timer' = "none"
  /\ SupervisorFrame
  /\ UNCHANGED <<pc, devVars, armVars, cur, conn, link, notes, late, histVars>>

\* case viaNote := <-pendingC.  Without a trigger device nothing is pinged and
\* the device counts as still here.
TakePending ==
  /\ pc = "select" /\ pendingC # <<>>
  /\ pendingC' = Tail(pendingC)
  /\ IF TriggerDevice = NoDev
     THEN /\ pc' = "confirmed"
          /\ cur' = Work(NoDev, Head(pendingC), 0, TRUE)
     ELSE /\ pc' = "confirm"
          /\ cur' = Work(TriggerDevice, Head(pendingC), Confirmations(Head(pendingC)), FALSE)
  /\ SupervisorFrame
  /\ UNCHANGED <<devVars, armVars, timer, conn, link, notes, late, histVars>>

\* One ping of pingPresentQuick or pingPresentConfirm.
Confirm ==
  /\ pc = "confirm"
  /\ \E a \in BOOLEAN :
       /\ Ping(cur.dev, a)
       /\ cur' = [cur EXCEPT !.ans = a, !.tries = IF a THEN 0 ELSE cur.tries - 1]
       /\ pc' = IF a \/ cur.tries = 1 THEN "confirmed" ELSE "confirm"
  /\ SupervisorFrame
  /\ UNCHANGED <<devVars, armVars, waitVars, conn, link, notes, histVars>>

\* Still present: onPresent, without cancelling a newer timer.
StillHere ==
  /\ pc = "confirmed" /\ cur.ans
  /\ OnPresent(cur.dev # NoDev)
  /\ pc' = "select" /\ cur' = Idle
  /\ SupervisorFrame /\ UNCHANGED <<devVars, waitVars, conn, link, notes, late>>

\* Bug: fireSwitch leaves armed set.
KeepArmed == armed' = armed

\* "don't refire until the device returns".
DisarmOnFire == armed' = FALSE

\* fireSwitch's decision and the snapshot of what it will do.
FireSwitch ==
  /\ pc = "confirmed" /\ ~cur.ans
  /\ MayFire
  /\ DisarmOnFire /\ UNCHANGED present
  /\ firedAway' = TRUE
  /\ cur' = Work(IF pushMouse THEN mouseDev ELSE NoDev, "poll", 0, FALSE)
  /\ pc' = "switching"
  /\ SupervisorFrame /\ UNCHANGED <<devVars, waitVars, conn, link, notes, late, userAct>>

\* fireSwitch gives up: disabled, disarmed or suppressed since.
FireAborted ==
  /\ pc = "confirmed" /\ ~cur.ans
  /\ ~MayFire
  /\ pc' = "select" /\ cur' = Idle
  /\ SupervisorFrame
  /\ UNCHANGED <<devVars, armVars, waitVars, conn, link, notes, late, histVars>>

\* Bug: readLoop does not look at the room left in notifyCh.
AnnouncedRegardless(d, up) ==
  IF conn = "live" THEN {Append(notes, [dev |-> d, up |-> up])} ELSE {notes}

\* What the receiver may report of device d: nothing, or a notification, which
\* is dropped when notifyCh is full.
Announced(d, up) ==
  IF conn = "live" /\ Len(notes) < NoteCap
  THEN {notes, Append(notes, [dev |-> d, up |-> up])}
  ELSE {notes}

\* SetHost, beside the monitor write: the mouse leaves, or the command fails.
PushFollow ==
  /\ pc = "switching" /\ cur.dev # NoDev
  /\ cur' = Idle
  /\ \/ UNCHANGED <<link, notes>>
     \/ /\ conn = "live" /\ cur.dev \in link
        /\ link' = link \ {cur.dev}
        /\ notes' \in Announced(cur.dev, FALSE)
  /\ SupervisorFrame
  /\ late' \in {late, OneMoreLate}
  /\ UNCHANGED <<pc, devVars, armVars, waitVars, conn, histVars>>

\* Bug: pushWG.Add also when there is no mouse to push, and nobody to call Done.
SwitchAwaitsMouse ==
  /\ pc = "switching" /\ cur.dev = NoDev
  /\ pushMouse => mouseDev # NoDev
  /\ pc' = "select"
  /\ SupervisorFrame
  /\ UNCHANGED <<devVars, armVars, waitVars, cur, conn, link, notes, late, histVars>>

\* The monitor write is over, well or not, and pushWG.Wait returns.
SwitchDone ==
  /\ pc = "switching" /\ cur.dev = NoDev
  /\ pc' = "select"
  /\ SupervisorFrame
  /\ UNCHANGED <<devVars, armVars, waitVars, cur, conn, link, notes, late, histVars>>

Supervisor ==
  \/ OpenReceiver \/ OpenFails \/ Retry
  \/ Collect \/ Assign \/ InitPing \/ InitSet
  \/ Poll \/ Observe \/ Confirm \/ StillHere \/ FireSwitch \/ FireAborted
  \/ PushFollow \/ SwitchDone

-----------------------------------------------------------------------------
(* watchPower.                                                             *)

\* Bug: the wake handler forgets its own hold-off.
WakeWithoutHoldOff == suppressLeft' = suppressLeft

\* suppressUntil = now + wakeGrace.
HoldOff == suppressLeft' = Grace

\* Bug: the wake case does not clear asleep.
SleepSticks(e) == asleep' = (asleep \/ e = "Sleep")

NotePower(e) == asleep' = (e = "Sleep")

\* Either case disarms; a wake also forgets that the trigger was here.
WatchPower ==
  /\ watching /\ events # <<>>
  /\ events' = Tail(events)
  /\ armed' = FALSE
  /\ NotePower(Head(events))
  /\ IF Head(events) = "Wake" THEN present' = FALSE /\ HoldOff
                              ELSE UNCHANGED <<present, suppressLeft>>
  /\ UNCHANGED <<pmAsleep, wakeLeft, lost, cfgVars, devVars, watching, pc, cur,
                 waitVars, conn, stopping, envVars, histVars>>

WatchExit ==
  /\ watching /\ stopping
  /\ watching' = FALSE
  /\ UNCHANGED <<pmVars, cfgVars, devVars, armVars, asleep, suppressLeft, pc, cur,
                 waitVars, conn, stopping, envVars, histVars>>

-----------------------------------------------------------------------------
(* The tray.                                                               *)

\* SetEnabled; the menu item always asks for the opposite of the current value.
SetEnabled ==
  /\ \E v \in EnableChoices \ {enabled} :
       /\ enabled' = v
       /\ armed' = IF ~v THEN FALSE ELSE armed \/ present
       /\ userAct' = IF ~v THEN userAct ELSE IF present \/ TriggerDevice \in link THEN "here"
                   ELSE "away"
       /\ firedAway' = (firedAway /\ ~v)
  /\ UNCHANGED <<pmVars, trigger, pushMouse, devVars, present, watchVars, pc, cur,
                 waitVars, conn, stopping, envVars>>

SetTrigger ==
  /\ trigger' \in TriggerChoices \ {trigger}
  /\ userAct' = IF userAct = "no" THEN "retarget" ELSE userAct
  /\ firedAway' = FALSE
  /\ UNCHANGED <<pmVars, enabled, pushMouse, devVars, armVars, watchVars, pc, cur,
                 waitVars, conn, stopping, envVars>>

SetPushMouse ==
  /\ pushMouse' \in PushChoices \ {pushMouse}
  /\ UNCHANGED <<pmVars, enabled, trigger, devVars, armVars, watchVars, pc, cur,
                 waitVars, conn, stopping, envVars, histVars>>

\* Stop, called by the tray's onExit.
Stop ==
  /\ MayQuit /\ ~stopping
  /\ stopping' = TRUE
  /\ UNCHANGED <<pmVars, cfgVars, devVars, armVars, watchVars, pc, cur, waitVars,
                 conn, envVars, histVars>>

User == SetEnabled \/ SetTrigger \/ SetPushMouse \/ Stop

-----------------------------------------------------------------------------
(* The environment.                                                        *)

\* A device roams to another host, or comes to this one.
DeviceMoves ==
  \E d \in Devices :
    /\ link' = IF d \in link THEN link \ {d} ELSE link \cup {d}
    /\ notes' \in Announced(d, d \notin link)
    /\ UNCHANGED <<pmVars, cfgVars, devVars, armVars, watchVars, pc, cur, waitVars,
                   conn, stopping, port, late, histVars>>

\* The receiver is unplugged, which kills an open handle without closing the
\* connection (no reader reports it), or plugged in again.
PortMoves ==
  /\ port' \in PortChanges \ {port}
  /\ conn' = IF conn = "live" THEN "dead" ELSE conn
  /\ late' = 0
  /\ UNCHANGED <<pmVars, cfgVars, devVars, armVars, watchVars, pc, cur, waitVars,
                 stopping, link, notes, histVars>>

Power ==
  /\ PowerCallback
  /\ UNCHANGED <<cfgVars, devVars, armVars, watchVars, pc, cur, waitVars, conn,
                 stopping, envVars, histVars>>

Less(n) == IF n = 0 THEN 0 ELSE n - 1

\* Time passes for both hold-offs.
Tick ==
  /\ wakeLeft > 0 \/ suppressLeft > 0
  /\ wakeLeft' = Less(wakeLeft)
  /\ suppressLeft' = Less(suppressLeft)
  /\ UNCHANGED <<pmAsleep, events, lost, cfgVars, devVars, armVars, asleep, watching,
                 pc, cur, waitVars, conn, stopping, envVars, histVars>>

Environment == DeviceMoves \/ PortMoves \/ Power \/ Tick

-----------------------------------------------------------------------------
\* New and Start: the configuration is what config.Load returned.
Init ==
  /\ PmInit
  /\ enabled \in EnableChoices /\ trigger \in TriggerChoices
  /\ pushMouse \in PushChoices
  /\ keyboardDev = NoDev /\ mouseDev = NoDev
  /\ present = FALSE /\ armed = FALSE
  /\ asleep = FALSE /\ suppressLeft = 0 /\ watching = TRUE
  /\ pc = "open" /\ cur = Idle
  /\ timer = "none" /\ pendingC = <<>>
  /\ conn = "none" /\ stopping = FALSE
  /\ port \in PortChanges /\ link \in SUBSET Devices
  /\ notes = <<>> /\ late = 0
  /\ userAct = "no" /\ firedAway = FALSE

Next ==
  \/ Supervisor
  \/ TakeNote \/ PollTick \/ TakePending \/ Exit
  \/ DebounceElapses
  \/ WatchPower \/ WatchExit
  \/ User
  \/ Environment

Spec == Init /\ [][Next]_vars

(***************************************************************************)
(* Fairness.  supervise never blocks for good inside a step: every HID++   *)
(* request has a timeout and every wait a timer, hence WF.  The cases of a *)
(* select are chosen uniformly among the ready ones, so a case that is     *)
(* ready again and again is taken: SF.  Timers expire and goroutines are   *)
(* scheduled.  A device on this host does not drown every one of its       *)
(* replies: SF of the pings that are answered.                             *)
(***************************************************************************)
PingAnswered == (InitPing \/ Poll \/ Confirm) /\ cur'.ans

Fairness ==
  /\ WF_vars(Supervisor)
  /\ SF_vars(TakeNote) /\ SF_vars(PollTick) /\ SF_vars(TakePending) /\ SF_vars(Exit)
  /\ SF_vars(PingAnswered)
  /\ WF_vars(DebounceElapses) /\ WF_vars(WatchPower) /\ WF_vars(Tick)

FairSpec == Spec /\ Fairness

-----------------------------------------------------------------------------
(* Safety.                                                                 *)

\* The step in which fireSwitch commits to a switch.
Fires == pc = "confirmed" /\ pc' = "switching"

\* watchPower's copy of the power state lags powermon's by exactly the events
\* it has not drained: with none pending the two agree, otherwise the newest
\* event tells what the machine last did (unless the channel overflowed).
PowerViewAgrees ==
  ~lost => pmAsleep = IF events = <<>> THEN asleep ELSE events[Len(events)] = "Sleep"

\* Once every wake is drained, the controller's own hold-off outlasts the one
\* that powermon computes from lastWake: draining late never shortens it.
HoldOffCovers ==
  ~lost /\ (\A i \in 1..Len(events) : events[i] # "Wake") => suppressLeft >= wakeLeft

\* Outside the tray's own doing, armed implies that no power transition forbids
\* firing, as soon as watchPower has caught up.
ArmedIsClear ==
  armed /\ userAct \in {"no", "retarget"} /\ events = <<>> /\ ~lost => ~IsSuppressed

\* A departure is on its way to fireSwitch.
DepartureInHand ==
  timer # "none" \/ pendingC # <<>> \/ pc \in {"confirm", "confirmed"}

\* No roam is forgotten: an armed, enabled controller whose trigger has left has
\* that departure in hand, unless a power event is still to be drained or was
\* lost, or the user armed it by hand since the trigger was last sighted.
DepartureTracked ==
  Looping /\ armed /\ enabled /\ ~present /\ userAct \in {"no", "retarget"}
          /\ events = <<>> /\ ~lost
    => DepartureInHand

\* "A connected device whose type we couldn't read (typically a busy mouse) fills
\* the still-empty mouse (then keyboard) slot": a mouse ends up in the keyboard's
\* slot only when the mouse's slot is taken.
BusyMouseFillsMouseSlot == keyboardDev \in Mice => mouseDev # NoDev

\* From the sleep callback until the grace period after the wake callback no
\* switch fires, however late watchPower is scheduled ("cannot be out-raced").
NoFireInPowerWindow == [][Fires => ~PmSuppressed]_vars

\* "Don't refire until the device returns": between two switches the trigger is
\* sighted, or the user enables switching or picks another trigger, however
\* many stale departures are still queued.
NoRefireWithoutReturn == [][Fires => ~firedAway]_vars

-----------------------------------------------------------------------------
(* Liveness, under FairSpec.                                               *)

\* A roam of an armed, enabled trigger that lasts is acted on, by notification
\* or by the polling backstop, unless a power transition, the user or the
\* device's return intervenes.
RoamIsActedOn ==
  Looping /\ present /\ armed /\ enabled /\ TriggerDevice # NoDev /\ TriggerDevice \notin link
    ~> \/ pc = "switching"
       \/ TriggerDevice = NoDev \/ TriggerDevice \in link
       \/ ~enabled \/ IsSuppressed \/ stopping

\* Suspension ends: once the machine has been awake for the grace period, an
\* identified trigger that is on this host gets armed again, whatever watchPower's
\* own state was, unless a power event was dropped or another transition comes.
RearmsWhenBack ==
  Looping /\ conn = "live" /\ TriggerDevice # NoDev /\ TriggerDevice \in link /\ ~PmSuppressed
    ~> \/ armed
       \/ conn # "live" \/ TriggerDevice = NoDev \/ TriggerDevice \notin link
       \/ PmSuppressed \/ lost \/ stopping

\* Stop returns: supervise closes done once c.stop is closed.
StopReturns == stopping ~> pc = "done"

\* "It keeps (re)opening the receiver if it goes away": a session whose receiver
\* was unplugged ends, so that a new one can open the receiver.
UnplugEndsSession == conn = "dead" ~> conn # "dead"

\* "Nothing happens until it comes back and leaves again": a keyboard that was
\* away and is back for good is armed for its next departure.
KeyboardAway == Looping /\ Keyboards \cap link = {}
KeyboardBack == Looping /\ conn = "live" /\ trigger = "keyboard" /\ ~pmAsleep
                /\ Keyboards \subseteq link
ReturnIsNoticed == [](KeyboardAway /\ <>[]KeyboardBack => <>armed)

-----------------------------------------------------------------------------
(* The controller implements AutoSwitch.                                   *)

PowerState == IF pmAsleep THEN "down" ELSE IF wakeLeft > 0 THEN "settling" ELSE "up"

Promise == INSTANCE AutoSwitch WITH
  on <- enabled, ready <- ~firedAway, power <- PowerState, switching <- (pc = "switching")

\* Every interleaving of the goroutines is, seen by the user, a behaviour of AutoSwitch.
KeepsPromise == Promise!Spec

\* And under FairSpec it keeps the promise that a switch ends, with a mouse to push
\* or without one, also while the program is told to stop.
KeepsFairPromise == Promise!FairSpec
=============================================================================
