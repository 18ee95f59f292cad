# A verification of logiMonitorSwitch

logiMonitorSwitch watches a keyboard or a mouse on a Logitech receiver. When the
device roams to another computer, it switches the monitor's input to that
computer and can push the mouse after it. This directory holds TLA+ models of
the program, the TLC configurations that check them and the proofs that TLAPS
checks. Paths are relative to the repository; `controller.go` is
`internal/app/controller.go`, `hidpp.go` is `internal/hidpp/hidpp.go`.

    tlc -workers 2 -config MCController_power.cfg MCController
    tlc -workers 2 -config MCHidConn_contract.cfg MCHidConn
    tlc -workers 2 -config MCHidTransport_transport.cfg MCHidTransport
    tlc -workers 2 -config MCTray_tray.cfg MCTray
    for m in Controller HidConn HidTransport Ddc Tray Menu; do tlapm ${m}Proofs.tla; done
    tlapm LoopLemmas.tla

`PROJECT.json` lists the runs, what each checks, the source lines behind every
definition, a mutation for every property that a run holds, the disagreements
found, and the hazards of the code.

## Inventory

| part | state | operations | talks to |
|---|---|---|---|
| controller (`internal/app`) | settings, identified devices, `present`, `armed`, `asleep`, `suppressUntil` under `c.mu`; locals of `runOnce` (timer, `pendingC`, connection) | `supervise`, `runOnce`, `watchPower`, `fireSwitch`, `identifyDevices`, the setters, `Stop` | all of the others |
| power monitor (`internal/powermon`) | `asleep`, `lastWake`, a channel of 8 events | OS callback to `emit`; `Suppressed` | controller: read directly, and by event |
| HID++ connection (`internal/hidpp`) | `reqMu`, `curMatch`, `respCh`, `notifyCh`, `closed` | `request` and what is built on it, `readLoop`, `Close` | controller, transport |
| HID transport (`internal/hidtransport`) | handles, `reads`, `closed` | `Find`, `Open`, `readerLoop`, `Read`, `Write`, `Close` | HID++ connection |
| monitor control (`internal/ddc`) | none | `SetInputByMatch`, `SupportedInputs`, the DDC/CI exchanges | controller, tray |
| configuration (`internal/config`) | the settings and their file | `Load`, `Save` | controller, tray |
| tray (`internal/tray`) | menu, icon, `present` | one goroutine per menu item, UI callbacks | controller |
| single instance (`internal/singleton`) | a lock | `Acquire` | program entry |
| program entry (`cmd/logimonitorswitch`) | none | takes the lock, loads the settings, runs the tray | all |
| start at login, notifications, icon, probe tool, build script | none shared | | |

**Goroutines.** `supervise` (detection loop), `watchPower`, the OS power
callback, one goroutine per menu item, one `AfterFunc` per debounced departure,
the push of the mouse inside `fireSwitch`, `readLoop`, and one reader per HID
handle. They share `c.mu`, the power state, and channels that drop or block
when they are full.

**What is hard.** The machine's sleep and wake look like roams on the wireless
link, and are reported twice, by state and by event. Departures are debounced
by a timer whose message cannot be recalled. Pings are answered late or not at
all, and replies carry no request number. The user may change settings between
a ping and the decision that uses it. A receiver may be unplugged, its
collections may open only in part, and several readers feed one channel whose
consumer stops before `Close` does. Every menu item saves from a goroutine of
its own, and the process may end in the middle of any of them. A monitor
answers its bus late, twice or never.

**What makes the parts correct.**

* Controller: it fires only for a real departure, at most once per departure,
  never around a sleep; it does fire when the device leaves; it arms again
  after the device, or the machine, comes back; `Stop` returns.
* Power monitor and `watchPower`: the two views of the power state agree up to
  events not yet handled, and handling one late shortens no hold-off.
* HID++ connection: one request at a time; an answer to a ping tells that the
  device is here; every request and `Close` end.
* Transport: what is opened is all of one receiver; requests go to the short
  collection; no report is lost or reordered between a handle and `Read`;
  nothing is left running or open after `Close`.
* Configuration: the file holds the last settings, or the ones before, never
  half, and a restart finds them. Single instance: one process runs.
* Monitor control: only the display that was asked for is switched; the list of
  inputs is the display's list, never a part of it.
* Tray: its boxes show the settings; it gets built whatever the monitor does.

## Modules

| module | models |
|---|---|
| `PowerMon` | package powermon: callback, state and event channel |
| `Controller` | package app, extends `PowerMon`; links, receiver port, user and clock are its environment |
| `ControllerProofs` | theorems about `Controller` |
| `MCController` | instances of `Controller` |
| `AutoSwitch` | what the program promises its user about switching; implemented by `Controller` |
| `HidConn` | package hidpp: one connection, its callers and `readLoop` |
| `HidConnProofs` | theorems about `HidConn` |
| `MCHidConn` | instances of `HidConn` |
| `HidTransport` | package hidtransport: finding, opening, reading and closing a receiver |
| `LoopLemmas` | lemmas: the least number of a set, and what a loop over a sequence keeps |
| `HidTransportProofs` | theorems about `HidTransport` |
| `MCHidTransport` | instances of `HidTransport` |
| `ConfigStore` | packages config and singleton, and the setters of the controller |
| `Ddc` | package ddc: the choice of a display, the capabilities conversation |
| `DdcProofs` | lemmas about the conversation and the list found in its text |
| `Tray` | package tray over `ConfigStore` and `Ddc` |
| `TrayProofs` | theorems about `Tray`: file and lock |
| `MenuProofs` | theorems about `Tray`: monitor and menu |
| `MCTray` | instances of `Tray` |

### Controller

`pc` says where `supervise` is. `collect`, `assign`, `initPing` and `initSet`
are the opening half of `runOnce`; `select` is its loop. A notification or a
poll is `observed` (after `poll`, for the poll's ping) and handled under `c.mu`
by `OnPresent` (`onPresent`) or `OnDepart` (`onDepartStart` and
`scheduleDepart`). `TakePending` starts the confirmation, `Confirm` is one ping
of it, and `StillHere`, `FireSwitch` and `FireAborted` are what may follow.
`switching` lasts until monitor write and mouse push are both over. A step is
one critical section, one channel operation or one HID++ exchange: every other
goroutine can move between an answer and its use.

`pendingC` is the buffered message together with the `AfterFunc` goroutines
that are blocked behind it, in order. `conn` is `"dead"` after an unplugging:
the code's reader returns silently (`receiver.go:240`), reads keep timing out
and pings fail. The `!ok` branch of `controller.go:229` is therefore never
taken within a session, and `Controller` has no action for it.

`Ping` is the contract of `hidpp`. An answer means that the device is here, or
that a late reply answered in its place; `late` counts the late replies there
can be. A device that is here may always fail to answer in time.

`identifyDevices` reads the device types into a map, and the zero value of a
missing entry is the keyboard's type. `AssignKeyboard` and `AssignMouse` say
what becomes of that.

`PowerCallback` lets the OS report a sleep when none is reported yet and a wake at
any time: Windows reports most resumes twice, the second one when the user comes
back, which may be long after (`powermon_windows.go:58`).

Time has two countdowns, `wakeLeft` (since `lastWake`) and `suppressLeft`
(until `suppressUntil`); one `Tick` serves both. Debounce, poll and backoff may
elapse at any moment. `userAct`, `firedAway` and `lost` are history variables:
no guard reads them.

Left out: which input is written and whether the write worked (nothing in the
state machine depends on it), texts, icons and logs. The setters that only store
a value, saving and `TestSwitchMonitor` are in `Tray`.

### AutoSwitch

The promise, without goroutines, notifications, pings, timers or channels: a
switch happens only while switching is on and the machine is fully awake, one
at a time, and after a switch the next one must be made ready by the trigger's
return or by the user. `Promise` in `Controller` is the refinement mapping: `on`
is `enabled`, `power` is what powermon knows (not what `watchPower` has
handled), `switching` is `pc = "switching"`, and `ready` is the history variable
`firedAway` negated. Nearly every step of `Controller` is a stutter of
`AutoSwitch`. The one thing it promises to happen is that a switch ends; that a
wake settles is time passing, and no promise of the program.

### HidConn

Every caller runs an operation as a sequence of requests. `Acquire` is
`reqMu.Lock`, the test of `closed` and `setMatch`; `Drain`, `Write`, then
`TakeReply`, `TimeOut` or `SeeClosed`; `Release` is the two deferred calls.
`CallFeature`, `RetryOperation` and `Finish` are `FeatureIndex`, `withRetry`
and the operation's return. `ReaderTakes` reads a report and captures the
matcher; `ReaderAnswers` and `ReaderNotifies` deliver it later, as the code
does after it has released `matchMu`. A reply names the request it answers, and
the code sees of it only the `Key`, the frame, and the byte that `FeatureIndex`
reads. `notifyCh` is a count: its contents matter to the controller only.

Devices answer any request they were sent, in any order, late, with an error,
or never. A device that obeys CHANGE HOST may leave without a reply. For a
device that is away the receiver may answer with an error. `ErrorFrames` says
in which reports a device's errors come. The repository does not settle it (the
matcher takes both), so the runs use short ones; see below for long ones.

### HidTransport

`Find`, `Open` and `OpenFirst` run before anybody else can see the `Receiver`.
They are functions: of what is enumerated, and of the set of paths that fail to
open. Their loops are recursive functions of the number of turns: `Keep` and
`Distinct` give `Groups`, and `OpenCollection` is one turn of `Open`'s loop. A
path that fails to open fails for the whole loop. One `readerLoop` per handle moves through `top`, `read` and `post`;
`Read` takes from `reads`; `Close` is its critical section, then `CloseHandle`
for each handle, then `CloseEnds` once every reader is done. A report is the
number it has on its handle. `plugged` and `dead` are the plugs and the handles
they killed. `heard` and `choice` are history variables. Sessions follow each
other, as `supervise` makes them.

### ConfigStore, Ddc, Tray

`ConfigStore` has any number of processes over one file. `phase` takes a process
through `main`: the lock, `Load`, the first save, the menu. An item's goroutine
goes from its setter (`Set`) to its save (`todo`), and `save` is the `Save` that
holds `Config.mu`: it reads the settings field by field, empties the temporary
file, fills it, renames it. Any of the last three may fail, and `Dies` ends a
process anywhere. `file` and `tmp` hold a document, nothing, or something that
does not parse.

`Ddc` has capabilities strings as sequences of tokens, `ddc_caps` as a
conversation whose answers may be missing or belong to an earlier request, and
`parseInputsFromCaps` as an operator on what was read. `Tray` puts both
together: `Ready` is the end of `onReady`, after which the checkboxes exist and
the controller starts; a click is `Click`, then the save, then the refresh, which
for a group of items is a read of the setting (`RefreshReads`) and later, one by one
and in any order (the code ranges over a map), the boxes (`RefreshShows`; `boxes`
are those still to set).
`clash` and `unsaved` are history variables.

## Runs

The bounds are named constants: channel capacities (1 or 2, where the code has
1, 4, 8, 32 or 64), `PendingBound` and `LateBound` (1 or 2), `WireBound`,
`ReadsCap` and `Grace` (1 or 2 ticks). A channel of one or two entries is
full as often as it is not, so drops and blocked senders occur all the time.
`users` has `PendingBound` 2, so that an `AfterFunc` goroutine blocks behind the
buffered departure; `power` has `Grace` and `EventCap` 2, so that a wake is
drained in the middle of the grace period.
In `quit` the mouse is
the trigger ("either") and the only device. If its type can be read there is a mouse to
push, if not it is taken for the keyboard and there is none: both switches occur.
`live` and `quit` are two runs, since together they are too large to check.
One keyboard and one mouse are enough for every choice of trigger; the slots of
other devices behave like a trigger that is not selected.

`tray` has two processes, so that one may start while another runs, ends, or has
left a temporary file, and two inputs; at most two items are at work at once
(`ClickBound`), enough for saves to queue and for refreshes to overlap, box by box. Strings have
9 and 7 tokens, fragments 3, and the buffer room for 8 (`TextCap`), so that a
string comes in several fragments, ends with the buffer or before it, and
may be cut inside or before its list of inputs. There are two attempts per
fragment where the code has six: one success after a failure, and one giving up.
The three lists of displays have the display that matches alone, second or not
at all. `transport` has a channel of two reports (`ReadsCap`; 64 in the code) and
in a session three from any two handles (`SentBound`), so that the channel can
hold two reports of one handle, or of two, while a reader waits with the third.
Its two listings are a Windows receiver of three
collections, one listed twice, behind a device that is not a known receiver;
and two equal macOS receivers whose collections share a path.

| run | shows |
|---|---|
| `power` | sleeps, wakes, dropped events and the on/off switch against the detection loop: nothing fires in a power window, each departure is acted on at most once and none is lost; `AutoSwitch` is implemented |
| `users` | two devices, on/off, trigger, pushed mouse: one switch per departure, none lost |
| `live` | a roam that lasts is acted on, late answers or not; switching resumes once the machine is awake for the grace period |
| `quit` | `Stop` returns from every place, and a switch ends, with a mouse to push or without; the system then stops, so deadlock is not checked |
| `hid_contract` | what an answered ping means |
| `hid_shared` | two callers and `Close`; serialised requests (callers are symmetric) |
| `hid_closes` | `SetHost`, with its retries, ends whatever devices answer, and `Close` ends `readLoop`, whoever listens |
| `transport` | finding, opening in part, reading, unplugging and closing, session after session; no handle starves, and `Close` ends every reader |
| `tray` | two processes start, ask a monitor for its inputs, take clicks whose saves interleave or fail, and end at any moment |

In `hid_closes` `SetHost`'s first request, for the feature's index, may be refused
as busy, refused for good, left unanswered, or answered: there is no such feature.
A device that has it, and with it the second request, is out of TLC's reach under
fairness; that request goes through the same `request` and `withRetry`.

`TypeOK` is checked once per component. What the others say:

* `PowerViewAgrees` relates the two records of a transition through the channel
  between them; `HoldOffCovers` relates the two hold-offs.
* `DepartureTracked`: if armed, enabled and not present, then a departure is in
  the timer, in `pendingC` or under confirmation. It exempts a pending or
  dropped power event and arming by hand.
* `ArmedIsClear`: armed means that no power transition forbids firing, once
  `watchPower` has caught up, and unless the user armed by hand.
* `NoFireInPowerWindow`, `NoRefireWithoutReturn`: what the step that fires may
  never do.
* `PingTellsPresence`: a ping is answered only if the device was here since the
  ping began, or an older answer was about when it did. This is what `Ping` of
  `Controller` assumes; the two are related by this statement, not yet by a
  refinement.
* `RequestsAreSerialized`: between `Lock` and `Unlock` the installed matcher is
  that of the request under way.
* `KeepsPromise`: `Controller` implements `AutoSwitch`. `KeepsFairPromise`: every
  switch ends. It assumes that the monitor's write and the push each end, and says
  that the wait for both of them does; `OperationsReturn` says that the push ends.
* `RoamIsActedOn`: an armed, enabled trigger that stays away while the machine stays
  awake is switched after, although a late answer may stand in for it first.
  `RearmsWhenBack`: a trigger that is here is armed again once the machine has been
  awake for the grace period, unless a power event was dropped.
* `OpensOneWholeReceiver`: what is open is everything that opens of one device,
  and of a known receiver if there is one. It exempts listings in which `Find`
  cannot tell the devices apart, or one has two HID++ interfaces (`ToldApart`,
  see below). `WritesOnShort`: requests go to the short
  collection if it opened, and always to a handle that is read.
* `ReportsInOrder`: what `Read` returned, what the channel holds and what the
  reader holds follow each other without a gap. `ReportsAreHeard`: `Read`
  catches up with every handle that stays open, once `SentBound` reports came. `CloseReturns` and
  `QuietAfterClose`: `Close` ends, and then nothing of the session is left.
* `FileStaysWhole`: a file that can be loaded stays one. `RestartRestores`: once
  every click is dealt with, the file has the settings in memory, although each
  `Save` reads them while setters write them: a setter's own save comes later.
  It exempts a process whose last save failed.
* `OneInstance`: two processes never run at once, also while one is ending.
* `CapsArePrefix`, `InputsAreAllOrNone`: a late answer puts no fragment in a
  wrong place, and a string cut short gives the whole list of inputs or none.
* `OnlyMatchIsDriven`: no other display is switched.
* `MenuFollowsSettings`: one input is checked, the target, also if neither the
  monitor nor the table has it. It exempts overlapping clicks in one group
  (`clash`, see below); the next click there that meets no other puts the boxes
  right. `MenuGetsReady`: the conversation with the monitor ends.

### Fairness

`supervise` has weak fairness as a whole: all its waits are bounded by timers
and all requests by timeouts. A Go `select` chooses at random among the ready
cases, so one that is ready again and again is taken: strong fairness for
`TakeNote`, `PollTick`, `TakePending` and `Exit`. Timers, `watchPower` and the
clock have weak fairness. Pings that are answered have strong fairness: a device
that is here answers some of infinitely many pings; only `live` depends on it.
No fairness is assumed for users, devices, links or power events. In `HidConn`
callers and `readLoop` have weak fairness, and taking `reqMu` has strong
fairness, since `sync.Mutex` starves nobody. Devices and listeners have none.

In `HidTransport` each reader, `CloseHandle` and `CloseEnds` have weak fairness:
goroutines are scheduled, and `ReadWithTimeout` returns. `Read` has it only
until `Close`, because `readLoop` stops calling it then. In `Tray` the
conversation, and the steps of `onReady`, have weak fairness, since each call on
the bus returns. Nothing is assumed of the monitor, the file system or the user.

### Disagreements found

Each of these runs checks one property that a comment or the README states, and
TLC finds the behaviour of the code that breaks it.

| run | stated | what happens |
|---|---|---|
| `unplug` | the receiver is reopened if it goes away (`controller.go:78`) | nothing ends the session; its failing polls look like a departure, too |
| `away_at_start` | a device away at the start counts once it is back (`README.md:59`) | a keyboard that was away is not identified before the next session |
| `busy_mouse` | a device of unread type fills the mouse slot first (`controller.go:440`) | its missing type reads as 0, the keyboard's |

The models show more places where the code and its comments differ. They have
no runs of their own:

* "Only fires on a present-to-absent transition observed at runtime"
  (`README.md:58`): `SetTrigger` keeps `present` and `armed` of the old device,
  so a new trigger that has long been away is taken for departing.
* "Enabling while the device is away will not immediately fire"
  (`controller.go:576`): `present` may be stale when `SetEnabled` reads it.
* "While asleep, or until suppressUntil after a wake, we never [...] re-arm"
  (`controller.go:52`): `SetEnabled` arms whenever `present` is set, also in a
  power window. `ArmedIsClear` therefore exempts arming by hand; firing is still
  excluded by `NoFireInPowerWindow`.
* "Only fires on a present-to-absent transition" (`README.md:58`): a departure
  whose timer has posted to `pendingC` cannot be cancelled. If the device is
  sighted after that and one confirming ping is lost, the switch fires.
* "TriggerEither fires when either device roams off" (`config.go:26`): only the
  keyboard is watched if there is one.
* "Drain any stale response" (`hidpp.go:212`): `readLoop` can deliver a reply it
  matched for a timed-out request after the next one has drained `respCh`.
* "matcherFor builds a predicate that recognises the reply" (`hidpp.go:179`): all
  `getFeature` requests to a device look alike, so a late reply names the index
  of the wrong feature.
* `isErrorReply` (`hidpp.go:166`) knows short reports only. Were a device to
  report errors in long ones, an error would be returned as an answer. For a ping
  that changes little: such an error comes from a device that is here
  (`PingsTellPresence`).
* "Grouping each receiver's HID++ collections together" (`receiver.go:106`): two
  receivers of one product have the same key and become one, whose writes may go
  to the one and whose reports come from both. A receiver with two HID++
  interfaces has two keys and is opened in part.
* `ensureInit` (`receiver.go:49`) returns the error of `hid.Init` to its first
  caller only. Later calls go on without hidapi's initialisation.
* "Restrict to the vcp(...) section" (`ddc.go:94` and below): the section's end
  is not looked for, and `60(` right behind a `)` is not found. Such a monitor
  gets the table of inputs, or another section's list. A `60(` in front of the
  section is found when the text is cut off before the section begins; the
  theorem about `InputsAreAllOrNone` therefore excludes such displays.
* "Refreshers keep the checkbox groups exclusive" (`tray.go:276`): two clicks in
  one group that overlap may apply their refreshes in the wrong order, and the
  boxes then show the old setting, two, or none, until the next click.
* "dropping only if the buffer is full, which means nobody is draining, moot"
  (`powermon.go:67`): the buffer is full also while `watchPower` waits for `c.mu` or is
  not scheduled. A dropped sleep fires nothing (`NoFireInPowerWindow` has no
  exemption for it). A dropped wake leaves `asleep` set, so nothing is armed or fired
  before the next wake.
* A click on an item before `t.ctrl` is set (`tray.go:209`) calls a nil
  controller: `ClickTooEarly`.
* "Acquire returns true if this is the only running instance"
  (`singleton_unix.go:15`): also if the lock file cannot be made. `LockChecks`
  contains FALSE then, and `OneInstance` does not hold.
* `ddc_find_tag`, `ddc_caps` and `ddc_get` (`ddc_darwin.go:74`, `108`, `135`) trust
  lengths and places in a short buffer, and can read past its end. `Ddc` has well
  formed replies only.

## Proofs

`ControllerProofs` proves for all values of the constants, under
`PowerAssumption` and `ControllerAssumption` (devices are positive numbers, no
device is both keyboard and mouse, capacities, bounds and grace period are
positive, settings are among the code's values):

* `TypeCorrect`: `TypeOK` is inductive. One step per action, one per group of
  variables below it.
* `PowerViewInvariant`, `HoldOffInvariant`: `PowerViewAgrees /\ HoldOffCovers`
  is inductive given `TypeOK`. Only `emit`, `watchPower` and the clock touch
  what it speaks of.
* `FireGuarded`: `NoFireInPowerWindow`. `FireSwitch` alone enters `switching`
  from `confirmed`, and it asks `Suppressed` in the same critical section.
* `DepartureInvariant`, `ArmedInvariant`: `DepartureTracked` is not inductive by
  itself. `FireAborted` drops a departure in hand, which is harmless only if
  the abort means disarmed, disabled or suppressed, and a suppressed controller
  might still be armed. `ArmedIsClear` excludes that: power events disarm before
  they are forgotten. The conjunction `ArmInv` is inductive.
* `NoRefire`: `NoRefireWithoutReturn`. After a switch `armed` is false until the
  trigger is sighted. One path sets it without a sighting: `TakePending` with no
  trigger device counts as "still here". `RefireInv` says that this needs
  `TriggerDevice = NoDev`, and that what is under confirmation is then about
  the current trigger device; it is inductive.

* `Refinement`: `KeepsPromise`. The initial state maps to one of `AutoSwitch`, and
  each action to a step of it or a stutter, given `TypeOK` and `RefireInv`. A
  committing `FireSwitch` is `Switch`: it asks `enabled` and `Suppressed` in the
  same critical section, and `RefireInv` says that a controller that is armed has
  seen the trigger again.

`HidConnProofs` proves, for any callers, devices, feature indexes, capacities,
bounds and frames of errors, under `HidConnAssumption`:

* `TypeCorrect`: `TypeOK`, one step per action. A caller's operation determines
  the requests it may send, which is part of `TypeInv`.
* `Serialized`: `RequestsAreSerialized` is inductive given `TypeInv`. Only the
  holder of `reqMu` is between `Acquire` and `Release`, and no other caller
  changes `curMatch`.
* `PingsTellPresence`: `PingTellsPresence` speaks of the moment a ping returns and
  is far from inductive. `Unanswered` says what has to be so before: while a ping
  is out and nothing excuses it, its device is away, and no reply of that device
  that is not an error frame is among the reports, in the hands of `readLoop` or in
  `respCh`. `Acquire` counts the older answers that are about as an excuse, only a
  device that is here can add one, and a device that comes excuses the ping. The
  conjunction with `TypeInv` and `RequestsAreSerialized` is inductive: without the
  latter another caller's matcher would let other replies into `respCh`.

`HidTransportProofs` proves, for any listings, known products, capacities and
bounds, under `HidTransportAssumption` (the entries of a listing have these
fields, and `NoPath` is no path):

* `TypeCorrect`, `CloseLeavesNothing`: `TypeOK` and `QuietAfterClose` rest on
  `SessionInv` (in each phase, which handles are open and which are still to be
  closed, and that only an open `Receiver`'s handles have readers at work) and
  `CountInv` (what a reader has got has been sent).
* `OpensOne`: `OpensOneWholeReceiver`. The loops of `Find` and `Open` are functions
  of the number of turns; `LoopLemmas` has what any such loop keeps. From it follow
  what `Keep`, `Distinct`, `Groups` and `Opened` compute (`FindLemma`,
  `OpenedLemma`): the first group is all collections of one key, known if any is,
  and what is opened are its paths but those that fail. `ToldApart` makes the key a
  device.
* `WritesShort`: `WritesOnShort`, from the same lemma about `Open`'s loop: after
  each turn the handle to write to is a short collection's if one is open.
* `MergesInOrder`: `ReportsInOrder`. It is inductive with `HeldInv`: a reader at
  `post` holds exactly the last report it has got.

`LoopLemmas` replaces the library's induction, whose theorems take an operator as
parameter: a set of numbers that has 0 and with each number the next has all of
them, by its complement's least element (`LeastNumber`, `UpToInduction`,
`LoopRuns`).

`TrayProofs` proves, for any processes, inputs, displays and bounds, under the
assumptions of `ConfigStore`, `Ddc` and `Tray` and the hypothesis `LockWorks`
(the lock file can be made):

* `SingleInstance`: `OneInstance`. `HolderRuns`: who runs holds the lock.
* `FileSurvives`: `FileStaysWhole`. The only step that writes `file` is the rename,
  and `RenamesWhole` says that what is renamed parses. That is inductive only
  with `HolderRuns`: a second process could empty the shared temporary file
  between the first one's write and rename, so this rests on the lock.
* `RestartFindsSettings`: `RestartRestores`. At rest the file holds the settings;
  before that, `FileAgrees` says of each setting that the file has it or a click on
  it is not written yet, and `DocAgrees` says the same of the document of a `Save`
  at work, once it has read the field: a click that came after that waits for a
  `Save` of its own.

`MenuProofs` proves for the same values, with the lock or without it:

* `TypeCorrect`: `TypeOK`.
* `TextIsPrefix`: `CapsArePrefix`. `TalkInv` adds to it that the text is as long as
  the offset asked for, until the buffer is full. A reply is taken only if it
  repeats that offset, so what it brings is what comes next.
* `ListIsWholeOrNone`: `InputsAreAllOrNone`, of displays that have no list of code
  60 in front of their vcp section (`ListInVcp`). The first place of a token in a
  beginning is its first place in the whole (`FirstInBeginning`), three times: the
  section, its list, the list's end. Without the hypothesis it is false, see above.
* `DrivesOnlyMatch`: `OnlyMatchIsDriven`. A test click alone drives a display.
* `BoxesShowSettings`: `MenuFollowsSettings`. `MenuAgrees`: unless clicks in the
  group overlapped, the group shows the target and none of its items is at work,
  or the target's own item alone is, what its refresh has read is the target, and
  the boxes it has set agree with that. `BoxesKnown`: only a refresh under way has
  boxes to set, and they are of the menu.

Only model-checked: the liveness properties, `KeepsFairPromise` among them, since
the prover has no fairness or `ENABLED` reasoning. Every other property of a
passing run has a theorem. That the conditions in them (`LockWorks`, `ToldApart`,
`~clash`, `~unsaved`, `ListInVcp`) are met where it matters is what the runs show:
their instances satisfy `LockWorks` and `ListInVcp`, and each property has a
mutation that TLC finds violated with the others met.

## Plan

Done: `PowerMon`, `Controller`, `AutoSwitch`, `HidConn`, `HidTransport`,
`ConfigStore` with the instance lock, `Ddc`, `Tray`. Left, in this order:

1. `PingContract`: an abstract ping service (who is here, how many late answers
   there are), implemented by `HidConn` and used by `Controller`.
2. What `SetHost` reports against what the device did.
3. `TwoHosts`: two controllers and one monitor; the monitor ends where the
   keyboard is.

## Not modelled

* Start at login writes or removes one file or registry value on request.
  Notifications, icon and status texts are output. None of them shares state
  with the rest.
* The probe tool is a sequential command line around `hidpp` and `ddc`; `ddc_get`
  and the debug reads serve only it.
* Flags, the log file and the build script steer nothing in the program.
* hidapi, systray, IOKit and the Windows API are environment: the models have
  what they may answer, not how they work. A power failure that loses data
  written before the rename is outside the models too; the code does not sync.
