--------------------------------- MODULE Tray --------------------------------
(***************************************************************************)
(* Package tray over ConfigStore and Ddc: a process builds its menu while  *)
(* the monitor is asked for its inputs, each menu item has a goroutine of  *)
(* its own, and every click ends in a setter, a save and a refresh of the  *)
(* item's checkboxes.                                                      *)
(***************************************************************************)
EXTENDS ConfigStore, Ddc

CONSTANTS InputTable, \* InputSourceNames, the list used when a monitor tells none
          ClickBound  \* bound: items at work at the same time

ASSUME TrayAssumption ==
  Codes = Inputs /\ InputTable \subseteq Inputs /\ ClickBound \in Nat

VARIABLES
  offered, \* the inputs that have menu items, per process
  checked, \* the items whose checkbox is checked, per process
  cur,     \* the setting that the refresh after each item's click has read
  boxes,   \* the boxes of the group that this refresh has still to set
  clash    \* history: the last clicks in the group of inputs overlapped

menuVars == <<offered, checked, cur, boxes, clash>>
vars == <<storeVars, ddcVars, menuVars>>

TypeOK ==
  /\ StoreTypeOK /\ DdcTypeOK
  /\ offered \in [Procs -> SUBSET Inputs]
  /\ checked \in [Procs -> SUBSET Items]
  /\ cur \in [Procs -> [Inputs -> Inputs]]
  /\ boxes \in [Procs -> [Inputs -> SUBSET Inputs]]
  /\ clash \in [Procs -> BOOLEAN]

NoCur == [i \in Inputs |-> DefaultInput]
NoBoxes == [i \in Inputs |-> {}]

\* The boxes that the settings ask to be checked.
CheckedFor(doc) == {doc.target} \cup IF doc.enabled THEN {"enabled"} ELSE {}

-----------------------------------------------------------------------------
(* Start-up.                                                               *)

Starts(p) ==
  /\ Acquire(p) \/ LoadFile(p) \/ LoadDefault(p)
  /\ UNCHANGED <<ddcVars, menuVars>>

\* onReady asks the monitor, if a display matches.
AsksInputs(p) ==
  /\ phase[p] = "menu" /\ talk.at = "none" /\ MatchingDisplay(displays) # 0
  /\ TalkBegins
  /\ UNCHANGED <<storeVars, displays, shows, menuVars>>

Talks == Conversation /\ UNCHANGED <<storeVars, menuVars>>

\* Bug: ensureInput is left out.
OffersListed(p) == IF ParseInputs(talk.text) # {} THEN ParseInputs(talk.text) ELSE InputTable

\* computeInputs: the monitor's list or else the table, and always the target.
ComputeInputs(p) ==
  {mem[p].target} \cup
    IF ParseInputs(talk.text) # {} THEN ParseInputs(talk.text) ELSE InputTable

\* The rest of onReady: the items get their checkboxes, and the controller starts.
Ready(p) ==
  /\ phase[p] = "menu"
  /\ talk.at = "done" \/ MatchingDisplay(displays) = 0
  /\ Goes(p, "up")
  /\ offered' = [offered EXCEPT ![p] = ComputeInputs(p)]
  /\ checked' = [checked EXCEPT ![p] = CheckedFor(mem[p]) \cap (offered'[p] \cup {"enabled"})]
  /\ talk' = NoTalk
  /\ UNCHANGED <<file, tmp, lock, mem, todo, save, unsaved, displays, shows, cur, boxes, clash>>

-----------------------------------------------------------------------------
(* Clicks.                                                                 *)

Busy(p) == {i \in Items : todo[p][i] # "nothing"}

\* A click on an item that has nothing to do.
Click(p, i) ==
  /\ i \in offered[p] \cup {"enabled"}
  /\ Cardinality(Busy(p)) < ClickBound
  /\ Set(p, i)
  /\ clash' = [clash EXCEPT ![p] = IF i = "enabled" THEN @ ELSE Busy(p) \cap Inputs # {}]
  /\ UNCHANGED <<ddcVars, offered, checked, cur, boxes>>

SaveStep(p) ==
  /\ Saves(p) \/ \E i \in Items : SaveBegins(p, i)
  /\ UNCHANGED <<ddcVars, menuVars>>

RefreshFrame == UNCHANGED <<file, tmp, lock, phase, mem, save, unsaved, ddcVars, offered, clash>>

\* setCheck of the Enabled item.
ShowEnabled(p) ==
  /\ todo[p]["enabled"] = "refresh"
  /\ checked' = [checked EXCEPT ![p] = (@ \ {"enabled"}) \cup (CheckedFor(mem[p]) \cap {"enabled"})]
  /\ todo' = [todo EXCEPT ![p]["enabled"] = "nothing"]
  /\ RefreshFrame /\ UNCHANGED <<cur, boxes>>

\* refreshInputs reads the setting ...
RefreshReads(p, i) ==
  /\ todo[p][i] = "refresh"
  /\ cur' = [cur EXCEPT ![p][i] = mem[p].target]
  /\ boxes' = [boxes EXCEPT ![p][i] = offered[p]]
  /\ todo' = [todo EXCEPT ![p][i] = "show"]
  /\ RefreshFrame /\ UNCHANGED checked

\* Check or Uncheck.
SetsBox(p, i, b) ==
  checked' = [checked EXCEPT ![p] = IF b = cur[p][i] THEN @ \cup {b} ELSE @ \ {b}]

\* ... then sets the boxes of the group one by one, in the order of a Go map: any.
\* The group has the target's box at least, so there is a last one.
RefreshShows(p, i) ==
  /\ todo[p][i] = "show"
  /\ \E b \in boxes[p][i] :
       /\ SetsBox(p, i, b)
       /\ boxes' = [boxes EXCEPT ![p][i] = @ \ {b}]
       /\ IF boxes[p][i] = {b}
          THEN /\ cur' = [cur EXCEPT ![p][i] = DefaultInput]
               /\ todo' = [todo EXCEPT ![p][i] = "nothing"]
          ELSE UNCHANGED <<cur, todo>>
  /\ RefreshFrame

Refresh(p, i) == RefreshReads(p, i) \/ RefreshShows(p, i)

\* A Test item: TestSwitchMonitor.
TestSwitch(p, v) ==
  /\ phase[p] = "up" /\ v \in offered[p]
  /\ SetInputByMatch(v)
  /\ UNCHANGED <<storeVars, menuVars>>

-----------------------------------------------------------------------------
(* The end of a process.                                                   *)

Forgets(p) ==
  /\ offered' = [offered EXCEPT ![p] = {}]
  /\ checked' = [checked EXCEPT ![p] = {}]
  /\ cur' = [cur EXCEPT ![p] = NoCur]
  /\ boxes' = [boxes EXCEPT ![p] = NoBoxes]
  /\ clash' = [clash EXCEPT ![p] = FALSE]
  /\ talk' = IF phase[p] = "menu" THEN NoTalk ELSE talk
  /\ UNCHANGED <<displays, shows>>

\* The items built first can be clicked while t.ctrl is still nil: a panic.
ClickTooEarly(p) == phase[p] = "menu" /\ Dies(p) /\ Forgets(p)

\* Quit, at any moment of the other items' goroutines; logout; a crash.
Ends(p) == Dies(p) /\ Forgets(p)

LoadErrs(p) == (LoadFails(p) \/ FirstSaveFails(p)) /\ Forgets(p)

-----------------------------------------------------------------------------
Init ==
  /\ StoreInit /\ DdcInit
  /\ offered = [p \in Procs |-> {}]
  /\ checked = [p \in Procs |-> {}]
  /\ cur = [p \in Procs |-> NoCur]
  /\ boxes = [p \in Procs |-> NoBoxes]
  /\ clash = [p \in Procs |-> FALSE]

Next ==
  \/ Talks
  \/ \E p \in Procs :
       \/ Starts(p) \/ AsksInputs(p) \/ Ready(p)
       \/ SaveStep(p) \/ ShowEnabled(p)
       \/ ClickTooEarly(p) \/ Ends(p) \/ LoadErrs(p)
       \/ \E i \in Items : Click(p, i)
       \/ \E i \in Inputs : Refresh(p, i) \/ TestSwitch(p, i)

Spec == Init /\ [][Next]_vars

(***************************************************************************)
(* Fairness: goroutines are scheduled, and every call on the bus returns.  *)
(* Nothing is assumed of the monitor, of the file system or of the user.   *)
(***************************************************************************)
Fairness ==
  /\ WF_vars(Talks)
  /\ \A p \in Procs : WF_vars(AsksInputs(p)) /\ WF_vars(Ready(p))

FairSpec == Spec /\ Fairness

-----------------------------------------------------------------------------
(* Properties.                                                             *)

\* Once every click is dealt with, the boxes show the settings: one input is
\* checked, the target, whatever the monitor said its inputs are.  Clicks in one
\* group that overlap are excepted, since their refreshes set the boxes in any
\* order; the next click that meets no other one puts the boxes right.
MenuFollowsSettings ==
  \A p \in Procs : AtRest(p) /\ ~clash[p] => checked[p] = CheckedFor(mem[p])

\* The menu gets built, and the controller started, whatever the monitor does or
\* does not answer, unless the process ends.
MenuGetsReady == \A p \in Procs : phase[p] = "menu" ~> phase[p] # "menu"
=============================================================================
