------------------------------ MODULE MenuProofs ------------------------------
(***************************************************************************)
(* What the menu of Tray shows and what it does to the monitor, under      *)
(* every step of Tray: for any inputs, any displays and any processes,     *)
(* with the instance lock or without it.                                   *)
(***************************************************************************)
EXTENDS TrayProofs, DdcProofs

-----------------------------------------------------------------------------
(* The monitor: no step of the tray disturbs the conversation.             *)

LEMMA DdcFrame ==
  ASSUME DdcInv, UNCHANGED ddcVars
  PROVE  DdcInv'
<1>1. shows' \in [DOMAIN displays -> Codes \cup {"other"}]
  BY DEF DdcInv, DdcTypeOK, ddcVars
<1>2. QED
  BY <1>1, NoTalkKeeps DEF ddcVars

LEMMA ForgetsKeepsDdc ==
  ASSUME DdcInv, NEW p \in Procs, Forgets(p) \/ Ready(p)
  PROVE  DdcInv'
<1>1. talk' \in {talk, NoTalk} /\ UNCHANGED <<displays, shows>>
  BY DEF Forgets, Ready
<1>2. shows' \in [DOMAIN displays -> Codes \cup {"other"}]
  BY <1>1 DEF DdcInv, DdcTypeOK
<1>3. QED
  BY <1>1, <1>2, NoTalkKeeps

LEMMA TestKeepsDdc ==
  ASSUME DdcInv, NEW p \in Procs, NEW v \in Inputs, TestSwitch(p, v)
  PROVE  DdcInv'
<1>1. SetInputByMatch(v) /\ v \in Codes
  BY TrayAssumption DEF TestSwitch
<1>2. shows' \in [DOMAIN displays -> Codes \cup {"other"}]
  BY <1>1, OnlyMatchShows
<1>3. UNCHANGED <<displays, talk>>
  BY <1>1 DEF SetInputByMatch
<1>4. QED
  BY <1>2, <1>3, NoTalkKeeps

\* The steps that leave the monitor alone.
LEMMA DdcStays ==
  ASSUME NEW p \in Procs,
         \/ Starts(p) \/ SaveStep(p) \/ ShowEnabled(p)
         \/ \E i \in Items : Click(p, i)
         \/ \E i \in Inputs : Refresh(p, i)
  PROVE  UNCHANGED ddcVars
BY DEF Starts, SaveStep, ShowEnabled, Click, Refresh, RefreshReads, RefreshShows, RefreshFrame

LEMMA DdcInvNext == DdcInv /\ [Next]_vars => DdcInv'
<1> SUFFICES ASSUME DdcInv, [Next]_vars PROVE DdcInv'
  OBVIOUS
<1>1. CASE UNCHANGED vars
  BY <1>1, DdcFrame DEF vars
<1>2. CASE Talks
  BY <1>2, ConversationKeeps DEF Talks
<1>3. ASSUME NEW p \in Procs, AsksInputs(p) PROVE DdcInv'
  BY <1>3, TalkBeginsKeeps DEF AsksInputs
<1>4. ASSUME NEW p \in Procs, Ready(p) \/ ClickTooEarly(p) \/ Ends(p) \/ LoadErrs(p)
      PROVE  DdcInv'
  BY <1>4, ForgetsKeepsDdc DEF ClickTooEarly, Ends, LoadErrs
<1>5. ASSUME NEW p \in Procs, NEW v \in Inputs, TestSwitch(p, v) PROVE DdcInv'
  BY <1>5, TestKeepsDdc
<1>6. ASSUME NEW p \in Procs,
             \/ Starts(p) \/ SaveStep(p) \/ ShowEnabled(p)
             \/ \E i \in Items : Click(p, i)
             \/ \E i \in Inputs : Refresh(p, i)
      PROVE  DdcInv'
  BY <1>6, DdcStays, DdcFrame
<1>7. QED
  BY <1>1, <1>2, <1>3, <1>4, <1>5, <1>6 DEF Next

LEMMA DdcInvariant == Spec => []DdcInv
BY DdcInvInit, DdcInvNext, PTL DEF Spec, Init

\* Whatever replies are lost, late or repeated, and wherever the conversation is
\* broken off, the text read is the beginning of what the display says: for any
\* display, any sizes of the fragments and the buffer and any number of attempts.
THEOREM TextIsPrefix == Spec => []CapsArePrefix
BY DdcInvariant, DdcPrefix, PTL

\* The inputs found in a text that ended early are those of the whole text, or
\* none: of displays that have no "60(" before their vcp section.
THEOREM ListIsWholeOrNone ==
  (\A d \in Displays : ListInVcp(d.caps)) /\ Spec => []InputsAreAllOrNone
<1> SUFFICES ASSUME \A d \in Displays : ListInVcp(d.caps) PROVE Spec => []InputsAreAllOrNone
  OBVIOUS
<1>1. DdcInv => InputsAreAllOrNone
  BY DdcList
<1>2. QED
  BY <1>1, DdcInvariant, PTL

\* Whichever items are clicked and whatever else runs, only a display that
\* MonitorMatch means is switched.
THEOREM DrivesOnlyMatch == Spec => OnlyMatchIsDriven
<1> DEFINE Driven == \A i \in DOMAIN displays : shows'[i] # shows[i] => displays[i].name \in Matching
<1>1. DdcInv /\ [Next]_vars => [Driven]_ddcVars
  <2> SUFFICES ASSUME DdcInv, Next, shows' # shows PROVE Driven
    BY DEF vars, ddcVars
  <2>1. PICK p \in Procs, v \in Inputs : TestSwitch(p, v)
    <3>1. ~Talks
      BY DEF Talks, Conversation, CapsNoReply, CapsAgain, CapsEnd, CapsReply
    <3>2. \A p \in Procs : ~(AsksInputs(p) \/ Ready(p) \/ ClickTooEarly(p) \/ Ends(p) \/ LoadErrs(p))
      BY DEF AsksInputs, Ready, ClickTooEarly, Ends, LoadErrs, Forgets
    <3>3. \A p \in Procs : ~(Starts(p) \/ SaveStep(p) \/ ShowEnabled(p))
      BY DdcStays DEF ddcVars
    <3>4. \A p \in Procs : ~\E i \in Items : Click(p, i)
      BY DdcStays DEF ddcVars
    <3>5. \A p \in Procs : ~\E i \in Inputs : Refresh(p, i)
      BY DdcStays DEF ddcVars
    <3>6. QED
      BY <3>1, <3>2, <3>3, <3>4, <3>5 DEF Next
  <2>2. QED
    BY <2>1, OnlyMatchShows DEF TestSwitch
<1>2. QED
  BY <1>1, DdcInvariant, PTL DEF Spec, OnlyMatchIsDriven

-----------------------------------------------------------------------------
(* The menu.                                                               *)

MenuTypeOK ==
  /\ offered \in [Procs -> SUBSET Inputs]
  /\ checked \in [Procs -> SUBSET Items]
  /\ cur \in [Procs -> [Inputs -> Inputs]]
  /\ boxes \in [Procs -> [Inputs -> SUBSET Inputs]]
  /\ clash \in [Procs -> BOOLEAN]

\* The group of inputs shows the target, and none of its items is at work ...
ShowsTarget(p) ==
  checked[p] \cap Inputs = {mem[p].target} /\ \A i \in Inputs : todo[p][i] = "nothing"

\* ... or one is, the target's own: its refresh has read the target, and the boxes
\* that it has set show it.
TargetAtWork(p) ==
  \A i \in Inputs :
    IF i = mem[p].target
    THEN /\ todo[p][i] # "nothing"
         /\ todo[p][i] = "show" =>
              cur[p][i] = i /\ \A b \in offered[p] \ boxes[p][i] : b \in checked[p] <=> b = i
    ELSE todo[p][i] = "nothing"

\* What the menu of a process that is up shows, or is about to show.
MenuAgrees(p) ==
  phase[p] = "up" =>
    /\ mem[p].target \in offered[p] /\ checked[p] \cap Inputs \subseteq offered[p]
    /\ todo[p]["enabled"] = "nothing" => ("enabled" \in checked[p] <=> mem[p].enabled)
    /\ ~clash[p] => ShowsTarget(p) \/ TargetAtWork(p)

\* A refresh sets boxes that are there, and only a refresh has any to set.
BoxesKnown(p) ==
  \A i \in Inputs : boxes[p][i] \subseteq IF todo[p][i] = "show" THEN offered[p] ELSE {}

MenuInv == MenuTypeOK /\ \A p \in Procs : BoxesKnown(p) /\ MenuAgrees(p)

LEMMA MenuInvInit == Init => MenuInv
<1> SUFFICES ASSUME Init PROVE MenuInv
  OBVIOUS
<1>1. NoCur \in [Inputs -> Inputs] /\ NoBoxes \in [Inputs -> SUBSET Inputs]
  BY ConfigStoreAssumption DEF NoCur, NoBoxes
<1>2. MenuTypeOK
  BY <1>1 DEF Init, MenuTypeOK
<1>3. \A p \in Procs : BoxesKnown(p) /\ MenuAgrees(p)
  BY DEF Init, StoreInit, MenuAgrees, BoxesKnown, NoBoxes
<1>4. QED
  BY <1>2, <1>3 DEF MenuInv

\* A process of which nothing changes that its menu depends on.
Undisturbed(p) ==
  UNCHANGED <<phase[p], mem[p], todo[p], offered[p], checked[p], cur[p], boxes[p], clash[p]>>

LEMMA UndisturbedAgrees ==
  ASSUME NEW p \in Procs, BoxesKnown(p), MenuAgrees(p), Undisturbed(p)
  PROVE  BoxesKnown(p)' /\ MenuAgrees(p)'
BY DEF BoxesKnown, MenuAgrees, Undisturbed, ShowsTarget, TargetAtWork

\* What a step of p must leave.
LEMMA OneMenu ==
  ASSUME MenuInv, MenuTypeOK', NEW p \in Procs, BoxesKnown(p)', MenuAgrees(p)',
         \A q \in Procs \ {p} : Undisturbed(q)
  PROVE  MenuInv'
BY UndisturbedAgrees DEF MenuInv

LEMMA Settings == "enabled" \in Items /\ "enabled" \notin Inputs /\ Inputs \subseteq Items
                    /\ Items = Inputs \cup {"enabled"}
BY ConfigStoreAssumption DEF Items

LEMMA ReadyMenu ==
  ASSUME StoreInv, MenuInv, NEW p \in Procs, Ready(p)
  PROVE  MenuInv'
<1>1. mem[p].target \in Inputs /\ todo[p] = Idle
  BY DEF StoreInv, StoreTypeOK, SaversKnown, SaverKnown, Docs, Ready
<1>2. ComputeInputs(p) \subseteq Inputs /\ mem[p].target \in ComputeInputs(p)
  <2>1. ParseInputs(talk.text) \subseteq Inputs
    BY TrayAssumption DEF ParseInputs
  <2>2. QED
    BY <1>1, <2>1, TrayAssumption DEF ComputeInputs
<1>3. /\ UNCHANGED <<mem, todo, cur, boxes, clash>>
      /\ offered' = [offered EXCEPT ![p] = ComputeInputs(p)]
      /\ checked' = [checked EXCEPT ![p] = CheckedFor(mem[p]) \cap (offered'[p] \cup {"enabled"})]
      /\ phase' = [phase EXCEPT ![p] = "up"]
  BY DEF Ready, Goes
<1> HIDE DEF Ready
<1>4. offered'[p] = ComputeInputs(p)
      /\ checked'[p] = CheckedFor(mem[p]) \cap (ComputeInputs(p) \cup {"enabled"})
  BY <1>3 DEF MenuInv, MenuTypeOK
<1>5. checked'[p] \subseteq Items
  BY <1>2, <1>4, Settings
<1>6. MenuTypeOK'
  BY <1>2, <1>3, <1>4, <1>5 DEF MenuInv, MenuTypeOK
<1>7. \A q \in Procs \ {p} : Undisturbed(q)
  BY <1>3 DEF Undisturbed, MenuInv, MenuTypeOK, StoreInv, StoreTypeOK
<1>8. MenuAgrees(p)'
  <2>1. "enabled" \in checked'[p] <=> mem[p].enabled
    BY <1>1, <1>4, Settings DEF CheckedFor
  <2>2. checked'[p] \cap Inputs = {mem[p].target}
    BY <1>1, <1>2, <1>4, Settings DEF CheckedFor
  <2>3. \A i \in Inputs : todo[p][i] = "nothing"
    BY <1>1, Settings DEF Idle
  <2>4. QED
    BY <1>2, <1>3, <1>4, <2>1, <2>2, <2>3 DEF MenuAgrees, ShowsTarget
<1>9. BoxesKnown(p)'
  <2>1. \A j \in Inputs : todo[p][j] = "nothing"
    BY <1>1, Settings DEF Idle
  <2>2. QED
    BY <1>3, <2>1 DEF MenuInv, BoxesKnown
<1>10. QED
  BY <1>6, <1>7, <1>8, <1>9, OneMenu

\* A click changes the setting, and the item is at work; a click in the group on
\* which another one is at work is a clash.
LEMMA ClickMenu ==
  ASSUME StoreInv, MenuInv, NEW p \in Procs, NEW i \in Items, Click(p, i)
  PROVE  MenuInv'
<1>1. /\ phase[p] = "up" /\ todo[p][i] = "nothing" /\ i \in offered[p] \cup {"enabled"}
      /\ UNCHANGED <<phase, offered, checked, cur, boxes>>
      /\ mem' = [mem EXCEPT ![p] = Chosen(mem[p], i)]
      /\ todo' = [todo EXCEPT ![p][i] = "save"]
      /\ clash' = [clash EXCEPT ![p] = IF i = "enabled" THEN clash[p] ELSE Busy(p) \cap Inputs # {}]
  BY DEF Click, Set
<1>2. mem[p] \in Docs /\ MenuAgrees(p)
  BY DEF StoreInv, StoreTypeOK, MenuInv
<1>3. /\ mem'[p] = Chosen(mem[p], i)
      /\ todo'[p][i] = "save" /\ \A j \in Items \ {i} : todo'[p][j] = todo[p][j]
      /\ clash'[p] = IF i = "enabled" THEN clash[p] ELSE Busy(p) \cap Inputs # {}
  BY <1>1 DEF StoreInv, StoreTypeOK, MenuInv, MenuTypeOK
<1>4. MenuTypeOK'
  BY <1>1 DEF MenuInv, MenuTypeOK
<1>5. \A q \in Procs \ {p} : Undisturbed(q)
  BY <1>1 DEF Undisturbed, MenuInv, MenuTypeOK, StoreInv, StoreTypeOK
<1>9. BoxesKnown(p)'
  BY <1>1, <1>3, Settings DEF MenuInv, BoxesKnown
<1>6. CASE i = "enabled"
  <2>1. mem'[p].target = mem[p].target /\ clash'[p] = clash[p]
    BY <1>2, <1>3, <1>6 DEF Chosen, Docs
  <2>2. \A j \in Inputs : todo'[p][j] = todo[p][j]
    BY <1>3, <1>6, Settings
  <2>3. MenuAgrees(p)'
    BY <1>1, <1>2, <1>3, <1>6, <2>1, <2>2 DEF MenuAgrees, ShowsTarget, TargetAtWork
  <2>4. QED
    BY <1>4, <1>5, <1>9, <2>3, OneMenu
<1>7. CASE i \in Inputs
  <2>1. mem'[p].target = i /\ mem'[p].enabled = mem[p].enabled /\ i \in offered[p]
    BY <1>1, <1>2, <1>3, <1>7, Settings DEF Chosen, Docs
  <2>2. todo'[p]["enabled"] = todo[p]["enabled"]
    BY <1>3, <1>7, Settings
  <2>3. ~clash'[p] => TargetAtWork(p)'
    <3> SUFFICES ASSUME ~clash'[p] PROVE TargetAtWork(p)'
      OBVIOUS
    <3>1. \A j \in Inputs : todo[p][j] = "nothing"
      BY <1>3, <1>7, Settings DEF Busy
    <3>2. \A j \in Inputs \ {i} : todo'[p][j] = "nothing"
      BY <1>3, <3>1, Settings
    <3>3. QED
      BY <1>3, <2>1, <3>2 DEF TargetAtWork
  <2>4. MenuAgrees(p)'
    BY <1>1, <1>2, <2>1, <2>2, <2>3 DEF MenuAgrees
  <2>5. QED
    BY <1>4, <1>5, <1>9, <2>4, OneMenu
<1>10. QED
  BY <1>6, <1>7, Settings

\* Only the return of a Save disturbs the menu: the item goes on to its refresh.
LEMMA SaveMenu ==
  ASSUME StoreInv, MenuInv, NEW p \in Procs, SaveStep(p)
  PROVE  MenuInv'
<1>1. UNCHANGED <<offered, checked, cur, boxes, clash>> /\ MenuTypeOK'
  BY DEF SaveStep, menuVars, MenuInv, MenuTypeOK
<1>2. BoxesKnown(p) /\ MenuAgrees(p)
  BY DEF MenuInv
<1>3. CASE SaveReads(p) \/ SaveOpens(p) \/ SaveFills(p) \/ \E i \in Items : SaveBegins(p, i)
  <2>1. UNCHANGED <<phase, mem, todo>>
    BY <1>3 DEF SaveReads, SaveOpens, SaveFills, SaveBegins
  <2>2. \A q \in Procs : Undisturbed(q)
    BY <1>1, <2>1 DEF Undisturbed
  <2>3. QED
    BY <1>1, <2>2, UndisturbedAgrees DEF MenuInv
<1>4. CASE FirstSaveFails(p)
  <2>1. phase'[p] = "off" /\ \A q \in Procs \ {p} : UNCHANGED <<phase[q], mem[q], todo[q]>>
    BY <1>4 DEF FirstSaveFails, Forgotten, Goes, StoreInv, StoreTypeOK
  <2>4. BoxesKnown(p)'
    <3>1. todo'[p] = Idle /\ todo[p] = Idle
      BY <1>4 DEF FirstSaveFails, Forgotten, StoreInv, StoreTypeOK, SaversKnown, SaverKnown
    <3>2. QED
      BY <1>1, <1>2, <3>1 DEF BoxesKnown
  <2>2. MenuAgrees(p)' /\ \A q \in Procs \ {p} : Undisturbed(q)
    BY <1>1, <2>1 DEF MenuAgrees, Undisturbed
  <2>3. QED
    BY <1>1, <2>2, <2>4, OneMenu
<1>5. CASE SaveRenames(p) \/ SaveFails(p)
  <2>1. /\ UNCHANGED mem /\ save[p].at # "none"
        /\ todo' = [todo EXCEPT ![p] = [i \in Items |-> IF i = save[p].by THEN "refresh" ELSE todo[p][i]]]
        /\ phase'[p] = "up" => phase[p] = "up"
        /\ \A q \in Procs \ {p} : phase'[q] = phase[q]
    BY <1>5 DEF SaveRenames, SaveFails, Returns, StoreInv, StoreTypeOK
  <2>2. \A q \in Procs \ {p} : Undisturbed(q)
    BY <1>1, <2>1 DEF Undisturbed, StoreInv, StoreTypeOK
  <2>3. /\ \A i \in Items : todo'[p][i] = IF i = save[p].by THEN "refresh" ELSE todo[p][i]
        /\ phase[p] = "up" => save[p].by \in Items /\ todo[p][save[p].by] = "save"
    BY <2>1 DEF StoreInv, StoreTypeOK, SaversKnown, SaverKnown
  <2>4. phase[p] = "up" => /\ \A i \in Items : todo'[p][i] = "nothing" <=> todo[p][i] = "nothing"
                           /\ \A i \in Items : todo'[p][i] = "show" => todo[p][i] = "show"
    BY <2>3
  <2>11. BoxesKnown(p)'
    <3>1. \A i \in Inputs : todo[p][i] = "show" => todo'[p][i] = "show"
      BY <2>3, Settings DEF StoreInv, SaversKnown, SaverKnown, Idle
    <3>2. QED
      BY <1>1, <1>2, <3>1 DEF BoxesKnown
  <2>5. SUFFICES ASSUME phase'[p] = "up"
                 PROVE  /\ mem'[p].target \in offered'[p] /\ checked'[p] \cap Inputs \subseteq offered'[p]
                        /\ todo'[p]["enabled"] = "nothing" => ("enabled" \in checked'[p] <=> mem'[p].enabled)
                        /\ ~clash'[p] => ShowsTarget(p)' \/ TargetAtWork(p)'
    BY <1>1, <2>2, <2>11, OneMenu DEF MenuAgrees
  <2>6. phase[p] = "up"
    BY <2>1, <2>5
  <2>7. ShowsTarget(p) => ShowsTarget(p)'
    BY <1>1, <2>1, <2>4, <2>6, Settings DEF ShowsTarget
  <2>8. TargetAtWork(p) => TargetAtWork(p)'
    BY <1>1, <2>1, <2>4, <2>6, Settings DEF TargetAtWork
  <2>9. todo'[p]["enabled"] = "nothing" => todo[p]["enabled"] = "nothing"
    BY <2>4, <2>6, Settings
  <2>10. QED
    BY <1>1, <1>2, <2>1, <2>6, <2>7, <2>8, <2>9 DEF MenuAgrees
<1>6. QED
  BY <1>3, <1>4, <1>5 DEF SaveStep, Saves

LEMMA EnabledMenu ==
  ASSUME StoreInv, MenuInv, NEW p \in Procs, ShowEnabled(p)
  PROVE  MenuInv'
<1>1. /\ UNCHANGED <<phase, mem, offered, cur, boxes, clash>>
      /\ checked' = [checked EXCEPT ![p] = (checked[p] \ {"enabled"}) \cup (CheckedFor(mem[p]) \cap {"enabled"})]
      /\ todo' = [todo EXCEPT ![p]["enabled"] = "nothing"]
  BY DEF ShowEnabled, RefreshFrame
<1>2. mem[p].target \in Inputs /\ MenuAgrees(p)
  BY DEF StoreInv, StoreTypeOK, Docs, MenuInv
<1>3. /\ checked'[p] = (checked[p] \ {"enabled"}) \cup (CheckedFor(mem[p]) \cap {"enabled"})
      /\ \A j \in Inputs : todo'[p][j] = todo[p][j]
  BY <1>1, Settings DEF StoreInv, StoreTypeOK, MenuInv, MenuTypeOK
<1>4. checked'[p] \cap Inputs = checked[p] \cap Inputs
  BY <1>3, Settings
<1>5. "enabled" \in checked'[p] <=> mem[p].enabled
  BY <1>2, <1>3, Settings DEF CheckedFor
<1>6. MenuTypeOK'
  <2>1. checked'[p] \in SUBSET Items
    BY <1>3, Settings DEF MenuInv, MenuTypeOK
  <2>2. QED
    BY <1>1, <1>3, <2>1 DEF MenuInv, MenuTypeOK
<1>7. \A q \in Procs \ {p} : Undisturbed(q)
  BY <1>1 DEF Undisturbed, MenuInv, MenuTypeOK, StoreInv, StoreTypeOK
<1>8. MenuAgrees(p)'
  <2>1. ShowsTarget(p) => ShowsTarget(p)'
    BY <1>1, <1>3, <1>4 DEF ShowsTarget
  <2>2. \A b \in Inputs : b \in checked'[p] <=> b \in checked[p]
    BY <1>4
  <2>3. offered[p] \subseteq Inputs
    BY DEF MenuInv, MenuTypeOK
  <2>4. TargetAtWork(p) => TargetAtWork(p)'
    BY <1>1, <1>3, <2>2, <2>3 DEF TargetAtWork
  <2>5. QED
    BY <1>1, <1>2, <1>4, <1>5, <2>1, <2>4 DEF MenuAgrees
<1>9. BoxesKnown(p)'
  BY <1>1, <1>3 DEF MenuInv, BoxesKnown
<1>10. QED
  BY <1>6, <1>7, <1>8, <1>9, OneMenu

\* A refresh of the group reads the setting and shows what it read, box by box.  An
\* item at work that is not alone in its group has been through a clash.
LEMMA RefreshMenu ==
  ASSUME StoreInv, MenuInv, NEW p \in Procs, NEW i \in Inputs, Refresh(p, i)
  PROVE  MenuInv'
<1>1. UNCHANGED <<phase, mem, offered, clash>> /\ todo[p][i] \in {"refresh", "show"}
  BY DEF Refresh, RefreshReads, RefreshShows, RefreshFrame
<1>2. mem[p].target \in Inputs /\ MenuAgrees(p) /\ phase[p] = "up"
  BY <1>1, Settings DEF StoreInv, StoreTypeOK, Docs, MenuInv, SaversKnown, SaverKnown, Idle
<1>7. BoxesKnown(p)
  BY DEF MenuInv
<1>3. ~clash[p] => TargetAtWork(p) /\ i = mem[p].target
  BY <1>1, <1>2 DEF MenuAgrees, ShowsTarget, TargetAtWork
<1>4. CASE RefreshReads(p, i)
  <2>1. /\ cur' = [cur EXCEPT ![p][i] = mem[p].target]
        /\ boxes' = [boxes EXCEPT ![p][i] = offered[p]]
        /\ todo' = [todo EXCEPT ![p][i] = "show"] /\ UNCHANGED checked
    BY <1>4 DEF RefreshReads
  <2>2. /\ cur'[p][i] = mem[p].target /\ boxes'[p][i] = offered[p] /\ todo'[p][i] = "show"
        /\ \A j \in Items \ {i} : todo'[p][j] = todo[p][j]
    BY <2>1, Settings DEF StoreInv, StoreTypeOK, MenuInv, MenuTypeOK
  <2>3. MenuTypeOK'
    BY <1>1, <1>2, <2>1 DEF MenuInv, MenuTypeOK
  <2>4. \A q \in Procs \ {p} : Undisturbed(q)
    BY <1>1, <2>1 DEF Undisturbed, MenuInv, MenuTypeOK, StoreInv, StoreTypeOK
  <2>5. ~clash[p] => TargetAtWork(p)'
    BY <1>1, <1>3, <2>2, Settings DEF TargetAtWork
  <2>6. todo'[p]["enabled"] = todo[p]["enabled"]
    BY <2>2, Settings
  <2>7. MenuAgrees(p)'
    BY <1>1, <1>2, <2>1, <2>5, <2>6 DEF MenuAgrees
  <2>8. BoxesKnown(p)'
    <3>1. \A j \in Inputs \ {i} : boxes'[p][j] = boxes[p][j]
      BY <2>1 DEF MenuInv, MenuTypeOK
    <3>2. QED
      BY <1>1, <1>7, <2>2, <3>1, Settings DEF BoxesKnown
  <2>9. QED
    BY <2>3, <2>4, <2>7, <2>8, OneMenu
<1>5. CASE RefreshShows(p, i)
  <2>1. PICK b \in boxes[p][i] : 
          /\ SetsBox(p, i, b)
          /\ boxes' = [boxes EXCEPT ![p][i] = boxes[p][i] \ {b}]
          /\ IF boxes[p][i] = {b}
             THEN /\ cur' = [cur EXCEPT ![p][i] = DefaultInput]
                  /\ todo' = [todo EXCEPT ![p][i] = "nothing"]
             ELSE UNCHANGED <<cur, todo>>
    BY <1>5 DEF RefreshShows
  <2>2. todo[p][i] = "show" /\ b \in Inputs
    BY <1>5 DEF RefreshShows, MenuInv, MenuTypeOK
  <2>3. /\ checked'[p] = IF b = cur[p][i] THEN checked[p] \cup {b} ELSE checked[p] \ {b}
        /\ \A q \in Procs \ {p} : checked'[q] = checked[q]
        /\ checked' \in [Procs -> SUBSET Items]
    BY <2>1, <2>2, Settings DEF SetsBox, MenuInv, MenuTypeOK
  <2>4. /\ boxes'[p][i] = boxes[p][i] \ {b}
        /\ \A q \in Procs \ {p} : boxes'[q] = boxes[q]
        /\ boxes' \in [Procs -> [Inputs -> SUBSET Inputs]]
    BY <2>1, <2>2 DEF MenuInv, MenuTypeOK
  <2>5. MenuTypeOK'
    <3>1. cur' \in [Procs -> [Inputs -> Inputs]]
      <4>1. cur \in [Procs -> [Inputs -> Inputs]] /\ DefaultInput \in Inputs
        BY ConfigStoreAssumption DEF MenuInv, MenuTypeOK
      <4>2. cur' = cur \/ cur' = [cur EXCEPT ![p][i] = DefaultInput]
        BY <2>1
      <4>3. QED
        BY <4>1, <4>2
    <3>2. /\ offered' \in [Procs -> SUBSET Inputs] /\ clash' \in [Procs -> BOOLEAN]
      BY <1>1 DEF MenuInv, MenuTypeOK
    <3>3. QED
      BY <2>3, <2>4, <3>1, <3>2 DEF MenuTypeOK
  <2>6. \A q \in Procs \ {p} : Undisturbed(q)
    BY <1>1, <2>1, <2>3, <2>4 DEF Undisturbed, MenuInv, MenuTypeOK, StoreInv, StoreTypeOK
  <2>7. /\ \A j \in Items \ {i} : todo'[p][j] = todo[p][j]
        /\ "enabled" \in checked'[p] <=> "enabled" \in checked[p]
    BY <2>1, <2>2, <2>3, Settings DEF StoreInv, StoreTypeOK
  <2>8. checked'[p] \cap Inputs \subseteq offered[p]
    BY <1>2, <1>7, <2>2, <2>3 DEF BoxesKnown, MenuAgrees
  <2>9. BoxesKnown(p)'
    <3>1. \A j \in Inputs \ {i} : boxes'[p][j] = boxes[p][j]
      BY <2>1 DEF MenuInv, MenuTypeOK
    <3>2. \A j \in Inputs \ {i} : todo'[p][j] = todo[p][j]
      BY <2>7, Settings
    <3>3. boxes[p][i] = {b} => boxes'[p][i] = {}
      BY <2>4
    <3>4. boxes[p][i] # {b} => todo'[p][i] = "show"
      BY <2>1, <2>2
    <3>5. boxes'[p][i] \subseteq IF todo'[p][i] = "show" THEN offered'[p] ELSE {}
      BY <1>1, <1>7, <2>2, <2>4, <3>3, <3>4 DEF BoxesKnown
    <3>6. QED
      BY <1>1, <1>7, <3>1, <3>2, <3>5 DEF BoxesKnown
  <2>10. ~clash[p] => ShowsTarget(p)' \/ TargetAtWork(p)'
    <3> SUFFICES ASSUME ~clash[p] PROVE ShowsTarget(p)' \/ TargetAtWork(p)'
      OBVIOUS
    <3>1. /\ i = mem[p].target /\ cur[p][i] = i
          /\ \A a \in offered[p] \ boxes[p][i] : a \in checked[p] <=> a = i
          /\ \A j \in Inputs \ {i} : todo[p][j] = "nothing"
      BY <1>3, <2>2 DEF TargetAtWork
    <3>2. \A a \in offered[p] \ boxes'[p][i] : a \in checked'[p] <=> a = i
      BY <2>2, <2>3, <2>4, <3>1
    <3>3. \A j \in Inputs \ {i} : todo'[p][j] = "nothing"
      BY <2>7, <3>1, Settings
    <3>4. CASE boxes[p][i] = {b}
      <4>1. boxes'[p][i] = {} /\ todo'[p][i] = "nothing"
        BY <2>1, <2>4, <3>4 DEF StoreInv, StoreTypeOK, Items
      <4>2. checked'[p] \cap Inputs = {i}
        BY <1>2, <2>8, <3>1, <3>2, <4>1 DEF MenuAgrees
      <4>3. QED
        BY <1>1, <3>1, <3>3, <4>1, <4>2 DEF ShowsTarget
    <3>5. CASE boxes[p][i] # {b}
      BY <1>1, <2>1, <2>2, <3>1, <3>2, <3>3, <3>5 DEF TargetAtWork
    <3>6. QED
      BY <3>4, <3>5
  <2>11. MenuAgrees(p)'
    BY <1>1, <1>2, <2>7, <2>8, <2>10, Settings DEF MenuAgrees
  <2>12. QED
    BY <2>5, <2>6, <2>9, <2>11, OneMenu
<1>6. QED
  BY <1>4, <1>5 DEF Refresh

\* Before a process is up, and when it ends, its menu promises nothing.
LEMMA NotUpMenu ==
  ASSUME StoreInv, MenuInv, NEW p \in Procs,
         Starts(p) \/ ClickTooEarly(p) \/ Ends(p) \/ LoadErrs(p)
  PROVE  MenuInv'
<1>1. CASE Starts(p)
  <2>1. /\ UNCHANGED <<menuVars, todo>> /\ phase'[p] # "up"
        /\ \A q \in Procs \ {p} : UNCHANGED <<phase[q], mem[q]>>
    BY <1>1 DEF Starts, Acquire, LoadFile, LoadDefault, Goes, StoreInv, StoreTypeOK
  <2>2. /\ MenuTypeOK' /\ BoxesKnown(p)' /\ MenuAgrees(p)'
        /\ \A q \in Procs \ {p} : Undisturbed(q)
    BY <2>1 DEF MenuInv, MenuTypeOK, BoxesKnown, MenuAgrees, Undisturbed, menuVars
  <2>3. QED
    BY <2>2, OneMenu
<1>2. CASE ClickTooEarly(p) \/ Ends(p) \/ LoadErrs(p)
  <2>1. Forgets(p) /\ Forgotten(p)
    BY <1>2 DEF ClickTooEarly, Ends, LoadErrs, Dies, LoadFails, FirstSaveFails
  <2>2. NoCur \in [Inputs -> Inputs] /\ NoBoxes \in [Inputs -> SUBSET Inputs]
    BY ConfigStoreAssumption DEF NoCur, NoBoxes
  <2>3. MenuTypeOK'
    BY <2>1, <2>2 DEF Forgets, MenuInv, MenuTypeOK
  <2>4. phase'[p] = "off" /\ \A q \in Procs \ {p} : UNCHANGED <<phase[q], mem[q], todo[q]>>
    BY <2>1 DEF Forgotten, Goes, StoreInv, StoreTypeOK
  <2>5. \A q \in Procs \ {p} : UNCHANGED <<offered[q], checked[q], cur[q], boxes[q], clash[q]>>
    BY <2>1 DEF Forgets, MenuInv, MenuTypeOK
  <2>8. BoxesKnown(p)'
    BY <2>1, <2>2 DEF Forgets, MenuInv, MenuTypeOK, BoxesKnown, NoBoxes
  <2>6. MenuAgrees(p)' /\ \A q \in Procs \ {p} : Undisturbed(q)
    BY <2>4, <2>5 DEF MenuAgrees, Undisturbed
  <2>7. QED
    BY <2>3, <2>6, <2>8, OneMenu
<1>3. QED
  BY <1>1, <1>2

LEMMA MenuInvNext == StoreInv /\ MenuInv /\ [Next]_vars => MenuInv'
<1> SUFFICES ASSUME StoreInv, MenuInv, [Next]_vars PROVE MenuInv'
  OBVIOUS
<1>1. ASSUME UNCHANGED <<storeVars, menuVars>> PROVE MenuInv'
  <2>1. MenuTypeOK' /\ \A p \in Procs : Undisturbed(p)
    BY <1>1 DEF MenuInv, MenuTypeOK, Undisturbed, storeVars, menuVars
  <2>2. QED
    BY <2>1, UndisturbedAgrees DEF MenuInv
<1>2. CASE Talks \/ UNCHANGED vars
  BY <1>1, <1>2 DEF Talks, vars
<1>3. ASSUME NEW p \in Procs, AsksInputs(p) \/ \E v \in Inputs : TestSwitch(p, v) PROVE MenuInv'
  BY <1>1, <1>3 DEF AsksInputs, TestSwitch
<1>4. ASSUME NEW p \in Procs, Ready(p) \/ SaveStep(p) \/ ShowEnabled(p) PROVE MenuInv'
  BY <1>4, ReadyMenu, SaveMenu, EnabledMenu
<1>5. ASSUME NEW p \in Procs, \E i \in Inputs : Refresh(p, i) PROVE MenuInv'
  BY <1>5, RefreshMenu
<1>6. ASSUME NEW p \in Procs, NEW i \in Items, Click(p, i) PROVE MenuInv'
  BY <1>6, ClickMenu
<1>7. ASSUME NEW p \in Procs, Starts(p) \/ ClickTooEarly(p) \/ Ends(p) \/ LoadErrs(p) PROVE MenuInv'
  BY <1>7, NotUpMenu
<1>8. QED
  BY <1>2, <1>3, <1>4, <1>5, <1>6, <1>7 DEF Next

LEMMA MenuInvariant == Spec => []MenuInv
BY StoreInvariant, MenuInvInit, MenuInvNext, PTL DEF Spec

\* Store, monitor and menu keep their types, with any number of processes, items
\* at work and displays.
THEOREM TypeCorrect == Spec => []TypeOK
<1>1. StoreInv /\ DdcInv /\ MenuInv => TypeOK
  BY DEF TypeOK, StoreInv, DdcInv, MenuInv, MenuTypeOK
<1>2. QED
  BY <1>1, StoreInvariant, DdcInvariant, MenuInvariant, PTL

\* When no item is at work the boxes show the settings, though each refresh reads
\* the settings and updates the boxes in two steps, and whatever list the monitor
\* gave: unless clicks in the group of inputs overlapped.
THEOREM BoxesShowSettings == Spec => []MenuFollowsSettings
<1>1. StoreInv /\ MenuInv => MenuFollowsSettings
  <2> SUFFICES ASSUME StoreInv, MenuInv, NEW p \in Procs, AtRest(p), ~clash[p]
               PROVE  checked[p] = CheckedFor(mem[p])
    BY DEF MenuFollowsSettings
  <2>1. /\ MenuAgrees(p) /\ phase[p] = "up" /\ \A i \in Items : todo[p][i] = "nothing"
        /\ mem[p].target \in Inputs /\ checked[p] \subseteq Items
    BY DEF MenuInv, MenuTypeOK, AtRest, Idle, StoreInv, StoreTypeOK, Docs
  <2>2. checked[p] \cap Inputs = {mem[p].target} /\ ("enabled" \in checked[p] <=> mem[p].enabled)
    BY <2>1, Settings DEF MenuAgrees, ShowsTarget, TargetAtWork
  <2>3. QED
    BY <2>1, <2>2, Settings DEF CheckedFor
<1>2. QED
  BY <1>1, StoreInvariant, MenuInvariant, PTL
=============================================================================
