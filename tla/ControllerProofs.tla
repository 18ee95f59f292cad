-------------------------- MODULE ControllerProofs --------------------------
(***************************************************************************)
(* Theorems about Controller, for every value of its constants.            *)
(***************************************************************************)
EXTENDS Controller, TLAPS

-----------------------------------------------------------------------------
(* Type correctness.                                                       *)

\* First picks a member of S or nothing, and AssignMouse and AssignKeyboard
\* (identifyDevices) therefore pick connected devices or nothing.
LEMMA FirstTyping ==
  ASSUME NEW S PROVE First(S) \in S \cup {NoDev}
PROOF BY DEF First

LEMMA AssignTyping ==
  ASSUME NEW typed \in SUBSET Devices, NEW untyped \in SUBSET Devices
  PROVE  /\ AssignMouse(typed, untyped) \in Devices \cup {NoDev}
         /\ AssignKeyboard(typed, untyped) \in Devices \cup {NoDev}
PROOF BY FirstTyping DEF AssignMouse, AssignKeyboard

\* triggerDevice answers an identified device or none.
LEMMA TriggerOfTyping ==
  ASSUME NEW t, NEW kbd \in Devices \cup {NoDev}, NEW mouse \in Devices \cup {NoDev}
  PROVE  TriggerOf(t, kbd, mouse) \in Devices \cup {NoDev}
PROOF BY DEF TriggerOf

LEMMA TriggerTyping ==
  ASSUME SettingsOK PROVE TriggerDevice \in Devices \cup {NoDev}
PROOF BY TriggerOfTyping DEF SettingsOK, TriggerDevice

\* The locals of a step are well typed when their parts are.
LEMMA WorkTyping ==
  ASSUME NEW d \in Devices \cup {NoDev}, NEW v \in Via, NEW n \in 0..3, NEW a \in BOOLEAN
  PROVE  Work(d, v, n, a) \in Works
PROOF BY DEF Work, Works

LEMMA IdlingTyping ==
  ASSUME NEW d \in Devices \cup {NoDev}
  PROVE  Work(d, "poll", 0, FALSE) \in Works
PROOF BY DEF Work, Works, Via

LEMMA IdleTyping == Idle \in Works
PROOF BY IdlingTyping DEF Idle

\* What the assumptions say of the numbers among the constants.
LEMMA ConstantTyping ==
  /\ Grace \in Nat /\ EventCap \in Nat /\ EventCap >= 1
  /\ NoteCap \in Nat /\ NoteCap >= 1 /\ PendingBound \in Nat /\ PendingBound >= 1
  /\ LateBound \in Nat
PROOF BY PowerAssumption, ControllerAssumption

\* notifyCh keeps its type and its bound whatever the receiver reports.
LEMMA AnnouncedTyping ==
  ASSUME NotesOK, NEW d \in Devices, NEW up \in BOOLEAN, notes' \in Announced(d, up)
  PROVE  NotesOK'
<1>1. CASE notes' = notes
  BY <1>1 DEF NotesOK
<1>2. CASE Len(notes) < NoteCap /\ notes' = Append(notes, [dev |-> d, up |-> up])
  <2>1. [dev |-> d, up |-> up] \in Notifications
    BY DEF Notifications
  <2>2. notes' \in Seq(Notifications) /\ Len(notes') = Len(notes) + 1
    BY <1>2, <2>1 DEF NotesOK
  <2>3. QED
    BY <1>2, <2>2, ConstantTyping DEF NotesOK
<1>3. QED
  BY <1>1, <1>2 DEF Announced

\* New and Start establish the types.
LEMMA InitTyping == Init => TypeOK
<1> SUFFICES ASSUME Init PROVE TypeOK
  OBVIOUS
<1> USE DEF Init, PmInit
<1>1. PmFlagsOK   BY DEF PmFlagsOK
<1>2. GraceOK /\ HoldOffOK  BY ConstantTyping DEF GraceOK, HoldOffOK
<1>3. EventsOK /\ WaitOK /\ NotesOK
  BY ConstantTyping DEF EventsOK, WaitOK, NotesOK
<1>4. SettingsOK  BY ControllerAssumption DEF SettingsOK
<1>5. ArmingOK    BY DEF ArmingOK
<1>6. StepOK      BY IdleTyping DEF StepOK, PC
<1>7. LinksOK     BY ControllerAssumption DEF LinksOK
<1>8. LateOK      BY ConstantTyping DEF LateOK
<1>9. QED
  BY <1>1, <1>2, <1>3, <1>4, <1>5, <1>6, <1>7, <1>8 DEF TypeOK, PmTypeOK

\* Every step of every goroutine keeps them.
LEMMA NextTyping == TypeOK /\ [Next]_vars => TypeOK'
<1> SUFFICES ASSUME TypeOK, [Next]_vars PROVE TypeOK'
  OBVIOUS
<1> USE ConstantTyping
    DEF TypeOK, PmTypeOK, pmVars, cfgVars, devVars, armVars, watchVars, waitVars,
        envVars, histVars, SupervisorFrame
<1>1. CASE OpenReceiver
  <2>1. StepOK' BY <1>1 DEF OpenReceiver, StepOK, PC
  <2>2. LinksOK' BY <1>1 DEF OpenReceiver, LinksOK
  <2>3. NotesOK' BY <1>1 DEF OpenReceiver, NotesOK
  <2>4. LateOK' BY <1>1 DEF OpenReceiver, LateOK
  <2>5. PmFlagsOK' /\ GraceOK' /\ EventsOK' /\ SettingsOK' /\ ArmingOK' /\
        HoldOffOK' /\ WaitOK'
    BY <1>1 DEF OpenReceiver, PmFlagsOK, GraceOK, EventsOK, SettingsOK, ArmingOK,
        HoldOffOK, WaitOK
  <2>6. QED BY <2>1, <2>2, <2>3, <2>4, <2>5
<1>2. CASE OpenFails
  <2>1. StepOK' BY <1>2 DEF OpenFails, StepOK, PC
  <2>2. PmFlagsOK' /\ GraceOK' /\ EventsOK' /\ SettingsOK' /\ ArmingOK' /\
        HoldOffOK' /\ WaitOK' /\ LinksOK' /\ NotesOK' /\ LateOK'
    BY <1>2 DEF OpenFails, PmFlagsOK, GraceOK, EventsOK, SettingsOK, ArmingOK, HoldOffOK,
        WaitOK, LinksOK, NotesOK, LateOK
  <2>3. QED BY <2>1, <2>2
<1>3. CASE Retry
  <2>1. StepOK' BY <1>3 DEF Retry, StepOK, PC
  <2>2. PmFlagsOK' /\ GraceOK' /\ EventsOK' /\ SettingsOK' /\ ArmingOK' /\
        HoldOffOK' /\ WaitOK' /\ LinksOK' /\ NotesOK' /\ LateOK'
    BY <1>3 DEF Retry, PmFlagsOK, GraceOK, EventsOK, SettingsOK, ArmingOK, HoldOffOK,
        WaitOK, LinksOK, NotesOK, LateOK
  <2>3. QED BY <2>1, <2>2
<1>4. CASE Collect
  <2>1. StepOK'
    <3>1. PICK s \in SUBSET Devices : cur' = [Idle EXCEPT !.found = s]
      BY <1>4 DEF Collect, LinksOK
    <3>2. cur' \in Works  BY <3>1, IdleTyping DEF Works
    <3>3. QED            BY <1>4, <3>2 DEF Collect, StepOK, PC
  <2>2. NotesOK' BY <1>4 DEF Collect, NotesOK
  <2>3. PmFlagsOK' /\ GraceOK' /\ EventsOK' /\ SettingsOK' /\ ArmingOK' /\
        HoldOffOK' /\ WaitOK' /\ LinksOK' /\ LateOK'
    BY <1>4 DEF Collect, PmFlagsOK, GraceOK, EventsOK, SettingsOK, ArmingOK, HoldOffOK,
        WaitOK, LinksOK, LateOK
  <2>4. QED BY <2>1, <2>2, <2>3
<1>5. CASE Assign
  <2> PICK typed \in SUBSET cur.found :
        LET mouse == AssignMouse(typed, cur.found \ typed)
            kbd   == AssignKeyboard(typed, cur.found \ typed)
            trig  == TriggerOf(trigger, kbd, mouse)
        IN /\ keyboardDev' = kbd /\ mouseDev' = mouse
           /\ cur' = Work(trig, "poll", 0, FALSE)
           /\ pc' = IF trig = NoDev THEN "initSet" ELSE "initPing"
    BY <1>5 DEF Assign
  <2>0. typed \in SUBSET Devices /\ cur.found \ typed \in SUBSET Devices
    BY DEF StepOK, Works
  <2>1. SettingsOK'  BY <1>5, <2>0, AssignTyping DEF SettingsOK, Assign
  <2>2. StepOK'
    <3>1. cur' \in Works  BY <2>0, AssignTyping, TriggerOfTyping, IdlingTyping
    <3>2. QED            BY <3>1 DEF StepOK, PC
  <2>3. PmFlagsOK' /\ GraceOK' /\ EventsOK' /\ ArmingOK' /\ HoldOffOK' /\ WaitOK' /\
        LinksOK' /\ NotesOK' /\ LateOK'
    BY <1>5 DEF Assign, PmFlagsOK, GraceOK, EventsOK, ArmingOK, HoldOffOK, WaitOK,
        LinksOK, NotesOK, LateOK
  <2>4. QED BY <2>1, <2>2, <2>3
<1>6. CASE InitPing
  <2>1. StepOK' BY <1>6 DEF InitPing, StepOK, PC, Works
  <2>2. LinksOK' BY <1>6 DEF InitPing, LinksOK, Ping
  <2>3. LateOK' BY <1>6 DEF InitPing, LateOK, Ping, OneMoreLate
  <2>4. PmFlagsOK' /\ GraceOK' /\ EventsOK' /\ SettingsOK' /\ ArmingOK' /\
        HoldOffOK' /\ WaitOK' /\ NotesOK'
    BY <1>6 DEF InitPing, PmFlagsOK, GraceOK, EventsOK, SettingsOK, ArmingOK, HoldOffOK,
        WaitOK, NotesOK
  <2>5. QED BY <2>1, <2>2, <2>3, <2>4
<1>7. CASE InitSet
  <2>1. ArmingOK' BY <1>7 DEF InitSet, ArmingOK, StepOK, Works
  <2>2. StepOK' BY <1>7, IdleTyping DEF InitSet, StepOK, PC
  <2>3. WaitOK' BY <1>7 DEF InitSet, WaitOK
  <2>4. PmFlagsOK' /\ GraceOK' /\ EventsOK' /\ SettingsOK' /\ HoldOffOK' /\ LinksOK' /\
        NotesOK' /\ LateOK'
    BY <1>7 DEF InitSet, PmFlagsOK, GraceOK, EventsOK, SettingsOK, HoldOffOK, LinksOK,
        NotesOK, LateOK
  <2>5. QED BY <2>1, <2>2, <2>3, <2>4
<1>8. CASE Exit
  <2>1. StepOK' BY <1>8, IdleTyping DEF Exit, StepOK, PC
  <2>2. WaitOK' BY <1>8 DEF Exit, WaitOK
  <2>3. LinksOK' BY <1>8 DEF Exit, LinksOK
  <2>4. NotesOK' BY <1>8 DEF Exit, NotesOK
  <2>5. LateOK' BY <1>8 DEF Exit, LateOK
  <2>6. PmFlagsOK' /\ GraceOK' /\ EventsOK' /\ SettingsOK' /\ ArmingOK' /\ HoldOffOK'
    BY <1>8 DEF Exit, PmFlagsOK, GraceOK, EventsOK, SettingsOK, ArmingOK, HoldOffOK
  <2>7. QED BY <2>1, <2>2, <2>3, <2>4, <2>5, <2>6
<1>9. CASE TakeNote
  <2>1. StepOK'
    <3>1. Head(notes) \in Notifications
      BY <1>9 DEF TakeNote, NotesOK
    <3>2. Head(notes).up \in BOOLEAN
      BY <3>1 DEF Notifications
    <3>3. CASE cur' = Work(TriggerDevice, "note", 0, Head(notes).up) /\ pc' = "observed"
      <4>1. cur' \in Works  BY <3>2, <3>3, TriggerTyping, WorkTyping DEF Via
      <4>2. QED            BY <3>3, <4>1 DEF StepOK, PC
    <3>4. CASE UNCHANGED <<pc, cur>>  BY <3>4 DEF StepOK
    <3>5. QED                         BY <1>9, <3>3, <3>4 DEF TakeNote
  <2>2. NotesOK' BY <1>9 DEF TakeNote, NotesOK
  <2>3. PmFlagsOK' /\ GraceOK' /\ EventsOK' /\ SettingsOK' /\ ArmingOK' /\
        HoldOffOK' /\ WaitOK' /\ LinksOK' /\ LateOK'
    BY <1>9 DEF TakeNote, PmFlagsOK, GraceOK, EventsOK, SettingsOK, ArmingOK, HoldOffOK,
        WaitOK, LinksOK, LateOK
  <2>4. QED BY <2>1, <2>2, <2>3
<1>10. CASE PollTick
  <2>1. StepOK'
    <3>1. cur' \in Works  BY <1>10, TriggerTyping, IdlingTyping DEF PollTick
    <3>2. QED            BY <1>10, <3>1 DEF PollTick, StepOK, PC
  <2>2. PmFlagsOK' /\ GraceOK' /\ EventsOK' /\ SettingsOK' /\ ArmingOK' /\
        HoldOffOK' /\ WaitOK' /\ LinksOK' /\ NotesOK' /\ LateOK'
    BY <1>10 DEF PollTick, PmFlagsOK, GraceOK, EventsOK, SettingsOK, ArmingOK, HoldOffOK,
        WaitOK, LinksOK, NotesOK, LateOK
  <2>3. QED BY <2>1, <2>2
<1>11. CASE Poll
  <2>1. StepOK' BY <1>11 DEF Poll, StepOK, PC, Works
  <2>2. LinksOK' BY <1>11 DEF Poll, LinksOK, Ping
  <2>3. LateOK' BY <1>11 DEF Poll, LateOK, Ping, OneMoreLate
  <2>4. PmFlagsOK' /\ GraceOK' /\ EventsOK' /\ SettingsOK' /\ ArmingOK' /\
        HoldOffOK' /\ WaitOK' /\ NotesOK'
    BY <1>11 DEF Poll, PmFlagsOK, GraceOK, EventsOK, SettingsOK, ArmingOK, HoldOffOK,
        WaitOK, NotesOK
  <2>5. QED BY <2>1, <2>2, <2>3, <2>4
<1>12. CASE Observe
  <2>1. ArmingOK' BY <1>12 DEF Observe, ArmingOK, OnPresent, OnDepart, Rearm, StepOK, Works
  <2>2. StepOK' BY <1>12, IdleTyping DEF Observe, StepOK, PC
  <2>3. WaitOK' BY <1>12 DEF Observe, WaitOK, OnPresent, OnDepart, StepOK, Works
  <2>4. PmFlagsOK' /\ GraceOK' /\ EventsOK' /\ SettingsOK' /\ HoldOffOK' /\ LinksOK' /\
        NotesOK' /\ LateOK'
    BY <1>12 DEF Observe, PmFlagsOK, GraceOK, EventsOK, SettingsOK, HoldOffOK, LinksOK,
        NotesOK, LateOK
  <2>5. QED BY <2>1, <2>2, <2>3, <2>4
<1>13. CASE DebounceElapses
  <2>1. WaitOK' BY <1>13 DEF DebounceElapses, WaitOK, Via
  <2>2. PmFlagsOK' /\ GraceOK' /\ EventsOK' /\ SettingsOK' /\ ArmingOK' /\
        HoldOffOK' /\ StepOK' /\ LinksOK' /\ NotesOK' /\ LateOK'
    BY <1>13 DEF DebounceElapses, PmFlagsOK, GraceOK, EventsOK, SettingsOK, ArmingOK,
        HoldOffOK, StepOK, LinksOK, NotesOK, LateOK
  <2>3. QED BY <2>1, <2>2
<1>14. CASE TakePending
  <2>1. StepOK'
    <3>1. Head(pendingC) \in Via
      BY <1>14 DEF TakePending, WaitOK
    <3>2. CASE TriggerDevice = NoDev
      <4>1. Work(NoDev, Head(pendingC), 0, TRUE) \in Works  BY <3>1 DEF Work, Works
      <4>2. QED  BY <1>14, <3>2, <4>1 DEF TakePending, StepOK, PC
    <3>3. CASE TriggerDevice # NoDev
      <4>1. Confirmations(Head(pendingC)) \in 1..3
        BY DEF Confirmations
      <4>2. /\ cur' = Work(TriggerDevice, Head(pendingC), Confirmations(Head(pendingC)),
                          FALSE)
            /\ pc' = "confirm"
        BY <1>14, <3>3 DEF TakePending
      <4>3. cur' \in Works /\ cur'.tries > 0
        BY <3>1, <4>1, <4>2, TriggerTyping DEF Work, Works
      <4>4. QED  BY <4>2, <4>3 DEF StepOK, PC
    <3>4. QED  BY <3>2, <3>3
  <2>2. WaitOK' BY <1>14 DEF TakePending, WaitOK
  <2>3. PmFlagsOK' /\ GraceOK' /\ EventsOK' /\ SettingsOK' /\ ArmingOK' /\
        HoldOffOK' /\ LinksOK' /\ NotesOK' /\ LateOK'
    BY <1>14 DEF TakePending, PmFlagsOK, GraceOK, EventsOK, SettingsOK, ArmingOK,
        HoldOffOK, LinksOK, NotesOK, LateOK
  <2>4. QED BY <2>1, <2>2, <2>3
<1>15. CASE Confirm
  <2>1. StepOK'
    <3>1. PICK a \in BOOLEAN :
            /\ cur' = [cur EXCEPT !.ans = a, !.tries = IF a THEN 0 ELSE cur.tries - 1]
            /\ pc' = IF a \/ cur.tries = 1 THEN "confirmed" ELSE "confirm"
      BY <1>15 DEF Confirm
    <3>2. cur \in Works /\ cur.tries \in 1..3
      BY <1>15 DEF Confirm, StepOK, Works
    <3>3. (IF a THEN 0 ELSE cur.tries - 1) \in 0..3
      BY <3>2
    <3>4. cur' \in Works
      BY <3>1, <3>2, <3>3 DEF Works
    <3>5. cur'.tries = IF a THEN 0 ELSE cur.tries - 1
      BY <3>1, <3>2 DEF Works
    <3>6. QED  BY <3>1, <3>2, <3>4, <3>5 DEF StepOK, PC
  <2>2. LinksOK' BY <1>15 DEF Confirm, LinksOK, Ping
  <2>3. LateOK' BY <1>15 DEF Confirm, LateOK, Ping, OneMoreLate
  <2>4. PmFlagsOK' /\ GraceOK' /\ EventsOK' /\ SettingsOK' /\ ArmingOK' /\
        HoldOffOK' /\ WaitOK' /\ NotesOK'
    BY <1>15 DEF Confirm, PmFlagsOK, GraceOK, EventsOK, SettingsOK, ArmingOK, HoldOffOK,
        WaitOK, NotesOK
  <2>5. QED BY <2>1, <2>2, <2>3, <2>4
<1>16. CASE StillHere
  <2>1. ArmingOK' BY <1>16 DEF StillHere, ArmingOK, OnPresent, Rearm
  <2>2. StepOK' BY <1>16, IdleTyping DEF StillHere, StepOK, PC
  <2>3. PmFlagsOK' /\ GraceOK' /\ EventsOK' /\ SettingsOK' /\ HoldOffOK' /\ WaitOK' /\
        LinksOK' /\ NotesOK' /\ LateOK'
    BY <1>16 DEF StillHere, PmFlagsOK, GraceOK, EventsOK, SettingsOK, HoldOffOK, WaitOK,
        LinksOK, NotesOK, LateOK
  <2>4. QED BY <2>1, <2>2, <2>3
<1>17. CASE FireSwitch
  <2>1. ArmingOK' BY <1>17 DEF FireSwitch, ArmingOK, DisarmOnFire
  <2>2. StepOK'
    <3>1. cur' \in Works  BY <1>17, IdlingTyping DEF FireSwitch, SettingsOK
    <3>2. QED            BY <1>17, <3>1 DEF FireSwitch, StepOK, PC
  <2>3. PmFlagsOK' /\ GraceOK' /\ EventsOK' /\ SettingsOK' /\ HoldOffOK' /\ WaitOK' /\
        LinksOK' /\ NotesOK' /\ LateOK'
    BY <1>17 DEF FireSwitch, PmFlagsOK, GraceOK, EventsOK, SettingsOK, HoldOffOK, WaitOK,
        LinksOK, NotesOK, LateOK
  <2>4. QED BY <2>1, <2>2, <2>3
<1>18. CASE FireAborted
  <2>1. StepOK' BY <1>18, IdleTyping DEF FireAborted, StepOK, PC
  <2>2. PmFlagsOK' /\ GraceOK' /\ EventsOK' /\ SettingsOK' /\ ArmingOK' /\
        HoldOffOK' /\ WaitOK' /\ LinksOK' /\ NotesOK' /\ LateOK'
    BY <1>18 DEF FireAborted, PmFlagsOK, GraceOK, EventsOK, SettingsOK, ArmingOK,
        HoldOffOK, WaitOK, LinksOK, NotesOK, LateOK
  <2>3. QED BY <2>1, <2>2
<1>19. CASE PushFollow
  <2>1. StepOK' BY <1>19, IdleTyping DEF PushFollow, StepOK, PC
  <2>2. LinksOK' BY <1>19 DEF PushFollow, LinksOK
  <2>3. NotesOK'
    <3>1. CASE UNCHANGED notes  BY <3>1 DEF NotesOK
    <3>2. CASE cur.dev \in link /\ notes' \in Announced(cur.dev, FALSE)
      BY <3>2, AnnouncedTyping DEF LinksOK
    <3>3. QED  BY <1>19, <3>1, <3>2 DEF PushFollow
  <2>4. LateOK' BY <1>19 DEF PushFollow, LateOK, OneMoreLate
  <2>5. PmFlagsOK' /\ GraceOK' /\ EventsOK' /\ SettingsOK' /\ ArmingOK' /\
        HoldOffOK' /\ WaitOK'
    BY <1>19 DEF PushFollow, PmFlagsOK, GraceOK, EventsOK, SettingsOK, ArmingOK,
        HoldOffOK, WaitOK
  <2>6. QED BY <2>1, <2>2, <2>3, <2>4, <2>5
<1>20. CASE SwitchDone
  <2>1. StepOK' BY <1>20 DEF SwitchDone, StepOK, PC
  <2>2. PmFlagsOK' /\ GraceOK' /\ EventsOK' /\ SettingsOK' /\ ArmingOK' /\
        HoldOffOK' /\ WaitOK' /\ LinksOK' /\ NotesOK' /\ LateOK'
    BY <1>20 DEF SwitchDone, PmFlagsOK, GraceOK, EventsOK, SettingsOK, ArmingOK,
        HoldOffOK, WaitOK, LinksOK, NotesOK, LateOK
  <2>3. QED BY <2>1, <2>2
<1>21. CASE WatchPower
  <2>1. EventsOK' BY <1>21 DEF WatchPower, EventsOK
  <2>2. ArmingOK' BY <1>21 DEF WatchPower, NotePower, ArmingOK
  <2>3. HoldOffOK' BY <1>21 DEF WatchPower, HoldOffOK, HoldOff
  <2>4. PmFlagsOK' /\ GraceOK' /\ SettingsOK' /\ StepOK' /\ WaitOK' /\ LinksOK' /\
        NotesOK' /\ LateOK'
    BY <1>21 DEF WatchPower, PmFlagsOK, GraceOK, SettingsOK, StepOK, WaitOK, LinksOK,
        NotesOK, LateOK
  <2>5. QED BY <2>1, <2>2, <2>3, <2>4
<1>22. CASE WatchExit
  <2>1. ArmingOK' BY <1>22 DEF WatchExit, ArmingOK
  <2>2. PmFlagsOK' /\ GraceOK' /\ EventsOK' /\ SettingsOK' /\ HoldOffOK' /\ StepOK' /\
        WaitOK' /\ LinksOK' /\ NotesOK' /\ LateOK'
    BY <1>22 DEF WatchExit, PmFlagsOK, GraceOK, EventsOK, SettingsOK, HoldOffOK, StepOK,
        WaitOK, LinksOK, NotesOK, LateOK
  <2>3. QED BY <2>1, <2>2
<1>23. CASE SetEnabled
  <2>1. SettingsOK'  BY <1>23, ControllerAssumption DEF SetEnabled, SettingsOK
  <2>2. ArmingOK' BY <1>23 DEF SetEnabled, ArmingOK
  <2>3. PmFlagsOK' /\ GraceOK' /\ EventsOK' /\ HoldOffOK' /\ StepOK' /\ WaitOK' /\
        LinksOK' /\ NotesOK' /\ LateOK'
    BY <1>23 DEF SetEnabled, PmFlagsOK, GraceOK, EventsOK, HoldOffOK, StepOK, WaitOK,
        LinksOK, NotesOK, LateOK
  <2>4. QED BY <2>1, <2>2, <2>3
<1>24. CASE SetTrigger
  <2>1. SettingsOK'  BY <1>24, ControllerAssumption DEF SetTrigger, SettingsOK
  <2>2. ArmingOK' BY <1>24 DEF SetTrigger, ArmingOK
  <2>3. PmFlagsOK' /\ GraceOK' /\ EventsOK' /\ HoldOffOK' /\ StepOK' /\ WaitOK' /\
        LinksOK' /\ NotesOK' /\ LateOK'
    BY <1>24 DEF SetTrigger, PmFlagsOK, GraceOK, EventsOK, HoldOffOK, StepOK, WaitOK,
        LinksOK, NotesOK, LateOK
  <2>4. QED BY <2>1, <2>2, <2>3
<1>25. CASE SetPushMouse
  <2>1. SettingsOK'  BY <1>25, ControllerAssumption DEF SetPushMouse, SettingsOK
  <2>2. PmFlagsOK' /\ GraceOK' /\ EventsOK' /\ ArmingOK' /\ HoldOffOK' /\ StepOK' /\
        WaitOK' /\ LinksOK' /\ NotesOK' /\ LateOK'
    BY <1>25 DEF SetPushMouse, PmFlagsOK, GraceOK, EventsOK, ArmingOK, HoldOffOK, StepOK,
        WaitOK, LinksOK, NotesOK, LateOK
  <2>3. QED BY <2>1, <2>2
<1>26. CASE Stop
  <2>1. ArmingOK' BY <1>26 DEF Stop, ArmingOK
  <2>2. PmFlagsOK' /\ GraceOK' /\ EventsOK' /\ SettingsOK' /\ HoldOffOK' /\ StepOK' /\
        WaitOK' /\ LinksOK' /\ NotesOK' /\ LateOK'
    BY <1>26 DEF Stop, PmFlagsOK, GraceOK, EventsOK, SettingsOK, HoldOffOK, StepOK,
        WaitOK, LinksOK, NotesOK, LateOK
  <2>3. QED BY <2>1, <2>2
<1>27. CASE DeviceMoves
  <2>1. LinksOK' BY <1>27 DEF DeviceMoves, LinksOK
  <2>2. NotesOK'  BY <1>27, AnnouncedTyping DEF DeviceMoves
  <2>3. PmFlagsOK' /\ GraceOK' /\ EventsOK' /\ SettingsOK' /\ ArmingOK' /\
        HoldOffOK' /\ StepOK' /\ WaitOK' /\ LateOK'
    BY <1>27 DEF DeviceMoves, PmFlagsOK, GraceOK, EventsOK, SettingsOK, ArmingOK,
        HoldOffOK, StepOK, WaitOK, LateOK
  <2>4. QED BY <2>1, <2>2, <2>3
<1>28. CASE PortMoves
  <2>1. LinksOK'  BY <1>28, ControllerAssumption DEF PortMoves, LinksOK
  <2>2. LateOK' BY <1>28 DEF PortMoves, LateOK
  <2>3. PmFlagsOK' /\ GraceOK' /\ EventsOK' /\ SettingsOK' /\ ArmingOK' /\
        HoldOffOK' /\ StepOK' /\ WaitOK' /\ NotesOK'
    BY <1>28 DEF PortMoves, PmFlagsOK, GraceOK, EventsOK, SettingsOK, ArmingOK,
        HoldOffOK, StepOK, WaitOK, NotesOK
  <2>4. QED BY <2>1, <2>2, <2>3
<1>29. CASE Power
  <2>1. PmFlagsOK' BY <1>29 DEF Power, PmFlagsOK, PowerCallback, Emit
  <2>2. GraceOK' BY <1>29 DEF Power, GraceOK, PowerCallback, Emit
  <2>3. EventsOK'
    <3>1. PICK e \in {"Sleep", "Wake"} : Emit(e)
      BY <1>29, PowerAssumption DEF Power, PowerCallback
    <3>2. QED  BY <3>1 DEF Emit, EventsOK
  <2>4. SettingsOK' /\ ArmingOK' /\ HoldOffOK' /\ StepOK' /\ WaitOK' /\ LinksOK' /\
        NotesOK' /\ LateOK'
    BY <1>29 DEF Power, SettingsOK, ArmingOK, HoldOffOK, StepOK, WaitOK, LinksOK,
        NotesOK, LateOK
  <2>5. QED BY <2>1, <2>2, <2>3, <2>4
<1>30. CASE Tick
  <2>1. GraceOK' BY <1>30 DEF Tick, GraceOK, Less
  <2>2. HoldOffOK' BY <1>30 DEF Tick, HoldOffOK, Less
  <2>3. PmFlagsOK' /\ EventsOK' /\ SettingsOK' /\ ArmingOK' /\ StepOK' /\ WaitOK' /\
        LinksOK' /\ NotesOK' /\ LateOK'
    BY <1>30 DEF Tick, PmFlagsOK, EventsOK, SettingsOK, ArmingOK, StepOK, WaitOK,
        LinksOK, NotesOK, LateOK
  <2>4. QED BY <2>1, <2>2, <2>3
<1>31. CASE UNCHANGED vars
  BY <1>31 DEF vars, PmFlagsOK, GraceOK, EventsOK, SettingsOK, ArmingOK, HoldOffOK,
      StepOK, WaitOK, LinksOK, LateOK, NotesOK
<1>32. QED
  BY <1>1, <1>2, <1>3, <1>4, <1>5, <1>6, <1>7, <1>8, <1>9, <1>10, <1>11, <1>12, <1>13, <1>14, <1>15, <1>16, <1>17, <1>18, <1>19, <1>20, <1>21, <1>22, <1>23, <1>24, <1>25, <1>26, <1>27, <1>28, <1>29, <1>30, <1>31
  DEF Next, Supervisor, User, Environment

\* Every reachable state is well typed: a ping never goes to a slot that is not
\* paired, a queue never exceeds its capacity, no hold-off exceeds the grace.
THEOREM TypeCorrect == Spec => []TypeOK
<1>1. Init => TypeOK              BY InitTyping
<1>2. TypeOK /\ [Next]_vars => TypeOK'  BY NextTyping
<1>3. QED                         BY <1>1, <1>2, PTL DEF Spec

-----------------------------------------------------------------------------
(* The power state seen twice.                                             *)

PowerInv == PowerViewAgrees /\ HoldOffCovers

\* Both facts about watchPower's lag are inductive once the types are known:
\* only emit, WatchPower and the clock touch what they speak of.
LEMMA PowerInvNext == TypeOK /\ PowerInv /\ [Next]_vars => PowerInv'
<1> SUFFICES ASSUME TypeOK, PowerInv, [Next]_vars PROVE PowerInv'
  OBVIOUS
<1> USE DEF PowerInv, PowerViewAgrees, HoldOffCovers
<1>0. /\ wakeLeft \in 0..Grace /\ suppressLeft \in 0..Grace /\ Grace \in Nat
      /\ events \in Seq({"Sleep", "Wake"})
  BY ConstantTyping DEF TypeOK, PmTypeOK, GraceOK, HoldOffOK, EventsOK
<1>1. CASE Power
  <2>1. PICK e \in {"Sleep", "Wake"} : Emit(e)
    BY <1>1, PowerAssumption DEF Power, PowerCallback
  <2>2. CASE lost'
    BY <2>2
  <2>3. CASE ~lost'
    <3>0. ~lost /\ Len(events) < EventCap
      <4>1. lost' = (lost \/ Len(events) >= EventCap)  BY <2>1 DEF Emit
      <4>2. ~lost /\ ~(Len(events) >= EventCap)         BY <2>3, <4>1, Zenon
      <4>3. QED  BY <1>0, <4>2, ConstantTyping
    <3>1. /\ ~lost
          /\ events' = Append(events, e) /\ Len(events') = Len(events) + 1
          /\ \A i \in 1..Len(events) : events'[i] = events[i]
          /\ events'[Len(events')] = e
      BY <1>0, <2>1, <3>0 DEF Emit
    <3>2. PowerViewAgrees'
      <4>1. events' # <<>>                   BY <1>0, <3>1
      <4>2. pmAsleep' = (e = "Sleep")        BY <2>1 DEF Emit
      <4>3. events'[Len(events')] = e        BY <3>1
      <4>4. QED                              BY <4>1, <4>2, <4>3, Zenon
    <3>3. HoldOffCovers'
      BY <1>0, <1>1, <2>1, <3>1 DEF Emit, Power, watchVars
    <3>4. QED  BY <3>2, <3>3
  <2>4. QED  BY <2>2, <2>3
<1>2. CASE WatchPower
  <2>1. /\ events # <<>> /\ events' = Tail(events)
        /\ UNCHANGED <<pmAsleep, wakeLeft, lost>>
    BY <1>2 DEF WatchPower, NotePower
  <2>2. /\ Len(events') = Len(events) - 1
        /\ \A i \in 1..Len(events') : events'[i] = events[i + 1]
    BY <1>0, <2>1
  <2>3. PowerViewAgrees'
    <3>1. CASE events' = <<>>
      <4>1. Len(events') = 0 /\ Len(events) \in Nat
        BY <1>0, <3>1
      <4>2. Len(events) = 1
        BY <2>2, <4>1
      <4>3. Head(events) = events[Len(events)]
        BY <1>0, <2>1, <4>2
      <4>4. asleep' = (Head(events) = "Sleep")
        BY <1>2 DEF WatchPower, NotePower
      <4>5. QED  BY <2>1, <3>1, <4>3, <4>4, Zenon
    <3>2. CASE events' # <<>>
      <4>1. events'[Len(events')] = events[Len(events)]
        BY <1>0, <2>1, <2>2, <3>2
      <4>2. QED  BY <2>1, <3>2, <4>1, Zenon
    <3>3. QED  BY <3>1, <3>2
  <2>4. HoldOffCovers'
    <3>1. CASE Head(events) = "Wake"
      BY <1>0, <1>2, <2>1, <3>1 DEF WatchPower, HoldOff
    <3>2. CASE Head(events) # "Wake" /\ \A i \in 1..Len(events') : events'[i] # "Wake"
      <4>1. \A i \in 1..Len(events) : events[i] # "Wake"
        BY <1>0, <2>1, <2>2, <3>2
      <4>2. QED  BY <1>2, <2>1, <3>2, <4>1 DEF WatchPower
    <3>3. QED  BY <3>1, <3>2
  <2>5. QED  BY <2>3, <2>4
<1>3. CASE Tick
  BY <1>0, <1>3 DEF Tick, Less
<1>4. CASE UNCHANGED <<pmAsleep, wakeLeft, events, lost, asleep, suppressLeft>>
  BY <1>4
<1>5. QED
  <2> USE DEF SupervisorFrame, pmVars, watchVars
  <2>1. Supervisor => UNCHANGED <<pmVars, watchVars>>
    BY DEF Supervisor, OpenReceiver, OpenFails, Retry, Collect, Assign, InitPing, InitSet,
           Poll, Observe, Confirm, StillHere, FireSwitch, FireAborted, PushFollow,
               SwitchDone
  <2>2. TakeNote \/ PollTick \/ TakePending \/ Exit \/ DebounceElapses
          => UNCHANGED <<pmVars, watchVars>>
    BY DEF TakeNote, PollTick, TakePending, Exit, DebounceElapses
  <2>3. User \/ DeviceMoves \/ PortMoves => UNCHANGED <<pmVars, watchVars>>
    BY DEF User, SetEnabled, SetTrigger, SetPushMouse, Stop, DeviceMoves, PortMoves
  <2>4. WatchExit => UNCHANGED <<pmVars, asleep, suppressLeft>>
    BY DEF WatchExit
  <2>5. QED
    BY <1>1, <1>2, <1>3, <1>4, <2>1, <2>2, <2>3, <2>4 DEF Next, Environment, vars

LEMMA PowerInvInit == Init => PowerInv
<1> SUFFICES ASSUME Init PROVE PowerInv
  OBVIOUS
<1>1. PowerViewAgrees
  <2>1. pmAsleep = FALSE /\ asleep = FALSE /\ events = <<>>  BY DEF Init, PmInit
  <2>2. QED  BY <2>1, Zenon DEF PowerViewAgrees
<1>2. HoldOffCovers
  BY DEF Init, PmInit, HoldOffCovers
<1>3. QED
  BY <1>1, <1>2 DEF PowerInv

\* watchPower's copy of the power state lags powermon's by exactly the events it
\* has not drained, for every capacity of the channel.
THEOREM PowerViewInvariant == Spec => []PowerViewAgrees
<1>1. Init => PowerInv
  BY PowerInvInit
<1>2. Spec => []PowerInv
  BY <1>1, TypeCorrect, PowerInvNext, PTL DEF Spec
<1>3. PowerInv => PowerViewAgrees
  BY DEF PowerInv
<1>4. QED
  BY <1>2, <1>3, PTL

\* Draining a wake late never shortens the hold-off, for every grace period.
THEOREM HoldOffInvariant == Spec => []HoldOffCovers
<1>1. Init => PowerInv
  BY PowerInvInit
<1>2. Spec => []PowerInv
  BY <1>1, TypeCorrect, PowerInvNext, PTL DEF Spec
<1>3. PowerInv => HoldOffCovers
  BY DEF PowerInv
<1>4. QED
  BY <1>2, <1>3, PTL

-----------------------------------------------------------------------------
(* Firing.                                                                 *)

\* fireSwitch is the only step that commits to a switch.
LEMMA OnlyFireSwitchFires ==
  ASSUME [Next]_vars, Fires PROVE FireSwitch
<1> USE DEF Fires
<1>1. CASE Supervisor
  BY <1>1 DEF Supervisor, OpenReceiver, OpenFails, Retry, Collect, Assign, InitPing,
      InitSet,
              Poll, Observe, Confirm, StillHere, FireSwitch, FireAborted, PushFollow,
                  SwitchDone
<1>2. CASE TakeNote \/ PollTick \/ TakePending \/ Exit \/ DebounceElapses
  BY <1>2 DEF TakeNote, PollTick, TakePending, Exit, DebounceElapses
<1>3. CASE WatchPower \/ WatchExit \/ User \/ Environment \/ UNCHANGED vars
  BY <1>3 DEF WatchPower, WatchExit, User, SetEnabled, SetTrigger, SetPushMouse, Stop,
              Environment, DeviceMoves, PortMoves, Power, Tick, vars
<1>4. QED
  BY <1>1, <1>2, <1>3 DEF Next

\* No interleaving of the power callback, watchPower and the detection loop
\* fires between a sleep and the end of the grace period after the wake.
THEOREM FireGuarded == Spec => NoFireInPowerWindow
<1>1. [Next]_vars => [Fires => ~PmSuppressed]_vars
  BY OnlyFireSwitchFires DEF FireSwitch, MayFire, IsSuppressed
<1>2. QED
  BY <1>1, PTL DEF Spec, NoFireInPowerWindow

-----------------------------------------------------------------------------
(* No departure is forgotten.                                              *)

\* DepartureTracked is not inductive: fireSwitch could give up a departure of an
\* armed, enabled controller because a power transition suppresses it.
\* ArmedIsClear excludes that: power events disarm before they are forgotten.
ArmInv == ArmedIsClear /\ DepartureTracked

LEMMA SuppressedFrame ==
  ASSUME UNCHANGED <<pmVars, asleep, suppressLeft>> PROVE IsSuppressed' = IsSuppressed
PROOF BY DEF pmVars, IsSuppressed, PmSuppressed

LEMMA ArmInvInit == Init => ArmInv
PROOF BY DEF Init, ArmInv, ArmedIsClear, DepartureTracked

\* A step of runOnce that decides nothing keeps ArmInv, as long as it does not
\* enter the loop nor leave the confirmation.
LEMMA ArmInvFrame ==
  ASSUME ArmInv,
         UNCHANGED <<pmVars, asleep, suppressLeft, enabled, armVars, userAct, waitVars>>,
         Looping' => Looping,
         pc \in {"confirm", "confirmed"} => pc' \in {"confirm", "confirmed"}
  PROVE  ArmInv'
PROOF BY SuppressedFrame
      DEF ArmInv, ArmedIsClear, DepartureTracked, DepartureInHand, Looping, pmVars,
          armVars, waitVars

\* Both callers of onPresent.
LEMMA OnPresentKeepsArmInv ==
  ASSUME ArmInv, NEW sighted, OnPresent(sighted),
         UNCHANGED <<pmVars, asleep, suppressLeft>>
  PROVE  ArmInv'
<1>1. present'
  BY DEF OnPresent
<1>2. ArmedIsClear'
  BY SuppressedFrame DEF OnPresent, Rearm, ArmInv, ArmedIsClear, pmVars
<1>3. QED
  BY <1>1, <1>2 DEF ArmInv, DepartureTracked

LEMMA ArmInvNext == TypeOK /\ ArmInv /\ [Next]_vars => ArmInv'
<1> SUFFICES ASSUME TypeOK, ArmInv, [Next]_vars PROVE ArmInv'
  OBVIOUS
<1> USE DEF ArmInv, ArmedIsClear, DepartureTracked, DepartureInHand, Looping, pmVars,
            cfgVars, armVars, watchVars, waitVars, histVars, SupervisorFrame
<1>1. CASE \/ OpenReceiver \/ OpenFails \/ Retry \/ Collect \/ Assign \/ InitPing
           \/ TakeNote \/ PollTick \/ Poll \/ Confirm \/ PushFollow \/ SwitchDone
  <2> USE ArmInvFrame
  <2>1. CASE OpenReceiver  BY <2>1 DEF OpenReceiver
  <2>2. CASE OpenFails     BY <2>2 DEF OpenFails
  <2>3. CASE Retry         BY <2>3 DEF Retry
  <2>4. CASE Collect       BY <2>4 DEF Collect
  <2>5. CASE Assign        BY <2>5 DEF Assign
  <2>6. CASE InitPing      BY <2>6 DEF InitPing
  <2>7. CASE TakeNote      BY <2>7 DEF TakeNote
  <2>8. CASE PollTick      BY <2>8 DEF PollTick
  <2>9. CASE Poll          BY <2>9 DEF Poll
  <2>10. CASE Confirm      BY <2>10 DEF Confirm
  <2>11. CASE PushFollow   BY <2>11 DEF PushFollow
  <2>12. CASE SwitchDone   BY <2>12 DEF SwitchDone
  <2>13. QED
    BY <1>1, <2>1, <2>2, <2>3, <2>4, <2>5, <2>6, <2>7, <2>8, <2>9, <2>10, <2>11, <2>12
<1>2. CASE InitSet
  <2>1. cur.ans \in BOOLEAN
    BY DEF TypeOK, StepOK, Works
  <2>2. armed' => present' /\ ~IsSuppressed'
    BY <1>2, <2>1, SuppressedFrame DEF InitSet
  <2>3. QED  BY <2>2
<1>3. CASE Exit
  BY <1>3, SuppressedFrame DEF Exit
<1>4. CASE TakePending
  <2>1. pc' \in {"confirm", "confirmed"}
    BY <1>4 DEF TakePending
  <2>2. UNCHANGED <<pmVars, cfgVars, armVars, watchVars, histVars>>
    BY <1>4 DEF TakePending
  <2>3. QED  BY <2>1, <2>2, SuppressedFrame
<1>5. CASE Observe
  <2>1. CASE cur.ans /\ timer' = "none" /\ OnPresent(TRUE) /\ UNCHANGED pendingC
    BY <1>5, <2>1, OnPresentKeepsArmInv DEF Observe
  <2>2. CASE ~cur.ans /\ OnDepart(cur.via)
    <3>1. cur.via # "none"
      BY DEF TypeOK, StepOK, Works, Via
    <3>2. ArmedIsClear'
      BY <1>5, <2>2, SuppressedFrame DEF Observe, OnDepart
    <3>3. DepartureTracked'
      BY <1>5, <2>2, <3>1, SuppressedFrame DEF Observe, OnDepart, MayFire
    <3>4. QED  BY <3>2, <3>3
  <2>3. QED  BY <1>5, <2>1, <2>2 DEF Observe
<1>6. CASE DebounceElapses
  <2>1. pendingC' # <<>>
    BY <1>6 DEF DebounceElapses, TypeOK, WaitOK, Via
  <2>2. QED
    BY <1>6, <2>1, SuppressedFrame DEF DebounceElapses
<1>8. CASE StillHere
  BY <1>8, OnPresentKeepsArmInv DEF StillHere
<1>9. CASE FireSwitch
  BY <1>9, SuppressedFrame DEF FireSwitch, DisarmOnFire
<1>10. CASE FireAborted
  BY <1>10, SuppressedFrame DEF FireAborted, MayFire
<1>12. CASE WatchPower
  BY <1>12 DEF WatchPower
<1>13. CASE WatchExit \/ Stop \/ SetPushMouse
  BY <1>13, SuppressedFrame DEF WatchExit, Stop, SetPushMouse
<1>14. CASE SetEnabled
  BY <1>14, SuppressedFrame DEF SetEnabled
<1>15. CASE SetTrigger
  BY <1>15, SuppressedFrame DEF SetTrigger
<1>16. CASE DeviceMoves \/ PortMoves
  BY <1>16, SuppressedFrame DEF DeviceMoves, PortMoves
<1>17. CASE Power
  <2>1. PICK e \in {"Sleep", "Wake"} : Emit(e)
    BY <1>17, PowerAssumption DEF Power, PowerCallback
  <2>2. ~lost' => events' # <<>>
    <3>1. lost' = (lost \/ Len(events) >= EventCap)  BY <2>1 DEF Emit
    <3>2. ~lost' => ~(Len(events) >= EventCap)        BY <3>1, Zenon
    <3>3. Len(events) < EventCap => Append(events, e) # <<>>
      BY DEF TypeOK, PmTypeOK, EventsOK
    <3>4. QED  BY <2>1, <3>2, <3>3, ConstantTyping DEF Emit, TypeOK, PmTypeOK, EventsOK
  <2>3. QED  BY <2>2
<1>18. CASE Tick
  <2>1. IsSuppressed' => IsSuppressed
    BY <1>18, ConstantTyping
    DEF Tick, Less, IsSuppressed, PmSuppressed, TypeOK, PmTypeOK, GraceOK, HoldOffOK
  <2>2. QED  BY <1>18, <2>1 DEF Tick
<1>19. CASE UNCHANGED vars
  BY <1>19, SuppressedFrame DEF vars
<1>20. QED
  BY <1>1, <1>2, <1>3, <1>4, <1>5, <1>6, <1>8, <1>9, <1>10, <1>12, <1>13, <1>14, <1>15, <1>16, <1>17, <1>18, <1>19
  DEF Next, Supervisor, User, Environment

\* An armed, enabled controller whose trigger has left always has the departure
\* scheduled, posted or under confirmation: none is dropped between goroutines.
THEOREM DepartureInvariant == Spec => []DepartureTracked
<1>1. Spec => []ArmInv
  BY ArmInvInit, TypeCorrect, ArmInvNext, PTL DEF Spec
<1>2. ArmInv => DepartureTracked
  BY DEF ArmInv
<1>3. QED
  BY <1>1, <1>2, PTL

\* Outside the user's own doing the controller is never armed in a power window
\* that watchPower has caught up with.
THEOREM ArmedInvariant == Spec => []ArmedIsClear
<1>1. Spec => []ArmInv
  BY ArmInvInit, TypeCorrect, ArmInvNext, PTL DEF Spec
<1>2. ArmInv => ArmedIsClear
  BY DEF ArmInv
<1>3. QED
  BY <1>1, <1>2, PTL

-----------------------------------------------------------------------------
(* One switch per departure.                                               *)

\* What a switch leaves behind until the trigger is sighted: the loop goes on,
\* every step is about the current trigger device, and armed can only be set
\* while there is no trigger device at all.
RefireInv ==
  /\ pc = "confirm" => cur.dev # NoDev
  /\ pc = "confirmed" /\ ~cur.ans => cur.dev # NoDev
  /\ firedAway => /\ Looping \/ pc = "done"
                  /\ armed => TriggerDevice = NoDev
                  /\ pc \in {"confirm", "confirmed"} => cur.dev = TriggerDevice

LEMMA RefireInvInit == Init => RefireInv
PROOF BY DEF Init, RefireInv

\* What RefireInv speaks of.
LEMMA RefireInvFrame ==
  ASSUME RefireInv, UNCHANGED <<pc, cur, trigger, devVars>>,
         firedAway' => firedAway /\ (armed' => armed)
  PROVE  RefireInv'
PROOF BY DEF RefireInv, Looping, TriggerDevice, devVars

LEMMA RefireInvNext == TypeOK /\ RefireInv /\ [Next]_vars => RefireInv'
<1> SUFFICES ASSUME TypeOK, RefireInv, [Next]_vars PROVE RefireInv'
  OBVIOUS
<1> USE DEF RefireInv, Looping, TriggerDevice, pmVars,
            cfgVars, devVars, armVars, watchVars, waitVars, histVars, SupervisorFrame
<1>0. cur.ans \in BOOLEAN
  BY DEF TypeOK, StepOK, Works
<1>1. CASE OpenReceiver   BY <1>1 DEF OpenReceiver
<1>2. CASE OpenFails      BY <1>2 DEF OpenFails
<1>3. CASE Retry          BY <1>3 DEF Retry
<1>4. CASE Collect        BY <1>4 DEF Collect
<1>5. CASE Assign         BY <1>5 DEF Assign
<1>6. CASE InitPing       BY <1>6 DEF InitPing
<1>7. CASE InitSet        BY <1>7 DEF InitSet
<1>8. CASE Exit           BY <1>8 DEF Exit
<1>9. CASE TakeNote       BY <1>9 DEF TakeNote
<1>10. CASE PollTick      BY <1>10 DEF PollTick
<1>11. CASE Poll          BY <1>11 DEF Poll
<1>12. CASE Observe
  <2>1. CASE cur.ans
    BY <1>12, <2>1 DEF Observe, OnPresent
  <2>2. CASE ~cur.ans
    <3>1. pc' = "select" /\ UNCHANGED <<armed, firedAway, trigger, devVars>>
      BY <1>12, <2>2 DEF Observe, OnDepart
    <3>2. QED  BY <1>12, <3>1 DEF Observe
  <2>3. QED  BY <2>1, <2>2
<1>13. CASE TakePending   BY <1>13 DEF TakePending, Work
<1>14. CASE Confirm       BY <1>14 DEF Confirm, TypeOK, StepOK, Works
<1>15. CASE StillHere     BY <1>15 DEF StillHere, OnPresent
<1>16. CASE FireSwitch    BY <1>16 DEF FireSwitch, DisarmOnFire
<1>17. CASE FireAborted   BY <1>17 DEF FireAborted
<1>18. CASE PushFollow    BY <1>18 DEF PushFollow
<1>19. CASE SwitchDone    BY <1>19 DEF SwitchDone
<1>20. CASE SetTrigger    BY <1>20 DEF SetTrigger
<1>21. CASE SetEnabled
  <2>1. firedAway' => firedAway /\ ~armed'
    BY <1>21 DEF SetEnabled
  <2>2. QED  BY <1>21, <2>1, RefireInvFrame DEF SetEnabled
<1>22. CASE \/ DebounceElapses \/ WatchPower \/ WatchExit \/ Stop \/ SetPushMouse
            \/ DeviceMoves \/ PortMoves \/ Power \/ Tick \/ UNCHANGED vars
  <2>1. /\ UNCHANGED <<pc, cur, trigger, devVars>>
        /\ firedAway' => firedAway /\ (armed' => armed)
    BY <1>22 DEF DebounceElapses, WatchPower, WatchExit, Stop, SetPushMouse,
                 DeviceMoves, PortMoves, Power, Tick, vars
  <2>2. QED  BY <2>1, RefireInvFrame
<1>23. QED
  BY <1>1, <1>2, <1>3, <1>4, <1>5, <1>6, <1>7, <1>8, <1>9, <1>10, <1>11, <1>12, <1>13, <1>14, <1>15, <1>16, <1>17, <1>18, <1>19, <1>20, <1>21, <1>22
  DEF Next, Supervisor, User, Environment

\* Between two switches the trigger is sighted, or the user enables switching or
\* picks another trigger, for any number of queued departures.
THEOREM NoRefire == Spec => NoRefireWithoutReturn
<1>1. Spec => []RefireInv
  BY RefireInvInit, TypeCorrect, RefireInvNext, PTL DEF Spec
<1>2. RefireInv /\ [Next]_vars => [Fires => ~firedAway]_vars
  BY OnlyFireSwitchFires DEF RefireInv, FireSwitch, MayFire
<1>3. QED
  BY <1>1, <1>2, PTL DEF Spec, NoRefireWithoutReturn

-----------------------------------------------------------------------------
(* The controller implements AutoSwitch.                                   *)

LEMMA PromiseInit == Init => Promise!Init
<1> SUFFICES ASSUME Init PROVE Promise!Init
  OBVIOUS
<1>1. enabled \in BOOLEAN
  BY ControllerAssumption DEF Init
<1>2. PowerState = "up"
  BY DEF Init, PmInit, PowerState
<1>3. QED
  BY <1>1, <1>2 DEF Init, Promise!Init

\* A step that touches nothing AutoSwitch sees is a stutter, one that only makes
\* ready a step of AutoSwitch.
LEMMA PromiseFrame ==
  ASSUME UNCHANGED <<enabled, pmAsleep, wakeLeft>>, (pc' = "switching") <=> (pc = "switching"),
         firedAway \in BOOLEAN, firedAway' = firedAway \/ firedAway' = FALSE
  PROVE  [Promise!Next]_(Promise!vars)
PROOF BY DEF Promise!Next, Promise!MakeReady, Promise!vars, PowerState

LEMMA PromiseNext == TypeOK /\ RefireInv /\ [Next]_vars => [Promise!Next]_(Promise!vars)
<1> SUFFICES ASSUME TypeOK, RefireInv, [Next]_vars PROVE [Promise!Next]_(Promise!vars)
  OBVIOUS
<1>0. /\ firedAway \in BOOLEAN /\ cur.ans \in BOOLEAN
      /\ wakeLeft \in Nat /\ pmAsleep \in BOOLEAN /\ enabled \in BOOLEAN
  BY ConstantTyping DEF TypeOK, ArmingOK, StepOK, Works, PmTypeOK, GraceOK, PmFlagsOK, SettingsOK
<1>1. CASE \/ OpenReceiver \/ OpenFails \/ Retry \/ Collect \/ Assign \/ InitPing
           \/ Poll \/ Confirm \/ FireAborted \/ PushFollow \/ TakeNote \/ PollTick
           \/ TakePending \/ Exit \/ DebounceElapses \/ UNCHANGED vars
  <2>1. /\ UNCHANGED <<enabled, pmAsleep, wakeLeft, firedAway>>
        /\ (pc' = "switching") <=> (pc = "switching")
    BY <1>1 DEF OpenReceiver, OpenFails, Retry, Collect, Assign, InitPing, Poll, Confirm,
       FireAborted, PushFollow, TakeNote, PollTick, TakePending, Exit, DebounceElapses,
       SupervisorFrame, pmVars, cfgVars, histVars, vars
  <2>2. QED  BY <1>0, <2>1, PromiseFrame
<1>2. CASE InitSet \/ Observe \/ StillHere
  <2>1. /\ UNCHANGED <<enabled, pmAsleep, wakeLeft>>
        /\ (pc' = "switching") <=> (pc = "switching")
    BY <1>2 DEF InitSet, Observe, StillHere, SupervisorFrame, pmVars, cfgVars
  <2>2. firedAway' = firedAway \/ firedAway' = FALSE
    BY <1>0, <1>2 DEF InitSet, Observe, StillHere, OnPresent, OnDepart
  <2>3. QED  BY <1>0, <2>1, <2>2, PromiseFrame
<1>3. CASE FireSwitch
  <2>1. /\ enabled /\ ~firedAway /\ PowerState = "up"
        /\ pc # "switching" /\ pc' = "switching" /\ firedAway' = TRUE
    BY <1>0, <1>3 DEF FireSwitch, MayFire, IsSuppressed, PmSuppressed, PowerState, RefireInv
  <2>2. UNCHANGED <<enabled, pmAsleep, wakeLeft>>
    BY <1>3 DEF FireSwitch, SupervisorFrame, pmVars, cfgVars
  <2>3. QED
    BY <2>1, <2>2 DEF Promise!Next, Promise!Switch, PowerState
<1>4. CASE SwitchDone
  <2>1. /\ pc = "switching" /\ pc' # "switching"
        /\ UNCHANGED <<enabled, firedAway, pmAsleep, wakeLeft>>
    BY <1>4 DEF SwitchDone, SupervisorFrame, pmVars, cfgVars, histVars
  <2>2. QED
    BY <2>1 DEF Promise!Next, Promise!Switched, PowerState
<1>5. CASE \/ WatchPower \/ WatchExit \/ SetPushMouse \/ Stop \/ DeviceMoves \/ PortMoves
           \/ SetTrigger
  <2>1. UNCHANGED <<enabled, pmAsleep, wakeLeft, pc>>
    BY <1>5 DEF WatchPower, WatchExit, SetPushMouse, Stop, DeviceMoves, PortMoves, SetTrigger,
       pmVars, cfgVars
  <2>2. firedAway' = firedAway \/ firedAway' = FALSE
    BY <1>5 DEF WatchPower, WatchExit, SetPushMouse, Stop, DeviceMoves, PortMoves, SetTrigger,
       histVars
  <2>3. QED  BY <1>0, <2>1, <2>2, PromiseFrame
<1>6. CASE SetEnabled
  <2>1. UNCHANGED <<pmAsleep, wakeLeft, pc>>
    BY <1>6 DEF SetEnabled, pmVars
  <2>2. PICK v \in EnableChoices \ {enabled} : enabled' = v /\ firedAway' = (firedAway /\ ~v)
    BY <1>6 DEF SetEnabled
  <2>3. v \in BOOLEAN
    BY ControllerAssumption
  <2>4. CASE v
    BY <1>0, <2>1, <2>2, <2>3, <2>4 DEF Promise!Next, Promise!TurnOff, Promise!TurnOn, PowerState
  <2>5. CASE ~v
    BY <1>0, <2>1, <2>2, <2>3, <2>5 DEF Promise!Next, Promise!TurnOff, Promise!TurnOn, PowerState
  <2>6. QED  BY <2>3, <2>4, <2>5
<1>7. CASE Power
  <2>1. UNCHANGED <<enabled, firedAway, pc>>
    BY <1>7 DEF Power, cfgVars, histVars
  <2>2. PICK e \in PowerEvents : Emit(e)
    BY <1>7 DEF Power, PowerCallback
  <2>3. PowerState' = "down" \/ PowerState' = "settling"
    <3>1. CASE e = "Sleep"
      BY <2>2, <3>1 DEF Emit, PowerState
    <3>2. CASE e = "Wake"
      <4>1. Grace \in Nat /\ Grace > 0
        BY PowerAssumption
      <4>2. ~pmAsleep' /\ wakeLeft' = Grace
        BY <2>2, <3>2 DEF Emit
      <4>3. QED  BY <4>1, <4>2 DEF PowerState
    <3>3. QED  BY <2>2, <3>1, <3>2, PowerAssumption
  <2>4. QED
    BY <2>1, <2>3 DEF Promise!Next, Promise!Sleep, Promise!Wake
<1>8. CASE Tick
  <2>1. UNCHANGED <<enabled, firedAway, pc, pmAsleep>>
    BY <1>8 DEF Tick, cfgVars, histVars
  <2>2. PowerState' = PowerState \/ (PowerState = "settling" /\ PowerState' = "up")
    BY <1>0, <1>8, <2>1 DEF Tick, Less, PowerState
  <2>3. QED
    BY <2>1, <2>2 DEF Promise!Next, Promise!Settle, Promise!vars
<1>9. QED
  BY <1>1, <1>2, <1>3, <1>4, <1>5, <1>6, <1>7, <1>8 DEF Next, Supervisor, User, Environment

\* For any devices, grace period and capacities, the controller implements the
\* specification its user sees.
THEOREM Refinement == Spec => KeepsPromise
<1>1. Spec => []RefireInv
  BY RefireInvInit, TypeCorrect, RefireInvNext, PTL DEF Spec
<1>2. QED
  BY <1>1, TypeCorrect, PromiseInit, PromiseNext, PTL DEF Spec, KeepsPromise, Promise!Spec
=============================================================================
