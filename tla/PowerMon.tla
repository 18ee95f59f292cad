------------------------------ MODULE PowerMon ------------------------------
(***************************************************************************)
(* Package powermon: the sleep and wake transitions of the operating       *)
(* system.  The OS callback records a transition twice: in state that any  *)
(* goroutine may read at once (asleep, lastWake), and as an event in a     *)
(* bounded channel that only Controller.watchPower drains.  The event can  *)
(* therefore be handled arbitrarily later than the state was written, and  *)
(* it is dropped when the channel is full.                                 *)
(*                                                                         *)
(* Time is counted down: wakeLeft is what is left of the grace period      *)
(* since lastWake, so "time.Since(lastWake) < grace" is wakeLeft > 0.      *)
(***************************************************************************)
EXTENDS Naturals, Sequences

CONSTANTS Grace,      \* wakeGrace in clock ticks
          EventCap,   \* capacity of the events channel (8 in the code)
          PowerEvents \* the transitions this machine goes through

ASSUME PowerAssumption ==
  /\ Grace \in Nat \ {0}
  /\ EventCap \in Nat \ {0}
  /\ PowerEvents \subseteq {"Sleep", "Wake"}

VARIABLES
  pmAsleep, \* powermon.asleep
  wakeLeft, \* ticks left of the grace period that lastWake opened
  events,   \* the events channel
  lost      \* history: some event was dropped because the channel was full

pmVars == <<pmAsleep, wakeLeft, events, lost>>

PmFlagsOK == pmAsleep \in BOOLEAN /\ lost \in BOOLEAN
GraceOK == wakeLeft \in 0..Grace
EventsOK == events \in Seq({"Sleep", "Wake"}) /\ Len(events) <= EventCap
PmTypeOK == PmFlagsOK /\ GraceOK /\ EventsOK

PmInit ==
  /\ pmAsleep = FALSE
  /\ wakeLeft = 0
  /\ events = <<>>
  /\ lost = FALSE

\* Suppressed(grace): asleep, or woke less than grace ago.
PmSuppressed == pmAsleep \/ wakeLeft > 0

\* emit: the state first, under stateMu, then the non-blocking send.  Only the
\* thread of the OS callback sends, so doing both in one step loses nothing:
\* a late send looks to the drainer like a late receive.
Emit(e) ==
  /\ pmAsleep' = (e = "Sleep")
  /\ wakeLeft' = IF e = "Wake" THEN Grace ELSE wakeLeft
  /\ events' = IF Len(events) < EventCap THEN Append(events, e) ELSE events
  /\ lost' = (lost \/ Len(events) >= EventCap)

\* The OS suspends an awake machine.  It reports a resume whenever it likes:
\* Windows reports one resume twice, the second time when the user comes back
\* (RESUMEAUTOMATIC, then RESUMESUSPEND), and a resume whose suspend was not seen.
PowerCallback ==
  \E e \in PowerEvents :
    /\ e = "Sleep" => ~pmAsleep
    /\ Emit(e)
=============================================================================
