----------------------------- MODULE AutoSwitch ------------------------------
(***************************************************************************)
(* What the program promises its user about automatic switching, without   *)
(* goroutines, notifications, pings, timers or channels: a switch happens  *)
(* only while switching is on and the machine is fully awake, one switch   *)
(* at a time, and after a switch the next one must first be made ready, by *)
(* the trigger's return or by the user.  Controller implements it (operator *)
(* Promise there).                                                         *)
(***************************************************************************)

VARIABLES
  on,       \* the user's on/off switch
  ready,    \* since the last switch the trigger was seen, or the user changed a setting
  power,    \* the machine: "up", "down" (asleep) or "settling" after a wake
  switching \* a switch is being carried out

vars == <<on, ready, power, switching>>

Init ==
  /\ on \in BOOLEAN /\ ready = TRUE /\ power = "up" /\ switching = FALSE

MakeReady == ready' = TRUE /\ UNCHANGED <<on, power, switching>>

\* Turning switching on makes ready for a switch, as a change of the trigger does.
TurnOn == ~on /\ on' = TRUE /\ ready' = TRUE /\ UNCHANGED <<power, switching>>
TurnOff == on /\ on' = FALSE /\ UNCHANGED <<ready, power, switching>>

Switch ==
  /\ on /\ ready /\ power = "up" /\ ~switching
  /\ switching' = TRUE /\ ready' = FALSE
  /\ UNCHANGED <<on, power>>

Switched == switching /\ switching' = FALSE /\ UNCHANGED <<on, ready, power>>

Sleep == power' = "down" /\ UNCHANGED <<on, ready, switching>>
Wake == power' = "settling" /\ UNCHANGED <<on, ready, switching>>
Settle == power = "settling" /\ power' = "up" /\ UNCHANGED <<on, ready, switching>>

Next ==
  MakeReady \/ TurnOn \/ TurnOff \/ Switch \/ Switched \/ Sleep \/ Wake \/ Settle

Spec == Init /\ [][Next]_vars

\* A switch that has begun ends.  That time passes is no promise of the program.
FairSpec == Spec /\ WF_vars(Switched)
=============================================================================
