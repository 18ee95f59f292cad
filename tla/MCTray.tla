-------------------------------- MODULE MCTray -------------------------------
(***************************************************************************)
(* Instances of Tray for TLC; see README.md.                               *)
(***************************************************************************)
EXTENDS Tray

\* The list of code 60 follows one that has the value 60 in it.
Plain == <<"vcp(", "14(", "60", ")", "60(", "in1", "in2", ")", ")">>

\* No list of code 60 that the program would find.
Glued == <<"vcp(", "14(", "in1", ")", "g60(", "in2", ")", ")">>

Lists == { <<[name |-> "theirs", caps |-> Plain]>>,
           <<[name |-> "theirs", caps |-> Glued], [name |-> "mine", caps |-> Plain]>>,
           <<[name |-> "mine", caps |-> Glued]>> }
=============================================================================
