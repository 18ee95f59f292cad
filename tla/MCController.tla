---------------------------- MODULE MCController ----------------------------
(***************************************************************************)
(* Instances of Controller for TLC.  The configurations differ in which    *)
(* actors are let loose together; see README.md.                           *)
(***************************************************************************)
EXTENDS Controller

None == {}
Keyboard == {1}
Mouse == {2}
=============================================================================
