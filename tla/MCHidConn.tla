----------------------------- MODULE MCHidConn ------------------------------
(***************************************************************************)
(* Instances of HidConn for TLC; see README.md.                            *)
(***************************************************************************)
EXTENDS HidConn, TLC

One == {1}

\* Nothing tells one calling goroutine from another.
CallersAlike == Permutations(Callers)
=============================================================================
