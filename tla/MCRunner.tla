------------------------------ MODULE MCRunner ------------------------------
(***************************************************************************)
(* A small host for TLC: few enough pids that they are soon given out again. *)
(***************************************************************************)
EXTENDS Runner

MCBounds == [run |-> 2, fork |-> 3, leave |-> 1, fault |-> 1, crash |-> 1]
=============================================================================
