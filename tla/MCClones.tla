------------------------------ MODULE MCClones ------------------------------
(***************************************************************************)
(* Small instances of Clones for TLC.                                      *)
(***************************************************************************)
EXTENDS Clones, TLC

SharedBounds == [share |-> 2, fetch |-> 1, release |-> 1, trouble |-> 1]
RaceBounds   == [share |-> 2, fetch |-> 0, release |-> 1, trouble |-> 0]
=============================================================================
