------------------------------- MODULE MCShelf ------------------------------
(***************************************************************************)
(* A small shelf for TLC.                                                  *)
(***************************************************************************)
EXTENDS Shelf, TLC

Budget(deploy, crash, fault, hand) ==
  [deploy |-> deploy, crash |-> crash, fault |-> fault, hand |-> hand]

DisturbedBounds == Budget(4, 1, 1, 1)

CommitSymmetry == Permutations(Sha)
=============================================================================
