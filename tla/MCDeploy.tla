------------------------------ MODULE MCDeploy ------------------------------
(***************************************************************************)
(* Small instances of Deploy for TLC.  Each cfg picks its processes, their *)
(* commands, the retention and one of the budgets below.                   *)
(***************************************************************************)
EXTENDS Deploy, TLC

Budget(push, crash, fault, reply, repoint, remove, command) ==
  [push |-> push, crash |-> crash, fault |-> fault, reply |-> reply,
   repoint |-> repoint, remove |-> remove, command |-> command]

UnattendedBounds == Budget(2, 0, 0, 1, 0, 0, 2)
StagingBounds    == Budget(2, 0, 0, 0, 1, 1, 3)
CrashBounds      == Budget(2, 1, 1, 1, 0, 0, 1)
SettleBounds     == Budget(1, 1, 1, 1, 0, 0, 1)
StaleBounds      == Budget(3, 0, 0, 0, 0, 0, 1)

(* No `reload` paths, so every push deploys; or any push may be skipped.    *)
NoSkips == {}
AllSkips == Sha \X Sha

(* Commits are interchangeable where no liveness property is checked, and   *)
(* so are operators where there are several.                                *)
CommitSymmetry == Permutations(Sha)
Symmetry == CommitSymmetry \cup Permutations(Operator)
=============================================================================
