----------------------------- MODULE MCAdoption -----------------------------
(***************************************************************************)
(* Small instances of Adoption for TLC.                                    *)
(***************************************************************************)
EXTENDS Adoption, TLC

Budget(crash, fault, refuse, lost, death, trouble) ==
  [crash |-> crash, fault |-> fault, refuse |-> refuse, lost |-> lost,
   death |-> death, trouble |-> trouble]

(* The release asks for one instance more than the operator ran.           *)
OneThenTwo == [own |-> 1, tree |-> 2]

CONSTANTS init1, init2, remove1, remove2
CommandOf(p) == IF p \in {init1, init2} THEN "init" ELSE "remove"
Commands == [p \in Process |-> CommandOf(p)]

TakeoverBounds == Budget(1, 1, 2, 1, 1, 2)
RemovedBounds  == Budget(0, 0, 0, 0, 0, 0)
=============================================================================
