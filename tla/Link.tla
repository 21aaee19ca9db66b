-------------------------------- MODULE Link --------------------------------
(***************************************************************************)
(* What src/swap.rs promises whoever spawns a process through `current`:   *)
(* a link that always leads to some release and is repointed at once.      *)
(***************************************************************************)
CONSTANTS Release, None

VARIABLES
  current,  \* the release the link leads to
  asked     \* the release a swap has been asked to lead it to, or None

vars == <<current, asked>>

Init == current \in Release /\ asked = None

Ask(r) == asked = None /\ asked' = r /\ UNCHANGED current
Point == asked # None /\ current' = asked /\ asked' = None
Refuse == asked # None /\ asked' = None /\ UNCHANGED current

(* An operator's own `ln -sfn`.                                            *)
Repoint(r) == current' = r /\ UNCHANGED asked

Next == Point \/ Refuse \/ \E r \in Release : Ask(r) \/ Repoint(r)

Spec == Init /\ [][Next]_vars
=============================================================================
