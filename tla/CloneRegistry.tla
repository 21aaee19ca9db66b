--------------------------- MODULE CloneRegistry ---------------------------
(***************************************************************************)
(* What the shared clones promise the trees that link to them: a clone is  *)
(* made before it is linked to, and goes only when nothing links to it.    *)
(* `fetch`, `worktree add` and every deploy of a tree rest on this and on  *)
(* nothing else about clones.                                              *)
(***************************************************************************)
CONSTANTS
  Tree,   \* deploy trees
  Repo,   \* remotes, each with its place under deploy/repos
  None    \* no clone, and no member of Repo

VARIABLES
  link,   \* the clone each tree links to
  whole   \* the clones that can be fetched into

vars == <<link, whole>>

LinkedTo(r) == {t \in Tree : link[t] = r}

Init == link = [t \in Tree |-> None] /\ whole = {}

Make(r) == whole' = whole \cup {r} /\ UNCHANGED link
Link(t, r) == r \in whole /\ link' = [link EXCEPT ![t] = r] /\ UNCHANGED whole
Unlink(t) == link' = [link EXCEPT ![t] = None] /\ UNCHANGED whole
Unmake(r) == LinkedTo(r) = {} /\ whole' = whole \ {r} /\ UNCHANGED link

Next ==
  \/ \E r \in Repo : Make(r) \/ Unmake(r)
  \/ \E t \in Tree : Unlink(t) \/ \E r \in Repo : Link(t, r)

Spec == Init /\ [][Next]_vars

(* A tree that links to a clone can fetch into it.                         *)
LinkedIsWhole == \A t \in Tree : link[t] # None => link[t] \in whole
=============================================================================
