----------------------------- MODULE ShelfProofs -----------------------------
(***************************************************************************)
(* Proofs about Shelf, for every number of releases, deploys, kills,       *)
(* failures and deeds by hand: `current` is the register that Link states, *)
(* a killed or failed swap does not wedge the next, git refuses to add a   *)
(* worktree only where an earlier add was killed, at one release for each  *)
(* kill, one release that will not go strands no other, and an undisturbed *)
(* pruning spares what was just tried.                                     *)
(*                                                                         *)
(* The first two go along the temporary link: a swap has emptied its place *)
(* when it makes it and finds its own there when it renames it, since the  *)
(* hands that may come between put a file only where there is none and     *)
(* take away only what is not a link.  The third counts the locks that git *)
(* left behind, the last two the releases newer than each: only fewer of   *)
(* them make it stay.                                                      *)
(***************************************************************************)
EXTENDS Shelf, FiniteSetTheorems, TLAPS

(* What a deploy has in hand are releases.                                 *)
Objects ==
  /\ pc # "idle" => job.head \in Sha /\ job.started \in Sha
  /\ pc \in Swapping \cup {"land", "back", "removing"} => job.to \in Sha

(* How far the swap and the checkout are.                                  *)
Progress ==
  /\ pc = "link" => tmp \in {None, Foreign}
  /\ pc = "rename" => tmp = job.to
  /\ pc \in {"register", "add"} => dir[job.head] = "absent"
  /\ pc = "add" => job.head \notin registered \ locked
  /\ pc = "adding" => job.head \in locked
  /\ pc = "removing" => job.to \notin locked

Typed ==
  /\ current \in Sha
  /\ tmp \in Sha \cup {None, Foreign}
  /\ dir \in [Sha -> {"absent", "partial", "whole"}]
  /\ registered \subseteq Sha /\ locked \subseteq registered
  /\ job \in Job
  /\ pc \in Places

IInv == Typed /\ Objects /\ Progress

-----------------------------------------------------------------------------
(* The steps, one function at a time.                                      *)

LEMMA InitHolds == Init => IInv
<1> SUFFICES ASSUME NEW first \in Sha, InitAt(first) PROVE IInv
  BY DEF Init
<1>1. Typed  BY DEF InitAt, Typed, Job, NoJob, Places
<1>2. Objects /\ Progress  BY DEF InitAt, Objects, Progress, Swapping
<1> QED  BY <1>1, <1>2 DEF IInv

LEMMA BeginKeeps ==
  ASSUME IInv, NEW s \in Sha, Begin(s)
  PROVE  IInv'
<1>1. /\ pc' = "checkout" /\ UNCHANGED files
      /\ job' = [NoJob EXCEPT !.head = s, !.started = current]
  BY DEF Begin, Goto
<1>2. current \in Sha  BY DEF IInv, Typed
<1>3. job' \in Job /\ job'.head = s /\ job'.started = current
  BY <1>1, <1>2 DEF NoJob, Job
<1>4. Typed'  BY <1>1, <1>3 DEF IInv, Typed, files, Places
<1>5. Objects' /\ Progress'
  BY <1>1, <1>2, <1>3 DEF Objects, Progress, Swapping
<1> QED  BY <1>4, <1>5 DEF IInv

(* checkout_release, and the build up to the swap.                         *)
CheckoutStep == Reuse \/ Clear \/ Forget \/ Add \/ Added \/ Build

LEMMA CheckoutKeeps ==
  ASSUME IInv, CheckoutStep
  PROVE  IInv'
<1>1. current' = current /\ tmp' = tmp
  BY DEF CheckoutStep, Reuse, Clear, Forget, Add, Added, Build, files
<1>2. pc # "idle" /\ job.head \in Sha /\ job.started \in Sha /\ job \in Job
  BY DEF CheckoutStep, Reuse, Clear, Forget, Add, Added, Build, IInv, Objects, Typed
<1>3. CASE Reuse
  BY <1>1, <1>2, <1>3
  DEF Reuse, Goto, files, IInv, Typed, Objects, Progress, Swapping, Places
<1>4. CASE Clear
  <2>1. /\ job' = job /\ locked' = locked /\ registered' \subseteq Sha
        /\ locked' \subseteq registered'
        /\ dir' \in [Sha -> {"absent", "partial", "whole"}]
    BY <1>4 DEF Clear, IInv, Typed
  <2>2. pc' \in {"register", "list"} /\ (pc' = "register" => dir'[job.head] = "absent")
    BY <1>2, <1>4 DEF Clear, Goto, IInv, Typed
  <2> QED  BY <1>1, <1>2, <2>1, <2>2 DEF IInv, Typed, Objects, Progress, Swapping, Places
<1>5. CASE Forget
  <2>1. /\ pc = "register" /\ pc' = "add" /\ job' = job /\ dir' = dir
        /\ locked' = locked /\ registered' = registered \cap (Present \cup locked)
    BY <1>5 DEF Forget, AfterPrune, Goto
  <2>2. job.head \notin registered' \ locked'
    BY <2>1 DEF IInv, Progress, Present
  <2> QED
    BY <1>1, <1>2, <2>1, <2>2 DEF IInv, Typed, Objects, Progress, Swapping, Places
<1>6. CASE Add
  <2>1. \/ /\ pc' = "adding" /\ registered' = registered \cup {job.head}
           /\ locked' = locked \cup {job.head}
           /\ dir' = [dir EXCEPT ![job.head] = "partial"]
        \/ pc' = "list" /\ UNCHANGED <<dir, registered, locked>>
    BY <1>6 DEF Add, Goto
  <2>2. job' = job  BY <1>6 DEF Add
  <2> QED
    BY <1>1, <1>2, <2>1, <2>2 DEF IInv, Typed, Objects, Progress, Swapping, Places
<1>7. CASE Added
  <2>1. /\ pc' \in {"build", "list"} /\ job' = job
        /\ dir' \in [Sha -> {"absent", "partial", "whole"}]
        /\ registered' \subseteq Sha /\ locked' \subseteq registered'
    BY <1>2, <1>7
    DEF Added, AddCompleted, AddUndone, AddKilled, Goto, IInv, Typed
  <2> QED  BY <1>1, <1>2, <2>1 DEF IInv, Typed, Objects, Progress, Swapping, Places
<1>8. CASE Build
  <2>1. pc' \in {"inspect", "list"} /\ job' = [job EXCEPT !.to = job.head]
        /\ UNCHANGED <<dir, registered, locked>>
    BY <1>8 DEF Build, Goto
  <2>2. /\ job' \in Job /\ job'.to = job.head /\ job'.head = job.head
        /\ job'.started = job.started
    BY <1>2, <2>1 DEF Job
  <2> QED  BY <1>1, <1>2, <2>1, <2>2 DEF IInv, Typed, Objects, Progress, Swapping, Places
<1> QED  BY <1>3, <1>4, <1>5, <1>6, <1>7, <1>8 DEF CheckoutStep

(* swap::point_at.                                                         *)
SwapStep == Inspect \/ MakeLink \/ Rename

LEMMA SwapKeeps ==
  ASSUME IInv, SwapStep
  PROVE  IInv'
<1>1. job' = job /\ UNCHANGED <<dir, registered, locked>> /\ pc \in Swapping
  BY DEF SwapStep, Inspect, MakeLink, Rename, Swapping
<1>2. job.head \in Sha /\ job.started \in Sha /\ job.to \in Sha
  BY <1>1 DEF IInv, Objects, Swapping
<1>3. ASSUME current' \in Sha, tmp' \in Sha \cup {None, Foreign},
             pc' \in {"link", "rename", "land", "back", "list"},
             pc' = "link" => tmp' \in {None, Foreign},
             pc' = "rename" => tmp' = job.to
      PROVE  IInv'
  <2>1. pc' \in Places  BY <1>3 DEF Places
  <2>2. Typed'  BY <1>1, <1>3, <2>1 DEF IInv, Typed
  <2>3. Objects'  BY <1>1, <1>2 DEF Objects
  <2>4. Progress'  BY <1>1, <1>3 DEF Progress
  <2> QED  BY <2>2, <2>3, <2>4 DEF IInv
<1>4. current \in Sha /\ tmp \in Sha \cup {None, Foreign}  BY DEF IInv, Typed
<1>5. CASE Inspect
  <2>1. current' = current /\ ((tmp' = None /\ pc' = "link") \/ (tmp' = tmp /\ pc' = "list"))
    BY <1>5 DEF Inspect, Goto, SwapFails
  <2> QED  BY <1>3, <1>4, <2>1
<1>6. CASE MakeLink
  <2>1. current' = current /\ ((tmp' = job.to /\ pc' = "rename") \/ (tmp' = tmp /\ pc' = "list"))
    BY <1>6 DEF MakeLink, Goto, SwapFails
  <2> QED  BY <1>2, <1>3, <1>4, <2>1
<1>7. CASE Rename
  <2>1. current' \in Sha /\ tmp' \in {None, tmp} /\ pc' \in {"land", "back", "list"}
    BY <1>4, <1>7 DEF Rename, Swapped, SwapFails, Goto
  <2> QED  BY <1>3, <1>4, <2>1
<1> QED  BY <1>5, <1>6, <1>7 DEF SwapStep

(* The verdict and the pruning.                                            *)
AfterStep ==
  \/ Land \/ Back \/ ListReleases \/ EndRemove \/ Sweep
  \/ \E s \in Sha : BeginRemove(s) \/ RefuseRemove(s)

LEMMA AfterKeeps ==
  ASSUME IInv, AfterStep
  PROVE  IInv'
<1>1. current' = current /\ tmp' = tmp /\ pc # "idle"
  BY DEF AfterStep, Land, Back, ListReleases, EndRemove, Sweep, BeginRemove, RefuseRemove,
     files
<1>2. job \in Job /\ job.head \in Sha /\ job.started \in Sha
  BY <1>1 DEF IInv, Typed, Objects
<1>3. registered' \subseteq Sha /\ locked' \subseteq registered'
  <2>1. CASE EndRemove
    <3>1. job.to \notin locked  BY <2>1 DEF EndRemove, IInv, Progress
    <3> QED  BY <2>1, <3>1 DEF EndRemove, IInv, Typed
  <2>2. CASE ~EndRemove
    BY <2>2 DEF AfterStep, Land, Back, ListReleases, Sweep, AfterPrune, BeginRemove,
       RefuseRemove, files, IInv, Typed
  <2> QED  BY <2>1, <2>2
<1>4. dir' \in [Sha -> {"absent", "partial", "whole"}]
  <2>1. CASE EndRemove
    <3>1. job.to \in Sha  BY <2>1 DEF EndRemove, IInv, Objects
    <3> QED  BY <2>1, <3>1 DEF EndRemove, IInv, Typed
  <2>2. CASE ~EndRemove
    BY <2>2 DEF AfterStep, Land, Back, ListReleases, Sweep, BeginRemove, RefuseRemove,
       files, IInv, Typed
  <2> QED  BY <2>1, <2>2
<1>5. ASSUME NEW j \in Job, job' = j, NEW l \in Places, pc' = l,
             l \notin {"link", "rename", "register", "add", "adding"},
             l = "removing" => j.to \notin locked',
             l # "idle" => j.head = job.head /\ j.started = job.started,
             l \in Swapping \cup {"land", "back", "removing"} => j.to \in Sha
      PROVE  IInv'
  <2>1. Typed'  BY <1>1, <1>3, <1>4, <1>5 DEF IInv, Typed
  <2>2. Objects'  BY <1>2, <1>5 DEF Objects
  <2>3. Progress'  BY <1>5 DEF Progress
  <2> QED  BY <2>1, <2>2, <2>3 DEF IInv
<1>6. CASE Land
  <2>1. /\ pc' \in {"list", "inspect"}
        /\ job' = job \/ job' = [job EXCEPT !.to = job.started]
        /\ pc' = "inspect" => job' = [job EXCEPT !.to = job.started]
    BY <1>6 DEF Land, Goto
  <2>2. LET j == [job EXCEPT !.to = job.started] IN
        j \in Job /\ j.to = job.started /\ j.head = job.head /\ j.started = job.started
    BY <1>2 DEF Job
  <2>3. pc' \in Places  BY <2>1 DEF Places
  <2> QED  BY <1>2, <1>5, <2>1, <2>2, <2>3 DEF Swapping
<1>7. CASE Back
  BY <1>2, <1>5, <1>7 DEF Back, Goto, Places, Swapping
<1>8. CASE ListReleases
  <2>1. pc' = "remove" /\ job' = [job EXCEPT !.doomed = Doomed(Present, {current, deployed})]
    BY <1>8 DEF ListReleases, Goto
  <2>2. Doomed(Present, {current, deployed}) \subseteq Sha  BY DEF Doomed, Present
  <2>3. job' \in Job /\ job'.head = job.head /\ job'.started = job.started
    BY <1>2, <2>1, <2>2 DEF Job
  <2> QED  BY <1>5, <2>1, <2>3 DEF Places, Swapping
<1>9. CASE EndRemove
  <2>1. pc' = "remove" /\ (job' = job \/ job' = [job EXCEPT !.kept = job.kept \cup {job.to}])
    BY <1>9 DEF EndRemove, Goto
  <2>2. job.to \in Sha  BY <1>9 DEF EndRemove, IInv, Objects
  <2>3. job' \in Job /\ job'.head = job.head /\ job'.started = job.started
    BY <1>2, <2>1, <2>2 DEF Job
  <2> QED  BY <1>5, <2>1, <2>3 DEF Places, Swapping
<1>10. CASE Sweep
  <2>1. NoJob \in Job  BY DEF NoJob, Job
  <2> QED  BY <1>5, <1>10, <2>1 DEF Sweep, Goto, Places, Swapping
<1>11. ASSUME NEW s \in Sha, BeginRemove(s)
       PROVE  IInv'
  <2>1. pc' = "removing" /\ job' = [job EXCEPT !.to = s, !.doomed = @ \ {s}]
    BY <1>11 DEF BeginRemove, Goto
  <2>2. job' \in Job /\ job'.head = job.head /\ job'.started = job.started /\ job'.to = s
    BY <1>2, <2>1 DEF Job
  <2>3. s \notin locked'  BY <1>11 DEF BeginRemove, Removable
  <2> QED  BY <1>5, <2>1, <2>2, <2>3 DEF Places, Swapping
<1>12. ASSUME NEW s \in Sha, RefuseRemove(s)
       PROVE  IInv'
  <2>1. pc = "remove" /\ pc' = pc
        /\ job' = [job EXCEPT !.doomed = @ \ {s}, !.kept = @ \cup {s}]
    BY <1>12 DEF RefuseRemove
  <2>2. job' \in Job /\ job'.head = job.head /\ job'.started = job.started
    BY <1>2, <2>1 DEF Job
  <2> QED  BY <1>5, <2>1, <2>2 DEF Places, Swapping
<1> QED  BY <1>6, <1>7, <1>8, <1>9, <1>10, <1>11, <1>12 DEF AfterStep

LEMMA CrashKeeps ==
  ASSUME IInv, Crash
  PROVE  IInv'
<1>1. pc' = "idle" /\ job' = NoJob /\ current' = current /\ tmp' = tmp
  BY DEF Crash, Goto
<1>2. NoJob \in Job  BY DEF NoJob, Job
<1>3. /\ dir' \in [Sha -> {"absent", "partial", "whole"}]
      /\ registered' \subseteq Sha /\ locked' \subseteq registered'
  <2>1. CASE pc = "removing"
    BY <2>1 DEF Crash, IInv, Typed, Progress
  <2>2. CASE pc # "removing"
    BY <2>2 DEF Crash, AddKilled, AddCompleted, IInv, Typed
  <2> QED  BY <2>1, <2>2
<1> QED
  BY <1>1, <1>2, <1>3 DEF IInv, Typed, Objects, Progress, Swapping, Places

LEMMA HandsKeep ==
  ASSUME IInv, Hands
  PROVE  IInv'
<1>1. pc' = pc /\ job' = job /\ UNCHANGED <<registered, locked>>
  BY DEF Hands, HandPlace, HandClear, HandRemove, HandRepoint
<1>2. CASE HandPlace
  BY <1>1, <1>2, NoneAssumption DEF HandPlace, IInv, Typed, Objects, Progress, Swapping
<1>3. CASE HandClear
  <2>1. tmp = Foreign /\ tmp' = None /\ current' = current /\ dir' = dir
    BY <1>3 DEF HandClear
  <2>2. pc # "rename"
    BY <2>1, NoneAssumption DEF IInv, Objects, Progress, Swapping, Foreign
  <2> QED  BY <1>1, <2>1, <2>2 DEF IInv, Typed, Objects, Progress, Swapping
<1>4. ASSUME NEW s \in Sha, HandRemove(s) PROVE IInv'
  BY <1>1, <1>4 DEF HandRemove, IInv, Typed, Objects, Progress
<1>5. ASSUME NEW s \in Sha, HandRepoint(s) PROVE IInv'
  BY <1>1, <1>5 DEF HandRepoint, IInv, Typed, Objects, Progress
<1> QED  BY <1>2, <1>3, <1>4, <1>5 DEF Hands

LEMMA NextHolds == IInv /\ [Next]_vars => IInv'
<1> SUFFICES ASSUME IInv, [Next]_vars PROVE IInv'
  OBVIOUS
<1>1. CASE \E s \in Sha : Begin(s)  BY <1>1, BeginKeeps
<1>2. CASE Proceeds
  BY <1>2, CheckoutKeeps, SwapKeeps, AfterKeeps
  DEF Proceeds, CheckoutStep, SwapStep, AfterStep
<1>3. CASE Crash  BY <1>3, CrashKeeps
<1>4. CASE Hands  BY <1>4, HandsKeep
<1>5. CASE UNCHANGED vars
  BY <1>5 DEF vars, files, IInv, Typed, Objects, Progress
<1> QED  BY <1>1, <1>2, <1>3, <1>4, <1>5 DEF Next

LEMMA Always == Spec => []IInv
  BY InitHolds, NextHolds, PTL DEF Spec

-----------------------------------------------------------------------------
(* What follows.                                                           *)

(* swap::point_at: when the link is made its name is free or a file that   *)
(* is somebody's own is there; a link a killed swap left is gone.          *)
THEOREM NeverWedged == Spec => []Unwedged
<1>1. IInv => Unwedged  BY DEF IInv, Progress, Unwedged
<1> QED  BY <1>1, Always, PTL

(* swap.rs, with everything around it that touches `current` or its        *)
(* temporary sibling, implements the register: `current` always leads to   *)
(* one release, and moves at once to the one asked for or not at all.      *)
THEOREM SwapIsRegister == Spec => IsRegister
<1>1. Init => Register!Init
  BY DEF Init, InitAt, Register!Init, Asked, Swapping
<1>2. ASSUME IInv, [Next]_vars PROVE [Register!Next]_(Register!vars)
  <2> USE DEF Register!Next, Register!vars, Asked, Swapping
  <2>1. CASE UNCHANGED vars  BY <2>1 DEF vars, files
  <2>2. CASE \E s \in Sha : Begin(s)  BY <2>2 DEF Begin, Goto, files
  <2>3. CASE CheckoutStep /\ ~Build
    BY <2>3 DEF CheckoutStep, Reuse, Clear, Forget, Add, Added, Goto, files
  <2>4. CASE Build
    <3>1. job.head \in Sha /\ job \in Job  BY <1>2, <2>4 DEF Build, IInv, Objects, Typed
    <3>2. pc = "build" /\ job' = [job EXCEPT !.to = job.head] /\ current' = current
      BY <2>4 DEF Build
    <3>3. pc' \in {"inspect", "list"}  BY <2>4 DEF Build, Goto
    <3>4. job'.to = job.head  BY <3>1, <3>2 DEF Job
    <3>5. pc' = "inspect" => Register!Ask(job.head)
      BY <3>2, <3>4 DEF Register!Ask
    <3>6. pc' = "list" => UNCHANGED <<current, Asked>>  BY <3>2
    <3> QED  BY <3>1, <3>3, <3>5, <3>6
  <2>5. CASE SwapStep
    <3>1. job' = job /\ pc \in Swapping /\ job.to \in Sha /\ job.to # None
      BY <1>2, <2>5, NoneAssumption
      DEF SwapStep, Inspect, MakeLink, Rename, IInv, Objects
    <3>2. \/ current' = current /\ pc' \in {"link", "rename"}
          \/ current' = current /\ pc' = "list"
          \/ current' = job.to /\ pc' \in {"land", "back"}
      BY <1>2, <2>5
      DEF SwapStep, Inspect, MakeLink, Rename, Swapped, SwapFails, Goto, IInv, Progress
    <3>3. CASE current' = current /\ pc' \in {"link", "rename"}
      BY <3>1, <3>3
    <3>4. CASE current' = current /\ pc' = "list"
      BY <3>1, <3>4 DEF Register!Refuse
    <3>5. CASE current' = job.to /\ pc' \in {"land", "back"}
      BY <3>1, <3>5 DEF Register!Point
    <3> QED  BY <3>2, <3>3, <3>4, <3>5
  <2>6. CASE Land
    <3>1. job.started \in Sha /\ job \in Job  BY <1>2, <2>6 DEF Land, IInv, Objects, Typed
    <3>2. pc = "land" /\ current' = current  BY <2>6 DEF Land, files
    <3>3. \/ pc' = "list"
          \/ pc' = "inspect" /\ job' = [job EXCEPT !.to = job.started]
      BY <2>6 DEF Land, Goto
    <3>4. CASE pc' = "list"  BY <3>2, <3>4
    <3>5. CASE pc' = "inspect" /\ job' = [job EXCEPT !.to = job.started]
      <4>1. job'.to = job.started  BY <3>1, <3>5 DEF Job
      <4> QED  BY <3>1, <3>2, <3>5, <4>1 DEF Register!Ask
    <3> QED  BY <3>3, <3>4, <3>5
  <2>7. CASE AfterStep /\ ~Land
    BY <2>7 DEF AfterStep, Back, ListReleases, EndRemove, Sweep, BeginRemove, RefuseRemove,
       Goto, files
  <2>8. CASE Crash
    <3>1. current' = current /\ pc' = "idle"  BY <2>8 DEF Crash, Goto
    <3>2. pc \in Swapping => job.to # None
      BY <1>2, NoneAssumption DEF IInv, Objects
    <3> QED  BY <3>1, <3>2 DEF Register!Refuse
  <2>9. CASE Hands
    BY <2>9 DEF Hands, HandPlace, HandClear, HandRemove, HandRepoint, Register!Repoint
  <2> QED
    BY <1>2, <2>1, <2>2, <2>3, <2>4, <2>5, <2>6, <2>7, <2>8, <2>9
    DEF Next, Proceeds, CheckoutStep, SwapStep, AfterStep
<1> QED  BY <1>1, <1>2, Always, PTL DEF Spec, IsRegister, Register!Spec

-----------------------------------------------------------------------------
(* The order of directory times is known only through the releases newer   *)
(* than each, finitely many, and a budget only shrinks.                    *)

Kinds == {"deploy", "crash", "fault", "hand"}

Ordered ==
  /\ newer \in [Sha -> SUBSET Sha] /\ \A s \in Sha : IsFiniteSet(newer[s])
  /\ left \in BoundsType /\ \A k \in Kinds : left[k] <= Bounds[k]
  /\ pc \in {"remove", "removing"} => job.doomed \subseteq Sha

LEMMA Fewer ==
  ASSUME NEW Y, IsFiniteSet(Y), NEW X \in SUBSET Y
  PROVE  /\ Cardinality(X) \in Nat /\ Cardinality(Y) \in Nat
         /\ Cardinality(X) <= Cardinality(Y)
  BY FS_Subset, FS_CardinalityType

LEMMA Spent ==
  ASSUME Ordered, NEW k \in Kinds, Spend(k)
  PROVE  /\ left' \in BoundsType /\ \A i \in Kinds : left'[i] <= Bounds[i]
         /\ left'[k] # Bounds[k] /\ \A i \in Kinds \ {k} : left'[i] = left[i]
  BY BoundsAssumption DEF Ordered, Kinds, BoundsType, Spend

LEMMA Spends ==
  ASSUME [Next]_vars
  PROVE  UNCHANGED left \/ \E k \in Kinds : Spend(k)
<1>1. CASE \E s \in Sha : Begin(s)  BY <1>1 DEF Begin, Kinds
<1>2. CASE Crash \/ Hands
  BY <1>2 DEF Crash, Hands, HandPlace, HandClear, HandRemove, HandRepoint, Kinds
<1>3. CASE Reuse \/ Clear \/ Forget \/ Add \/ Added \/ Build
  BY <1>3 DEF Reuse, Clear, Forget, Add, Added, Build, Kinds
<1>4. CASE Inspect \/ MakeLink \/ Rename \/ Land \/ Back
  BY <1>4 DEF Inspect, MakeLink, Rename, Land, Back, Kinds
<1>5. CASE ListReleases \/ EndRemove \/ Sweep
           \/ \E s \in Sha : BeginRemove(s) \/ RefuseRemove(s)
  BY <1>5 DEF ListReleases, EndRemove, Sweep, BeginRemove, RefuseRemove, Kinds
<1>6. CASE UNCHANGED vars  BY <1>6 DEF vars
<1> QED  BY <1>1, <1>2, <1>3, <1>4, <1>5, <1>6 DEF Next, Proceeds

(* What was untouched after a step was so before it.                       *)
LEMMA StaysSpent ==
  ASSUME Ordered, [Next]_vars, NEW k \in Kinds, left'[k] = Bounds[k]
  PROVE  left[k] = Bounds[k] /\ ~Spend(k)
<1>1. ASSUME NEW i \in Kinds, Spend(i) PROVE left[k] = Bounds[k] /\ ~Spend(k)
  <2>1. ~Spend(k)  BY Spent
  <2>2. i # k  BY <1>1, <2>1
  <2> QED  BY <1>1, <2>1, <2>2, Spent
<1>2. CASE UNCHANGED left
  <2>1. ~Spend(k)  BY Spent
  <2> QED  BY <1>2, <2>1
<1> QED  BY <1>1, <1>2, Spends

(* Directories are written to one at a time, if at all.                    *)
LEMMA Touches ==
  ASSUME IInv, [Next]_vars
  PROVE  newer' = newer \/ \E s \in Sha : newer' = Touched(s)
<1>1. CASE \E s \in Sha : Begin(s)  BY <1>1 DEF Begin, files
<1>2. CASE Crash \/ Hands
  BY <1>2 DEF Crash, Hands, HandPlace, HandClear, HandRemove, HandRepoint, files
<1>3. CASE Reuse \/ Clear \/ Forget \/ Add \/ Added \/ Build
  <2>1. job.head \in Sha
    BY <1>3 DEF Reuse, Clear, Forget, Add, Added, Build, IInv, Objects
  <2> QED  BY <1>3, <2>1 DEF Reuse, Clear, Forget, Add, Added, Build, files
<1>4. CASE Inspect \/ MakeLink \/ Rename \/ Land \/ Back
  BY <1>4 DEF Inspect, MakeLink, Rename, Land, Back, files
<1>5. CASE ListReleases \/ EndRemove \/ Sweep
           \/ \E s \in Sha : BeginRemove(s) \/ RefuseRemove(s)
  BY <1>5 DEF ListReleases, EndRemove, Sweep, BeginRemove, RefuseRemove, files
<1>6. CASE UNCHANGED vars  BY <1>6 DEF vars, files
<1> QED  BY <1>1, <1>2, <1>3, <1>4, <1>5, <1>6 DEF Next, Proceeds

LEMMA OrderedKeeps ==
  ASSUME IInv, IInv', Ordered, [Next]_vars
  PROVE  Ordered'
<1>1. left' \in BoundsType /\ \A k \in Kinds : left'[k] <= Bounds[k]
  BY Spends, Spent DEF Ordered
<1>2. job'.doomed \subseteq Sha  BY DEF IInv, Typed, Job
<1>3. newer' \in [Sha -> SUBSET Sha] /\ \A s \in Sha : IsFiniteSet(newer'[s])
  <2>1. CASE newer' = newer  BY <2>1 DEF Ordered
  <2>2. ASSUME NEW s \in Sha, newer' = Touched(s)
        PROVE  newer' \in [Sha -> SUBSET Sha] /\ \A t \in Sha : IsFiniteSet(newer'[t])
    <3>1. \A t \in Sha : newer'[t] = IF t = s THEN {} ELSE newer[t] \cup {s}
      BY <2>2 DEF Touched
    <3>2. \A t \in Sha : IsFiniteSet(newer[t] \cup {s})
      BY FS_AddElement DEF Ordered
    <3>3. newer' \in [Sha -> SUBSET Sha]  BY <2>2 DEF Touched, Ordered
    <3> QED  BY <3>1, <3>2, <3>3, FS_EmptySet
  <2> QED  BY <2>1, <2>2, Touches
<1> QED  BY <1>1, <1>2, <1>3 DEF Ordered

LEMMA InitOrdered == Init => Ordered
  BY BoundsAssumption, FS_EmptySet DEF Init, InitAt, Ordered, BoundsType, Kinds

-----------------------------------------------------------------------------
(* What a kill leaves locked.                                              *)

(* No more releases than there were kills.                                 *)
Killed ==
  IsFiniteSet(locked) /\ Cardinality(Wedged) <= Bounds.crash - left.crash

LEMMA InitKilled == Init => Killed
<1> SUFFICES ASSUME Init PROVE Killed
  OBVIOUS
<1>1. locked = {} /\ Wedged = {} /\ left = Bounds  BY DEF Init, InitAt, Wedged
<1> QED  BY <1>1, FS_EmptySet, BoundsAssumption DEF Killed, BoundsType

(* A kill that is not spent leaves nothing locked that was not before.     *)
LEMMA KilledKeeps ==
  ASSUME IInv, Ordered, Ordered', Killed, [Next]_vars
  PROVE  Killed'
<1>1. "crash" \in Kinds  BY DEF Kinds
<1>2. left.crash \in Nat /\ left'.crash \in Nat /\ Bounds.crash \in Nat
  BY BoundsAssumption DEF Ordered, BoundsType
<1>3. IsFiniteSet(Wedged) /\ Cardinality(Wedged) \in Nat
  <2>1. Wedged \in SUBSET locked  BY DEF Wedged
  <2> QED  BY <2>1, FS_Subset, FS_CardinalityType DEF Killed
<1>4. ASSUME IsFiniteSet(locked'), Wedged' \in SUBSET Wedged, left'.crash <= left.crash
      PROVE  Killed'
  <2>1. Cardinality(Wedged') \in Nat /\ Cardinality(Wedged') <= Cardinality(Wedged)
    BY <1>3, <1>4, Fewer
  <2> QED  BY <1>2, <1>3, <1>4, <2>1 DEF Killed
<1>5. left'.crash <= left.crash  BY <1>1, <1>2, Spends DEF Spend, Ordered, BoundsType
<1>6. CASE UNCHANGED locked /\ pc # "adding"
  BY <1>4, <1>5, <1>6 DEF Wedged, Killed
<1>7. CASE Add
  <2>1. CASE UNCHANGED locked  BY <1>4, <1>5, <1>7, <2>1 DEF Add, Wedged, Killed
  <2>2. CASE pc' = "adding" /\ job' = job /\ locked' = locked \cup {job.head}
    <3>1. IsFiniteSet(locked')  BY <2>2, FS_AddElement DEF Killed
    <3>2. Wedged' \subseteq Wedged  BY <1>7, <2>2 DEF Add, Wedged
    <3> QED  BY <1>4, <1>5, <3>1, <3>2
  <2> QED  BY <1>7, <2>1, <2>2 DEF Add, Goto
<1>8. CASE pc = "adding" /\ locked' = locked \ {job.head}
  <2>1. IsFiniteSet(locked')  BY <1>8, FS_RemoveElement DEF Killed
  <2>2. Wedged' \subseteq Wedged  BY <1>8 DEF Wedged
  <2> QED  BY <1>4, <1>5, <2>1, <2>2
<1>9. CASE UNCHANGED locked /\ pc = "adding" /\ Spend("crash")
  <2>1. left.crash > 0 /\ left'.crash = left.crash - 1
    BY <1>1, <1>2, <1>9 DEF Spend, Ordered, BoundsType
  <2>2. Wedged' \in SUBSET (Wedged \cup {job.head})  BY <1>9 DEF Wedged
  <2>3. /\ IsFiniteSet(Wedged \cup {job.head})
        /\ Cardinality(Wedged \cup {job.head}) <= Cardinality(Wedged) + 1
    BY <1>3, FS_AddElement
  <2>4. /\ Cardinality(Wedged') \in Nat
        /\ Cardinality(Wedged') <= Cardinality(Wedged \cup {job.head})
        /\ Cardinality(Wedged \cup {job.head}) \in Nat
    BY <2>2, <2>3, Fewer
  <2> QED  BY <1>2, <1>3, <1>9, <2>1, <2>3, <2>4 DEF Killed
<1>10. CASE UNCHANGED locked /\ pc = "adding" /\ pc' = "adding" /\ job' = job
  BY <1>4, <1>5, <1>10 DEF Wedged, Killed
<1>11. CASE \E s \in Sha : Begin(s)  BY <1>6, <1>11 DEF Begin, files
<1>12. CASE Reuse \/ Clear \/ Forget \/ Added \/ Build
  BY <1>6, <1>8, <1>9, <1>12
  DEF Reuse, Clear, Forget, Added, AddCompleted, AddUndone, AddKilled, Build, files
<1>13. CASE Inspect \/ MakeLink \/ Rename \/ Land \/ Back
  BY <1>6, <1>13 DEF Inspect, MakeLink, Rename, Land, Back, files
<1>14. CASE ListReleases \/ EndRemove \/ Sweep
            \/ \E s \in Sha : BeginRemove(s) \/ RefuseRemove(s)
  BY <1>6, <1>14 DEF ListReleases, EndRemove, Sweep, BeginRemove, RefuseRemove, files
<1>15. CASE Crash
  BY <1>6, <1>8, <1>9, <1>15 DEF Crash, AddKilled, AddCompleted
<1>16. CASE Hands
  BY <1>6, <1>10, <1>16 DEF Hands, HandPlace, HandClear, HandRemove, HandRepoint
<1>17. CASE UNCHANGED vars
  BY <1>6, <1>10, <1>17 DEF vars, files
<1> QED
  BY <1>7, <1>11, <1>12, <1>13, <1>14, <1>15, <1>16, <1>17 DEF Next, Proceeds

(* checkout_release: git refuses an add only at a sha where an earlier one *)
(* was killed and left its lock; no two such shas come of one kill; and of *)
(* nothing else, be it failures, removals, prunings or hands, comes any.   *)
THEOREM AddRefusedWhereKilled == Spec => []RefusedWhereKilled
<1>1. ASSUME IInv, Killed PROVE RefusedWhereKilled
  <2>1. pc = "add" => Addable(job.head) \/ job.head \in Wedged
    BY <1>1 DEF IInv, Typed, Objects, Progress, Addable, Present, Wedged
  <2> QED  BY <1>1, <2>1 DEF Killed, RefusedWhereKilled
<1>2. IInv /\ Ordered /\ Ordered' /\ Killed /\ [Next]_vars => Killed'
  BY KilledKeeps
<1>3. IInv /\ IInv' /\ Ordered /\ [Next]_vars => Ordered'  BY OrderedKeeps
<1> QED
  BY <1>1, <1>2, <1>3, InitOrdered, InitKilled, Always, PTL DEF Spec

-----------------------------------------------------------------------------
(* What pruning takes.                                                     *)

(* Under whatever makes fewer of the newer ones stay on a smaller shelf,   *)
(* nothing more is past the newest Keep.                                   *)
LEMMA Shrinks ==
  ASSUME Ordered, NEW s \in Sha, NEW A, NEW B, NEW N, N \cap A \subseteq newer[s] \cap B,
         Cardinality(N \cap A) >= Keep
  PROVE  Cardinality(newer[s] \cap B) >= Keep
<1>1. IsFiniteSet(newer[s] \cap B)
  <2>1. IsFiniteSet(newer[s]) /\ newer[s] \cap B \in SUBSET newer[s]  BY DEF Ordered
  <2> QED  BY <2>1, FS_Subset
<1>2. N \cap A \in SUBSET (newer[s] \cap B)  OBVIOUS
<1> HIDE DEF Ordered
<1>3. /\ Cardinality(N \cap A) \in Nat /\ Cardinality(newer[s] \cap B) \in Nat
      /\ Cardinality(N \cap A) <= Cardinality(newer[s] \cap B)
  BY <1>1, <1>2, Fewer
<1> QED  BY <1>3, KeepAssumption

(* What has been dealt with: it would not go, or it is going.              *)
Aside == job.kept \cup (IF pc = "removing" THEN {job.to} ELSE {})

NoneStranded ==
  pc \in {"remove", "removing"} /\ left.hand = Bounds.hand =>
    Doomed(Present \ Aside, {current, deployed}) \subseteq job.doomed

(* The steps that a pruning is made of.                                    *)
PruneStep ==
  \/ ListReleases \/ EndRemove
  \/ \E s \in Sha : BeginRemove(s) \/ RefuseRemove(s)

LEMMA Prunes ==
  ASSUME [Next]_vars, ~Spend("hand"), pc' \in {"remove", "removing"}
  PROVE  PruneStep \/ (HandClear /\ pc' = pc) \/ UNCHANGED vars
<1>1. CASE \E s \in Sha : Begin(s)  BY <1>1 DEF Begin, Goto
<1>2. CASE Crash  BY <1>2 DEF Crash, Goto
<1>3. CASE Hands
  BY <1>3 DEF Hands, HandPlace, HandClear, HandRemove, HandRepoint
<1>4. CASE Reuse \/ Clear \/ Forget \/ Add \/ Added \/ Build
  BY <1>4 DEF Reuse, Clear, Forget, Add, Added, Build, Goto
<1>5. CASE Inspect \/ MakeLink \/ Rename \/ Land \/ Back \/ Sweep
  BY <1>5 DEF Inspect, MakeLink, Rename, Land, Back, Sweep, Swapped, SwapFails, Goto
<1>6. CASE UNCHANGED vars  BY <1>6
<1> QED  BY <1>1, <1>2, <1>3, <1>4, <1>5, <1>6 DEF Next, Proceeds, PruneStep

LEMMA StrandKeeps ==
  ASSUME IInv, IInv', Ordered, NoneStranded, [Next]_vars
  PROVE  NoneStranded'
<1> SUFFICES ASSUME pc' \in {"remove", "removing"}, left'.hand = Bounds.hand,
                    NEW s \in Sha, s \in Doomed(Present \ Aside, {current, deployed})'
             PROVE  s \in job'.doomed
  BY DEF NoneStranded, Doomed, Present
<1>1. left.hand = Bounds.hand /\ ~Spend("hand")
  <2>1. "hand" \in Kinds  BY DEF Kinds
  <2> QED  BY <2>1, StaysSpent
<1>2. /\ s \in Present' /\ s \notin Aside' /\ s # current' /\ s # deployed'
      /\ Cardinality(newer'[s] \cap (Present' \ Aside')) >= Keep
  BY DEF Doomed
<1>3. job \in Job /\ job' \in Job  BY DEF IInv, Typed
<1>4. ASSUME NEW B, Present' \ Aside' \subseteq B, current' = current, deployed' = deployed,
             newer'[s] \cap (Present' \ Aside') \subseteq newer[s] \cap B
      PROVE  s \in Doomed(B, {current, deployed})
  <2>1. Cardinality(newer[s] \cap B) >= Keep  BY <1>2, <1>4, Shrinks
  <2> QED  BY <1>2, <1>4, <2>1 DEF Doomed
<1>5. CASE UNCHANGED vars
  BY <1>1, <1>4, <1>5 DEF vars, files, Present, Aside, NoneStranded
<1>6. CASE HandClear /\ pc' = pc
  BY <1>1, <1>4, <1>6 DEF HandClear, Present, Aside, NoneStranded
<1>7. CASE ListReleases
  <2>1. /\ UNCHANGED <<current, deployed, dir, newer>>
        /\ job' = [job EXCEPT !.doomed = Doomed(Present, {current, deployed})]
    BY <1>7 DEF ListReleases, files
  <2>2. job'.doomed = Doomed(Present, {current, deployed})  BY <1>3, <2>1 DEF Job
  <2>3. Present' = Present  BY <2>1 DEF Present
  <2> QED  BY <1>4, <2>1, <2>2, <2>3
<1>8. CASE EndRemove
  <2>1. /\ pc = "removing" /\ pc' = "remove"
        /\ UNCHANGED <<current, deployed, newer>>
        /\ \/ dir' = [dir EXCEPT ![job.to] = "absent"] /\ job' = job
           \/ dir' = dir /\ job' = [job EXCEPT !.kept = job.kept \cup {job.to}]
    BY <1>8 DEF EndRemove, Goto
  <2>2. dir \in [Sha -> {"absent", "partial", "whole"}] /\ job.to \in Sha
    BY <2>1 DEF IInv, Typed, Objects
  <2>3. job'.doomed = job.doomed /\ Present' \ Aside' \subseteq Present \ Aside
    <3>1. CASE dir' = [dir EXCEPT ![job.to] = "absent"] /\ job' = job
      BY <2>1, <2>2, <3>1 DEF Present, Aside
    <3>2. CASE dir' = dir /\ job' = [job EXCEPT !.kept = job.kept \cup {job.to}]
      <4>1. job'.kept = job.kept \cup {job.to} /\ job'.doomed = job.doomed
        BY <1>3, <3>2 DEF Job
      <4> QED  BY <2>1, <3>2, <4>1 DEF Present, Aside
    <3> QED  BY <2>1, <3>1, <3>2
  <2>4. s \in Doomed(Present \ Aside, {current, deployed})  BY <1>4, <2>1, <2>3
  <2> QED  BY <1>1, <2>1, <2>3, <2>4 DEF NoneStranded
<1>9. ASSUME NEW r \in Sha, BeginRemove(r)
      PROVE  s \in job'.doomed
  <2>1. /\ pc = "remove" /\ pc' = "removing" /\ UNCHANGED <<current, deployed>>
        /\ dir' = [dir EXCEPT ![r] = "partial"]
        /\ newer' = newer \/ newer' = Touched(r)
        /\ job' = [job EXCEPT !.to = r, !.doomed = @ \ {r}]
    BY <1>9 DEF BeginRemove, Goto
  <2>2. job'.to = r /\ job'.doomed = job.doomed \ {r} /\ job'.kept = job.kept
    BY <1>3, <2>1 DEF Job
  <2>3. Aside = job.kept /\ Aside' = job.kept \cup {r}  BY <2>1, <2>2 DEF Aside
  <2>4. s # r  BY <1>2, <2>3
  <2>5. newer'[s] \subseteq newer[s] \cup {r}  BY <2>1, <2>4 DEF Touched
  <2>6. Present' \ Aside' \subseteq Present \ Aside
    BY <2>1, <2>3 DEF Present, IInv, Typed
  <2>7. r \notin Present' \ Aside'  BY <2>3
  <2>8. s \in Doomed(Present \ Aside, {current, deployed})
    BY <1>4, <2>1, <2>5, <2>6, <2>7
  <2> QED  BY <1>1, <2>1, <2>2, <2>4, <2>8 DEF NoneStranded
<1>10. ASSUME NEW r \in Sha, RefuseRemove(r)
       PROVE  s \in job'.doomed
  <2>1. /\ pc = "remove" /\ UNCHANGED <<files, deployed, pc>>
        /\ job' = [job EXCEPT !.doomed = @ \ {r}, !.kept = @ \cup {r}]
    BY <1>10 DEF RefuseRemove
  <2>2. job'.doomed = job.doomed \ {r} /\ job'.kept = job.kept \cup {r}
    BY <1>3, <2>1 DEF Job
  <2>3. Aside = job.kept /\ Aside' = job.kept \cup {r}  BY <2>1, <2>2 DEF Aside
  <2>4. s \in Doomed(Present \ Aside, {current, deployed})
    BY <1>4, <2>1, <2>3 DEF files, Present
  <2>5. s # r  BY <1>2, <2>3
  <2> QED  BY <1>1, <2>1, <2>2, <2>4, <2>5 DEF NoneStranded
<1> QED  BY <1>1, <1>5, <1>6, <1>7, <1>8, <1>9, <1>10, Prunes DEF PruneStep

(* prune: when a pruning is done nothing is left that would go and need    *)
(* not be spared, but for what would not go: one failure strands none of   *)
(* the others.                                                             *)
THEOREM PruneStrandsNone == Spec => StrandsNone
<1>1. Init => NoneStranded  BY DEF Init, InitAt, NoneStranded
<1>2. ASSUME IInv, Ordered, NoneStranded, [Next]_vars
      PROVE  [Pruned /\ left.hand = Bounds.hand =>
                Doomed(Present \ job.kept, {current, deployed}) = {}]_vars
  <2> SUFFICES ASSUME Pruned, left.hand = Bounds.hand
               PROVE  Doomed(Present \ job.kept, {current, deployed}) = {}
    OBVIOUS
  <2>1. pc \in {"remove", "removing"} /\ pc' = "idle" /\ left'.crash = left.crash
    BY DEF Pruned
  <2>2. ~Crash
    <3>1. ASSUME Spend("crash") PROVE FALSE
      BY <1>2, <2>1, <3>1 DEF Spend, Ordered, BoundsType
    <3> QED  BY <3>1 DEF Crash
  <2>3. Sweep
    <3>1. ~\E s \in Sha : Begin(s)  BY <2>1 DEF Begin
    <3>2. ~Hands
      BY <2>1 DEF Hands, HandPlace, HandClear, HandRemove, HandRepoint
    <3>3. ~(Reuse \/ Clear \/ Forget \/ Add \/ Added \/ Build)
      BY <2>1 DEF Reuse, Clear, Forget, Add, Added, Build
    <3>4. ~(Inspect \/ MakeLink \/ Rename \/ Land \/ Back \/ ListReleases)
      BY <2>1 DEF Inspect, MakeLink, Rename, Land, Back, ListReleases
    <3>5. ~EndRemove /\ ~\E s \in Sha : BeginRemove(s) \/ RefuseRemove(s)
      BY <2>1 DEF EndRemove, BeginRemove, RefuseRemove, Goto
    <3>6. ~UNCHANGED vars  BY <2>1 DEF vars
    <3> QED  BY <1>2, <2>2, <3>1, <3>2, <3>3, <3>4, <3>5, <3>6 DEF Next, Proceeds
  <2>4. pc = "remove" /\ job.doomed = {}  BY <2>3 DEF Sweep
  <2>5. Aside = job.kept  BY <2>4 DEF Aside
  <2> QED  BY <1>2, <2>4, <2>5 DEF NoneStranded
<1>3. Init => Ordered  BY InitOrdered
<1>4. IInv /\ IInv' /\ Ordered /\ NoneStranded /\ [Next]_vars => Ordered' /\ NoneStranded'
  BY OrderedKeeps, StrandKeeps
<1> QED  BY <1>1, <1>2, <1>3, <1>4, Always, PTL DEF Spec, StrandsNone

-----------------------------------------------------------------------------
(* The ordinary course: nothing killed, failed or put by hand so far.  The *)
(* record, `current` and git then agree with each other and with what the  *)
(* deploy in hand means to do, and a pruning leaves nothing undone, so     *)
(* that what is deployed next is either gone or one of the newest Keep.    *)

Course ==
  /\ tmp # Foreign
  /\ pc \notin Swapping \cup {"land", "back"} => current = deployed
  /\ pc \in {"checkout", "register", "add", "adding", "build", "land"} \cup Swapping =>
       job.started = deployed /\ job.head # deployed
  /\ pc \in Swapping => \/ job.to = job.head /\ current = deployed
                        \/ job.to = deployed
  /\ pc = "land" => job.to = job.head /\ current = job.head
  /\ pc = "back" => job.to = deployed /\ current = deployed

OnShelf ==
  /\ deployed \in Present /\ Present \subseteq registered
  /\ locked = IF pc = "adding" THEN {job.head} ELSE {}
  /\ pc \in {"adding", "build", "land"} \cup Swapping => job.head \in Present
  /\ job.kept = {}
  /\ pc \in {"remove", "removing"} => job.doomed \subseteq Present \ {deployed}
  /\ pc = "removing" => job.to # deployed /\ job.to \notin job.doomed

Recent ==
  /\ pc = "idle" => Doomed(Present, {deployed}) = {}
  /\ pc \notin {"idle", "remove", "removing"} => job.head \notin Doomed(Present, {})
  /\ pc \in {"remove", "removing"} => job.head \notin job.doomed
  /\ pc = "removing" => job.to # job.head

Calm == Course /\ OnShelf /\ Recent
Routine == Undisturbed => Calm

(* The steps that take nothing out of the ordinary.                        *)
Smoothly == ~Spend("crash") /\ ~Spend("fault") /\ ~Spend("hand")

LEMMA StaysSmooth ==
  ASSUME Ordered, [Next]_vars, Undisturbed'
  PROVE  Undisturbed /\ Smoothly
  BY StaysSpent DEF Undisturbed, Kinds, Smoothly

LEMMA TouchedLast ==
  ASSUME NEW s \in Sha, newer'[s] = {}
  PROVE  s \notin Doomed(Present, {})'
<1>1. newer'[s] \cap Present' = {}  BY <1>1
<1> QED  BY <1>1, FS_EmptySet, KeepAssumption DEF Doomed

LEMMA CalmBegins ==
  ASSUME IInv, Calm, NEW s \in Sha, Begin(s)
  PROVE  Calm'
<1>1. /\ pc = "idle" /\ pc' = "checkout" /\ UNCHANGED <<files, deployed>>
      /\ job' = [NoJob EXCEPT !.head = s, !.started = current] /\ s # deployed
  BY DEF Begin, Goto
<1>2. job'.head = s /\ job'.started = current /\ job'.kept = {}
  BY <1>1 DEF NoJob
<1>3. Course' /\ OnShelf'
  BY <1>1, <1>2 DEF Calm, Course, OnShelf, files, Present, Swapping
<1>4. s \notin Doomed(Present, {deployed})  BY <1>1 DEF Calm, Recent
<1>5. s \notin Doomed(Present, {})'
  BY <1>1, <1>4 DEF Doomed, files, Present
<1> QED  BY <1>1, <1>2, <1>3, <1>5 DEF Calm, Recent

LEMMA CalmChecksOut ==
  ASSUME IInv, Calm, Smoothly, CheckoutStep
  PROVE  Calm'
<1>1. /\ UNCHANGED <<current, tmp, deployed>> /\ job'.head = job.head
      /\ job'.started = job.started /\ job'.kept = job.kept
      /\ pc \in {"checkout", "register", "add", "adding", "build"}
  <2>1. job \in Job  BY DEF IInv, Typed
  <2> QED
    BY <2>1 DEF CheckoutStep, Reuse, Clear, Forget, Add, Added, Build, files, Job
<1>2. /\ current = deployed /\ tmp # Foreign /\ job.started = deployed
      /\ job.head # deployed /\ deployed \in Present /\ Present \subseteq registered
      /\ job.head \notin Doomed(Present, {}) /\ job.head \in Sha /\ job.kept = {}
      /\ pc \in {"adding", "build"} => job.head \in Present
      /\ locked = IF pc = "adding" THEN {job.head} ELSE {}
  BY <1>1 DEF Calm, Course, OnShelf, Recent, Swapping, IInv, Objects
<1>3. dir \in [Sha -> {"absent", "partial", "whole"}]  BY DEF IInv, Typed
<1>4. ASSUME pc' \in {"register", "add", "adding", "build", "inspect", "list"},
             deployed \in Present', Present' \subseteq registered',
             locked' = IF pc' = "adding" THEN {job.head} ELSE {},
             pc' \in {"adding", "build", "inspect"} => job.head \in Present',
             pc' = "inspect" => job'.to = job.head,
             job.head \notin Doomed(Present, {})'
      PROVE  Calm'
  <2>1. Course'  BY <1>1, <1>2, <1>4 DEF Course, Swapping
  <2>2. OnShelf'  BY <1>1, <1>2, <1>4 DEF OnShelf, Swapping
  <2>3. Recent'  BY <1>1, <1>4 DEF Recent
  <2> QED  BY <2>1, <2>2, <2>3 DEF Calm
<1>5. CASE Reuse
  BY <1>2, <1>4, <1>5 DEF Reuse, Finished, Goto, files, Present, Doomed
<1>6. CASE Clear
  <2>1. /\ dir' = [dir EXCEPT ![job.head] = "absent"] /\ pc' = "register"
        /\ UNCHANGED <<newer, registered, locked>> /\ pc = "checkout"
    BY <1>6 DEF Clear, Smoothly, Goto
  <2>2. Present' = Present \ {job.head}  BY <1>2, <1>3, <2>1 DEF Present
  <2>3. job.head \notin Doomed(Present, {})'  BY <2>2 DEF Doomed
  <2> QED  BY <1>2, <1>4, <2>1, <2>2, <2>3
<1>7. CASE Forget
  BY <1>2, <1>4, <1>7 DEF Forget, AfterPrune, Goto, Present, Doomed
<1>8. CASE Add
  <2>1. /\ dir' = [dir EXCEPT ![job.head] = "partial"] /\ pc' = "adding"
        /\ registered' = registered \cup {job.head} /\ newer' = Touched(job.head)
        /\ locked' = locked \cup {job.head}
    <3>1. pc = "add" /\ locked = {}  BY <1>2, <1>8 DEF Add
    <3>2. Addable(job.head)
      BY <1>2, <3>1 DEF Addable, IInv, Progress
    <3> QED  BY <1>8, <3>2 DEF Add, Goto
  <2>2. Present' = Present \cup {job.head}  BY <1>2, <1>3, <2>1 DEF Present
  <2>3. job.head \notin Doomed(Present, {})'
    BY <1>2, <2>1, TouchedLast DEF Touched
  <2> QED  BY <1>2, <1>4, <2>1, <2>2, <2>3
<1>9. CASE Added
  <2>1. /\ dir' = [dir EXCEPT ![job.head] = "whole"] /\ pc' = "build" /\ pc = "adding"
        /\ UNCHANGED <<newer, registered>> /\ locked' = locked \ {job.head}
    BY <1>9 DEF Added, AddCompleted, Smoothly, Goto
  <2>2. Present' = Present  BY <1>2, <1>3, <2>1 DEF Present
  <2> QED  BY <1>2, <1>4, <2>1, <2>2 DEF Doomed
<1>10. CASE Build
  <2>1. /\ pc = "build" /\ pc' \in {"inspect", "list"}
        /\ UNCHANGED <<dir, registered, locked>>
        /\ job' = [job EXCEPT !.to = job.head]
        /\ newer' = newer \/ newer' = Touched(job.head)
    BY <1>10 DEF Build, Goto
  <2>2. job'.to = job.head
    <3>1. job \in Job  BY DEF IInv, Typed
    <3> QED  BY <2>1, <3>1 DEF Job
  <2>3. Present' = Present  BY <2>1 DEF Present
  <2>4. job.head \notin Doomed(Present, {})'
    <3>1. CASE newer' = newer  BY <1>2, <2>3, <3>1 DEF Doomed
    <3>2. CASE newer' = Touched(job.head)  BY <1>2, <3>2, TouchedLast DEF Touched
    <3> QED  BY <2>1, <3>1, <3>2
  <2> QED  BY <1>2, <1>4, <2>1, <2>2, <2>3, <2>4
<1> QED  BY <1>5, <1>6, <1>7, <1>8, <1>9, <1>10 DEF CheckoutStep

LEMMA CalmSwaps ==
  ASSUME IInv, Calm, Smoothly, SwapStep \/ Land \/ Back
  PROVE  Calm'
<1>1. /\ UNCHANGED <<dir, registered, locked, newer>> /\ job'.head = job.head
      /\ job'.started = job.started /\ job'.kept = job.kept
  <2>1. job \in Job  BY DEF IInv, Typed
  <2> QED  BY <2>1 DEF SwapStep, Inspect, MakeLink, Rename, Land, Back, files, Job
<1>2. pc \in Swapping \cup {"land", "back"}
  BY DEF SwapStep, Inspect, MakeLink, Rename, Land, Back, Swapping
<1>3. /\ tmp # Foreign /\ deployed \in Present /\ Present \subseteq registered
      /\ job.head \notin Doomed(Present, {}) /\ job.head \in Sha /\ job.kept = {}
      /\ locked = {}
      /\ pc # "back" =>
           job.started = deployed /\ job.head # deployed /\ job.head \in Present
  BY <1>2 DEF Calm, Course, OnShelf, Recent, Swapping, IInv, Objects
<1>4. Present' = Present /\ job.head \notin Doomed(Present, {})'
  BY <1>1, <1>3 DEF Present, Doomed
<1>5. ASSUME Course', deployed' \in Present,
             pc' \in Swapping \cup {"land", "back", "list"},
             pc' \in Swapping \cup {"land"} => job.head \in Present
      PROVE  Calm'
  <2>1. OnShelf'  BY <1>1, <1>3, <1>4, <1>5 DEF OnShelf, Swapping
  <2>2. Recent'  BY <1>1, <1>4, <1>5 DEF Recent, Swapping
  <2> QED  BY <1>5, <2>1, <2>2 DEF Calm
<1>6. CASE SwapStep
  <2>1. job' = job /\ deployed' = deployed /\ pc \in Swapping
    BY <1>6 DEF SwapStep, Inspect, MakeLink, Rename, Swapping
  <2>2. \/ job.to = job.head /\ current = deployed
        \/ job.to = deployed
    BY <2>1 DEF Calm, Course
  <2>3. job.to # Foreign /\ None # Foreign /\ job.to \in Sha
    BY <2>1, NoneAssumption DEF IInv, Objects, Foreign
  <2>4. \/ UNCHANGED current /\ tmp' # Foreign /\ pc' \in {"link", "rename"}
        \/ current' = job.to /\ tmp' = None /\ Swapped
    <3>1. CASE Inspect  BY <1>3, <2>3, <3>1 DEF Inspect, Smoothly, Goto
    <3>2. CASE MakeLink
      BY <1>3, <2>3, <3>2 DEF MakeLink, Smoothly, Goto, IInv, Progress
    <3>3. CASE Rename  BY <2>3, <3>3 DEF Rename, Smoothly, IInv, Progress
    <3> QED  BY <1>6, <3>1, <3>2, <3>3 DEF SwapStep
  <2>5. CASE UNCHANGED current /\ tmp' # Foreign /\ pc' \in {"link", "rename"}
    <3>1. Course'  BY <1>3, <2>1, <2>2, <2>5 DEF Course, Swapping
    <3> QED  BY <1>3, <1>5, <2>1, <2>5, <3>1 DEF Swapping
  <2>6. CASE current' = job.to /\ tmp' = None /\ Swapped
    <3>1. pc' = IF job.to = job.head THEN "land" ELSE "back"
      BY <2>6 DEF Swapped, Goto
    <3>2. Course'  BY <1>3, <2>1, <2>2, <2>3, <2>6, <3>1 DEF Course, Swapping
    <3> QED  BY <1>3, <1>5, <2>1, <2>6, <3>1, <3>2 DEF Swapping
  <2> QED  BY <2>4, <2>5, <2>6
<1>7. CASE Land
  <2>1. /\ pc = "land" /\ UNCHANGED files /\ job.to = job.head /\ current = job.head
        /\ job.started = deployed /\ job.head # deployed /\ job.head \in Present
    BY <1>3, <1>7 DEF Land, Calm, Course
  <2>2. \/ deployed' = job.head /\ pc' = "list" /\ job' = job
        \/ /\ deployed' = deployed /\ pc' = "inspect"
           /\ job' = [job EXCEPT !.to = job.started]
    BY <1>3, <1>7, <2>1 DEF Land, Goto, GoesBack, Smoothly
  <2>3. CASE deployed' = job.head /\ pc' = "list" /\ job' = job
    <3>1. Course'  BY <1>3, <2>1, <2>3 DEF Course, files, Swapping
    <3> QED  BY <1>5, <2>1, <2>3, <3>1 DEF Swapping
  <2>4. CASE /\ deployed' = deployed /\ pc' = "inspect"
             /\ job' = [job EXCEPT !.to = job.started]
    <3>1. job'.to = deployed
      <4>1. job \in Job  BY DEF IInv, Typed
      <4> QED  BY <2>1, <2>4, <4>1 DEF Job
    <3>2. Course'  BY <1>1, <1>3, <2>1, <2>4, <3>1 DEF Course, files, Swapping
    <3> QED  BY <1>3, <1>5, <2>1, <2>4, <3>2 DEF Swapping
  <2> QED  BY <2>2, <2>3, <2>4
<1>8. CASE Back
  <2>1. /\ pc' = "list" /\ UNCHANGED files /\ deployed' = deployed
        /\ current = deployed
    BY <1>8 DEF Back, Goto, Calm, Course
  <2>2. Course'  BY <1>3, <2>1 DEF Course, files, Swapping
  <2> QED  BY <1>3, <1>5, <2>1, <2>2 DEF Swapping
<1> QED  BY <1>6, <1>7, <1>8

LEMMA CalmPrunes ==
  ASSUME IInv, Ordered, NoneStranded, Calm, Undisturbed, Smoothly,
         PruneStep \/ Sweep
  PROVE  Calm'
<1>1. /\ UNCHANGED <<current, tmp, locked, deployed>>
      /\ pc \in {"list", "remove", "removing"}
  BY DEF PruneStep, Sweep, ListReleases, EndRemove, BeginRemove, RefuseRemove, files
<1>2. /\ tmp # Foreign /\ current = deployed /\ deployed \in Present
      /\ Present \subseteq registered /\ locked = {} /\ job.kept = {}
      /\ pc = "list" => job.head \notin Doomed(Present, {})
      /\ pc # "list" => /\ job.doomed \subseteq Present \ {deployed}
                        /\ job.head \notin job.doomed
  BY <1>1 DEF Calm, Course, OnShelf, Recent, Swapping
<1>3. job \in Job /\ dir \in [Sha -> {"absent", "partial", "whole"}]
  BY DEF IInv, Typed
<1>4. ASSUME pc' \in {"remove", "removing"}, deployed \in Present',
             Present' \subseteq registered',
             job'.doomed \subseteq Present' \ {deployed}, job'.kept = {},
             job'.head \notin job'.doomed,
             pc' = "removing" =>
               job'.to # deployed /\ job'.to \notin job'.doomed /\ job'.to # job'.head
      PROVE  Calm'
  BY <1>1, <1>2, <1>4 DEF Calm, Course, OnShelf, Recent, Swapping
<1>5. CASE ListReleases
  <2>1. /\ pc = "list" /\ pc' = "remove" /\ UNCHANGED <<dir, registered>>
        /\ job' = [job EXCEPT !.doomed = Doomed(Present, {current, deployed})]
    BY <1>5 DEF ListReleases, Goto, files
  <2>2. /\ job'.doomed = Doomed(Present, {deployed}) /\ job'.head = job.head
        /\ job'.kept = job.kept
    BY <1>2, <1>3, <2>1 DEF Job
  <2>3. Present' = Present  BY <2>1 DEF Present
  <2> QED  BY <1>2, <1>4, <2>1, <2>2, <2>3 DEF Doomed
<1>6. CASE EndRemove
  <2>1. /\ pc = "removing" /\ pc' = "remove" /\ job' = job
        /\ dir' = [dir EXCEPT ![job.to] = "absent"]
        /\ registered' = registered \ {job.to}
    BY <1>6 DEF EndRemove, Goto, Smoothly
  <2>2. job.to \in Sha /\ job.to # deployed /\ job.to \notin job.doomed
    BY <2>1 DEF IInv, Objects, Calm, OnShelf
  <2>3. Present' = Present \ {job.to}  BY <1>3, <2>1, <2>2 DEF Present
  <2> QED  BY <1>2, <1>4, <2>1, <2>2, <2>3
<1>7. ASSUME NEW s \in Sha, BeginRemove(s)
      PROVE  Calm'
  <2>1. /\ pc = "remove" /\ pc' = "removing" /\ registered' = registered
        /\ s \in job.doomed /\ dir' = [dir EXCEPT ![s] = "partial"]
        /\ job' = [job EXCEPT !.to = s, !.doomed = @ \ {s}]
    BY <1>7 DEF BeginRemove, Goto
  <2>2. /\ job'.to = s /\ job'.doomed = job.doomed \ {s} /\ job'.head = job.head
        /\ job'.kept = job.kept
    BY <1>3, <2>1 DEF Job
  <2>3. Present' = Present  BY <1>2, <1>3, <2>1 DEF Present
  <2> QED  BY <1>2, <1>4, <2>1, <2>2, <2>3
<1>8. ASSUME NEW s \in Sha, RefuseRemove(s)
      PROVE  Calm'
  BY <1>2, <1>8 DEF RefuseRemove, Removable
<1>9. CASE Sweep
  <2>1. /\ pc = "remove" /\ job.doomed = {} /\ pc' = "idle" /\ job' = NoJob
        /\ registered' = registered \cap Present /\ UNCHANGED <<dir, newer>>
    BY <1>2, <1>9 DEF Sweep, AfterPrune, Goto
  <2>2. Present' = Present  BY <2>1 DEF Present
  <2>3. Doomed(Present, {deployed}) = {}
    <3>1. left.hand = Bounds.hand  BY DEF Undisturbed
    <3>2. Aside = {}  BY <1>2, <2>1 DEF Aside
    <3> QED  BY <1>2, <2>1, <3>1, <3>2 DEF NoneStranded
  <2>4. Recent'  BY <1>1, <2>1, <2>2, <2>3 DEF Recent, Doomed
  <2>5. Course' /\ OnShelf'
    BY <1>1, <1>2, <2>1, <2>2 DEF Course, OnShelf, Swapping, NoJob
  <2> QED  BY <2>4, <2>5 DEF Calm
<1> QED  BY <1>5, <1>6, <1>7, <1>8, <1>9 DEF PruneStep

LEMMA RoutineKeeps ==
  ASSUME IInv, Ordered, NoneStranded, Routine, [Next]_vars
  PROVE  Routine'
<1> SUFFICES ASSUME Undisturbed' PROVE Calm'
  BY DEF Routine
<1>1. Undisturbed /\ Smoothly /\ Calm  BY StaysSmooth DEF Routine
<1>2. CASE \E s \in Sha : Begin(s)  BY <1>1, <1>2, CalmBegins
<1>3. CASE Proceeds
  BY <1>1, <1>3, CalmChecksOut, CalmSwaps, CalmPrunes
  DEF Proceeds, CheckoutStep, SwapStep, PruneStep
<1>4. CASE Crash  BY <1>1, <1>4 DEF Crash, Smoothly
<1>5. CASE Hands
  BY <1>1, <1>5
  DEF Hands, HandPlace, HandClear, HandRemove, HandRepoint, Smoothly, Calm, Course
<1>6. CASE UNCHANGED vars
  <2>1. Present' = Present  BY <1>6 DEF vars, files, Present
  <2>2. Course' /\ OnShelf'
    BY <1>1, <1>6, <2>1 DEF vars, files, Calm, Course, OnShelf
  <2>3. Recent'  BY <1>1, <1>6, <2>1 DEF vars, files, Calm, Recent, Doomed
  <2> QED  BY <2>2, <2>3 DEF Calm
<1> QED  BY <1>2, <1>3, <1>4, <1>5, <1>6 DEF Next

(* The first release is whole, and the newest.                             *)
LEMMA InitRoutine == Init => Routine
<1> SUFFICES ASSUME NEW first \in Sha, InitAt(first) PROVE Calm
  BY DEF Init, Routine
<1>1. Present = {first}  BY DEF InitAt, Present
<1>2. first # Foreign /\ None # Foreign  BY NoneAssumption DEF Foreign
<1>3. Course /\ OnShelf
  BY <1>1, <1>2 DEF InitAt, Course, OnShelf, Swapping, NoJob
<1>4. Recent  BY <1>1 DEF InitAt, Recent, Doomed
<1> QED  BY <1>3, <1>4 DEF Calm

(* prune: while nothing has gone out of the ordinary, the release just     *)
(* attempted is never what the pruning after it removes, whether it was    *)
(* verified, rolled back, or failed to build.                              *)
THEOREM JustTriedIsKept == Spec => JustTriedKept
<1>1. ASSUME IInv, Routine, [Next]_vars
      PROVE  [Undisturbed /\ pc' = "removing" => job'.to # job.head]_vars
  <2> SUFFICES ASSUME Undisturbed, pc' = "removing"
               PROVE  job'.to # job.head
    OBVIOUS
  <2>1. \/ pc = "removing" /\ job' = job
        \/ \E s \in Sha : BeginRemove(s)
    <3>1. ~\E s \in Sha : Begin(s)  BY DEF Begin, Goto
    <3>2. ~CheckoutStep
      BY DEF CheckoutStep, Reuse, Clear, Forget, Add, Added, Build, Goto
    <3>3. ~(SwapStep \/ Land \/ Back)
      BY DEF SwapStep, Inspect, MakeLink, Rename, Land, Back, Swapped, SwapFails, Goto
    <3>4. ~(ListReleases \/ EndRemove \/ Sweep \/ Crash)
      BY DEF ListReleases, EndRemove, Sweep, Crash, Goto
    <3>5. ~\E s \in Sha : RefuseRemove(s)  BY DEF RefuseRemove
    <3>6. CASE Hands
      BY <3>6 DEF Hands, HandPlace, HandClear, HandRemove, HandRepoint
    <3>7. CASE UNCHANGED vars  BY <3>7 DEF vars
    <3> QED
      BY <1>1, <3>1, <3>2, <3>3, <3>4, <3>5, <3>6, <3>7
      DEF Next, Proceeds, CheckoutStep, SwapStep
  <2>2. Recent  BY <1>1 DEF Routine, Calm
  <2>3. CASE pc = "removing" /\ job' = job  BY <2>2, <2>3 DEF Recent
  <2>4. ASSUME NEW s \in Sha, BeginRemove(s)
        PROVE  job'.to # job.head
    <3>1. pc = "remove" /\ s \in job.doomed /\ job' = [job EXCEPT !.to = s, !.doomed = @ \ {s}]
      BY <2>4 DEF BeginRemove
    <3>2. job'.to = s  BY <1>1, <3>1 DEF IInv, Typed, Job
    <3> QED  BY <2>2, <3>1, <3>2 DEF Recent
  <2> QED  BY <2>1, <2>3, <2>4
<1>2. Init => NoneStranded  BY DEF Init, InitAt, NoneStranded
<1>3. IInv /\ IInv' /\ Ordered /\ NoneStranded /\ Routine /\ [Next]_vars
        => Ordered' /\ NoneStranded' /\ Routine'
  BY OrderedKeeps, StrandKeeps, RoutineKeeps
<1> QED
  BY <1>1, <1>2, <1>3, InitOrdered, InitRoutine, Always, PTL DEF Spec, JustTriedKept
=============================================================================
