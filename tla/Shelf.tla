-------------------------------- MODULE Shelf -------------------------------
(***************************************************************************)
(* One tree's shelf of releases, file by file: `current` and its temporary *)
(* sibling (src/swap.rs), the worktrees git has registered and the         *)
(* completion markers (checkout_release, src/git.rs), and the pruning that *)
(* follows every deploy (src/retention.rs).  Deploy has all of this as     *)
(* single steps; here a kill, a failure or an operator's hand comes        *)
(* between the system calls they are made of.                              *)
(*                                                                         *)
(* Abstractions.  The tree lock is held throughout, so there is one deploy *)
(* at a time, without stages.  Of directory times only the order is kept.  *)
(* What the sheep runs is Deploy's and Verify's business: a verdict is     *)
(* either.                                                                 *)
(***************************************************************************)
EXTENDS Naturals, FiniteSets

CONSTANTS
  Sha, None,
  Keep,     \* DogConfig::retention, the newest releases kept
  Bounds    \* budgets: deploys; kills, failures and deeds by hand

BoundsType == [deploy: Nat, crash: Nat, fault: Nat, hand: Nat]

ASSUME NoneAssumption == None \notin Sha /\ "foreign" \notin Sha \cup {None}
ASSUME KeepAssumption == Keep \in Nat /\ Keep >= 2
ASSUME BoundsAssumption == Bounds \in BoundsType

VARIABLES
  current,     \* the release `current` links to, None if there is no link
  tmp,         \* current.tmp: None, a link to a release, or Foreign
  dir,         \* releases/<sha>: absent, partly there, or whole
  registered,  \* the worktrees git knows of, and finds if they are there
  locked,      \* those of them it holds locked
  marker,      \* shas with a completion marker
  newer,       \* the releases whose directory time is later than each one's
  deployed,    \* the record's `deployed`
  pc, job, left

files == <<current, tmp, dir, registered, locked, marker, newer>>
vars == <<files, deployed, pc, job, left>>

-----------------------------------------------------------------------------
(* Types, and small steps shared by the actions.                           *)

Foreign == "foreign"  \* current.tmp is something other than a link

(* head: the sha deployed; started: `current` when it began; to: where the *)
(* swap in hand is to point; doomed: what pruning has yet to remove; kept: *)
(* what would not go.                                                      *)
Job == [head: Sha \cup {None}, started: Sha \cup {None}, to: Sha \cup {None},
        doomed: SUBSET Sha, kept: SUBSET Sha]
NoJob == [head |-> None, started |-> None, to |-> None, doomed |-> {}, kept |-> {}]

Places == {"idle", "checkout", "register", "add", "adding", "build", "inspect",
           "link", "rename", "land", "back", "list", "remove", "removing", "sweep"}
Swapping == {"inspect", "link", "rename"}

Goto(l) == pc' = l
Spend(kind) == left[kind] > 0 /\ left' = [left EXCEPT ![kind] = @ - 1]

Present == {s \in Sha : dir[s] # "absent"}
Finished(s) == dir[s] # "absent" /\ s \in marker

(* s is written to: it is the newest now.                                  *)
Touched(s) == [x \in Sha |-> IF x = s THEN {} ELSE newer[x] \cup {s}]

-----------------------------------------------------------------------------
(* checkout_release.                                                       *)

Begin(s) ==
  /\ pc = "idle" /\ s # deployed /\ Spend("deploy")
  /\ job' = [NoJob EXCEPT !.head = s, !.started = current]
  /\ Goto("checkout")
  /\ UNCHANGED <<files, deployed>>

(* A finished checkout is reused as it is: neither the cache link nor the  *)
(* operator's files are linked in again, so nothing touches the directory. *)
Reuse ==
  /\ pc = "checkout" /\ Finished(job.head)
  /\ Goto("build")
  /\ UNCHANGED <<files, deployed, job, left>>

(* Anything else at the path is removed; what cannot be fails the attempt. *)
(* Without its .git a worktree is to git as one it does not know.          *)
Clear ==
  /\ pc = "checkout" /\ ~Finished(job.head)
  /\ UNCHANGED <<current, tmp, locked, marker, deployed, job>>
  /\ \/ dir' = [dir EXCEPT ![job.head] = "absent"] /\ Goto("register")
        /\ UNCHANGED <<registered, newer, left>>
     \/ /\ job.head \in Present /\ Spend("fault")
        /\ dir' = [dir EXCEPT ![job.head] = "partial"] /\ Goto("list")
        /\ registered' \in {registered, registered \ ({job.head} \ locked)}
        /\ newer' \in {newer, Touched(job.head)}

(* git worktree prune forgets the worktrees whose directory is gone, but   *)
(* not one that is locked.                                                 *)
AfterPrune == registered \cap (Present \cup locked)

ForgetNothing ==  \* mutant: git is not told that the directory is gone
  /\ pc = "register" /\ Goto("add")
  /\ UNCHANGED <<files, deployed, job, left>>
Forget ==
  /\ pc = "register"
  /\ registered' = AfterPrune
  /\ Goto("add")
  /\ UNCHANGED <<current, tmp, dir, locked, marker, newer, deployed, job, left>>

(* git worktree add refuses a path that is there or that it has            *)
(* registered, which fails the attempt.  Else it registers the worktree,   *)
(* locked until it is whole.                                               *)
Addable(s) == s \notin registered \cup Present

Add ==
  /\ pc = "add"
  /\ UNCHANGED <<current, tmp, marker, deployed, job, left>>
  /\ \/ /\ Addable(job.head)
        /\ dir' = [dir EXCEPT ![job.head] = "partial"]
        /\ registered' = registered \cup {job.head}
        /\ locked' = locked \cup {job.head}
        /\ newer' = Touched(job.head)
        /\ Goto("adding")
     \/ /\ ~Addable(job.head) /\ Goto("list")
        /\ UNCHANGED <<dir, registered, locked, newer>>

(* git comes to its end; it fails and takes back what it did; or it is     *)
(* killed, which leaves the lock and what there is of the directory.       *)
AddCompleted ==
  /\ dir' = [dir EXCEPT ![job.head] = "whole"]
  /\ locked' = locked \ {job.head} /\ UNCHANGED registered
AddUndone ==
  /\ dir' = [dir EXCEPT ![job.head] = "absent"]
  /\ locked' = locked \ {job.head} /\ registered' = registered \ {job.head}
AddKilled ==
  /\ dir' \in {dir, [dir EXCEPT ![job.head] = "absent"]}
  /\ UNCHANGED <<registered, locked>>

(* The marker is written after it, if it can be.  The cache and the        *)
(* operator's files are linked in.                                         *)
Added ==
  /\ pc = "adding"
  /\ UNCHANGED <<current, tmp, newer, deployed, job>>
  /\ \/ /\ AddCompleted /\ marker' = marker \cup {job.head}
        /\ Goto("build") /\ UNCHANGED left
     \/ /\ AddUndone \/ AddCompleted
        /\ Spend("fault") /\ Goto("list") /\ UNCHANGED marker
     \/ AddKilled /\ Spend("crash") /\ Goto("list") /\ UNCHANGED marker

(* A build may write at the top of the release, or only below it.          *)
Build ==
  /\ pc = "build"
  /\ newer' \in {newer, Touched(job.head)}
  /\ job' = [job EXCEPT !.to = job.head]
  /\ Goto("inspect") \/ Goto("list")
  /\ UNCHANGED <<current, tmp, dir, registered, locked, marker, deployed, left>>

-----------------------------------------------------------------------------
(* swap::point_at, of the new release or, in a rollback, of the old one.   *)

(* What follows a swap: `current` leads to `to` now, or the swap failed    *)
(* and nothing moved.                                                      *)
Swapped == Goto(IF job.to = job.head THEN "land" ELSE "back")
SwapFails == Goto("list")

(* A leftover link at the temporary name is a killed swap's and goes.      *)
(* Anything else there is somebody's, and refuses the swap.                *)
InspectOnly ==  \* mutant: a leftover link is left where it is
  /\ pc = "inspect" /\ UNCHANGED <<files, deployed, job, left>>
  /\ \/ tmp # Foreign /\ Goto("link")
     \/ tmp = Foreign /\ SwapFails
Inspect ==
  /\ pc = "inspect"
  /\ UNCHANGED <<current, dir, registered, locked, marker, newer, deployed, job>>
  /\ \/ tmp # Foreign /\ tmp' = None /\ Goto("link") /\ UNCHANGED left
     \/ tmp = Foreign /\ SwapFails /\ UNCHANGED <<tmp, left>>
     \/ Spend("fault") /\ SwapFails /\ UNCHANGED tmp

MakeLink ==
  /\ pc = "link"
  /\ UNCHANGED <<current, dir, registered, locked, marker, newer, deployed, job>>
  /\ \/ tmp = None /\ tmp' = job.to /\ Goto("rename") /\ UNCHANGED left
     \/ tmp # None /\ SwapFails /\ UNCHANGED <<tmp, left>>
     \/ Spend("fault") /\ SwapFails /\ UNCHANGED tmp

(* One rename(2) over `current`.  If it fails the link is removed again,   *)
(* as far as that can be done.                                             *)
RenameOverGap ==  \* mutant: `current` is removed before the rename
  /\ pc = "rename" /\ UNCHANGED <<dir, registered, locked, marker, newer, deployed, job>>
  /\ \/ current # None /\ current' = None /\ UNCHANGED <<tmp, pc, left>>
     \/ current = None /\ current' = tmp /\ tmp' = None /\ Swapped /\ UNCHANGED left
Rename ==
  /\ pc = "rename"
  /\ UNCHANGED <<dir, registered, locked, marker, newer, deployed, job>>
  /\ \/ tmp \in Sha /\ current' = tmp /\ tmp' = None /\ Swapped /\ UNCHANGED left
     \/ Spend("fault") /\ SwapFails /\ tmp' \in {None, tmp} /\ UNCHANGED current

-----------------------------------------------------------------------------
(* The verdict, and the rollback it may call for.                          *)

(* Verified, the record is written if it can be.  Not verified, `current`  *)
(* is led back to what it was, if that is another release and still there. *)
GoesBack == job.started # job.head /\ job.started \in Present

Land ==
  /\ pc = "land"
  /\ UNCHANGED files
  /\ \/ deployed' = job.head /\ Goto("list") /\ UNCHANGED <<job, left>>
     \/ Spend("fault") /\ Goto("list") /\ UNCHANGED <<deployed, job>>
     \/ /\ GoesBack /\ job' = [job EXCEPT !.to = job.started] /\ Goto("inspect")
        /\ UNCHANGED <<deployed, left>>
     \/ ~GoesBack /\ Goto("list") /\ UNCHANGED <<deployed, job, left>>

(* The record is corrected with the rollback's swap.                       *)
Back ==
  /\ pc = "back"
  /\ deployed' = job.to
  /\ Goto("list")
  /\ UNCHANGED <<files, job, left>>

-----------------------------------------------------------------------------
(* retention::prune.                                                       *)

(* doomed: what lies past the newest Keep and is not spared.  `current` is *)
(* read once, here.                                                        *)
DoomedOldest(shelf, spared) ==  \* mutant: the oldest are kept
  {s \in shelf \ spared : Cardinality({r \in shelf : s \in newer[r]}) >= Keep}
Doomed(shelf, spared) ==
  {s \in shelf \ spared : Cardinality(newer[s] \cap shelf) >= Keep}

ListReleases ==
  /\ pc = "list"
  /\ job' = [job EXCEPT !.doomed = Doomed(Present, {current, deployed})]
  /\ Goto("remove")
  /\ UNCHANGED <<files, deployed, left>>

(* git worktree remove --force, which deletes the files and then forgets   *)
(* the worktree whether or not all of them went; one that it does not know *)
(* or that is locked it refuses.  What goes at the top of a release makes  *)
(* it the newest: one that will not go may take a place among the newest   *)
(* Keep.  The marker goes only with a removal that succeeded.              *)
Removable == registered \ locked

BeginRemove(s) ==
  /\ pc = "remove" /\ s \in job.doomed \cap Removable
  /\ dir' = [dir EXCEPT ![s] = "partial"]
  /\ job' = [job EXCEPT !.to = s, !.doomed = @ \ {s}]
  /\ newer' \in {newer, Touched(s)}
  /\ Goto("removing")
  /\ UNCHANGED <<current, tmp, registered, locked, marker, deployed, left>>

RefuseRemove(s) ==
  /\ pc = "remove" /\ s \in job.doomed \ Removable
  /\ job' = [job EXCEPT !.doomed = @ \ {s}, !.kept = @ \cup {s}]
  /\ UNCHANGED <<files, deployed, pc, left>>

(* A failure is kept for the end, and the rest of the doomed still go.     *)
EndRemoveAtOnce ==  \* mutant: the first failure ends the pruning
  /\ pc = "removing" /\ UNCHANGED <<current, tmp, locked, newer, deployed>>
  /\ \/ /\ dir' = [dir EXCEPT ![job.to] = "absent"] /\ marker' = marker \ {job.to}
        /\ registered' = registered \ {job.to}
        /\ Goto("remove") /\ UNCHANGED <<job, left>>
     \/ /\ Spend("fault") /\ registered' \in {registered, registered \ {job.to}}
        /\ Goto("idle") /\ job' = NoJob /\ UNCHANGED <<dir, marker>>
EndRemove ==
  /\ pc = "removing"
  /\ UNCHANGED <<current, tmp, locked, newer, deployed>>
  /\ Goto("remove")
  /\ \/ /\ dir' = [dir EXCEPT ![job.to] = "absent"]
        /\ marker' = marker \ {job.to}
        /\ registered' = registered \ {job.to}
        /\ UNCHANGED <<job, left>>
     \/ /\ Spend("fault")
        /\ job' = [job EXCEPT !.kept = @ \cup {job.to}]
        /\ registered' \in {registered, registered \ {job.to}}
        /\ UNCHANGED <<dir, marker>>

(* worktree_prune and sweep_markers, whatever was or was not removed.      *)
Sweep ==
  /\ pc = "remove" /\ job.doomed = {}
  /\ registered' = AfterPrune
  /\ marker' = marker \cap Present
  /\ Goto("idle") /\ job' = NoJob
  /\ UNCHANGED <<current, tmp, dir, locked, newer, deployed, left>>

-----------------------------------------------------------------------------
(* Kills, and operators' hands.                                            *)

(* A kill of the dog.  The git it waits for is killed with it, or comes to *)
(* its end alone before anybody else is in the tree; the marker is then    *)
(* not written, or not removed.                                            *)
Crash ==
  /\ pc # "idle" /\ Spend("crash")
  /\ Goto("idle") /\ job' = NoJob
  /\ UNCHANGED <<current, tmp, marker, newer, deployed>>
  /\ \/ pc \notin {"adding", "removing"} /\ UNCHANGED <<dir, registered, locked>>
     \/ pc = "adding" /\ (AddKilled \/ AddCompleted)
     \/ /\ pc = "removing" /\ UNCHANGED locked
        /\ dir' \in {dir, [dir EXCEPT ![job.to] = "absent"]}
        /\ registered' \in {registered, registered \ {job.to}}

(* An operator removes a release nothing needs, repoints `current`, or     *)
(* puts a file where current.tmp would go, and takes it away again.        *)
HandRemove(s) ==
  /\ pc = "idle" /\ s \in Present \ {current, deployed} /\ Spend("hand")
  /\ dir' = [dir EXCEPT ![s] = "absent"]
  /\ UNCHANGED <<current, tmp, registered, locked, marker, newer, deployed, pc, job>>

HandRepoint(s) ==
  /\ dir[s] = "whole" /\ s # current /\ Spend("hand")
  /\ current' = s
  /\ UNCHANGED <<tmp, dir, registered, locked, marker, newer, deployed, pc, job>>

HandPlace ==
  /\ tmp = None /\ Spend("hand") /\ tmp' = Foreign
  /\ UNCHANGED <<current, dir, registered, locked, marker, newer, deployed, pc, job>>

HandClear ==
  /\ tmp = Foreign /\ tmp' = None
  /\ UNCHANGED <<current, dir, registered, locked, marker, newer, deployed, pc, job,
                 left>>

-----------------------------------------------------------------------------
(* The specification.                                                      *)

InitAt(first) ==
  /\ current = first /\ tmp = None
  /\ dir = [s \in Sha |-> IF s = first THEN "whole" ELSE "absent"]
  /\ registered = {first} /\ locked = {} /\ marker = {first}
  /\ newer = [s \in Sha |-> {}]
  /\ deployed = first
  /\ pc = "idle" /\ job = NoJob
  /\ left = Bounds

Init == \E first \in Sha : InitAt(first)

Proceeds ==
  \/ Reuse \/ Clear \/ Forget \/ Add \/ Added \/ Build
  \/ Inspect \/ MakeLink \/ Rename \/ Land \/ Back
  \/ ListReleases \/ EndRemove \/ Sweep
  \/ \E s \in Sha : BeginRemove(s) \/ RefuseRemove(s)

Hands == HandPlace \/ HandClear \/ \E s \in Sha : HandRemove(s) \/ HandRepoint(s)

Next == (\E s \in Sha : Begin(s)) \/ Proceeds \/ Crash \/ Hands

Spec == Init /\ [][Next]_vars

-----------------------------------------------------------------------------
(* Properties.                                                             *)

(* Every variable keeps to its type: `current` always leads somewhere.     *)
TypeOK ==
  /\ current \in Sha
  /\ tmp \in Sha \cup {None, Foreign}
  /\ dir \in [Sha -> {"absent", "partial", "whole"}]
  /\ locked \subseteq registered /\ registered \subseteq Sha /\ marker \subseteq Sha
  /\ newer \in [Sha -> SUBSET Sha]
  /\ deployed \in Sha
  /\ pc \in Places /\ job \in Job /\ left \in BoundsType

(* swap.rs: to whoever spawns through it, `current` is one link, moved at  *)
(* once or not at all, whatever is killed or in the way.                   *)
Asked == IF pc \in Swapping THEN job.to ELSE None
Register == INSTANCE Link WITH Release <- Sha, asked <- Asked
IsRegister == Register!Spec

(* A killed or failed swap does not wedge the next: the temporary name is  *)
(* free when the link is made, unless someone put a file there since.      *)
Unwedged == pc = "link" => tmp \in {None, Foreign}

(* checkout_release: `git worktree add` is refused only at a sha whose     *)
(* earlier add was killed and left its lock, which no kill does to more    *)
(* than one.  Nothing else that a checkout, a failure, a removal or a hand *)
(* leaves of a release stands in its way.                                  *)
Wedged == locked \ (IF pc = "adding" THEN {job.head} ELSE {})
RefusedWhereKilled ==
  /\ pc = "add" => Addable(job.head) \/ job.head \in Wedged
  /\ Cardinality(Wedged) <= Bounds.crash - left.crash

(* prune: when it is done, nothing that would go and need not be spared    *)
(* lies past the newest Keep: one release that will not go strands none of *)
(* the others, even if failing to remove it made it one of the newest.     *)
Pruned == pc \in {"remove", "removing"} /\ pc' = "idle" /\ left'.crash = left.crash
StrandsNone ==
  [][Pruned /\ left.hand = Bounds.hand =>
       Doomed(Present \ job.kept, {current, deployed}) = {}]_vars

(* prune: on a shelf that no kill, failure or hand has disturbed, the      *)
(* release just attempted is the newest and is never removed by the        *)
(* pruning that follows, whatever came of it.                              *)
Undisturbed == \A kind \in {"crash", "fault", "hand"} : left[kind] = Bounds[kind]
JustTriedKept == [][Undisturbed /\ pc' = "removing" => job'.to # job.head]_vars
=============================================================================
