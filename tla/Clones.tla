------------------------------- MODULE Clones -------------------------------
(***************************************************************************)
(* The bare clones that sheep of one remote share, and the lock on each.   *)
(*                                                                         *)
(* `share_clone` makes a clone and links a tree to it, `git::fetch` writes *)
(* into it, `retention::release_clone` unlinks a tree and removes the      *)
(* clone with its last link.  All three run under `lock::hold_clone`,      *)
(* whose lock file lies in the very directory that a removal removes, so   *)
(* its holder has to find out whether the file it locked is still the one  *)
(* at the path.  One action per system call between which another process  *)
(* can come: open, flock, stat, each entry of remove_dir_all.              *)
(*                                                                         *)
(* Abstractions.  A process acts for one tree at a time.  The links of all *)
(* trees are read in one step.  A tree that owns its clone shares nothing. *)
(***************************************************************************)
EXTENDS Naturals, FiniteSets

CONSTANTS
  Process,   \* processes running init, a deploy's fetch or a restore
  Tree, Repo, None,
  LockLast,  \* TRUE: a directory lists `git` before `git.lock`; FALSE: any order
  Bounds     \* budgets: operations begun, and kills and failures together

BoundsType == [share: Nat, fetch: Nat, release: Nat, trouble: Nat]

ASSUME NoneAssumption == None \notin Repo /\ None \notin Tree
ASSUME LockLastAssumption == LockLast \in BOOLEAN
ASSUME BoundsAssumption == Bounds \in BoundsType

VARIABLES
  link,   \* the clone each tree's `git` links to
  git,    \* repos/<key>/git: absent, made or removed in part, or whole
  root,   \* the clones whose directory repos/<key> exists
  file,   \* the inode of git.lock in it, 0 for none
  inode,  \* inodes given out so far
  pc,     \* where each process is
  job,    \* each process's memory
  left    \* what remains of Bounds

disk == <<link, git, root, file, inode>>
vars == <<disk, pc, job, left>>

-----------------------------------------------------------------------------
(* Types, and small steps shared by the actions.                           *)

(* repo: the clone whose lock this is about; target: the clone share_clone *)
(* is to link to; fd: the lock file it has open; entries: what             *)
(* remove_dir_all has yet to remove.                                       *)
Job == [op: {"none", "share", "fetch", "release"}, tree: Tree \cup {None},
        repo: Repo \cup {None}, target: Repo \cup {None}, fd: Nat,
        entries: SUBSET {"git", "lock"}]
NoJob == [op |-> "none", tree |-> None, repo |-> None, target |-> None,
          fd |-> 0, entries |-> {}]

Taking == {"mkdir", "open", "flock"}
Held == {"init", "link", "fetch", "fetching", "unlink", "scan", "remove", "rmdir"}
Locked == Held \cup {"stat"}  \* the flock of fd is this process's
Places == {"idle"} \cup Taking \cup Locked

Goto(p, l) == pc' = [pc EXCEPT ![p] = l]
Recall(p, j) == job' = [job EXCEPT ![p] = j]
Spend(kind) == left[kind] > 0 /\ left' = [left EXCEPT ![kind] = @ - 1]
Finish(p) == Goto(p, "idle") /\ Recall(p, NoJob)

At(p, l) == pc[p] = l
Becomes(f, r, v) == [f EXCEPT ![r] = v]
LinkedTo(r) == {t \in Tree : link[t] = r}
WorksOn(t, ops) == {p \in Process : job[p].tree = t /\ job[p].op \in ops}

(* open_lock_file and everything up to it begins again for clone r.        *)
Take(p, r, j) == Goto(p, "mkdir") /\ Recall(p, [j EXCEPT !.repo = r, !.fd = 0])

-----------------------------------------------------------------------------
(* The operations begin.  The tree lock keeps two setups or fetches of one *)
(* tree apart; a restore takes no tree lock, and meets no setup that is    *)
(* still sharing, since it looks only at trees that have a record.         *)

(* A retry after the remote changed releases the old clone first.          *)
StartShare(p) ==
  \E t \in Tree, r \in Repo :
    /\ At(p, "idle") /\ WorksOn(t, {"share", "fetch", "release"}) = {}
    /\ Spend("share")
    /\ LET j == [NoJob EXCEPT !.op = "share", !.tree = t, !.target = r]
       IN Take(p, IF link[t] \in {None, r} THEN r ELSE link[t], j)
    /\ UNCHANGED disk

(* A fetch goes by the tree's link, resolved before the lock is taken.     *)
StartFetch(p) ==
  \E t \in Tree :
    /\ At(p, "idle") /\ WorksOn(t, {"share", "fetch"}) = {} /\ link[t] # None
    /\ Spend("fetch")
    /\ Take(p, link[t], [NoJob EXCEPT !.op = "fetch", !.tree = t])
    /\ UNCHANGED disk

StartRelease(p) ==
  \E t \in Tree :
    /\ At(p, "idle") /\ WorksOn(t, {"share"}) = {} /\ link[t] # None
    /\ Spend("release")
    /\ Take(p, link[t], [NoJob EXCEPT !.op = "release", !.tree = t])
    /\ UNCHANGED disk

-----------------------------------------------------------------------------
(* hold_clone.                                                             *)

MakeParent(p) ==
  /\ At(p, "mkdir")
  /\ root' = root \cup {job[p].repo}
  /\ Goto(p, "open")
  /\ UNCHANGED <<link, git, file, inode, job, left>>

(* Opens git.lock, making it if it is not there.  A parent removed since   *)
(* the step before is an error.                                            *)
OpenLock(p) ==
  LET r == job[p].repo IN
  /\ At(p, "open")
  /\ \/ r \notin root /\ Finish(p) /\ UNCHANGED <<file, inode>>
     \/ /\ r \in root /\ file[r] # 0
        /\ Goto(p, "flock") /\ Recall(p, [job[p] EXCEPT !.fd = file[r]])
        /\ UNCHANGED <<file, inode>>
     \/ /\ r \in root /\ file[r] = 0
        /\ inode' = inode + 1 /\ file' = Becomes(file, r, inode + 1)
        /\ Goto(p, "flock") /\ Recall(p, [job[p] EXCEPT !.fd = inode + 1])
  /\ UNCHANGED <<link, git, root, left>>

(* Waits until nobody has this inode locked.                               *)
FreeToFetch(p) ==  \* mutant: a fetch does not wait
  \/ job[p].op = "fetch"
  \/ \A q \in Process : job[q].fd = job[p].fd => pc[q] \notin Locked
Free(p) == \A q \in Process : job[q].fd = job[p].fd => pc[q] \notin Locked

Flock(p) ==
  /\ At(p, "flock") /\ Free(p)
  /\ Goto(p, "stat")
  /\ UNCHANGED <<disk, job, left>>

(* What is locked counts only if it is the file at the path.               *)
OursUnseen(p) == TRUE  \* mutant: the path is not looked at again
Ours(p) == file[job[p].repo] = job[p].fd

First(op, j) ==
  CASE op = "fetch" -> "fetch"
    [] op = "share" /\ j.repo = j.target -> "init"
    [] OTHER -> "unlink"

TryAgainStuck(p) ==  \* mutant: the same file is locked again
  Goto(p, "flock") /\ UNCHANGED job
TryAgain(p) == Take(p, job[p].repo, job[p])

StatLock(p) ==
  /\ At(p, "stat")
  /\ \/ Ours(p) /\ Goto(p, First(job[p].op, job[p])) /\ UNCHANGED job
     \/ ~Ours(p) /\ TryAgain(p)
  /\ UNCHANGED <<disk, left>>

-----------------------------------------------------------------------------
(* share_clone.                                                            *)

(* init_bare: makes the directory, then the repository in it.  One that is *)
(* there already, in part or whole, is made whole.                         *)
InitBare(p) ==
  LET r == job[p].repo IN
  /\ At(p, "init")
  /\ \/ /\ git[r] = "absent" /\ git' = Becomes(git, r, "partial")
        /\ UNCHANGED <<pc, job, left>>
     \/ /\ git[r] # "absent" /\ git' = Becomes(git, r, "whole")
        /\ Goto(p, "link") /\ UNCHANGED <<job, left>>
     \/ Spend("trouble") /\ Finish(p) /\ UNCHANGED git
  /\ UNCHANGED <<link, root, file, inode>>

LinkClone(p) ==
  /\ At(p, "link")
  /\ \/ link' = [link EXCEPT ![job[p].tree] = job[p].repo] /\ UNCHANGED left
     \/ Spend("trouble") /\ UNCHANGED link
  /\ Finish(p)
  /\ UNCHANGED <<git, root, file, inode>>

-----------------------------------------------------------------------------
(* git::fetch, which a clone that is gone refuses.                         *)

BeginFetch(p) ==
  /\ At(p, "fetch")
  /\ \/ git[job[p].repo] = "whole" /\ Goto(p, "fetching") /\ UNCHANGED job
     \/ git[job[p].repo] # "whole" /\ Finish(p)
  /\ UNCHANGED <<disk, left>>

EndFetch(p) == At(p, "fetching") /\ Finish(p) /\ UNCHANGED <<disk, left>>

-----------------------------------------------------------------------------
(* release_clone.                                                          *)

(* Its caller is done, or share_clone goes on with the clone it wants.     *)
Released(p) ==
  IF job[p].op = "share" THEN Take(p, job[p].target, job[p]) ELSE Finish(p)

Unlink(p) ==
  /\ At(p, "unlink")
  /\ \/ /\ link' = [link EXCEPT ![job[p].tree] = None]
        /\ Goto(p, "scan") /\ UNCHANGED <<job, left>>
     \/ Spend("trouble") /\ Finish(p) /\ UNCHANGED link
  /\ UNCHANGED <<git, root, file, inode>>

(* Another link keeps the clone.                                           *)
StillLinkedByOthers(p) ==  \* mutant: only trees with work going on count
  \E t \in LinkedTo(job[p].repo) : WorksOn(t, {"share", "fetch"}) # {}
StillLinkedOnRetry(p) ==  \* mutant: a setup leaves its old clone
  LinkedTo(job[p].repo) # {} \/ job[p].op = "share"
StillLinked(p) == LinkedTo(job[p].repo) # {}

Entries(r) ==
  (IF git[r] # "absent" THEN {"git"} ELSE {}) \cup
  (IF file[r] # 0 THEN {"lock"} ELSE {})

ScanLinks(p) ==
  /\ At(p, "scan")
  /\ \/ StillLinked(p) /\ Released(p)
     \/ /\ ~StillLinked(p)
        /\ Goto(p, "remove")
        /\ Recall(p, [job[p] EXCEPT !.entries = Entries(job[p].repo)])
  /\ UNCHANGED <<disk, left>>

(* fs::remove_dir_all: each entry in the order the directory lists them,   *)
(* `git` file by file, then the directory itself.                          *)
RemoveGit(p) ==
  LET r == job[p].repo IN
  /\ At(p, "remove") /\ "git" \in job[p].entries
  /\ \/ /\ git[r] = "whole" /\ git' = Becomes(git, r, "partial")
        /\ UNCHANGED <<pc, job, left>>
     \/ /\ git[r] # "whole" /\ git' = Becomes(git, r, "absent")
        /\ Recall(p, [job[p] EXCEPT !.entries = @ \ {"git"}])
        /\ UNCHANGED <<pc, left>>
     \/ Spend("trouble") /\ Finish(p) /\ UNCHANGED git
  /\ UNCHANGED <<link, root, file, inode>>

RemoveLock(p) ==
  /\ At(p, "remove") /\ "lock" \in job[p].entries
  /\ LockLast => "git" \notin job[p].entries
  /\ file' = Becomes(file, job[p].repo, 0)
  /\ Recall(p, [job[p] EXCEPT !.entries = @ \ {"lock"}])
  /\ UNCHANGED <<link, git, root, inode, pc, left>>

Emptied(p) ==
  /\ At(p, "remove") /\ job[p].entries = {}
  /\ Goto(p, "rmdir")
  /\ UNCHANGED <<disk, job, left>>

(* A directory in which something was made meanwhile is not removed, which *)
(* is an error.                                                            *)
Empty(r) == file[r] = 0 /\ git[r] = "absent"

RemoveRoot(p) ==
  LET r == job[p].repo IN
  /\ At(p, "rmdir")
  /\ \/ Empty(r) /\ root' = root \ {r} /\ Released(p)
     \/ ~Empty(r) /\ UNCHANGED root /\ Finish(p)
  /\ UNCHANGED <<link, git, file, inode, left>>

-----------------------------------------------------------------------------

(* The kernel releases the flock of a process that dies.                   *)
Crash(p) ==
  /\ ~At(p, "idle") /\ Spend("trouble")
  /\ Finish(p) /\ UNCHANGED disk

Init ==
  /\ link = [t \in Tree |-> None]
  /\ git = [r \in Repo |-> "absent"]
  /\ root = {}
  /\ file = [r \in Repo |-> 0]
  /\ inode = 0
  /\ pc = [p \in Process |-> "idle"]
  /\ job = [p \in Process |-> NoJob]
  /\ left = Bounds

HoldClone(p) == MakeParent(p) \/ OpenLock(p) \/ Flock(p) \/ StatLock(p)
ShareClone(p) == InitBare(p) \/ LinkClone(p)
Fetch(p) == BeginFetch(p) \/ EndFetch(p)
ReleaseClone(p) ==
  \/ Unlink(p) \/ ScanLinks(p)
  \/ RemoveGit(p) \/ RemoveLock(p) \/ Emptied(p) \/ RemoveRoot(p)
Starts(p) == StartShare(p) \/ StartFetch(p) \/ StartRelease(p)
Proceeds(p) == HoldClone(p) \/ ShareClone(p) \/ Fetch(p) \/ ReleaseClone(p)

Next == \E p \in Process : Starts(p) \/ Proceeds(p) \/ Crash(p)

Spec == Init /\ [][Next]_vars
(* A fetch has a budget, and every other step is a system call.            *)
FairSpec == Spec /\ \A p \in Process : WF_vars(Proceeds(p))

-----------------------------------------------------------------------------
(* Properties.                                                             *)

(* Every variable keeps to its type, and what is on disk has a directory   *)
(* to be in.                                                               *)
TypeOK ==
  /\ link \in [Tree -> Repo \cup {None}]
  /\ git \in [Repo -> {"absent", "partial", "whole"}]
  /\ root \subseteq Repo
  /\ file \in [Repo -> 0 .. inode] /\ inode \in Nat
  /\ \A r \in Repo : ~Empty(r) => r \in root
  /\ pc \in [Process -> Places]
  /\ job \in [Process -> Job]
  /\ left \in BoundsType

(* Removing the lock file with the clone never lets two processes into it: *)
(* whoever finds a new file at the path finds nobody else inside, but for  *)
(* a remover that has only the emptied directory left to take away.        *)
OneInside ==
  \A p, q \in Process :
    p # q /\ pc[p] \in Held /\ pc[q] \in Held /\ job[p].repo = job[q].repo =>
      \E r \in {p, q} : pc[r] = "rmdir" \/ (pc[r] = "remove" /\ job[r].entries = {})

(* A fetch has the clone whole under it from its first object to its last. *)
FetchesWhole ==
  \A p \in Process : pc[p] = "fetching" => git[job[p].repo] = "whole"

(* The clone goes with its last link: once all is quiet, and nothing was   *)
(* killed or failed, no clone is left that nobody links to.                *)
LastOneOut ==
  (\A p \in Process : At(p, "idle")) /\ left.trouble = Bounds.trouble =>
    \A r \in Repo : git[r] # "absent" => LinkedTo(r) # {}

(* Nobody waits for a clone's lock for ever, or goes round in hold_clone.  *)
Ends == \A p \in Process : pc[p] # "idle" ~> pc[p] = "idle"

(* The protocol keeps the promise: seen from the trees, it is the registry *)
(* of clones, in which nothing linked to is ever unmade.                   *)
Registry == INSTANCE CloneRegistry
  WITH whole <- {r \in Repo : git[r] = "whole"}
IsRegistry == Registry!Spec
=============================================================================
