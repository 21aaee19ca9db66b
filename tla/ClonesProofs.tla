---------------------------- MODULE ClonesProofs ----------------------------
(***************************************************************************)
(* Proofs about Clones, for every number of processes, trees, remotes and  *)
(* failures, where a directory lists `git` before `git.lock`: no two       *)
(* processes are inside one clone, a fetch has it whole, and what the      *)
(* trees see of the protocol is CloneRegistry.  That no clone is left      *)
(* behind is proved last, in whatever order a directory lists its entries. *)
(*                                                                         *)
(* The argument is about the file at the path.  Whoever is inside a clone  *)
(* holds the flock of that very file, until the remover unlinks it.  Two   *)
(* processes inside one clone would hold the flock of one file; so what    *)
(* one of them has found out about the clone the others leave as it is.    *)
(***************************************************************************)
EXTENDS Clones, TLAPS

(* p may rely on the clone: it holds the file at the path.                 *)
Inside(p) ==
  /\ pc[p] \in Held /\ pc[p] # "rmdir"
  /\ pc[p] = "remove" => "lock" \in job[p].entries

(* flock gives one file to one process.                                    *)
Mutex ==
  \A p, q \in Process :
    p # q /\ pc[p] \in Locked /\ pc[q] \in Locked => job[p].fd # job[q].fd

(* What a process is doing has an object.                                  *)
Purpose(p) ==
  /\ pc[p] # "idle" => job[p].repo \in Repo /\ job[p].tree \in Tree /\ job[p].op # "none"
  /\ job[p].op = "share" => job[p].target \in Repo
  /\ pc[p] \in Locked \cup {"flock"} => job[p].fd # 0

(* What it has found out is still so.                                      *)
Knows(p) ==
  /\ Inside(p) => file[job[p].repo] = job[p].fd
  /\ pc[p] \in {"link", "fetching"} => git[job[p].repo] = "whole"
  /\ pc[p] = "remove" /\ "git" \in job[p].entries =>
       "lock" \in job[p].entries /\ LinkedTo(job[p].repo) = {}

IInv == TypeOK /\ Mutex /\ \A p \in Process : Purpose(p) /\ Knows(p)

-----------------------------------------------------------------------------
(* Lemmas about steps.                                                     *)

(* A step of p leaves the other processes where they are.                  *)
Moves(p, l, j) ==
  /\ pc' \in [Process -> Places] /\ job' \in [Process -> Job]
  /\ pc'[p] = l /\ job'[p] = j
  /\ \A q \in Process \ {p} : pc'[q] = pc[q] /\ job'[q] = job[q]

LEMMA Moving ==
  ASSUME IInv, NEW p \in Process, NEW l \in Places, NEW j \in Job,
         Goto(p, l) \/ (l = pc[p] /\ pc' = pc),
         Recall(p, j) \/ (j = job[p] /\ job' = job)
  PROVE  Moves(p, l, j)
  BY DEF IInv, TypeOK, Goto, Recall, Moves

(* Two processes inside are inside different clones.                       *)
LEMMA Alone ==
  ASSUME IInv, NEW p \in Process, NEW q \in Process, p # q, Inside(p), Inside(q)
  PROVE  job[p].repo # job[q].repo
  BY DEF IInv, Mutex, Knows, Inside, Locked

(* What q relies on is left as it is.                                      *)
LeavesTo(q) ==
  /\ Inside(q) => file'[job[q].repo] = file[job[q].repo]
  /\ pc[q] \in {"link", "fetching"} => git'[job[q].repo] = "whole"
  /\ pc[q] = "remove" /\ "git" \in job[q].entries =>
       \A t \in Tree : link'[t] # job[q].repo

(* A step of p keeps the invariant if it keeps p's part of it, takes no    *)
(* file that is locked, and leaves the others what they rely on.           *)
LEMMA StepKeeps ==
  ASSUME IInv, NEW p \in Process, NEW l \in Places, NEW j \in Job, Moves(p, l, j),
         TypeOK',
         l \in Locked => j.fd = job[p].fd /\ (pc[p] \in Locked \/ Free(p)),
         Purpose(p)', Knows(p)',
         \A q \in Process \ {p} : LeavesTo(q)
  PROVE  IInv'
<1>1. ASSUME NEW q \in Process PROVE Purpose(q)'
  <2>1. CASE q = p  BY <2>1
  <2>2. CASE q # p  BY <2>2 DEF IInv, Purpose, Moves
  <2> QED  BY <2>1, <2>2
<1>2. ASSUME NEW q \in Process PROVE Knows(q)'
  <2>1. CASE q = p  BY <2>1
  <2>2. CASE q # p
    <3>1. pc'[q] = pc[q] /\ job'[q] = job[q]  BY <2>2 DEF Moves
    <3>2. Knows(q)  BY DEF IInv
    <3>3. Inside(q)' <=> Inside(q)  BY <3>1 DEF Inside
    <3>4. Inside(q)' => file'[job'[q].repo] = job'[q].fd
      BY <2>2, <3>1, <3>2, <3>3 DEF Knows, LeavesTo
    <3>5. pc'[q] \in {"link", "fetching"} => git'[job'[q].repo] = "whole"
      BY <2>2, <3>1 DEF LeavesTo
    <3>6. pc'[q] = "remove" /\ "git" \in job'[q].entries =>
            "lock" \in job'[q].entries /\ \A t \in Tree : link'[t] # job'[q].repo
      BY <2>2, <3>1, <3>2 DEF Knows, LeavesTo
    <3> QED  BY <3>4, <3>5, <3>6 DEF Knows, LinkedTo
  <2> QED  BY <2>1, <2>2
<1>3. Mutex'
  <2>1. ASSUME NEW q \in Process, q # p, l \in Locked, pc[q] \in Locked
        PROVE  job[q].fd # j.fd
    BY <2>1 DEF IInv, Mutex, Free
  <2>2. ASSUME NEW q \in Process, NEW r \in Process, q # r,
               pc'[q] \in Locked, pc'[r] \in Locked
        PROVE  job'[q].fd # job'[r].fd
    <3>1. CASE q = p
      <4>1. pc'[q] = l /\ job'[q] = j /\ pc'[r] = pc[r] /\ job'[r] = job[r]
        BY <2>2, <3>1 DEF Moves
      <4> QED  BY <2>1, <2>2, <3>1, <4>1
    <3>2. CASE r = p
      <4>1. pc'[r] = l /\ job'[r] = j /\ pc'[q] = pc[q] /\ job'[q] = job[q]
        BY <2>2, <3>2 DEF Moves
      <4> QED  BY <2>1, <2>2, <3>2, <4>1
    <3>3. CASE q # p /\ r # p
      BY <2>2, <3>3 DEF IInv, Mutex, Moves
    <3> QED  BY <3>1, <3>2, <3>3
  <2> QED  BY <2>2 DEF Mutex
<1> QED  BY <1>1, <1>2, <1>3 DEF IInv

(* One that leaves the disk alone leaves the others what they rely on.     *)
LEMMA QuietStepKeeps ==
  ASSUME IInv, NEW p \in Process, NEW l \in Places, NEW j \in Job, Moves(p, l, j),
         UNCHANGED disk, left' \in BoundsType,
         l \in Locked => j.fd = job[p].fd /\ (pc[p] \in Locked \/ Free(p)),
         Purpose(p)', Knows(p)'
  PROVE  IInv'
<1>1. TypeOK'  BY DEF IInv, TypeOK, Moves, disk, Empty
<1>2. ASSUME NEW q \in Process \ {p} PROVE LeavesTo(q)
  BY DEF IInv, Knows, disk, LinkedTo, LeavesTo
<1> QED  BY <1>1, <1>2, StepKeeps

LEMMA Spending ==
  ASSUME left \in BoundsType, NEW kind \in {"share", "fetch", "release", "trouble"},
         Spend(kind)
  PROVE  left' \in BoundsType
  BY DEF BoundsType, Spend

(* p is done, or dies: nothing is asked of it any more.                    *)
LEMMA Finished ==
  ASSUME IInv, NEW p \in Process, Finish(p)
  PROVE  /\ "idle" \in Places /\ NoJob \in Job /\ Moves(p, "idle", NoJob)
         /\ Purpose(p)' /\ Knows(p)'
<1>1. "idle" \in Places /\ NoJob \in Job
  BY DEF Places, NoJob, Job
<1>2. Moves(p, "idle", NoJob)  BY <1>1, Moving DEF Finish
<1>3. Purpose(p)' /\ Knows(p)'
  BY <1>2 DEF Moves, Purpose, Knows, NoJob, Inside, Held, Locked
<1> QED  BY <1>1, <1>2, <1>3

(* p goes to take the lock of clone r.                                     *)
LEMMA Taken ==
  ASSUME IInv, NEW p \in Process, NEW r \in Repo, NEW j \in Job, Take(p, r, j),
         j.tree \in Tree, j.op # "none", j.op = "share" => j.target \in Repo
  PROVE  \E k \in Job : /\ Moves(p, "mkdir", k) /\ "mkdir" \in Places
                        /\ Purpose(p)' /\ Knows(p)'
<1> DEFINE k == [j EXCEPT !.repo = r, !.fd = 0]
<1>1. "mkdir" \in Places /\ k \in Job  BY DEF Places, Taking, Job
<1>2. k.repo = r /\ k.tree = j.tree /\ k.op = j.op /\ k.target = j.target  BY DEF Job
<1>3. Goto(p, "mkdir") /\ Recall(p, k)  BY DEF Take
<1> HIDE DEF k
<1>4. Moves(p, "mkdir", k)  BY <1>1, <1>3, Moving
<1>5. Purpose(p)' /\ Knows(p)'
  BY <1>2, <1>4 DEF Moves, Purpose, Knows, Inside, Held, Locked
<1> QED  BY <1>1, <1>4, <1>5

-----------------------------------------------------------------------------
(* Operations begin.                                                       *)

LEMMA TakeKeeps ==
  ASSUME IInv, NEW p \in Process, NEW r \in Repo, NEW j \in Job, Take(p, r, j),
         j.tree \in Tree, j.op # "none", j.op = "share" => j.target \in Repo,
         UNCHANGED disk, left' \in BoundsType
  PROVE  IInv'
<1>1. PICK k \in Job : /\ Moves(p, "mkdir", k) /\ "mkdir" \in Places
                       /\ Purpose(p)' /\ Knows(p)'
  BY Taken
<1>2. "mkdir" \notin Locked  BY DEF Locked, Held
<1> QED  BY <1>1, <1>2, QuietStepKeeps

LEMMA FinishKeeps ==
  ASSUME IInv, NEW p \in Process, Finish(p), UNCHANGED disk, left' \in BoundsType
  PROVE  IInv'
<1>1. "idle" \notin Locked  BY DEF Locked, Held
<1> QED  BY <1>1, Finished, QuietStepKeeps

LEMMA BeginKeeps ==
  ASSUME IInv, NEW p \in Process, Starts(p)
  PROVE  IInv'
<1> DEFINE jobOf(op, t, r) == [NoJob EXCEPT !.op = op, !.tree = t, !.target = r]
<1>1. UNCHANGED disk  BY DEF Starts, StartShare, StartFetch, StartRelease
<1>2. left' \in BoundsType
  BY Spending DEF Starts, StartShare, StartFetch, StartRelease, IInv, TypeOK
<1>3. CASE StartShare(p)
  <2>1. PICK t \in Tree, r \in Repo :
          Take(p, IF link[t] \in {None, r} THEN r ELSE link[t], jobOf("share", t, r))
    BY <1>3 DEF StartShare
  <2>2. (IF link[t] \in {None, r} THEN r ELSE link[t]) \in Repo
    BY DEF IInv, TypeOK
  <2>3. /\ jobOf("share", t, r) \in Job /\ jobOf("share", t, r).op = "share"
        /\ jobOf("share", t, r).tree = t /\ jobOf("share", t, r).target = r
    BY DEF NoJob, Job
  <2> HIDE DEF jobOf
  <2> QED  BY <1>1, <1>2, <2>1, <2>2, <2>3, TakeKeeps
<1>4. ASSUME NEW op \in {"fetch", "release"}, NEW t \in Tree, link[t] # None,
             Take(p, link[t], [NoJob EXCEPT !.op = op, !.tree = t])
      PROVE  IInv'
  <2> DEFINE j == [NoJob EXCEPT !.op = op, !.tree = t]
  <2>1. j \in Job /\ j.op = op /\ j.tree = t  BY DEF NoJob, Job
  <2>2. link[t] \in Repo  BY <1>4 DEF IInv, TypeOK
  <2>3. Take(p, link[t], j)  BY <1>4
  <2> HIDE DEF j
  <2> QED  BY <1>1, <1>2, <2>1, <2>2, <2>3, TakeKeeps
<1>5. CASE StartFetch(p)  BY <1>4, <1>5 DEF StartFetch
<1>6. CASE StartRelease(p)  BY <1>4, <1>6 DEF StartRelease
<1> QED  BY <1>3, <1>5, <1>6 DEF Starts

-----------------------------------------------------------------------------
(* hold_clone.                                                             *)

(* What a process at work has is typed.                                    *)
LEMMA AtWork ==
  ASSUME IInv, NEW p \in Process, pc[p] # "idle"
  PROVE  /\ job[p] \in Job /\ job[p].repo \in Repo /\ job[p].tree \in Tree
         /\ job[p].op \in {"share", "fetch", "release"}
         /\ job[p].op = "share" => job[p].target \in Repo
         /\ left \in BoundsType
  BY DEF IInv, TypeOK, Purpose, Job

LEMMA MakeParentKeeps ==
  ASSUME IInv, NEW p \in Process, MakeParent(p)
  PROVE  IInv'
<1>1. /\ pc[p] = "mkdir" /\ root' = root \cup {job[p].repo} /\ Goto(p, "open")
      /\ UNCHANGED <<link, git, file, inode, job, left>>
  BY DEF MakeParent, At
<1>2. "open" \in Places /\ "open" \notin Locked  BY DEF Places, Taking, Locked, Held
<1>3. job[p] \in Job /\ job[p].repo \in Repo  BY <1>1, AtWork
<1>4. Moves(p, "open", job[p])  BY <1>1, <1>2, <1>3, Moving
<1>5. TypeOK'  BY <1>1, <1>3, <1>4 DEF IInv, TypeOK, Moves, Empty
<1>6. Purpose(p)' /\ Knows(p)'
  BY <1>1, <1>4 DEF IInv, Purpose, Knows, Moves, Inside, Held, Locked
<1>7. \A q \in Process \ {p} : LeavesTo(q)
  BY <1>1 DEF IInv, Knows, LinkedTo, LeavesTo
<1> QED  BY <1>2, <1>3, <1>4, <1>5, <1>6, <1>7, StepKeeps

LEMMA OpenLockKeeps ==
  ASSUME IInv, NEW p \in Process, OpenLock(p)
  PROVE  IInv'
<1> DEFINE r == job[p].repo
           j(fd) == [job[p] EXCEPT !.fd = fd]
<1>1. pc[p] = "open" /\ UNCHANGED <<link, git, root, left>>  BY DEF OpenLock, At
<1>2. /\ job[p] \in Job /\ r \in Repo /\ job[p].tree \in Tree /\ job[p].op # "none"
      /\ job[p].op = "share" => job[p].target \in Repo
      /\ left \in BoundsType
  BY <1>1, AtWork
<1>3. "flock" \in Places /\ "flock" \notin Locked /\ "flock" \notin Held
  BY DEF Places, Taking, Locked, Held
<1>4. ASSUME NEW fd \in Nat
      PROVE  /\ j(fd) \in Job /\ j(fd).fd = fd /\ j(fd).repo = r
             /\ j(fd).tree = job[p].tree /\ j(fd).op = job[p].op
             /\ j(fd).target = job[p].target
  BY <1>2 DEF Job
<1>5. CASE r \notin root /\ Finish(p) /\ UNCHANGED <<file, inode>>
  BY <1>1, <1>2, <1>5, FinishKeeps DEF disk
<1>6. ASSUME NEW fd \in Nat \ {0}, Goto(p, "flock"), Recall(p, j(fd))
      PROVE  Moves(p, "flock", j(fd)) /\ Purpose(p)' /\ Knows(p)'
  <2> HIDE DEF j
  <2>1. Moves(p, "flock", j(fd))  BY <1>3, <1>4, <1>6, Moving
  <2> QED  BY <1>2, <1>3, <1>4, <2>1 DEF Purpose, Knows, Moves, Inside
<1>7. CASE /\ r \in root /\ file[r] # 0 /\ Goto(p, "flock") /\ Recall(p, j(file[r]))
           /\ UNCHANGED <<file, inode>>
  <2>1. file[r] \in Nat \ {0}  BY <1>2, <1>7 DEF IInv, TypeOK
  <2>2. UNCHANGED disk  BY <1>1, <1>7 DEF disk
  <2>3. Moves(p, "flock", j(file[r])) /\ Purpose(p)' /\ Knows(p)' /\ j(file[r]) \in Job
    BY <1>4, <1>6, <1>7, <2>1
  <2> HIDE DEF j
  <2> QED  BY <1>1, <1>2, <1>3, <2>2, <2>3, QuietStepKeeps
<1>8. CASE /\ r \in root /\ file[r] = 0
           /\ inode' = inode + 1 /\ file' = Becomes(file, r, inode + 1)
           /\ Goto(p, "flock") /\ Recall(p, j(inode + 1))
  <2>1. inode \in Nat /\ inode + 1 \in Nat \ {0} /\ file \in [Repo -> 0 .. inode]
    BY DEF IInv, TypeOK
  <2>2. Moves(p, "flock", j(inode + 1)) /\ Purpose(p)' /\ Knows(p)' /\ j(inode + 1) \in Job
    BY <1>4, <1>6, <1>8, <2>1
  <2> HIDE DEF j
  <2>3. file' \in [Repo -> 0 .. inode'] /\ \A s \in Repo \ {r} : file'[s] = file[s]
    BY <1>2, <1>8, <2>1 DEF Becomes
  <2>4. TypeOK'
    BY <1>1, <1>2, <1>8, <2>1, <2>2, <2>3 DEF IInv, TypeOK, Moves, Empty
  <2>5. ASSUME NEW q \in Process \ {p} PROVE LeavesTo(q)
    <3>1. Knows(q) /\ Purpose(q)  BY DEF IInv
    <3>2. Inside(q) => job[q].repo # r
      BY <1>8, <3>1 DEF Knows, Purpose, Inside, Locked
    <3>3. Inside(q) => job[q].repo \in Repo
      BY <3>1 DEF Purpose, Inside, Held
    <3> QED  BY <1>1, <2>3, <3>1, <3>2, <3>3 DEF Knows, LinkedTo, LeavesTo
  <2> QED  BY <1>3, <2>2, <2>4, <2>5, StepKeeps
<1> QED  BY <1>5, <1>7, <1>8 DEF OpenLock

LEMMA FlockKeeps ==
  ASSUME IInv, NEW p \in Process, Flock(p)
  PROVE  IInv'
<1>1. pc[p] = "flock" /\ Free(p) /\ Goto(p, "stat") /\ UNCHANGED <<disk, job, left>>
  BY DEF Flock, At
<1>2. "stat" \in Places /\ "stat" \in Locked /\ "stat" \notin Held
  BY DEF Places, Locked, Held
<1>3. job[p] \in Job /\ left' \in BoundsType  BY <1>1, AtWork
<1>4. Moves(p, "stat", job[p])  BY <1>1, <1>2, <1>3, Moving
<1>5. Purpose(p)' /\ Knows(p)'
  BY <1>1, <1>2, <1>4 DEF IInv, Purpose, Knows, Moves, Inside
<1> QED  BY <1>1, <1>2, <1>3, <1>4, <1>5, QuietStepKeeps

LEMMA StatLockKeeps ==
  ASSUME IInv, NEW p \in Process, StatLock(p)
  PROVE  IInv'
<1> DEFINE l == First(job[p].op, job[p])
<1>1. pc[p] = "stat" /\ UNCHANGED <<disk, left>>  BY DEF StatLock, At
<1>2. /\ job[p] \in Job /\ job[p].repo \in Repo /\ job[p].tree \in Tree
      /\ job[p].op \in {"share", "fetch", "release"}
      /\ job[p].op = "share" => job[p].target \in Repo
      /\ left' \in BoundsType
  BY <1>1, AtWork
<1>3. CASE ~Ours(p) /\ TryAgain(p)
  BY <1>1, <1>2, <1>3, TakeKeeps DEF TryAgain
<1>4. CASE Ours(p) /\ Goto(p, l) /\ UNCHANGED job
  <2>1. l \in {"fetch", "init", "unlink"}  BY <1>2 DEF First
  <2>2. l \in Places /\ l \in Locked  BY <2>1 DEF Places, Locked, Held
  <2>3. pc[p] \in Locked  BY <1>1 DEF Locked
  <2> HIDE DEF l
  <2>4. Moves(p, l, job[p])  BY <1>2, <1>4, <2>2, Moving
  <2>5. Purpose(p)'
    BY <1>1, <1>2, <2>1, <2>2, <2>3, <2>4 DEF IInv, Purpose, Moves
  <2>6. Knows(p)'
    BY <1>1, <1>4, <2>1, <2>4 DEF Knows, Moves, Ours, disk
  <2> QED  BY <1>1, <1>2, <2>2, <2>3, <2>4, <2>5, <2>6, QuietStepKeeps
<1> QED  BY <1>3, <1>4 DEF StatLock

-----------------------------------------------------------------------------
(* share_clone and git::fetch.                                             *)

(* Inside a clone its directory exists, and nobody else is inside it.      *)
LEMMA InsideFacts ==
  ASSUME IInv, NEW p \in Process, Inside(p)
  PROVE  /\ pc[p] \in Held /\ pc[p] \in Locked /\ pc[p] \in Places /\ pc[p] # "idle"
         /\ job[p].fd # 0 /\ file[job[p].repo] = job[p].fd
         /\ job[p].repo \in root
         /\ \A q \in Process \ {p} : Inside(q) => job[q].repo # job[p].repo
<1>1. pc[p] \in Held /\ pc[p] \in Locked /\ pc[p] # "idle"
  BY DEF Inside, Locked, Held
<1>2. job[p].repo \in Repo /\ job[p].fd # 0 /\ file[job[p].repo] = job[p].fd
  BY <1>1 DEF IInv, Purpose, Knows
<1>3. job[p].repo \in root  BY <1>2 DEF IInv, TypeOK, Empty
<1> QED  BY <1>1, <1>2, <1>3, Alone DEF Places

LEMMA InitBareKeeps ==
  ASSUME IInv, NEW p \in Process, InitBare(p)
  PROVE  IInv'
<1> DEFINE r == job[p].repo
<1>1. pc[p] = "init" /\ UNCHANGED <<link, root, file, inode>>  BY DEF InitBare, At
<1>2. Inside(p)  BY <1>1 DEF Inside, Held
<1>3. job[p] \in Job /\ r \in Repo /\ left \in BoundsType  BY <1>1, AtWork
<1>4. r \in root /\ pc[p] \in Locked /\ pc[p] \in Places  BY <1>2, InsideFacts
<1>5. git \in [Repo -> {"absent", "partial", "whole"}]  BY DEF IInv, TypeOK
<1>6. "link" \in Places /\ "link" \in Locked  BY DEF Places, Locked, Held
<1> HIDE DEF r
<1>7. ASSUME NEW v \in {"partial", "whole"}, git' = Becomes(git, r, v),
             git[r] = "absent" \/ v = "whole", left' = left,
             NEW l \in {"init", "link"}, Moves(p, l, job[p]), l = "link" => v = "whole"
      PROVE  IInv'
  <2>1. /\ git' \in [Repo -> {"absent", "partial", "whole"}] /\ git'[r] = v
        /\ \A s \in Repo \ {r} : git'[s] = git[s]
    BY <1>3, <1>5, <1>7 DEF Becomes
  <2>2. TypeOK'
    BY <1>1, <1>3, <1>4, <1>7, <2>1 DEF IInv, TypeOK, Moves, Empty
  <2>3. l \in Places /\ l \in Locked  BY <1>7 DEF Places, Locked, Held
  <2>4. Purpose(p)' /\ Knows(p)'
    BY <1>1, <1>2, <1>3, <1>4, <1>7, <2>1 DEF IInv, Purpose, Knows, Moves, Inside, Held, r
  <2>5. ASSUME NEW q \in Process \ {p} PROVE LeavesTo(q)
    <3>1. Knows(q) /\ Purpose(q)  BY DEF IInv
    <3>2. pc[q] \in {"link", "fetching"} => job[q].repo \in Repo /\ git[job[q].repo] = "whole"
      BY <3>1 DEF Knows, Purpose
    <3> QED  BY <1>1, <1>7, <2>1, <3>1, <3>2 DEF Knows, LinkedTo, LeavesTo
  <2> QED  BY <1>3, <1>4, <1>7, <2>2, <2>3, <2>4, <2>5, StepKeeps
<1>8. CASE /\ git[r] = "absent" /\ git' = Becomes(git, r, "partial")
           /\ UNCHANGED <<pc, job, left>>
  <2>1. Moves(p, "init", job[p])  BY <1>1, <1>3, <1>4, <1>8, Moving
  <2> QED  BY <1>7, <1>8, <2>1
<1>9. CASE /\ git[r] # "absent" /\ git' = Becomes(git, r, "whole")
           /\ Goto(p, "link") /\ UNCHANGED <<job, left>>
  <2>1. Moves(p, "link", job[p])  BY <1>3, <1>6, <1>9, Moving
  <2> QED  BY <1>7, <1>9, <2>1
<1>10. CASE Spend("trouble") /\ Finish(p) /\ UNCHANGED git
  BY <1>1, <1>3, <1>10, Spending, FinishKeeps DEF disk
<1> QED  BY <1>8, <1>9, <1>10 DEF InitBare, r

LEMMA LinkCloneKeeps ==
  ASSUME IInv, NEW p \in Process, LinkClone(p)
  PROVE  IInv'
<1>1. pc[p] = "link" /\ Finish(p) /\ UNCHANGED <<git, root, file, inode>>
  BY DEF LinkClone, At
<1>2. Inside(p)  BY <1>1 DEF Inside, Held
<1>3. job[p].repo \in Repo /\ job[p].tree \in Tree /\ left \in BoundsType  BY <1>1, AtWork
<1>4. CASE link' = [link EXCEPT ![job[p].tree] = job[p].repo] /\ UNCHANGED left
  <2>1. /\ "idle" \in Places /\ NoJob \in Job /\ Moves(p, "idle", NoJob)
        /\ Purpose(p)' /\ Knows(p)'
    BY <1>1, Finished
  <2>2. "idle" \notin Locked  BY DEF Locked, Held
  <2>3. link' \in [Tree -> Repo \cup {None}]  BY <1>3, <1>4 DEF IInv, TypeOK
  <2>4. TypeOK'  BY <1>1, <1>3, <1>4, <2>1, <2>3 DEF IInv, TypeOK, Moves, Empty
  <2>5. ASSUME NEW q \in Process \ {p} PROVE LeavesTo(q)
    <3>1. Knows(q)  BY DEF IInv
    <3>2. ASSUME pc[q] = "remove", "git" \in job[q].entries
          PROVE  \A t \in Tree : link'[t] # job[q].repo
      <4>1. Inside(q)  BY <3>1, <3>2 DEF Knows, Inside, Held
      <4>2. job[q].repo # job[p].repo  BY <1>2, <4>1, InsideFacts
      <4>3. \A t \in Tree : link[t] # job[q].repo
        BY <3>1, <3>2 DEF Knows, LinkedTo
      <4> QED  BY <1>3, <1>4, <4>2, <4>3 DEF IInv, TypeOK
    <3> QED  BY <1>1, <3>1, <3>2 DEF Knows, LeavesTo
  <2> QED  BY <2>1, <2>2, <2>4, <2>5, StepKeeps
<1>5. CASE Spend("trouble") /\ UNCHANGED link
  BY <1>1, <1>3, <1>5, Spending, FinishKeeps DEF disk
<1> QED  BY <1>4, <1>5 DEF LinkClone

LEMMA FetchKeeps ==
  ASSUME IInv, NEW p \in Process, Fetch(p)
  PROVE  IInv'
<1>1. pc[p] \in {"fetch", "fetching"} /\ UNCHANGED <<disk, left>>
  BY DEF Fetch, BeginFetch, EndFetch, At
<1>2. job[p] \in Job /\ left' \in BoundsType /\ job[p].repo \in Repo  BY <1>1, AtWork
<1>3. CASE Finish(p)  BY <1>1, <1>2, <1>3, FinishKeeps
<1>4. CASE pc[p] = "fetch" /\ git[job[p].repo] = "whole" /\ Goto(p, "fetching")
           /\ UNCHANGED job
  <2>1. "fetching" \in Places /\ "fetching" \in Locked /\ pc[p] \in Locked
    BY <1>4 DEF Places, Locked, Held
  <2>2. Moves(p, "fetching", job[p])  BY <1>2, <1>4, <2>1, Moving
  <2>3. Purpose(p)' /\ Knows(p)'
    BY <1>1, <1>4, <2>1, <2>2 DEF IInv, Purpose, Knows, Moves, Inside, Held, disk
  <2> QED  BY <1>1, <1>2, <2>1, <2>2, <2>3, QuietStepKeeps
<1> QED  BY <1>3, <1>4 DEF Fetch, BeginFetch, EndFetch, At

-----------------------------------------------------------------------------
(* release_clone.                                                          *)

LEMMA ReleasedKeeps ==
  ASSUME IInv, NEW p \in Process, pc[p] # "idle", Released(p), UNCHANGED <<disk, left>>
  PROVE  IInv'
<1>1. /\ job[p] \in Job /\ job[p].repo \in Repo /\ job[p].tree \in Tree
      /\ job[p].op \in {"share", "fetch", "release"}
      /\ job[p].op = "share" => job[p].target \in Repo
      /\ left' \in BoundsType /\ UNCHANGED disk
  BY AtWork
<1>2. CASE job[p].op = "share"
  <2>1. Take(p, job[p].target, job[p])  BY <1>2 DEF Released
  <2> QED  BY <1>1, <1>2, <2>1, TakeKeeps
<1>3. CASE job[p].op # "share"
  <2>1. Finish(p)  BY <1>3 DEF Released
  <2> QED  BY <1>1, <2>1, FinishKeeps
<1> QED  BY <1>2, <1>3

LEMMA UnlinkKeeps ==
  ASSUME IInv, NEW p \in Process, Unlink(p)
  PROVE  IInv'
<1>1. pc[p] = "unlink" /\ UNCHANGED <<git, root, file, inode>>  BY DEF Unlink, At
<1>2. job[p] \in Job /\ job[p].tree \in Tree /\ left \in BoundsType  BY <1>1, AtWork
<1>3. CASE /\ link' = [link EXCEPT ![job[p].tree] = None]
           /\ Goto(p, "scan") /\ UNCHANGED <<job, left>>
  <2>1. "scan" \in Places /\ "scan" \in Locked /\ pc[p] \in Locked
    BY <1>1 DEF Places, Locked, Held
  <2>2. Moves(p, "scan", job[p])  BY <1>2, <1>3, <2>1, Moving
  <2>3. link' \in [Tree -> Repo \cup {None}]  BY <1>2, <1>3 DEF IInv, TypeOK
  <2>4. TypeOK'  BY <1>1, <1>2, <1>3, <2>2, <2>3 DEF IInv, TypeOK, Moves, Empty
  <2>5. Purpose(p)' /\ Knows(p)'
    BY <1>1, <2>1, <2>2 DEF IInv, Purpose, Knows, Moves, Inside, Held
  <2>6. ASSUME NEW q \in Process \ {p} PROVE LeavesTo(q)
    <3>1. Knows(q)  BY DEF IInv
    <3>2. ASSUME pc[q] = "remove", "git" \in job[q].entries
          PROVE  \A t \in Tree : link'[t] # job[q].repo
      <4>1. \A t \in Tree : link[t] # job[q].repo
        BY <3>1, <3>2 DEF Knows, LinkedTo
      <4>2. job[q].repo \in Repo  BY <3>2, AtWork
      <4> QED  BY <1>2, <1>3, <4>1, <4>2, NoneAssumption DEF IInv, TypeOK
    <3> QED  BY <1>1, <3>1, <3>2 DEF Knows, LeavesTo
  <2> QED  BY <1>2, <2>1, <2>2, <2>4, <2>5, <2>6, StepKeeps
<1>4. CASE Spend("trouble") /\ Finish(p) /\ UNCHANGED link
  BY <1>1, <1>2, <1>4, Spending, FinishKeeps DEF disk
<1> QED  BY <1>3, <1>4 DEF Unlink

LEMMA ScanLinksKeeps ==
  ASSUME IInv, NEW p \in Process, ScanLinks(p)
  PROVE  IInv'
<1> DEFINE r == job[p].repo
           j == [job[p] EXCEPT !.entries = Entries(r)]
<1>1. pc[p] = "scan" /\ UNCHANGED <<disk, left>>  BY DEF ScanLinks, At
<1>2. job[p] \in Job /\ r \in Repo /\ left' \in BoundsType  BY <1>1, AtWork
<1>3. CASE StillLinked(p) /\ Released(p)  BY <1>1, <1>3, ReleasedKeeps
<1>4. CASE ~StillLinked(p) /\ Goto(p, "remove") /\ Recall(p, j)
  <2>1. Inside(p)  BY <1>1 DEF Inside, Held
  <2>2. file[r] # 0 /\ file[r] = job[p].fd  BY <2>1, InsideFacts
  <2>3. Entries(r) \subseteq {"git", "lock"} /\ "lock" \in Entries(r)
    BY <2>2 DEF Entries
  <2>4. /\ j \in Job /\ j.repo = r /\ j.tree = job[p].tree /\ j.op = job[p].op
        /\ j.target = job[p].target /\ j.fd = job[p].fd /\ j.entries = Entries(r)
    BY <1>2, <2>3 DEF Job
  <2>5. "remove" \in Places /\ "remove" \in Locked /\ pc[p] \in Locked
    BY <1>1 DEF Places, Locked, Held
  <2> HIDE DEF j
  <2>6. Moves(p, "remove", j)  BY <1>4, <2>4, <2>5, Moving
  <2>7. Purpose(p)'
    BY <1>1, <2>4, <2>5, <2>6 DEF IInv, Purpose, Moves
  <2>8. \A t \in Tree : link[t] # r  BY <1>4 DEF StillLinked, LinkedTo
  <2>9. Knows(p)'
    BY <1>1, <2>2, <2>3, <2>4, <2>6, <2>8 DEF Knows, Moves, disk, LinkedTo
  <2> QED  BY <1>1, <1>2, <2>4, <2>5, <2>6, <2>7, <2>9, QuietStepKeeps
<1> QED  BY <1>3, <1>4 DEF ScanLinks

LEMMA RemoveGitKeeps ==
  ASSUME IInv, NEW p \in Process, RemoveGit(p)
  PROVE  IInv'
<1> DEFINE r == job[p].repo
           j == [job[p] EXCEPT !.entries = @ \ {"git"}]
<1>1. /\ pc[p] = "remove" /\ "git" \in job[p].entries
      /\ UNCHANGED <<link, root, file, inode>>
  BY DEF RemoveGit, At
<1>2. /\ job[p] \in Job /\ r \in Repo /\ job[p].tree \in Tree /\ job[p].op # "none"
      /\ job[p].op = "share" => job[p].target \in Repo
      /\ left \in BoundsType
  BY <1>1, AtWork
<1>3. "lock" \in job[p].entries /\ LinkedTo(r) = {}  BY <1>1 DEF IInv, Knows
<1>4. Inside(p)  BY <1>1, <1>3 DEF Inside, Held
<1>5. r \in root /\ pc[p] \in Locked /\ pc[p] \in Places /\ file[r] = job[p].fd
      /\ \A q \in Process \ {p} : Inside(q) => job[q].repo # r
  BY <1>4, InsideFacts
<1>6. git \in [Repo -> {"absent", "partial", "whole"}]  BY DEF IInv, TypeOK
<1>7. /\ j \in Job /\ j.repo = r /\ j.tree = job[p].tree /\ j.op = job[p].op
      /\ j.target = job[p].target /\ j.fd = job[p].fd
      /\ j.entries = job[p].entries \ {"git"}
  BY <1>2 DEF Job
<1> HIDE DEF r, j
<1>8. ASSUME NEW v \in {"absent", "partial"}, git' = Becomes(git, r, v),
             left' = left, NEW k \in {job[p], j}, Moves(p, "remove", k)
      PROVE  IInv'
  <2>1. /\ git' \in [Repo -> {"absent", "partial", "whole"}]
        /\ \A s \in Repo \ {r} : git'[s] = git[s]
    BY <1>2, <1>6, <1>8 DEF Becomes
  <2>2. TypeOK'
    BY <1>1, <1>2, <1>5, <1>8, <2>1 DEF IInv, TypeOK, Moves, Empty
  <2>3. /\ k \in Job /\ k.repo = r /\ k.tree = job[p].tree /\ k.op = job[p].op
        /\ k.target = job[p].target /\ k.fd = job[p].fd /\ "lock" \in k.entries
    BY <1>2, <1>3, <1>7, <1>8 DEF r
  <2>4. "remove" \in Places /\ "remove" \in Locked  BY <1>1, <1>5
  <2>5. Purpose(p)'  BY <1>2, <1>5, <1>8, <2>3 DEF IInv, Purpose, Moves
  <2>6. Knows(p)'
    BY <1>1, <1>3, <1>5, <1>8, <2>3 DEF Knows, Moves, LinkedTo
  <2>7. ASSUME NEW q \in Process \ {p} PROVE LeavesTo(q)
    <3>1. Knows(q) /\ Purpose(q)  BY DEF IInv
    <3>2. pc[q] \in {"link", "fetching"} =>
            job[q].repo \in Repo /\ job[q].repo # r /\ git[job[q].repo] = "whole"
      BY <1>5, <3>1 DEF Knows, Purpose, Inside, Held
    <3> QED  BY <1>1, <2>1, <3>1, <3>2 DEF Knows, LinkedTo, LeavesTo
  <2> QED  BY <1>5, <1>8, <2>2, <2>3, <2>4, <2>5, <2>6, <2>7, StepKeeps
<1>9. CASE /\ git[r] = "whole" /\ git' = Becomes(git, r, "partial")
           /\ UNCHANGED <<pc, job, left>>
  <2>1. Moves(p, "remove", job[p])  BY <1>1, <1>2, <1>5, <1>9, Moving
  <2> QED  BY <1>8, <1>9, <2>1
<1>10. CASE /\ git[r] # "whole" /\ git' = Becomes(git, r, "absent") /\ Recall(p, j)
            /\ UNCHANGED <<pc, left>>
  <2>1. Moves(p, "remove", j)  BY <1>1, <1>5, <1>7, <1>10, Moving
  <2> QED  BY <1>8, <1>10, <2>1
<1>11. CASE Spend("trouble") /\ Finish(p) /\ UNCHANGED git
  BY <1>1, <1>2, <1>11, Spending, FinishKeeps DEF disk
<1> QED  BY <1>9, <1>10, <1>11 DEF RemoveGit, r, j

(* The lock file goes when nothing of the clone is left for it to guard.   *)
LEMMA RemoveLockKeeps ==
  ASSUME LockLast, IInv, NEW p \in Process, RemoveLock(p)
  PROVE  IInv'
<1> DEFINE r == job[p].repo
           j == [job[p] EXCEPT !.entries = @ \ {"lock"}]
<1>1. /\ pc[p] = "remove" /\ "lock" \in job[p].entries /\ "git" \notin job[p].entries
      /\ file' = Becomes(file, r, 0) /\ Recall(p, j)
      /\ UNCHANGED <<link, git, root, inode, pc, left>>
  BY DEF RemoveLock, At
<1>2. /\ job[p] \in Job /\ r \in Repo /\ job[p].tree \in Tree /\ job[p].op # "none"
      /\ job[p].op = "share" => job[p].target \in Repo
  BY <1>1, AtWork
<1>3. Inside(p)  BY <1>1 DEF Inside, Held
<1>4. pc[p] \in Locked /\ pc[p] \in Places
      /\ \A q \in Process \ {p} : Inside(q) => job[q].repo # r
  BY <1>3, InsideFacts
<1>5. /\ j \in Job /\ j.repo = r /\ j.tree = job[p].tree /\ j.op = job[p].op
      /\ j.target = job[p].target /\ j.fd = job[p].fd
      /\ j.entries = job[p].entries \ {"lock"}
  BY <1>2 DEF Job
<1> HIDE DEF r, j
<1>6. Moves(p, "remove", j)  BY <1>1, <1>4, <1>5, Moving
<1>7. 0 \in 0 .. inode /\ file \in [Repo -> 0 .. inode]  BY DEF IInv, TypeOK
<1>8. /\ file' \in [Repo -> 0 .. inode']
      /\ \A s \in Repo \ {r} : file'[s] = file[s]
      /\ file'[r] = 0
  BY <1>1, <1>2, <1>7 DEF Becomes
<1>9. TypeOK'  BY <1>1, <1>2, <1>6, <1>8 DEF IInv, TypeOK, Moves, Empty
<1>10. Purpose(p)'
  BY <1>2, <1>4, <1>5, <1>6 DEF IInv, Purpose, Moves
<1>11. Knows(p)'
  BY <1>1, <1>5, <1>6 DEF Knows, Moves, Inside
<1>12. ASSUME NEW q \in Process \ {p} PROVE LeavesTo(q)
  <2>1. Knows(q) /\ Purpose(q)  BY DEF IInv
  <2>2. Inside(q) => job[q].repo \in Repo /\ job[q].repo # r
    BY <1>4, <2>1 DEF Purpose, Inside, Held
  <2> QED  BY <1>1, <1>8, <2>1, <2>2 DEF Knows, LinkedTo, LeavesTo
<1> QED  BY <1>1, <1>4, <1>5, <1>6, <1>9, <1>10, <1>11, <1>12, StepKeeps

LEMMA EmptiedKeeps ==
  ASSUME IInv, NEW p \in Process, Emptied(p)
  PROVE  IInv'
<1>1. pc[p] = "remove" /\ Goto(p, "rmdir") /\ UNCHANGED <<disk, job, left>>
  BY DEF Emptied, At
<1>2. job[p] \in Job /\ left' \in BoundsType  BY <1>1, AtWork
<1>3. "rmdir" \in Places /\ "rmdir" \in Locked /\ pc[p] \in Locked
  BY <1>1 DEF Places, Locked, Held
<1>4. Moves(p, "rmdir", job[p])  BY <1>1, <1>2, <1>3, Moving
<1>5. Purpose(p)' /\ Knows(p)'
  BY <1>1, <1>3, <1>4 DEF IInv, Purpose, Knows, Moves, Inside
<1> QED  BY <1>1, <1>2, <1>3, <1>4, <1>5, QuietStepKeeps

(* The directory is nobody's but p's to rely on, and p is done with it.    *)
LEMMA RemoveRootKeeps ==
  ASSUME IInv, NEW p \in Process, RemoveRoot(p)
  PROVE  IInv'
<1> DEFINE r == job[p].repo
<1>1. pc[p] = "rmdir" /\ UNCHANGED <<link, git, file, inode, left>>
  BY DEF RemoveRoot, At
<1>2. /\ job[p] \in Job /\ r \in Repo /\ job[p].tree \in Tree
      /\ job[p].op \in {"share", "fetch", "release"}
      /\ job[p].op = "share" => job[p].target \in Repo
      /\ left \in BoundsType
  BY <1>1, AtWork
<1>3. CASE ~Empty(r) /\ UNCHANGED root /\ Finish(p)
  BY <1>1, <1>2, <1>3, FinishKeeps DEF disk
<1>4. CASE Empty(r) /\ root' = root \ {r} /\ Released(p)
  <2>1. PICK l \in {"mkdir", "idle"}, k \in Job :
          Moves(p, l, k) /\ Purpose(p)' /\ Knows(p)'
    <3>1. CASE job[p].op = "share"
      <4>1. Take(p, job[p].target, job[p])  BY <1>4, <3>1 DEF Released
      <4> QED  BY <1>2, <3>1, <4>1, Taken
    <3>2. CASE job[p].op # "share"
      <4>1. Finish(p)  BY <1>4, <3>2 DEF Released
      <4> QED  BY <4>1, Finished
    <3> QED  BY <3>1, <3>2
  <2>2. l \in Places /\ l \notin Locked  BY DEF Places, Taking, Locked, Held
  <2>3. \A s \in Repo : ~Empty(s) => s \in root'
    BY <1>4 DEF IInv, TypeOK
  <2>4. TypeOK'
    BY <1>1, <1>2, <1>4, <2>1, <2>3 DEF IInv, TypeOK, Moves, Empty
  <2>5. ASSUME NEW q \in Process \ {p} PROVE LeavesTo(q)
    BY <1>1 DEF IInv, Knows, LinkedTo, LeavesTo
  <2> QED  BY <2>1, <2>2, <2>4, <2>5, StepKeeps
<1> QED  BY <1>3, <1>4 DEF RemoveRoot

LEMMA CrashKeeps ==
  ASSUME IInv, NEW p \in Process, Crash(p)
  PROVE  IInv'
<1>1. left' \in BoundsType  BY Spending DEF Crash, IInv, TypeOK
<1> QED  BY <1>1, FinishKeeps DEF Crash

-----------------------------------------------------------------------------
(* The invariant is inductive.                                             *)

LEMMA InitHolds == Init => IInv
<1> SUFFICES ASSUME Init PROVE IInv
  OBVIOUS
<1>1. TypeOK
  BY BoundsAssumption DEF Init, TypeOK, Empty, NoJob, Job, Places
<1>2. Mutex  BY DEF Init, Mutex, Locked, Held
<1>3. ASSUME NEW p \in Process PROVE Purpose(p) /\ Knows(p)
  BY DEF Init, Purpose, Knows, NoJob, Inside, Locked, Held
<1> QED  BY <1>1, <1>2, <1>3 DEF IInv

LEMMA NextHolds ==
  ASSUME LockLast, IInv, [Next]_vars
  PROVE  IInv'
<1>1. CASE Next
  <2>1. PICK p \in Process : Starts(p) \/ Proceeds(p) \/ Crash(p)  BY <1>1 DEF Next
  <2>2. CASE HoldClone(p)
    BY <2>2, MakeParentKeeps, OpenLockKeeps, FlockKeeps, StatLockKeeps DEF HoldClone
  <2>3. CASE ShareClone(p)  BY <2>3, InitBareKeeps, LinkCloneKeeps DEF ShareClone
  <2>4. CASE Fetch(p)  BY <2>4, FetchKeeps
  <2>5. CASE ReleaseClone(p)
    BY <2>5, UnlinkKeeps, ScanLinksKeeps, RemoveGitKeeps, RemoveLockKeeps, EmptiedKeeps,
       RemoveRootKeeps DEF ReleaseClone
  <2> QED  BY <2>1, <2>2, <2>3, <2>4, <2>5, BeginKeeps, CrashKeeps DEF Proceeds
<1>2. CASE UNCHANGED vars
  BY <1>2 DEF vars, disk, IInv, TypeOK, Mutex, Purpose, Knows, Inside, Empty, LinkedTo
<1> QED  BY <1>1, <1>2

LEMMA Always == ASSUME LockLast PROVE Spec => []IInv
<1>1. IInv /\ [Next]_vars => IInv'  BY NextHolds
<1> QED  BY <1>1, InitHolds, PTL DEF Spec

-----------------------------------------------------------------------------
(* What follows.                                                           *)

(* hold_clone: removing the lock file with the clone lets no two processes *)
(* into one clone, but for a remover with an emptied directory.            *)
THEOREM LockExcludes == ASSUME LockLast PROVE Spec => []OneInside
<1>1. IInv => OneInside
  <2> SUFFICES ASSUME IInv, NEW p \in Process, NEW q \in Process,
                      p # q, pc[p] \in Held, pc[q] \in Held, job[p].repo = job[q].repo
               PROVE  \E r \in {p, q} :
                        pc[r] = "rmdir" \/ (pc[r] = "remove" /\ job[r].entries = {})
    BY DEF OneInside
  <2>1. ~Inside(p) \/ ~Inside(q)  BY Alone
  <2>2. ASSUME NEW r \in {p, q}, ~Inside(r)
        PROVE  pc[r] = "rmdir" \/ (pc[r] = "remove" /\ job[r].entries = {})
    <3>1. CASE pc[r] # "remove"  BY <2>2, <3>1 DEF Inside
    <3>2. CASE pc[r] = "remove"
      <4>1. r \in Process /\ Knows(r) /\ job[r] \in Job  BY <3>2, AtWork DEF IInv
      <4>2. "lock" \notin job[r].entries  BY <2>2, <3>2 DEF Inside
      <4>3. "git" \notin job[r].entries  BY <3>2, <4>1, <4>2 DEF Knows
      <4> QED  BY <3>2, <4>1, <4>2, <4>3 DEF Job
    <3> QED  BY <3>1, <3>2
  <2> QED  BY <2>1, <2>2
<1> QED  BY <1>1, Always, PTL

(* git::fetch has the clone whole under it from its first object to its    *)
(* last: release_clone never takes it away meanwhile.                      *)
THEOREM FetchHasItsClone == ASSUME LockLast PROVE Spec => []FetchesWhole
<1>1. IInv => FetchesWhole  BY DEF IInv, Knows, FetchesWhole
<1> QED  BY <1>1, Always, PTL

(* share_clone, fetch and release_clone under hold_clone's lock implement  *)
(* the registry: a clone is made before it is linked to and unmade only    *)
(* when nothing links to it.                                               *)
THEOREM ProtocolIsRegistry == ASSUME LockLast PROVE Spec => IsRegistry
<1> DEFINE whole == {r \in Repo : git[r] = "whole"}
<1>1. Init => Registry!Init
  BY DEF Init, Registry!Init
<1>2. ASSUME IInv, [Next]_vars PROVE [Registry!Next]_(Registry!vars)
  <2>1. CASE UNCHANGED <<link, git>>  BY <2>1 DEF Registry!vars
  <2>2. CASE \E p \in Process : ~(UNCHANGED <<link, git>>) /\ (InitBare(p) \/ LinkClone(p)
               \/ Unlink(p) \/ RemoveGit(p))
    <3>1. PICK p \in Process : /\ ~(UNCHANGED <<link, git>>)
                               /\ InitBare(p) \/ LinkClone(p) \/ Unlink(p) \/ RemoveGit(p)
      BY <2>2
    <3>2. job[p].repo \in Repo /\ job[p].tree \in Tree
      BY <1>2, <3>1, AtWork DEF InitBare, LinkClone, Unlink, RemoveGit, At
    <3>3. git \in [Repo -> {"absent", "partial", "whole"}]  BY <1>2 DEF IInv, TypeOK
    <3>4. CASE InitBare(p)
      <4>1. link' = link /\ \E v \in {"partial", "whole"} :
              /\ git' = [git EXCEPT ![job[p].repo] = v]
              /\ git[job[p].repo] = "absent" \/ v = "whole"
        BY <3>1, <3>4 DEF InitBare, Becomes
      <4>2. whole' = whole \/ whole' = whole \cup {job[p].repo}
        BY <3>2, <3>3, <4>1
      <4> QED  BY <3>2, <4>1, <4>2 DEF Registry!Next, Registry!vars, Registry!Make
    <3>5. CASE LinkClone(p)
      <4>1. link' = [link EXCEPT ![job[p].tree] = job[p].repo] /\ git' = git
        BY <3>1, <3>5 DEF LinkClone
      <4>2. job[p].repo \in whole
        BY <1>2, <3>2, <3>5 DEF LinkClone, At, IInv, Knows
      <4> QED  BY <3>2, <4>1, <4>2 DEF Registry!Next, Registry!Link
    <3>6. CASE Unlink(p)
      <4>1. link' = [link EXCEPT ![job[p].tree] = None] /\ git' = git
        BY <3>1, <3>6 DEF Unlink
      <4> QED  BY <3>2, <4>1 DEF Registry!Next, Registry!Unlink
    <3>7. CASE RemoveGit(p)
      <4>1. link' = link /\ \E v \in {"partial", "absent"} :
              git' = [git EXCEPT ![job[p].repo] = v]
        BY <3>1, <3>7 DEF RemoveGit, Becomes
      <4>2. whole' = whole \ {job[p].repo}  BY <3>2, <3>3, <4>1
      <4>3. LinkedTo(job[p].repo) = {}
        BY <1>2, <3>7 DEF RemoveGit, At, IInv, Knows
      <4> QED
        BY <3>2, <4>1, <4>2, <4>3
        DEF Registry!Next, Registry!Unmake, Registry!LinkedTo, LinkedTo
    <3> QED  BY <3>1, <3>4, <3>5, <3>6, <3>7
  <2>3. UNCHANGED <<link, git>> \/ \E p \in Process : ~(UNCHANGED <<link, git>>)
          /\ (InitBare(p) \/ LinkClone(p) \/ Unlink(p) \/ RemoveGit(p))
    BY <1>2 DEF Next, vars, disk, Starts, StartShare, StartFetch, StartRelease, Proceeds,
       HoldClone, MakeParent, OpenLock, Flock, StatLock, ShareClone, Fetch, BeginFetch,
       EndFetch, ReleaseClone, ScanLinks, RemoveLock, Emptied, RemoveRoot, Crash
  <2> QED  BY <2>1, <2>2, <2>3
<1> QED  BY <1>1, <1>2, Always, PTL DEF Spec, IsRegistry, Registry!Spec

(* And so what a tree links to is a clone it can fetch into, whatever      *)
(* other trees are set up, moved to another remote or restored meanwhile.  *)
THEOREM LinkedIsWhole == ASSUME LockLast PROVE Spec => []Registry!LinkedIsWhole
<1>1. Registry!Init => Registry!LinkedIsWhole
  BY DEF Registry!Init, Registry!LinkedIsWhole
<1>2. IInv => link \in [Tree -> Repo \cup {None}]
  BY DEF IInv, TypeOK
<1>3. ASSUME link \in [Tree -> Repo \cup {None}], Registry!LinkedIsWhole,
             [Registry!Next]_(Registry!vars)
      PROVE  Registry!LinkedIsWhole'
  <2> DEFINE whole == {r \in Repo : git[r] = "whole"}
  <2>1. CASE UNCHANGED <<link, whole>>
    BY <1>3, <2>1 DEF Registry!LinkedIsWhole
  <2>2. CASE \E r \in Repo : Registry!Make(r)
    BY <1>3, <2>2 DEF Registry!LinkedIsWhole, Registry!Make
  <2>3. CASE \E r \in Repo : Registry!Unmake(r)
    BY <1>3, <2>3 DEF Registry!LinkedIsWhole, Registry!Unmake, Registry!LinkedTo
  <2>4. CASE \E t \in Tree : Registry!Unlink(t)
    BY <1>3, <2>4 DEF Registry!LinkedIsWhole, Registry!Unlink
  <2>5. CASE \E t \in Tree, r \in Repo : Registry!Link(t, r)
    BY <1>3, <2>5 DEF Registry!LinkedIsWhole, Registry!Link
  <2> QED
    BY <1>3, <2>1, <2>2, <2>3, <2>4, <2>5 DEF Registry!Next, Registry!vars
<1> QED
  BY <1>1, <1>2, <1>3, Always, ProtocolIsRegistry, PTL DEF IsRegistry, Registry!Spec

-----------------------------------------------------------------------------
(* Nothing is left behind.  This argument is not about the lock, and needs *)
(* no order in which a directory lists its entries: a clone that nobody    *)
(* links to is on some process's mind, who is about to link to it or looks *)
(* whether anybody else does, as long as nobody is killed and nothing      *)
(* fails.                                                                  *)

Shape ==
  /\ link \in [Tree -> Repo \cup {None}]
  /\ git \in [Repo -> {"absent", "partial", "whole"}]
  /\ file \in [Repo -> Nat] /\ inode \in Nat
  /\ pc \in [Process -> Places] /\ job \in [Process -> Job]
  /\ left \in BoundsType /\ left.trouble <= Bounds.trouble

(* What a process is doing has an object, and belongs to its operation.    *)
Errand(p) ==
  /\ pc[p] = "idle" <=> job[p].op = "none"
  /\ pc[p] # "idle" => job[p].repo \in Repo /\ job[p].tree \in Tree
  /\ job[p].op = "share" => job[p].target \in Repo
  /\ pc[p] \in {"init", "link"} => job[p].op = "share"
  /\ pc[p] \in {"unlink", "scan", "remove", "rmdir"} => job[p].op \in {"share", "release"}

(* Whoever changes a tree's link knows where the tree links to: to the     *)
(* clone in hand or nowhere, and nowhere once a setup has unlinked it.     *)
Changes == {"share", "release"}
Sees(p) ==
  /\ job[p].op \in Changes => link[job[p].tree] \in {None, job[p].repo}
  /\ job[p].op = "share" /\ pc[p] \in {"scan", "remove", "rmdir"} => link[job[p].tree] = None

(* A setup of a tree meets no other setup and no restore of that tree.     *)
Apart ==
  \A p, q \in Process :
    p # q /\ job[p].op = "share" /\ job[q].op \in Changes => job[p].tree # job[q].tree

Minds(p, r) ==
  /\ job[p].repo = r
  /\ \/ pc[p] \in {"init", "link", "scan"}
     \/ pc[p] = "remove" /\ "git" \in job[p].entries

Smooth == left.trouble = Bounds.trouble
Tended ==
  Smooth => \A r \in Repo : git[r] # "absent" =>
              LinkedTo(r) # {} \/ \E p \in Process : Minds(p, r)

TendInv == Shape /\ (\A p \in Process : Errand(p) /\ Sees(p)) /\ Apart /\ Tended

(* j is a job that p may take up beside what the others are doing.         *)
Compatible(p, j) ==
  \A q \in Process \ {p} :
    /\ j.op = "share" /\ job[q].op \in Changes => job[q].tree # j.tree
    /\ j.op \in Changes /\ job[q].op = "share" => job[q].tree # j.tree

LEMMA Going ==
  ASSUME Shape, NEW p \in Process, NEW l \in Places, NEW j \in Job,
         Goto(p, l) \/ (l = pc[p] /\ pc' = pc),
         Recall(p, j) \/ (j = job[p] /\ job' = job)
  PROVE  Moves(p, l, j)
  BY DEF Shape, Goto, Recall, Moves

LEMMA SameErrand ==
  ASSUME Apart, NEW p \in Process, NEW j \in Job,
         j.op = "none" \/ (j.op = job[p].op /\ j.tree = job[p].tree)
  PROVE  Compatible(p, j)
  BY DEF Apart, Compatible, Changes

LEMMA StepTends ==
  ASSUME TendInv, NEW p \in Process, NEW l \in Places, NEW j \in Job, Moves(p, l, j),
         Shape', Errand(p)', \A q \in Process : Sees(q)', Compatible(p, j),
         \A r \in Repo : Smooth' /\ git'[r] # "absent" =>
           LinkedTo(r)' # {} \/ Minds(p, r)' \/ \E q \in Process \ {p} : Minds(q, r)
  PROVE  TendInv'
<1>1. ASSUME NEW q \in Process PROVE Errand(q)'
  <2>1. CASE q = p  BY <2>1
  <2>2. CASE q # p  BY <2>2 DEF TendInv, Errand, Moves
  <2> QED  BY <2>1, <2>2
<1>2. ASSUME NEW q \in Process, NEW r \in Process, q # r,
             job'[q].op = "share", job'[r].op \in Changes
      PROVE  job'[q].tree # job'[r].tree
  <2>1. CASE q = p
    <3>1. job'[q] = j /\ job'[r] = job[r] /\ r \in Process \ {p}
      BY <1>2, <2>1 DEF Moves
    <3> QED  BY <1>2, <3>1 DEF Compatible
  <2>2. CASE r = p
    <3>1. job'[r] = j /\ job'[q] = job[q] /\ q \in Process \ {p}
      BY <1>2, <2>2 DEF Moves
    <3> QED  BY <1>2, <3>1 DEF Compatible
  <2>3. CASE q # p /\ r # p
    BY <1>2, <2>3 DEF TendInv, Apart, Moves
  <2> QED  BY <2>1, <2>2, <2>3
<1>3. Apart'  BY <1>2 DEF Apart
<1>4. ASSUME NEW q \in Process \ {p}, NEW r PROVE Minds(q, r) => Minds(q, r)'
  BY DEF Minds, Moves
<1>5. Tended'  BY <1>4 DEF Tended
<1> QED  BY <1>1, <1>3, <1>5 DEF TendInv

(* One that leaves links and clones alone, and nothing that was minded.    *)
LEMMA QuietStepTends ==
  ASSUME TendInv, NEW p \in Process, NEW l \in Places, NEW j \in Job, Moves(p, l, j),
         UNCHANGED <<link, git>>, file' \in [Repo -> Nat], inode' \in Nat,
         left' \in BoundsType, left'.trouble <= Bounds.trouble,
         Errand(p)', Sees(p)', Compatible(p, j),
         Smooth' => Smooth /\ \A r \in Repo :
           Minds(p, r) /\ git[r] # "absent" /\ LinkedTo(r) = {} => Minds(p, r)'
  PROVE  TendInv'
<1>1. Shape'  BY DEF TendInv, Shape, Moves
<1>2. ASSUME NEW q \in Process PROVE Sees(q)'
  <2>1. CASE q = p  BY <2>1
  <2>2. CASE q # p  BY <2>2 DEF TendInv, Sees, Moves
  <2> QED  BY <2>1, <2>2
<1>3. ASSUME NEW r \in Repo, Smooth', git'[r] # "absent"
      PROVE  LinkedTo(r)' # {} \/ Minds(p, r)' \/ \E q \in Process \ {p} : Minds(q, r)
  <2>1. LinkedTo(r)' = LinkedTo(r)  BY DEF LinkedTo
  <2> QED  BY <1>3, <2>1 DEF TendInv, Tended
<1> QED  BY <1>1, <1>2, <1>3, StepTends

LEMMA SmoothSpending ==
  ASSUME Shape, NEW kind \in {"share", "fetch", "release", "trouble"}, Spend(kind)
  PROVE  /\ left' \in BoundsType /\ left'.trouble <= Bounds.trouble
         /\ kind # "trouble" => left'.trouble = left.trouble
         /\ kind = "trouble" => ~Smooth'
  BY BoundsAssumption DEF Shape, BoundsType, Spend, Smooth

LEMMA BeginTends ==
  ASSUME TendInv, NEW p \in Process, Starts(p)
  PROVE  TendInv'
<1>1. pc[p] = "idle" /\ UNCHANGED disk
  BY DEF Starts, StartShare, StartFetch, StartRelease, At
<1>2. left' \in BoundsType /\ left'.trouble <= Bounds.trouble /\ left'.trouble = left.trouble
  BY SmoothSpending DEF Starts, StartShare, StartFetch, StartRelease, TendInv
<1>3. \A r : ~Minds(p, r)  BY <1>1 DEF Minds
<1>4. UNCHANGED <<link, git>> /\ file' \in [Repo -> Nat] /\ inode' \in Nat
  BY <1>1 DEF disk, TendInv, Shape
<1>5. ASSUME NEW r \in Repo, NEW t \in Tree, NEW j \in Job, Take(p, r, j),
             j.tree = t, j.op # "none", j.op = "share" => j.target \in Repo,
             j.op \in Changes => link[t] \in {None, r}, Compatible(p, j)
      PROVE  TendInv'
  <2> DEFINE k == [j EXCEPT !.repo = r, !.fd = 0]
  <2>1. k \in Job /\ "mkdir" \in Places  BY DEF Job, Places, Taking
  <2>2. k.op = j.op /\ k.tree = t /\ k.target = j.target /\ k.repo = r
    BY <1>5 DEF Job
  <2>3. Goto(p, "mkdir") /\ Recall(p, k)  BY <1>5 DEF Take
  <2> HIDE DEF k
  <2>4. Moves(p, "mkdir", k)  BY <2>1, <2>3, Going DEF TendInv
  <2>5. Errand(p)' /\ Sees(p)'
    BY <1>4, <1>5, <2>2, <2>4 DEF Moves, Errand, Sees
  <2>6. Compatible(p, k)  BY <1>5, <2>2 DEF Compatible
  <2> QED  BY <1>2, <1>3, <1>4, <2>1, <2>4, <2>5, <2>6, QuietStepTends DEF Smooth
<1>6. CASE StartShare(p)
  <2>1. PICK t \in Tree, r \in Repo :
          /\ WorksOn(t, {"share", "fetch", "release"}) = {}
          /\ Take(p, IF link[t] \in {None, r} THEN r ELSE link[t],
                  [NoJob EXCEPT !.op = "share", !.tree = t, !.target = r])
    BY <1>6 DEF StartShare
  <2> DEFINE j == [NoJob EXCEPT !.op = "share", !.tree = t, !.target = r]
             s == IF link[t] \in {None, r} THEN r ELSE link[t]
  <2>2. j \in Job /\ j.op = "share" /\ j.tree = t /\ j.target = r  BY DEF NoJob, Job
  <2>3. s \in Repo /\ link[t] \in {None, s}  BY DEF TendInv, Shape
  <2>4. Take(p, s, j)  BY <2>1
  <2> HIDE DEF j, s
  <2>5. Compatible(p, j)  BY <2>1, <2>2 DEF Compatible, WorksOn, Changes
  <2> QED  BY <1>5, <2>2, <2>3, <2>4, <2>5
<1>7. CASE StartFetch(p)
  <2>1. PICK t \in Tree : /\ link[t] # None
                          /\ Take(p, link[t], [NoJob EXCEPT !.op = "fetch", !.tree = t])
    BY <1>7 DEF StartFetch
  <2> DEFINE j == [NoJob EXCEPT !.op = "fetch", !.tree = t]
  <2>2. j \in Job /\ j.op = "fetch" /\ j.tree = t  BY DEF NoJob, Job
  <2>3. link[t] \in Repo  BY <2>1 DEF TendInv, Shape
  <2>4. Take(p, link[t], j)  BY <2>1
  <2> HIDE DEF j
  <2>5. Compatible(p, j)  BY <2>2 DEF Compatible, Changes
  <2> QED  BY <1>5, <2>2, <2>3, <2>4, <2>5
<1>8. CASE StartRelease(p)
  <2>1. PICK t \in Tree : /\ link[t] # None /\ WorksOn(t, {"share"}) = {}
                          /\ Take(p, link[t], [NoJob EXCEPT !.op = "release", !.tree = t])
    BY <1>8 DEF StartRelease
  <2> DEFINE j == [NoJob EXCEPT !.op = "release", !.tree = t]
  <2>2. j \in Job /\ j.op = "release" /\ j.tree = t  BY DEF NoJob, Job
  <2>3. link[t] \in Repo  BY <2>1 DEF TendInv, Shape
  <2>4. Take(p, link[t], j)  BY <2>1
  <2> HIDE DEF j
  <2>5. Compatible(p, j)  BY <2>1, <2>2 DEF Compatible, WorksOn, Changes
  <2> QED  BY <1>5, <2>2, <2>3, <2>4, <2>5
<1> QED  BY <1>6, <1>7, <1>8 DEF Starts

(* p is done: what it minded is linked to or gone, or something failed.    *)
LEMMA FinishTends ==
  ASSUME TendInv, NEW p \in Process, Finish(p), UNCHANGED <<link, git>>,
         file' \in [Repo -> Nat], inode' \in Nat,
         left' \in BoundsType, left'.trouble <= Bounds.trouble,
         Smooth' => Smooth /\ \A r \in Repo :
           Minds(p, r) /\ git[r] # "absent" => LinkedTo(r) # {}
  PROVE  TendInv'
<1>1. "idle" \in Places /\ NoJob \in Job /\ NoJob.op = "none"  BY DEF Places, NoJob, Job
<1>2. Moves(p, "idle", NoJob)  BY <1>1, Going DEF Finish, TendInv
<1>3. Errand(p)' /\ Sees(p)'
  BY <1>1, <1>2 DEF Moves, Errand, Sees, Changes
<1>4. Compatible(p, NoJob)  BY <1>1, SameErrand DEF TendInv
<1> QED  BY <1>1, <1>2, <1>3, <1>4, QuietStepTends

LEMMA TroubleTends ==
  ASSUME TendInv, NEW p \in Process, Finish(p), Spend("trouble"), UNCHANGED disk
  PROVE  TendInv'
<1>1. /\ left' \in BoundsType /\ left'.trouble <= Bounds.trouble /\ ~Smooth'
  BY SmoothSpending DEF TendInv
<1> QED  BY <1>1, FinishTends DEF disk, TendInv, Shape

(* p goes on with the job it has, in another place or with more about it,  *)
(* having touched no link and no clone.                                    *)
LEMMA GoingOnTends ==
  ASSUME TendInv, NEW p \in Process, NEW l \in Places, NEW j \in Job, Moves(p, l, j),
         UNCHANGED <<link, git, left>>, file' \in [Repo -> Nat], inode' \in Nat,
         j.op = job[p].op, j.tree = job[p].tree, j.target = job[p].target,
         j.repo = job[p].repo, Errand(p)', Sees(p)',
         \A r \in Repo : Minds(p, r) /\ git[r] # "absent" /\ LinkedTo(r) = {} => Minds(p, r)'
  PROVE  TendInv'
<1>1. Compatible(p, j)  BY SameErrand DEF TendInv
<1> QED  BY <1>1, QuietStepTends DEF TendInv, Shape, Smooth

LEMMA Busy ==
  ASSUME TendInv, NEW p \in Process, pc[p] # "idle"
  PROVE  /\ job[p] \in Job /\ job[p].repo \in Repo /\ job[p].tree \in Tree
         /\ job[p].op \in {"share", "fetch", "release"}
         /\ job[p].op = "share" => job[p].target \in Repo
         /\ Errand(p) /\ Sees(p)
  BY DEF TendInv, Shape, Errand, Job

LEMMA HoldCloneTends ==
  ASSUME TendInv, NEW p \in Process, HoldClone(p)
  PROVE  TendInv'
<1>1. /\ pc[p] \in {"mkdir", "open", "flock", "stat"} /\ UNCHANGED <<link, git, left>>
      /\ file' \in [Repo -> Nat] /\ inode' \in Nat
  <2>1. CASE OpenLock(p)
    <3>1. pc[p] = "open" /\ job[p].repo \in Repo  BY <2>1, Busy DEF OpenLock, At
    <3> QED  BY <2>1, <3>1 DEF OpenLock, Becomes, TendInv, Shape
  <2>2. CASE ~OpenLock(p)
    BY <2>2 DEF HoldClone, MakeParent, Flock, StatLock, At, disk, TendInv, Shape
  <2> QED  BY <2>1, <2>2
<1>2. /\ job[p] \in Job /\ job[p].repo \in Repo /\ job[p].tree \in Tree
      /\ job[p].op \in {"share", "fetch", "release"}
      /\ job[p].op = "share" => job[p].target \in Repo
      /\ Errand(p) /\ Sees(p)
  BY <1>1, Busy
<1>3. \A r : ~Minds(p, r)  BY <1>1 DEF Minds
<1>4. ASSUME NEW l \in {"mkdir", "open", "flock", "stat", "fetch", "init", "unlink"},
             NEW j \in Job, Goto(p, l), Recall(p, j) \/ (j = job[p] /\ job' = job),
             j.op = job[p].op, j.tree = job[p].tree, j.target = job[p].target,
             j.repo = job[p].repo,
             l = "init" => job[p].op = "share",
             l = "unlink" => job[p].op \in {"share", "release"}
      PROVE  TendInv'
  <2>1. l \in Places /\ l \notin {"scan", "remove", "rmdir", "link", "idle"}
    BY DEF Places, Taking, Locked, Held
  <2>2. Moves(p, l, j)  BY <1>4, <2>1, Going DEF TendInv
  <2>3. Errand(p)' /\ Sees(p)'
    BY <1>1, <1>2, <1>4, <2>1, <2>2 DEF Moves, Errand, Sees
  <2> QED  BY <1>1, <1>3, <1>4, <2>1, <2>2, <2>3, GoingOnTends
<1>5. CASE MakeParent(p)  BY <1>2, <1>4, <1>5 DEF MakeParent
<1>6. CASE OpenLock(p)
  <2>1. ASSUME NEW fd \in Nat, Goto(p, "flock"), Recall(p, [job[p] EXCEPT !.fd = fd])
        PROVE  TendInv'
    <3> DEFINE j == [job[p] EXCEPT !.fd = fd]
    <3>1. /\ j \in Job /\ j.op = job[p].op /\ j.tree = job[p].tree
          /\ j.target = job[p].target /\ j.repo = job[p].repo
      BY <1>2 DEF Job
    <3>2. Recall(p, j)  BY <2>1
    <3> HIDE DEF j
    <3> QED  BY <1>4, <2>1, <3>1, <3>2
  <2>2. CASE Finish(p)
    BY <1>1, <1>3, <2>2, FinishTends DEF TendInv, Shape, Smooth
  <2>3. inode + 1 \in Nat /\ file[job[p].repo] \in Nat  BY <1>2 DEF TendInv, Shape
  <2> QED  BY <1>6, <2>1, <2>2, <2>3 DEF OpenLock
<1>7. CASE Flock(p)  BY <1>2, <1>4, <1>7 DEF Flock
<1>8. CASE StatLock(p)
  <2>1. CASE Goto(p, First(job[p].op, job[p])) /\ UNCHANGED job
    <3> DEFINE l == First(job[p].op, job[p])
    <3>1. /\ l \in {"fetch", "init", "unlink"} /\ (l = "init" => job[p].op = "share")
          /\ l = "unlink" => job[p].op \in {"share", "release"}
      BY <1>2 DEF First
    <3>2. Goto(p, l)  BY <2>1
    <3> HIDE DEF l
    <3> QED  BY <1>2, <1>4, <2>1, <3>1, <3>2
  <2>2. CASE TryAgain(p)
    <3> DEFINE j == [job[p] EXCEPT !.repo = job[p].repo, !.fd = 0]
    <3>1. /\ j \in Job /\ j.op = job[p].op /\ j.tree = job[p].tree
          /\ j.target = job[p].target /\ j.repo = job[p].repo
      BY <1>2 DEF Job
    <3>2. Goto(p, "mkdir") /\ Recall(p, j)  BY <2>2 DEF TryAgain, Take
    <3> HIDE DEF j
    <3> QED  BY <1>4, <3>1, <3>2
  <2> QED  BY <1>8, <2>1, <2>2 DEF StatLock
<1> QED  BY <1>5, <1>6, <1>7, <1>8 DEF HoldClone

(* init_bare leaves a clone nobody links to, on its maker's mind.          *)
LEMMA InitBareTends ==
  ASSUME TendInv, NEW p \in Process, InitBare(p)
  PROVE  TendInv'
<1> DEFINE r == job[p].repo
<1>1. pc[p] = "init" /\ UNCHANGED <<link, root, file, inode>>  BY DEF InitBare, At
<1>2. /\ job[p] \in Job /\ r \in Repo /\ job[p].tree \in Tree /\ job[p].op = "share"
      /\ job[p].target \in Repo /\ Errand(p) /\ Sees(p)
  BY <1>1, Busy DEF Errand
<1>3. ASSUME NEW v \in {"partial", "whole"}, git' = Becomes(git, r, v), left' = left,
             NEW l \in {"init", "link"}, Goto(p, l) \/ (l = pc[p] /\ pc' = pc), job' = job
      PROVE  TendInv'
  <2>1. l \in Places  BY DEF Places, Locked, Held
  <2>2. Moves(p, l, job[p])  BY <1>2, <1>3, <2>1, Going DEF TendInv
  <2>3. /\ git' \in [Repo -> {"absent", "partial", "whole"}]
        /\ \A s \in Repo \ {r} : git'[s] = git[s]
    BY <1>2, <1>3 DEF Becomes, TendInv, Shape
  <2>4. Shape'  BY <1>1, <1>3, <2>2, <2>3 DEF TendInv, Shape, Moves
  <2>5. Errand(p)'  BY <1>1, <1>2, <1>3, <2>2 DEF Moves, Errand
  <2>6. ASSUME NEW q \in Process PROVE Sees(q)'
    BY <1>1, <1>2, <1>3, <2>2 DEF TendInv, Sees, Moves
  <2>7. Compatible(p, job[p])  BY <1>2, SameErrand DEF TendInv
  <2>8. \A s \in Repo : s = r => Minds(p, s)'  BY <1>3, <2>2 DEF Minds, Moves
  <2>9. ASSUME NEW s \in Repo, Smooth', git'[s] # "absent"
        PROVE  LinkedTo(s)' # {} \/ Minds(p, s)' \/ \E q \in Process \ {p} : Minds(q, s)
    <3>1. CASE s = r  BY <2>8, <3>1
    <3>2. CASE s # r
      <4>1. LinkedTo(s)' = LinkedTo(s) /\ git[s] # "absent" /\ Smooth
        BY <1>1, <1>3, <2>3, <2>9, <3>2 DEF LinkedTo, Smooth
      <4>2. ~Minds(p, s)  BY <3>2 DEF Minds
      <4> QED  BY <4>1, <4>2 DEF TendInv, Tended
    <3> QED  BY <3>1, <3>2
  <2> QED  BY <1>2, <2>1, <2>2, <2>4, <2>5, <2>6, <2>7, <2>9, StepTends
<1>4. CASE Spend("trouble") /\ Finish(p) /\ UNCHANGED git
  BY <1>1, <1>4, TroubleTends DEF disk
<1>5. pc[p] \in {"init", "link"}  BY <1>1
<1> QED  BY <1>1, <1>3, <1>4, <1>5 DEF InitBare

(* The tree of a setup linked nowhere else, so no other clone loses a link.*)
LEMMA LinkCloneTends ==
  ASSUME TendInv, NEW p \in Process, LinkClone(p)
  PROVE  TendInv'
<1> DEFINE r == job[p].repo
           t == job[p].tree
<1>1. pc[p] = "link" /\ Finish(p) /\ UNCHANGED <<git, root, file, inode>>
  BY DEF LinkClone, At
<1>2. /\ job[p] \in Job /\ r \in Repo /\ t \in Tree /\ job[p].op = "share"
      /\ link[t] \in {None, r}
  BY <1>1, Busy DEF Errand, Sees, Changes
<1>3. CASE link' = [link EXCEPT ![t] = r] /\ UNCHANGED left
  <2>1. "idle" \in Places /\ NoJob \in Job /\ NoJob.op = "none"  BY DEF Places, NoJob, Job
  <2>2. Moves(p, "idle", NoJob)  BY <1>1, <2>1, Going DEF Finish, TendInv
  <2>3. /\ link' \in [Tree -> Repo \cup {None}] /\ link'[t] = r
        /\ \A u \in Tree \ {t} : link'[u] = link[u]
    BY <1>2, <1>3 DEF TendInv, Shape
  <2>4. Shape'  BY <1>1, <1>3, <2>2, <2>3 DEF TendInv, Shape, Moves
  <2>5. Errand(p)' /\ Sees(p)'  BY <2>1, <2>2 DEF Moves, Errand, Sees, Changes
  <2>6. ASSUME NEW q \in Process PROVE Sees(q)'
    <3>1. CASE q = p  BY <2>5, <3>1
    <3>2. CASE q # p
      <4>1. pc'[q] = pc[q] /\ job'[q] = job[q] /\ Sees(q)
        BY <2>2, <3>2 DEF Moves, TendInv
      <4>2. CASE job[q].op \in Changes
        <5>1. job[q].tree # t  BY <1>2, <3>2, <4>2 DEF TendInv, Apart
        <5>2. job[q].tree \in Tree
          BY <4>2 DEF TendInv, Errand, Changes
        <5> QED  BY <2>3, <4>1, <5>1, <5>2 DEF Sees
      <4>3. CASE job[q].op \notin Changes
        BY <4>1, <4>3 DEF Sees, Changes
      <4> QED  BY <4>2, <4>3
    <3> QED  BY <3>1, <3>2
  <2>7. Compatible(p, NoJob)  BY <2>1, SameErrand DEF TendInv
  <2>8. ASSUME NEW s \in Repo, Smooth', git'[s] # "absent"
        PROVE  LinkedTo(s)' # {} \/ Minds(p, s)' \/ \E q \in Process \ {p} : Minds(q, s)
    <3>1. CASE s = r  BY <1>2, <2>3, <3>1 DEF LinkedTo
    <3>2. CASE s # r
      <4>1. LinkedTo(s) \subseteq LinkedTo(s)'
        BY <1>2, <2>3, <3>2, NoneAssumption DEF LinkedTo
      <4>2. ~Minds(p, s)  BY <3>2 DEF Minds
      <4> QED  BY <1>1, <1>3, <2>8, <4>1, <4>2 DEF TendInv, Tended, Smooth
    <3> QED  BY <3>1, <3>2
  <2> QED  BY <2>1, <2>2, <2>4, <2>5, <2>6, <2>7, <2>8, StepTends
<1>4. CASE Spend("trouble") /\ UNCHANGED link
  BY <1>1, <1>4, TroubleTends DEF disk
<1> QED  BY <1>3, <1>4 DEF LinkClone

LEMMA FetchTends ==
  ASSUME TendInv, NEW p \in Process, Fetch(p)
  PROVE  TendInv'
<1>1. /\ pc[p] \in {"fetch", "fetching"} /\ UNCHANGED <<disk, left>>
      /\ Finish(p) \/ (Goto(p, "fetching") /\ UNCHANGED job)
  BY DEF Fetch, BeginFetch, EndFetch, At
<1>2. /\ UNCHANGED <<link, git, left>> /\ file' \in [Repo -> Nat] /\ inode' \in Nat
  BY <1>1 DEF disk, TendInv, Shape
<1>3. \A r : ~Minds(p, r)  BY <1>1 DEF Minds
<1>4. job[p] \in Job /\ Errand(p) /\ Sees(p)  BY <1>1, Busy
<1>5. CASE Finish(p)
  BY <1>2, <1>3, <1>5, FinishTends DEF TendInv, Shape, Smooth
<1>6. CASE Goto(p, "fetching") /\ UNCHANGED job
  <2>1. "fetching" \in Places  BY DEF Places, Locked, Held
  <2>2. Moves(p, "fetching", job[p])  BY <1>4, <1>6, <2>1, Going DEF TendInv
  <2>3. Errand(p)' /\ Sees(p)'  BY <1>1, <1>2, <1>4, <2>2 DEF Moves, Errand, Sees
  <2> QED  BY <1>2, <1>3, <1>4, <2>1, <2>2, <2>3, GoingOnTends
<1> QED  BY <1>1, <1>5, <1>6

(* release_clone unlinks and keeps the clone on its mind.                  *)
LEMMA UnlinkTends ==
  ASSUME TendInv, NEW p \in Process, Unlink(p)
  PROVE  TendInv'
<1> DEFINE r == job[p].repo
           t == job[p].tree
<1>1. pc[p] = "unlink" /\ UNCHANGED <<git, root, file, inode>>  BY DEF Unlink, At
<1>2. /\ job[p] \in Job /\ r \in Repo /\ t \in Tree /\ job[p].op \in Changes
      /\ link[t] \in {None, r} /\ Errand(p)
  BY <1>1, Busy DEF Errand, Sees, Changes
<1>3. CASE link' = [link EXCEPT ![t] = None] /\ Goto(p, "scan") /\ UNCHANGED <<job, left>>
  <2>1. "scan" \in Places  BY DEF Places, Locked, Held
  <2>2. Moves(p, "scan", job[p])  BY <1>2, <1>3, <2>1, Going DEF TendInv
  <2>3. /\ link' \in [Tree -> Repo \cup {None}] /\ link'[t] = None
        /\ \A u \in Tree \ {t} : link'[u] = link[u]
    BY <1>2, <1>3 DEF TendInv, Shape
  <2>4. Shape'  BY <1>1, <1>3, <2>2, <2>3 DEF TendInv, Shape, Moves
  <2>5. Errand(p)'  BY <1>1, <1>2, <2>2 DEF Moves, Errand, Changes
  <2>6. ASSUME NEW q \in Process PROVE Sees(q)'
    <3>1. Sees(q) /\ Errand(q)  BY DEF TendInv
    <3>2. job'[q] = job[q]  BY <1>3
    <3>3. job[q].op \in Changes => job[q].tree \in Tree
      BY <3>1 DEF Errand, Changes
    <3>4. job[q].op \in Changes =>
            link'[job[q].tree] = None \/ link'[job[q].tree] = link[job[q].tree]
      BY <2>3, <3>3
    <3>5. CASE q = p
      BY <1>2, <2>3, <3>2, <3>5 DEF Sees
    <3>6. CASE q # p
      <4>1. pc'[q] = pc[q]  BY <2>2, <3>6 DEF Moves
      <4> QED  BY <3>1, <3>2, <3>4, <4>1 DEF Sees, Changes
    <3> QED  BY <3>5, <3>6
  <2>7. Compatible(p, job[p])  BY <1>2, SameErrand DEF TendInv
  <2>8. \A s \in Repo : s = r => Minds(p, s)'  BY <2>2 DEF Minds, Moves
  <2>9. ASSUME NEW s \in Repo, Smooth', git'[s] # "absent"
        PROVE  LinkedTo(s)' # {} \/ Minds(p, s)' \/ \E q \in Process \ {p} : Minds(q, s)
    <3>1. CASE s = r  BY <2>8, <3>1
    <3>2. CASE s # r
      <4>1. LinkedTo(s) \subseteq LinkedTo(s)'
        BY <1>2, <2>3, <3>2, NoneAssumption DEF LinkedTo
      <4>2. ~Minds(p, s)  BY <3>2 DEF Minds
      <4> QED  BY <1>1, <1>3, <2>9, <4>1, <4>2 DEF TendInv, Tended, Smooth
    <3> QED  BY <3>1, <3>2
  <2> QED  BY <1>2, <2>1, <2>2, <2>4, <2>5, <2>6, <2>7, <2>9, StepTends
<1>4. CASE Spend("trouble") /\ Finish(p) /\ UNCHANGED link
  BY <1>1, <1>4, TroubleTends DEF disk
<1> QED  BY <1>3, <1>4 DEF Unlink

(* The caller of release_clone goes on: a setup to the clone it wants, for *)
(* which its tree is free.                                                 *)
LEMMA ReleasedTends ==
  ASSUME TendInv, NEW p \in Process, pc[p] \in {"scan", "rmdir"}, Released(p),
         UNCHANGED <<link, git, left>>, file' \in [Repo -> Nat], inode' \in Nat,
         \A r \in Repo : Minds(p, r) => LinkedTo(r) # {}
  PROVE  TendInv'
<1>1. /\ job[p] \in Job /\ job[p].repo \in Repo /\ job[p].tree \in Tree
      /\ job[p].op = "share" => job[p].target \in Repo
      /\ Errand(p) /\ Sees(p)
  BY Busy
<1>2. left' \in BoundsType /\ left'.trouble <= Bounds.trouble /\ (Smooth' => Smooth)
  BY DEF TendInv, Shape, Smooth
<1>3. CASE job[p].op # "share"
  <2>1. Finish(p)  BY <1>3 DEF Released
  <2> QED  BY <1>2, <2>1, FinishTends
<1>4. CASE job[p].op = "share"
  <2> DEFINE k == [job[p] EXCEPT !.repo = job[p].target, !.fd = 0]
  <2>1. Goto(p, "mkdir") /\ Recall(p, k)  BY <1>4 DEF Released, Take
  <2>2. /\ k \in Job /\ k.repo = job[p].target /\ k.op = "share"
        /\ k.tree = job[p].tree /\ k.target = job[p].target
    BY <1>1, <1>4 DEF Job
  <2>3. "mkdir" \in Places  BY DEF Places, Taking
  <2> HIDE DEF k
  <2>4. Moves(p, "mkdir", k)  BY <2>1, <2>2, <2>3, Going DEF TendInv
  <2>5. link[job[p].tree] = None  BY <1>1, <1>4 DEF Sees
  <2>6. Errand(p)' /\ Sees(p)'
    BY <1>1, <1>4, <2>2, <2>4, <2>5 DEF Moves, Errand, Sees
  <2>7. Compatible(p, k)  BY <1>4, <2>2, SameErrand DEF TendInv
  <2> QED  BY <1>2, <2>2, <2>3, <2>4, <2>6, <2>7, QuietStepTends
<1> QED  BY <1>3, <1>4

LEMMA ScanLinksTends ==
  ASSUME TendInv, NEW p \in Process, ScanLinks(p)
  PROVE  TendInv'
<1> DEFINE r == job[p].repo
           j == [job[p] EXCEPT !.entries = Entries(r)]
<1>1. pc[p] = "scan" /\ UNCHANGED <<disk, left>>  BY DEF ScanLinks, At
<1>2. /\ UNCHANGED <<link, git, left>> /\ file' \in [Repo -> Nat] /\ inode' \in Nat
  BY <1>1 DEF disk, TendInv, Shape
<1>3. /\ job[p] \in Job /\ r \in Repo /\ job[p].tree \in Tree /\ Errand(p) /\ Sees(p)
  BY <1>1, Busy
<1>4. CASE StillLinked(p) /\ Released(p)
  <2>1. \A s \in Repo : Minds(p, s) => LinkedTo(s) # {}
    BY <1>4 DEF StillLinked, Minds
  <2> QED  BY <1>1, <1>2, <1>4, <2>1, ReleasedTends
<1>5. CASE ~StillLinked(p) /\ Goto(p, "remove") /\ Recall(p, j)
  <2>1. Entries(r) \subseteq {"git", "lock"} /\ (git[r] # "absent" => "git" \in Entries(r))
    BY DEF Entries
  <2>2. /\ j \in Job /\ j.op = job[p].op /\ j.tree = job[p].tree
        /\ j.target = job[p].target /\ j.repo = r /\ j.entries = Entries(r)
    BY <1>3, <2>1 DEF Job
  <2>3. "remove" \in Places  BY DEF Places, Locked, Held
  <2> HIDE DEF j
  <2>4. Moves(p, "remove", j)  BY <1>5, <2>2, <2>3, Going DEF TendInv
  <2>5. Errand(p)' /\ Sees(p)'  BY <1>1, <1>2, <1>3, <2>2, <2>4 DEF Moves, Errand, Sees
  <2>6. \A s \in Repo : Minds(p, s) /\ git[s] # "absent" => Minds(p, s)'
    BY <2>1, <2>2, <2>4 DEF Moves, Minds
  <2> QED  BY <1>2, <2>2, <2>3, <2>4, <2>5, <2>6, GoingOnTends
<1> QED  BY <1>4, <1>5 DEF ScanLinks

(* Once `git` is not among what is left to remove, there is none.          *)
LEMMA RemoveGitTends ==
  ASSUME TendInv, NEW p \in Process, RemoveGit(p)
  PROVE  TendInv'
<1> DEFINE r == job[p].repo
           k == [job[p] EXCEPT !.entries = @ \ {"git"}]
<1>1. /\ pc[p] = "remove" /\ "git" \in job[p].entries
      /\ UNCHANGED <<link, root, file, inode>>
  BY DEF RemoveGit, At
<1>2. /\ job[p] \in Job /\ r \in Repo /\ job[p].tree \in Tree /\ Errand(p) /\ Sees(p)
  BY <1>1, Busy
<1>3. /\ k \in Job /\ k.op = job[p].op /\ k.tree = job[p].tree
      /\ k.target = job[p].target /\ k.repo = r /\ "git" \notin k.entries
  BY <1>2 DEF Job
<1> HIDE DEF k
<1>4. ASSUME NEW v \in {"absent", "partial"}, git' = Becomes(git, r, v), left' = left,
             pc' = pc, NEW j \in {job[p], k}, Recall(p, j) \/ (j = job[p] /\ job' = job),
             j = k => v = "absent"
      PROVE  TendInv'
  <2>1. /\ j \in Job /\ j.op = job[p].op /\ j.tree = job[p].tree
        /\ j.target = job[p].target /\ j.repo = r
    BY <1>2, <1>3, <1>4
  <2>2. "remove" \in Places  BY DEF Places, Locked, Held
  <2>3. Moves(p, "remove", j)  BY <1>1, <1>4, <2>1, <2>2, Going DEF TendInv
  <2>4. /\ git' \in [Repo -> {"absent", "partial", "whole"}] /\ git'[r] = v
        /\ \A s \in Repo \ {r} : git'[s] = git[s]
    BY <1>2, <1>4 DEF Becomes, TendInv, Shape
  <2>5. Shape'  BY <1>1, <1>4, <2>3, <2>4 DEF TendInv, Shape, Moves
  <2>6. Errand(p)'  BY <1>1, <1>2, <2>1, <2>3 DEF Moves, Errand
  <2>7. ASSUME NEW q \in Process PROVE Sees(q)'
    <3>1. CASE q = p  BY <1>1, <1>2, <2>1, <2>3, <3>1 DEF Moves, Sees
    <3>2. CASE q # p  BY <1>1, <2>3, <3>2 DEF TendInv, Sees, Moves
    <3> QED  BY <3>1, <3>2
  <2>8. Compatible(p, j)  BY <2>1, SameErrand DEF TendInv
  <2>9. ASSUME NEW s \in Repo, Smooth', git'[s] # "absent"
        PROVE  LinkedTo(s)' # {} \/ Minds(p, s)' \/ \E q \in Process \ {p} : Minds(q, s)
    <3>1. CASE s = r
      <4>1. j = job[p]  BY <1>4, <2>4, <2>9, <3>1
      <4> QED  BY <1>1, <2>3, <3>1, <4>1 DEF Minds, Moves
    <3>2. CASE s # r
      <4>1. LinkedTo(s)' = LinkedTo(s) /\ git[s] # "absent" /\ Smooth
        BY <1>1, <1>4, <2>4, <2>9, <3>2 DEF LinkedTo, Smooth
      <4>2. ~Minds(p, s)  BY <3>2 DEF Minds
      <4> QED  BY <4>1, <4>2 DEF TendInv, Tended
    <3> QED  BY <3>1, <3>2
  <2> QED  BY <2>1, <2>2, <2>3, <2>5, <2>6, <2>7, <2>8, <2>9, StepTends
<1>5. CASE git' = Becomes(git, r, "partial") /\ UNCHANGED <<pc, job, left>>
  BY <1>1, <1>3, <1>4, <1>5
<1>6. CASE git' = Becomes(git, r, "absent") /\ Recall(p, k) /\ UNCHANGED <<pc, left>>
  BY <1>4, <1>6
<1>7. CASE Spend("trouble") /\ Finish(p) /\ UNCHANGED git
  BY <1>1, <1>7, TroubleTends DEF disk
<1>8. \/ git' = Becomes(git, r, "partial") /\ UNCHANGED <<pc, job, left>>
      \/ git' = Becomes(git, r, "absent") /\ Recall(p, k) /\ UNCHANGED <<pc, left>>
      \/ Spend("trouble") /\ Finish(p) /\ UNCHANGED git
  BY DEF RemoveGit, k
<1> QED  BY <1>5, <1>6, <1>7, <1>8

LEMMA RemoveRestTends ==
  ASSUME TendInv, NEW p \in Process, RemoveLock(p) \/ Emptied(p) \/ RemoveRoot(p)
  PROVE  TendInv'
<1>1. /\ pc[p] \in {"remove", "rmdir"} /\ UNCHANGED <<link, git, inode, left>>
  BY DEF RemoveLock, Emptied, RemoveRoot, At, disk
<1>2. /\ job[p] \in Job /\ job[p].repo \in Repo /\ job[p].tree \in Tree
      /\ Errand(p) /\ Sees(p)
  BY <1>1, Busy
<1>3. file' \in [Repo -> Nat] /\ inode' \in Nat
  BY <1>1, <1>2 DEF RemoveLock, Emptied, RemoveRoot, Becomes, disk, TendInv, Shape
<1>4. "remove" \in Places /\ "rmdir" \in Places  BY DEF Places, Locked, Held
<1>5. CASE RemoveLock(p)
  <2> DEFINE k == [job[p] EXCEPT !.entries = @ \ {"lock"}]
  <2>1. /\ k \in Job /\ k.op = job[p].op /\ k.tree = job[p].tree /\ k.repo = job[p].repo
        /\ k.target = job[p].target /\ ("git" \in job[p].entries => "git" \in k.entries)
    BY <1>2 DEF Job
  <2>2. pc[p] = "remove" /\ pc' = pc /\ Recall(p, k)  BY <1>5 DEF RemoveLock, At
  <2> HIDE DEF k
  <2>3. Moves(p, "remove", k)  BY <1>4, <2>1, <2>2, Going DEF TendInv
  <2>4. Errand(p)' /\ Sees(p)'  BY <1>1, <1>2, <2>1, <2>2, <2>3 DEF Moves, Errand, Sees
  <2>5. \A s \in Repo : Minds(p, s) => Minds(p, s)'
    BY <2>1, <2>2, <2>3 DEF Moves, Minds
  <2> QED  BY <1>1, <1>3, <1>4, <2>1, <2>3, <2>4, <2>5, GoingOnTends
<1>6. CASE Emptied(p)
  <2>1. pc[p] = "remove" /\ job[p].entries = {} /\ Goto(p, "rmdir") /\ job' = job
    BY <1>6 DEF Emptied, At
  <2>2. Moves(p, "rmdir", job[p])  BY <1>2, <1>4, <2>1, Going DEF TendInv
  <2>3. Errand(p)' /\ Sees(p)'  BY <1>1, <1>2, <2>1, <2>2 DEF Moves, Errand, Sees
  <2>4. \A s \in Repo : ~Minds(p, s)  BY <2>1 DEF Minds
  <2> QED  BY <1>1, <1>2, <1>3, <1>4, <2>2, <2>3, <2>4, GoingOnTends
<1>7. CASE RemoveRoot(p)
  <2>1. pc[p] = "rmdir" /\ (Released(p) \/ Finish(p))  BY <1>7 DEF RemoveRoot, At
  <2>2. \A s \in Repo : ~Minds(p, s)  BY <2>1 DEF Minds
  <2>3. CASE Released(p)  BY <1>1, <1>3, <2>1, <2>2, <2>3, ReleasedTends
  <2>4. CASE Finish(p)
    BY <1>1, <1>3, <2>2, <2>4, FinishTends DEF TendInv, Shape, Smooth
  <2> QED  BY <2>1, <2>3, <2>4
<1> QED  BY <1>5, <1>6, <1>7

LEMMA NextTends == ASSUME TendInv, [Next]_vars PROVE TendInv'
<1>1. CASE Next
  <2>1. PICK p \in Process : Starts(p) \/ Proceeds(p) \/ Crash(p)  BY <1>1 DEF Next
  <2>2. CASE ShareClone(p)  BY <2>2, InitBareTends, LinkCloneTends DEF ShareClone
  <2>3. CASE ReleaseClone(p)
    BY <2>3, UnlinkTends, ScanLinksTends, RemoveGitTends, RemoveRestTends DEF ReleaseClone
  <2>4. CASE Crash(p)  BY <2>4, TroubleTends DEF Crash
  <2> QED
    BY <2>1, <2>2, <2>3, <2>4, BeginTends, HoldCloneTends, FetchTends DEF Proceeds
<1>2. CASE UNCHANGED vars
  <2>1. UNCHANGED <<link, git, file, inode, pc, job, left>>  BY <1>2 DEF vars, disk
  <2> QED
    BY <2>1
    DEF TendInv, Shape, Errand, Sees, Apart, Tended, Smooth, LinkedTo, Minds
<1> QED  BY <1>1, <1>2

LEMMA InitTended == Init => TendInv
<1> SUFFICES ASSUME Init PROVE TendInv
  OBVIOUS
<1>1. NoJob \in Job /\ NoJob.op = "none" /\ "idle" \in Places
  BY DEF NoJob, Job, Places
<1>2. Shape  BY <1>1, BoundsAssumption DEF Init, Shape, BoundsType
<1>3. ASSUME NEW p \in Process PROVE Errand(p) /\ Sees(p)
  BY <1>1 DEF Init, Errand, Sees, Changes
<1>4. Apart /\ Tended  BY <1>1 DEF Init, Apart, Tended
<1> QED  BY <1>2, <1>3, <1>4 DEF TendInv

(* release_clone: once all is quiet, and nothing was killed or failed, no  *)
(* clone is left that no tree links to.  It holds whether or not the lock  *)
(* file is the last entry of the clone's directory.                        *)
THEOREM NoneLeftBehind == Spec => []LastOneOut
<1>1. TendInv => LastOneOut
  BY DEF TendInv, Tended, Smooth, Minds, LastOneOut, At
<1> QED  BY <1>1, InitTended, NextTends, PTL DEF Spec
=============================================================================
