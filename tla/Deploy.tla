------------------------------- MODULE Deploy -------------------------------
(***************************************************************************)
(* One sheep's deploy tree and everyone who touches it.                    *)
(*                                                                         *)
(* The poll dog (src/poll) and operator commands (`deploy`, `deploy        *)
(* --stage`, `deploy --promote`, `--branch`, `--watch`) are processes that *)
(* share the tree on disk: the `current` link, the record `deploy.toml`,   *)
(* the release directories and their completion markers, and the tree      *)
(* lock.  The shepherd holds the sheep's settings table and the running    *)
(* instances.  One action per step between two points at which another     *)
(* process, the shepherd or a crash can intervene.                         *)
(*                                                                         *)
(* Abstractions.  A commit is a member of Sha.  The sheep runs as one      *)
(* unit: `running` is the release its serving instances were spawned from. *)
(* A record-lock critical section (one read and one write of a small file, *)
(* blocking flock) is one action.  Which releases are newest by mtime is   *)
(* left open, so pruning may doom any that nothing spares.                 *)
(***************************************************************************)
EXTENDS Naturals, FiniteSets

CONSTANTS
  Sha,        \* commits the branches may point at
  None,       \* "no sha", and "nobody" for the lock
  Branch,     \* branches the target may follow
  Dog,        \* the supervised poll process
  Operator,   \* processes running operator commands
  Commands,   \* which operator commands the environment issues
  Keep,       \* DogConfig::retention, the newest releases kept
  NoReload,   \* the shepherd has no reload of this sheep in flight
  Accepted,   \* a reload accepted, its replacement not yet spawned
  Skips,      \* pairs <<deployed, head>> that differ in no `reload` path
  Bounds      \* budgets of environment events, see BoundsType

Proc == {Dog} \cup Operator
MaybeSha == Sha \cup {None}
AllCommands == {"deploy", "stage", "promote", "branch", "watch"}
BoundsType ==
  [push: Nat,     \* pushes to the remote
   crash: Nat,    \* processes killed
   fault: Nat,    \* failed file and git operations
   reply: Nat,    \* shepherd requests that fail, or whose answer is lost
   repoint: Nat,  \* times `current` is repointed by hand
   remove: Nat,   \* times a release directory is removed by hand
   command: Nat]  \* operator commands started

ASSUME ShaAssumption ==
  /\ None \notin Sha /\ NoReload \notin Sha /\ Accepted \notin Sha
  /\ NoReload # Accepted
  /\ IsFiniteSet(Sha)
ASSUME BranchAssumption == Branch # {}
ASSUME ProcAssumption == Dog \notin Operator /\ None \notin Proc
ASSUME CommandAssumption == Commands \subseteq AllCommands
ASSUME KeepAssumption == Keep \in Nat /\ Keep >= 2
ASSUME SkipsAssumption == Skips \subseteq Sha \X Sha
ASSUME BoundsAssumption == Bounds \in BoundsType

VARIABLES
  current,    \* the release `current` links to
  record,     \* deploy.toml on disk: deployed, failed, staged
  release,    \* releases/<sha>: absent, partly checked out, or whole
  marker,     \* shas with a completion marker under complete/
  lock,       \* holder of the tree's exclusive flock
  table,      \* the sheep's [app.dogs.deploy] table, held by the shepherd
  remote,     \* the remote's branch heads
  running,    \* the release the serving instances were spawned from
  inflight,   \* the shepherd's reload: NoReload, Accepted, or the new release
  fresh,      \* which of the two were spawned since the last generation capture
  pc,         \* where each process is
  job,        \* each process's memory
  verified,   \* history: releases a verification has passed on
  left        \* what remains of Bounds

disk == <<current, record, release, marker>>
shepherd == <<running, inflight, fresh>>
vars == <<disk, lock, table, remote, shepherd, pc, job, verified, left>>

-----------------------------------------------------------------------------
(* Types.                                                                  *)

Record == [deployed: MaybeSha, failed: MaybeSha, staged: MaybeSha]
Table == [branch: Branch, watch: {"auto", "manual"}]

(* State::validate: a release that is serving is not also being held.      *)
Valid(r) == r.deployed = None \/ r.deployed # r.failed

(* The commands that go through `go`, and those that re-read under the lock. *)
Go == {"tick", "deploy"}
Rereads == {"stage", "promote"}
Settings == {"branch", "watch"}

(* What a process remembers: the record and branch it read (State), the    *)
(* sha it works on, what `current` named when it began, what it rolls back *)
(* to, whether the release landed, and for a settings write the table it   *)
(* read and the value it will put there.                                   *)
Job == [cmd: Go \cup Rereads \cup Settings \cup {"none"},
        state: Record, branch: Branch, head: MaybeSha, started: MaybeSha,
        to: MaybeSha, landed: BOOLEAN, table: Table]

NoJob ==
  [cmd |-> "none",
   state |-> [deployed |-> None, failed |-> None, staged |-> None],
   branch |-> CHOOSE b \in Branch : TRUE,
   head |-> None, started |-> None, to |-> None, landed |-> FALSE,
   table |-> [branch |-> CHOOSE b \in Branch : TRUE, watch |-> "manual"]]

(* Program counters at which a process is inside the tree lock whatever    *)
(* its command; a command that re-reads is also inside it while reading.   *)
Inside == {"check", "checkout", "adding", "build", "stageRead", "stageRecord",
           "swap", "capture", "reload", "verify", "landed", "undo", "rollback",
           "correct", "captureBack", "reloadBack", "verifyBack", "record",
           "prune", "removing"}
Outside == {"idle", "hold", "change", "lift"}
Reading == {"read", "adopt"}

Holds(p) == pc[p] \in Inside \/ (pc[p] \in Reading /\ job[p].cmd \in Rereads)

-----------------------------------------------------------------------------
(* Small steps shared by the actions.                                      *)

Goto(p, l) == pc' = [pc EXCEPT ![p] = l]
Recall(p, j) == job' = [job EXCEPT ![p] = j]

(* Spend one unit of an environment budget.                                *)
Spend(kind) == left[kind] > 0 /\ left' = [left EXCEPT ![kind] = @ - 1]

(* The process is done and drops its locals.                               *)
Finish(p) == Goto(p, "idle") /\ Recall(p, NoJob)

(* As Finish, dropping the `Deploying` guard with the function.            *)
Release(p) == Finish(p) /\ lock' = None

(* State::write of r over the record, answering whether it succeeded.  A   *)
(* record validate refuses is not written.  An I/O fault can come before   *)
(* the rename, with the old record in place, or after it, from sync_dir.   *)
WritesUnvalidated(r) == record' = r /\ UNCHANGED left  \* mutant: no validate
Writes(r) == Valid(r) /\ record' = r /\ UNCHANGED left
WriteFails(r) ==
  \/ ~Valid(r) /\ UNCHANGED <<record, left>>
  \/ Valid(r) /\ Spend("fault") /\ record' \in {record, r}

Exists(s) == s # None /\ release[s] # "absent"
Present == {s \in Sha : release[s] # "absent"}

(* A finished checkout: a release directory with its completion marker.    *)
FinishedUnmarked(s) == Exists(s)  \* mutant: the marker is not looked for
Finished(s) == Exists(s) /\ s \in marker

(* rollback_target: `current` as it was, then the recorded release, each   *)
(* only if it is another sha and still on disk.                            *)
UsableUnseen(s, attempted) == s # attempted /\ s # None  \* mutant: not looked for on disk
Usable(s, attempted) == s # attempted /\ Exists(s)
RollbackTarget(previous, recorded, attempted) ==
  IF Usable(previous, attempted) THEN previous
  ELSE IF Usable(recorded, attempted) THEN recorded
  ELSE None

-----------------------------------------------------------------------------
(* Reading the record and the settings, and taking the tree lock.          *)

(* A poll tick, or `shep-deploy deploy <sheep>`: settings::adopted reads   *)
(* the record before anything else, the tree lock included.                *)
StartGo(p, c) ==
  /\ pc[p] = "idle"
  /\ Recall(p, [job[p] EXCEPT !.cmd = c, !.state = record])
  /\ Goto(p, "adopt")
  /\ UNCHANGED <<disk, lock, table, remote, shepherd, verified>>

StartTick(p) == p = Dog /\ StartGo(p, "tick") /\ UNCHANGED left

StartDeploy(p) ==
  p \in Operator /\ "deploy" \in Commands /\ Spend("command") /\ StartGo(p, "deploy")

(* `--stage` and `--promote` take the lock first and read under it.        *)
StartReread(p, c) ==
  /\ pc[p] = "idle" /\ p \in Operator /\ c \in Commands \cap Rereads
  /\ Spend("command")
  /\ Recall(p, [job[p] EXCEPT !.cmd = c])
  /\ Goto(p, "hold")
  /\ UNCHANGED <<disk, lock, table, remote, shepherd, verified>>

Reread(p) ==
  /\ pc[p] = "read"
  /\ Recall(p, [job[p] EXCEPT !.state = record])
  /\ Goto(p, "adopt")
  /\ UNCHANGED <<disk, lock, table, remote, shepherd, verified, left>>

(* The rest of settings::adopted: the table is asked of the shepherd and   *)
(* `branch` and `watch` are adopted.  A tick passes over a target that is  *)
(* not due; a stage is refused on one that is watched.                     *)
Adopt(p) ==
  /\ pc[p] = "adopt"
  /\ UNCHANGED <<disk, table, remote, shepherd, verified, left>>
  /\ \/ /\ job[p].cmd \in Go
        /\ job[p].cmd = "tick" => table.watch = "auto"
        /\ Recall(p, [job[p] EXCEPT !.branch = table.branch])
        /\ Goto(p, "hold")
        /\ UNCHANGED lock
     \/ /\ job[p].cmd = "tick" /\ table.watch = "manual"
        /\ Finish(p) /\ UNCHANGED lock
     \/ /\ job[p].cmd \in Rereads
        /\ job[p].cmd = "stage" => table.watch = "manual"
        /\ Recall(p, [job[p] EXCEPT !.branch = table.branch])
        /\ Goto(p, "check")
        /\ UNCHANGED lock
     \/ /\ job[p].cmd = "stage" /\ table.watch = "auto"
        /\ Release(p)

(* lock::hold: an exclusive, non-blocking flock.  Refused as               *)
(* AlreadyDeploying if another process has it.                             *)
FreeToAll == TRUE  \* mutant: a shared flock
Free == lock = None

Hold(p) ==
  /\ pc[p] = "hold"
  /\ UNCHANGED <<disk, table, remote, shepherd, verified, left>>
  /\ \/ /\ Free
        /\ lock' = p
        /\ Goto(p, IF job[p].cmd \in Go THEN "check" ELSE "read")
        /\ UNCHANGED job
     \/ ~Free /\ Finish(p) /\ UNCHANGED lock

-----------------------------------------------------------------------------
(* From the lock to a built release.                                       *)

(* A record, table or lock file that cannot be read, a failed fetch or git *)
(* call: returned to the caller before the attempt begins, with nothing    *)
(* recorded and the lock dropped if it was taken.                          *)
Abandon(p) ==
  /\ pc[p] \in {"hold", "check"} \cup Reading /\ Spend("fault") /\ Finish(p)
  /\ lock' = IF lock = p THEN None ELSE lock
  /\ UNCHANGED <<disk, table, remote, shepherd, verified>>

(* NotCutOver: the record names no released sha.                           *)
RefuseUncut(p) ==
  /\ pc[p] = "check" /\ job[p].state.deployed = None /\ Release(p)
  /\ UNCHANGED <<disk, table, remote, shepherd, verified, left>>

(* `go` and `stage` after the fetch, when there is nothing to attempt:     *)
(* UpToDate or AlreadyLive, AlreadyStaged, and for a tick a held sha, which *)
(* only an operator retries, and a push that touches no `reload` path.     *)
NeverHeldBack(p, head) == FALSE  \* mutant: a tick retries a held head
HeldBack(p, head) == job[p].cmd = "tick" /\ head = job[p].state.failed

AlreadyStaged(p) ==
  LET head == remote[job[p].branch] IN
  job[p].state.staged = head /\ Finished(head)

NothingToDo(p) ==
  LET head == remote[job[p].branch] IN
  /\ pc[p] = "check" /\ job[p].cmd \in Go \cup {"stage"}
  /\ job[p].state.deployed # None
  /\ \/ head = job[p].state.deployed
     \/ HeldBack(p, head)
     \/ job[p].cmd = "tick" /\ <<job[p].state.deployed, head>> \in Skips
     \/ job[p].cmd = "stage" /\ AlreadyStaged(p)
  /\ Release(p)
  /\ UNCHANGED <<disk, table, remote, shepherd, verified, left>>

(* The head is to be attempted, a push that could have been skipped too:   *)
(* a failure to tell deploys it.  `started` is `current` as it was before  *)
(* the fetch.                                                              *)
Attempt(p) ==
  LET head == remote[job[p].branch] IN
  /\ pc[p] = "check" /\ job[p].cmd \in Go \cup {"stage"}
  /\ job[p].state.deployed # None
  /\ head # job[p].state.deployed
  /\ ~HeldBack(p, head)
  /\ job[p].cmd = "stage" => ~AlreadyStaged(p)
  /\ Recall(p, [job[p] EXCEPT !.head = head, !.started = current])
  /\ Goto(p, "checkout")
  /\ UNCHANGED <<disk, lock, table, remote, shepherd, verified, left>>

(* `promote` lands what is staged, whatever the branch says now.  Nothing  *)
(* staged, or a release gone or unfinished, is refused.                    *)
Promote(p) ==
  LET head == job[p].state.staged IN
  /\ pc[p] = "check" /\ job[p].cmd = "promote"
  /\ job[p].state.deployed # None
  /\ UNCHANGED <<disk, table, remote, shepherd, verified, left>>
  /\ \/ /\ Finished(head)
        /\ Recall(p, [job[p] EXCEPT !.head = head, !.started = current])
        /\ Goto(p, "build")
        /\ UNCHANGED lock
     \/ ~Finished(head) /\ Release(p)

(* checkout_release: a finished checkout is reused, anything else at the   *)
(* path is removed and `git worktree add` begins writing files.            *)
Reuse(p) ==
  /\ pc[p] = "checkout"
  /\ Finished(job[p].head)
  /\ Goto(p, "build")
  /\ UNCHANGED <<disk, lock, table, remote, shepherd, job, verified, left>>

BeginCheckout(p) ==
  /\ pc[p] = "checkout"
  /\ ~Finished(job[p].head)
  /\ release' = [release EXCEPT ![job[p].head] = "partial"]
  /\ Goto(p, "adding")
  /\ UNCHANGED <<current, record, marker, lock, table, remote, shepherd, job,
                 verified, left>>

(* `git worktree add` returns, and the marker is written after it.         *)
EndCheckout(p) ==
  /\ pc[p] = "adding"
  /\ release' = [release EXCEPT ![job[p].head] = "whole"]
  /\ marker' = marker \cup {job[p].head}
  /\ Goto(p, "build")
  /\ UNCHANGED <<current, record, lock, table, remote, shepherd, job, verified,
                 left>>

(* Where an attempt that failed before its swap goes: a deploy or promote  *)
(* is recorded, a stage only prunes.                                       *)
Failing(p) == Goto(p, IF job[p].cmd = "stage" THEN "prune" ELSE "record")

(* An add fails; or git refuses it, since an earlier one was killed and    *)
(* left the path locked (Shelf).                                           *)
CheckoutFails(p) ==
  /\ pc[p] = "adding" /\ Failing(p)
  /\ LET cleared == [release EXCEPT ![job[p].head] = "absent"] IN
     \/ Spend("fault") /\ release' \in {release, cleared}
     \/ left.crash < Bounds.crash /\ release' = cleared /\ UNCHANGED left
  /\ UNCHANGED <<current, record, marker, lock, table, remote, shepherd, job,
                 verified>>

(* The build and the release hook (for a promote, the hook alone), and the *)
(* refusal of a probed sheep nothing gates.                                *)
Build(p) ==
  /\ pc[p] = "build"
  /\ Goto(p, IF job[p].cmd = "stage" THEN "stageRead" ELSE "swap")
  /\ UNCHANGED <<disk, lock, table, remote, shepherd, job, verified, left>>

BuildFails(p) ==
  /\ pc[p] = "build" /\ Failing(p)
  /\ UNCHANGED <<disk, lock, table, remote, shepherd, job, verified, left>>

(* record_staged: the table is read, and then under the record lock the    *)
(* record on disk, not the one remembered, is written with `staged` set;   *)
(* refused if the branch moved while the head was building.                *)
ReadTable(p) ==
  /\ pc[p] = "stageRead"
  /\ Recall(p, [job[p] EXCEPT !.table = table])
  /\ Goto(p, "stageRecord")
  /\ UNCHANGED <<disk, lock, table, remote, shepherd, verified, left>>

WithStaged(p) == [record EXCEPT !.staged = job[p].head]

RecordStaged(p) ==
  LET next == WithStaged(p) IN
  /\ pc[p] = "stageRecord"
  /\ Goto(p, "prune")
  /\ UNCHANGED <<current, release, marker, lock, table, remote, shepherd, verified>>
  /\ \/ /\ job[p].table.branch # job[p].branch
        /\ Recall(p, [job[p] EXCEPT !.state = record])
        /\ UNCHANGED <<record, left>>
     \/ /\ job[p].table.branch = job[p].branch /\ Writes(next)
        /\ Recall(p, [job[p] EXCEPT !.state = next])
     \/ /\ job[p].table.branch = job[p].branch /\ WriteFails(next)
        /\ UNCHANGED job

-----------------------------------------------------------------------------
(* swap_and_land: the swap, the reload and the verdict.                    *)

(* `current` is repointed unless it moved since `started` was read (Raced) *)
(* or cannot be.  Either of those is recorded against the sha.             *)
Swap(p) ==
  /\ pc[p] = "swap"
  /\ UNCHANGED <<record, release, marker, lock, table, remote, shepherd, job, verified>>
  /\ \/ /\ current = job[p].started
        /\ current' = job[p].head
        /\ Goto(p, "capture") /\ UNCHANGED left
     \/ current # job[p].started /\ Goto(p, "record") /\ UNCHANGED <<current, left>>
     \/ Spend("fault") /\ Goto(p, "record") /\ UNCHANGED current

(* Generation::of: every pid the sheep has now is an old one.              *)
Capture(p) ==
  /\ pc[p] = "capture"
  /\ UNCHANGED <<disk, lock, table, remote, running, inflight, job, verified>>
  /\ \/ fresh' = {} /\ Goto(p, "reload") /\ UNCHANGED left
     \/ Spend("reply") /\ Goto(p, "undo") /\ UNCHANGED fresh

(* The shepherd takes a reload unless one is in flight.                    *)
Accept == inflight = NoReload /\ inflight' = Accepted

(* `land` asks for the reload.  A refusal never reached the sheep and only *)
(* the link is put back; a lost answer may hide an acceptance, so it is    *)
(* rolled back in full.                                                    *)
Reload(p) ==
  /\ pc[p] = "reload"
  /\ UNCHANGED <<disk, lock, table, remote, running, fresh, job, verified>>
  /\ \/ Accept /\ Goto(p, "verify") /\ UNCHANGED left
     \/ inflight # NoReload /\ Goto(p, "undo") /\ UNCHANGED <<inflight, left>>
     \/ Spend("reply") /\ Goto(p, "undo") /\ UNCHANGED inflight
     \/ /\ Spend("reply") /\ Goto(p, "rollback")
        /\ Accept \/ UNCHANGED inflight

(* verify::wait passes only on a whole flock spawned since the capture,    *)
(* with no drained or starting instance beside it.  It gives up whenever   *)
(* the budget, the dwell or a failed describe says so.                     *)
StandingStill == inflight \notin Sha  \* mutant: old instances count as well
TurnedOver == "running" \in fresh /\ inflight \notin Sha

Verify(p) ==
  /\ pc[p] = "verify"
  /\ UNCHANGED <<disk, lock, table, remote, shepherd, job, left>>
  /\ \/ TurnedOver /\ Goto(p, "landed") /\ verified' = verified \cup {running}
     \/ Goto(p, "rollback") /\ UNCHANGED verified

(* record_landing: the head is deployed, and the hold and the staged       *)
(* release go in the same write.  When it fails memory keeps only the new  *)
(* `deployed`; the outcome is Deployed either way.                         *)
LandedUnwritten(p) ==  \* mutant: the record is left to the bookkeeping
  /\ pc[p] = "landed" /\ Goto(p, "record")
  /\ Recall(p, [job[p] EXCEPT !.landed = TRUE, !.state.deployed = job[p].head])
  /\ UNCHANGED <<disk, lock, table, remote, shepherd, verified, left>>

LandedHeld(p) ==  \* mutant: the hold is not lifted in the same write
  LET next == [job[p].state EXCEPT !.deployed = job[p].head, !.staged = None] IN
  /\ pc[p] = "landed" /\ Goto(p, "record") /\ Writes(next)
  /\ Recall(p, [job[p] EXCEPT !.landed = TRUE, !.state = next])
  /\ UNCHANGED <<current, release, marker, lock, table, remote, shepherd, verified>>

Landed(p) ==
  LET next == [deployed |-> job[p].head, failed |-> None, staged |-> None] IN
  /\ pc[p] = "landed"
  /\ Goto(p, "record")
  /\ UNCHANGED <<current, release, marker, lock, table, remote, shepherd, verified>>
  /\ \/ /\ Writes(next)
        /\ Recall(p, [job[p] EXCEPT !.landed = TRUE, !.state = next])
     \/ /\ WriteFails(next)
        /\ Recall(p, [job[p] EXCEPT !.landed = TRUE, !.state.deployed = job[p].head])

-----------------------------------------------------------------------------
(* Putting the old release back.                                           *)

Target(p) == RollbackTarget(job[p].started, job[p].state.deployed, job[p].head)

(* undo_swap: the link goes back, and no reload is asked for.  With nothing *)
(* to go back to, or a link that will not move, `current` stays.           *)
UndoNothing(p) ==  \* mutant: a refused reload is only recorded
  /\ pc[p] = "undo" /\ Goto(p, "record")
  /\ UNCHANGED <<disk, lock, table, remote, shepherd, job, verified, left>>

Undo(p) ==
  /\ pc[p] = "undo" /\ Goto(p, "record")
  /\ UNCHANGED <<record, release, marker, lock, table, remote, shepherd, job, verified>>
  /\ \/ Target(p) # None /\ current' = Target(p) /\ UNCHANGED left
     \/ Target(p) = None /\ UNCHANGED <<current, left>>
     \/ Spend("fault") /\ UNCHANGED current

(* roll_back, and the first step of `restore`: the link goes back and the  *)
(* record is corrected if it names another release.                        *)
Rollback(p) ==
  /\ pc[p] = "rollback"
  /\ UNCHANGED <<record, release, marker, lock, table, remote, shepherd, verified>>
  /\ \/ /\ Target(p) # None
        /\ current' = Target(p)
        /\ Recall(p, [job[p] EXCEPT !.to = Target(p)])
        /\ Goto(p, IF job[p].state.deployed # Target(p) THEN "correct" ELSE "captureBack")
        /\ UNCHANGED left
     \/ Target(p) = None /\ Goto(p, "record") /\ UNCHANGED <<current, job, left>>
     \/ Spend("fault") /\ Goto(p, "record") /\ UNCHANGED <<current, job>>

Correct(p) ==
  LET next == [job[p].state EXCEPT !.deployed = job[p].to] IN
  /\ pc[p] = "correct"
  /\ Recall(p, [job[p] EXCEPT !.state = next])
  /\ UNCHANGED <<current, release, marker, lock, table, remote, shepherd, verified>>
  /\ \/ Writes(next) /\ Goto(p, "captureBack")
     \/ WriteFails(next) /\ Goto(p, "record")

(* reload_until takes the generation before every attempt, and a capture   *)
(* that fails stops only the verdict.                                      *)
CaptureBack(p) ==
  /\ pc[p] = "captureBack"
  /\ fresh' = {}
  /\ Goto(p, "reloadBack")
  /\ UNCHANGED <<disk, lock, table, remote, running, inflight, job, verified, left>>

(* The rollback's reload is accepted, or refused, or its answer lost,      *)
(* until patience runs out (Split) or for a reason that cannot clear.      *)
ReloadBack(p) ==
  /\ pc[p] = "reloadBack"
  /\ UNCHANGED <<disk, lock, table, remote, running, fresh, job, verified>>
  /\ \/ Accept /\ Goto(p, "verifyBack") /\ UNCHANGED left
     \/ inflight # NoReload /\ Goto(p, "record") /\ UNCHANGED <<inflight, left>>
     \/ Spend("reply") /\ Goto(p, "record") /\ (Accept \/ UNCHANGED inflight)

(* An attempt refused while another reload is in flight, or one whose      *)
(* answer was lost, is made again.                                         *)
Retry(p) ==
  /\ pc[p] = "reloadBack" /\ Goto(p, "captureBack")
  /\ UNCHANGED <<disk, lock, table, remote, running, fresh, job, verified>>
  /\ \/ inflight # NoReload /\ UNCHANGED <<inflight, left>>
     \/ Spend("reply") /\ (Accept \/ UNCHANGED inflight)

(* The rollback's own verdict: RolledBack, or RollbackUnverified.          *)
VerifyBack(p) ==
  /\ pc[p] = "verifyBack" /\ Goto(p, "record")
  /\ UNCHANGED <<disk, lock, table, remote, shepherd, job, left>>
  /\ \/ TurnedOver /\ verified' = verified \cup {running}
     \/ UNCHANGED verified

-----------------------------------------------------------------------------
(* The bookkeeping of every ending.                                        *)

(* `record`: a head that did not land is held and one that did is not, if  *)
(* memory says otherwise.  Memory is written over the disk whole, unless   *)
(* the disk says the failing head has landed, which is adopted instead.    *)
FailedNever(j) == None  \* mutant: a failure is not held
Failed(j) == IF j.landed THEN None ELSE j.head

OutcomeUnstaged(j) == [j.state EXCEPT !.failed = Failed(j), !.staged = None]  \* mutant
Outcome(j) == [j.state EXCEPT !.failed = Failed(j)]

RecordOutcome(p) ==
  LET failed == Failed(job[p])
      next == Outcome(job[p])
      landedElsewhere == failed # None /\ record.deployed = failed IN
  /\ pc[p] = "record"
  /\ Goto(p, "prune")
  /\ UNCHANGED <<current, release, marker, lock, table, remote, shepherd, verified>>
  /\ \/ job[p].state.failed = failed /\ UNCHANGED <<record, job, left>>
     \/ /\ job[p].state.failed # failed /\ landedElsewhere
        /\ Recall(p, [job[p] EXCEPT !.state = record])
        /\ UNCHANGED <<record, left>>
     \/ /\ job[p].state.failed # failed /\ ~landedElsewhere
        /\ Recall(p, [job[p] EXCEPT !.state = next])
        /\ Writes(next) \/ WriteFails(next)

(* What retention::prune spares whatever its age: `current`, and what the  *)
(* record names in memory and (after a deploy or a promote) on disk.       *)
SparedLive(p) == {current, job[p].state.deployed, record.deployed}  \* mutant: no `staged`
Spared(p) ==
  {current, job[p].state.deployed, job[p].state.staged}
    \cup (IF job[p].cmd = "stage" THEN {} ELSE {record.deployed, record.staged})

(* Removing one release past the newest Keep.  `git worktree remove`       *)
(* deletes file by file, and only then is the marker removed.              *)
BeginRemoval(p) ==
  /\ pc[p] = "prune" /\ Cardinality(Present) > Keep
  /\ \E s \in Present \ Spared(p) :
       /\ release' = [release EXCEPT ![s] = "partial"]
       /\ Recall(p, [job[p] EXCEPT !.to = s])
  /\ Goto(p, "removing")
  /\ UNCHANGED <<current, record, marker, lock, table, remote, shepherd,
                 verified, left>>

EndRemoval(p) ==
  /\ pc[p] = "removing" /\ Goto(p, "prune")
  /\ UNCHANGED <<current, record, lock, table, remote, shepherd, job, verified>>
  /\ \/ /\ release' = [release EXCEPT ![job[p].to] = "absent"]
        /\ marker' = marker \ {job[p].to}
        /\ UNCHANGED left
     \/ Spend("fault") /\ UNCHANGED <<release, marker>>

(* sweep_markers, and the end of the operation.                            *)
Sweep(p) ==
  /\ pc[p] = "prune"
  /\ marker' = marker \cap Present
  /\ Release(p)
  /\ UNCHANGED <<current, record, release, table, remote, shepherd, verified, left>>

-----------------------------------------------------------------------------
(* set_branch and set_watch, which do not take the tree lock.              *)

(* settings::change reads the sheep's table, and writes it back whole.     *)
(* Refused on a tree that was never cut over, save for `manual`.  A write  *)
(* that is refused, or whose answer is lost, ends the command.             *)
StartSettings(p, c, changed) ==
  /\ pc[p] = "idle" /\ p \in Operator /\ c \in Commands \cap Settings
  /\ Spend("command")
  /\ record.deployed # None \/ changed = [table EXCEPT !.watch = "manual"]
  /\ Recall(p, [job[p] EXCEPT !.cmd = c, !.table = changed])
  /\ Goto(p, "change")
  /\ UNCHANGED <<disk, lock, table, remote, shepherd, verified>>

StartBranch(p) == \E b \in Branch : StartSettings(p, "branch", [table EXCEPT !.branch = b])
StartWatch(p) ==
  \E w \in {"auto", "manual"} : StartSettings(p, "watch", [table EXCEPT !.watch = w])

Change(p) ==
  /\ pc[p] = "change"
  /\ UNCHANGED <<disk, lock, remote, shepherd, verified>>
  /\ \/ /\ job[p].cmd = "branch" /\ table' = job[p].table
        /\ Goto(p, "lift") /\ UNCHANGED <<job, left>>
     \/ job[p].cmd = "watch" /\ table' = job[p].table /\ Finish(p) /\ UNCHANGED left
     \/ Spend("reply") /\ table' \in {table, job[p].table} /\ Finish(p)

(* set_branch then lifts the hold, re-reading the record under its lock.   *)
Lift(p) ==
  LET next == [record EXCEPT !.failed = None] IN
  /\ pc[p] = "lift" /\ Finish(p)
  /\ Writes(next) \/ WriteFails(next)
  /\ UNCHANGED <<current, release, marker, lock, table, remote, shepherd, verified>>

-----------------------------------------------------------------------------
(* The shepherd and the environment.                                       *)

(* A replacement is spawned from wherever `current` leads at that moment.  *)
Spawn ==
  /\ inflight = Accepted
  /\ inflight' = current /\ fresh' = fresh \cup {"inflight"}
  /\ UNCHANGED <<disk, lock, table, remote, running, pc, job, verified, left>>

(* It becomes ready and the old instance is drained.                       *)
TurnOver ==
  /\ inflight \in Sha
  /\ running' = inflight /\ inflight' = NoReload
  /\ fresh' = IF "inflight" \in fresh THEN {"running"} ELSE {}
  /\ UNCHANGED <<disk, lock, table, remote, pc, job, verified, left>>

(* It cannot be spawned or never becomes ready, and the reload is dropped. *)
GiveUp ==
  /\ inflight # NoReload
  /\ inflight' = NoReload /\ fresh' = fresh \ {"inflight"}
  /\ UNCHANGED <<disk, lock, table, remote, running, pc, job, verified, left>>

(* The sheep dies and is restarted, from `current`, under a new pid.       *)
Restart ==
  /\ running' = current /\ fresh' = fresh \cup {"running"}
  /\ UNCHANGED <<disk, lock, table, remote, inflight, pc, job, verified, left>>

(* A process is killed.  The kernel drops its lock; everything else it     *)
(* left behind stays.                                                      *)
Crash(p) ==
  /\ pc[p] # "idle" /\ Spend("crash") /\ Finish(p)
  /\ lock' = IF lock = p THEN None ELSE lock
  /\ UNCHANGED <<disk, table, remote, shepherd, verified>>

Push(b, s) ==
  /\ remote[b] # s /\ Spend("push")
  /\ remote' = [remote EXCEPT ![b] = s]
  /\ UNCHANGED <<disk, lock, table, shepherd, pc, job, verified>>

(* An operator repoints `current`, though not while releases are pruned    *)
(* (prune reads `current` once, at its start), or removes a release's      *)
(* directory while nothing is being deployed.                              *)
HandRepoint(s) ==
  /\ s # current /\ release[s] = "whole" /\ Spend("repoint")
  /\ \A p \in Proc : pc[p] \notin {"prune", "removing"}
  /\ current' = s
  /\ UNCHANGED <<record, release, marker, lock, table, remote, shepherd, pc, job,
                 verified>>

HandRemove(s) ==
  /\ s \in Present \ {current} /\ lock = None /\ Spend("remove")
  /\ release' = [release EXCEPT ![s] = "absent"]
  /\ UNCHANGED <<current, record, marker, lock, table, remote, shepherd, pc, job,
                 verified>>

-----------------------------------------------------------------------------
(* The specification.                                                      *)

(* A tree setup has built, on which the cutover landed or did not.         *)
InitAt(first) ==
  /\ current = first
  /\ record \in [deployed: {first, None}, failed: {None}, staged: {None}]
  /\ release = [s \in Sha |-> IF s = first THEN "whole" ELSE "absent"]
  /\ marker = {first}
  /\ lock = None
  /\ table \in Table
  /\ record.deployed = None => table.watch = "manual"
  /\ remote = [b \in Branch |-> first]
  /\ running = first /\ inflight = NoReload /\ fresh = {}
  /\ pc = [p \in Proc |-> "idle"]
  /\ job = [p \in Proc |-> NoJob]
  /\ verified = {first}
  /\ left = Bounds

Init == \E first \in Sha : InitAt(first)

(* An operator, or the environment, begins something.                      *)
Starts(p) ==
  \/ StartDeploy(p)
  \/ \E c \in Rereads : StartReread(p, c)
  \/ StartBranch(p)
  \/ StartWatch(p)

(* What the code does next in an operation it has begun.                   *)
Proceeds(p) ==
  \/ Reread(p) \/ Adopt(p) \/ Hold(p)
  \/ RefuseUncut(p) \/ NothingToDo(p) \/ Attempt(p) \/ Promote(p)
  \/ Reuse(p) \/ BeginCheckout(p) \/ EndCheckout(p)
  \/ Build(p) \/ BuildFails(p) \/ ReadTable(p) \/ RecordStaged(p)
  \/ Swap(p) \/ Capture(p) \/ Reload(p) \/ Verify(p) \/ Landed(p)
  \/ Undo(p) \/ Rollback(p) \/ Correct(p)
  \/ CaptureBack(p) \/ ReloadBack(p) \/ VerifyBack(p)
  \/ RecordOutcome(p) \/ BeginRemoval(p) \/ EndRemoval(p) \/ Sweep(p)
  \/ Change(p) \/ Lift(p)

Step(p) ==
  \/ StartTick(p) \/ Starts(p) \/ Proceeds(p)
  \/ Abandon(p) \/ CheckoutFails(p) \/ Retry(p) \/ Crash(p)

Shepherd == Spawn \/ TurnOver \/ GiveUp \/ Restart

Environment ==
  \/ \E b \in Branch, s \in Sha : Push(b, s)
  \/ \E s \in Sha : HandRepoint(s) \/ HandRemove(s)

Next == (\E p \in Proc : Step(p)) \/ Shepherd \/ Environment

Spec == Init /\ [][Next]_vars

(* A poll tick comes round every interval, an operation that began goes on *)
(* to its end, and the shepherd settles every reload.  Nothing makes an    *)
(* operator, a push, a fault or a crash happen.                            *)
Fairness ==
  /\ WF_vars(StartTick(Dog))
  /\ \A p \in Proc : WF_vars(Proceeds(p))
  /\ WF_vars(Spawn \/ TurnOver \/ GiveUp)

FairSpec == Spec /\ Fairness

-----------------------------------------------------------------------------
(* Properties.                                                             *)

(* Every variable keeps to its type.                                       *)
TypeOK ==
  /\ current \in Sha
  /\ record \in Record /\ Valid(record)
  /\ release \in [Sha -> {"absent", "partial", "whole"}]
  /\ marker \subseteq Sha
  /\ lock \in Proc \cup {None}
  /\ table \in Table
  /\ remote \in [Branch -> Sha]
  /\ running \in Sha
  /\ inflight \in Sha \cup {NoReload, Accepted}
  /\ fresh \subseteq {"running", "inflight"}
  /\ pc \in [Proc -> Inside \cup Outside \cup Reading]
  /\ job \in [Proc -> Job]
  /\ verified \subseteq Sha
  /\ left \in BoundsType

(* lock.rs: two processes are never inside a deploy of one sheep, whatever *)
(* is killed: whoever is inside holds the flock.                           *)
Exclusive == \A p \in Proc : Holds(p) => lock = p

(* checkout_release: what is built, and then served, is the whole commit,  *)
(* never a checkout a kill or a removal left part of.                      *)
BuildsWhole ==
  \A p \in Proc : pc[p] \in {"build", "swap"} => release[job[p].head] = "whole"

(* `current` always leads to a whole release: a swap, a rollback onto an   *)
(* older release and retention never leave it dangling.                    *)
ServedIntact == release[current] = "whole"

(* retention::prune never takes a release the record names as deployed or  *)
(* as staged and waiting for its promote; only an operator's hand can.     *)
RecordedKept ==
  left.remove = Bounds.remove =>
    \A s \in {record.deployed, record.staged} \ {None} : release[s] = "whole"

(* verify::wait: whenever a verification could pass, what runs is the      *)
(* release under judgement: a deploy's head, or a rollback's target.       *)
VerdictIsOfHead ==
  \A p \in Proc : TurnedOver =>
    /\ pc[p] \in {"verify", "landed"} => running = job[p].head
    /\ pc[p] = "verifyBack" => running = job[p].to

(* With nobody working on the tree, the record names what `current` names. *)
Agreement == lock = None => record.deployed \in {None, current}

(* state.deployed advances only after a verification has passed.           *)
DeployedVerified == record.deployed \in verified \cup {None}

(* With nobody working on the tree, the release that is serving is not the *)
(* one that is held.                                                       *)
NeverHoldsWhatServes == lock = None => record.failed # current

(* A tick never attempts the sha the record on disk holds.                 *)
HoldRespected ==
  [][pc[Dog] = "check" /\ pc'[Dog] = "checkout" => job'[Dog].head # record.failed]_vars

(* A sha becomes held only by recording what an attempt on it came to:     *)
(* nothing brings back a hold that --branch lifted.                        *)
HoldOnlyFromAttempt ==
  [][record'.failed \notin {None, record.failed} =>
       \E p \in Proc : pc[p] = "record" /\ job[p].head = record'.failed]_vars

(* A staged release stays recorded until a deploy lands.                   *)
StagedUntilLanded ==
  [][record.staged # None /\ record'.staged = None =>
       \E p \in Proc : pc[p] = "landed"]_vars

(* Once nobody pushes, kills or commands any more, a watched target settles *)
(* on its branch head, live or held or with nothing to reload for, and is  *)
(* not built again on every tick.                                          *)
Settled ==
  LET head == remote[table.branch] IN
  \/ table.watch = "manual"
  \/ head \in {record.deployed, record.failed}
  \/ <<record.deployed, head>> \in Skips

Settles == <>[](Settled /\ \A p \in Proc : pc[p] # "build")

=============================================================================
