---------------------------- MODULE DeployProofs ----------------------------
(***************************************************************************)
(* Proofs about Deploy, for every set of commits, branches and operators   *)
(* and every budget: type correctness, mutual exclusion through the tree   *)
(* lock, and that a verdict is about the release it names.                 *)
(*                                                                         *)
(* Each invariant is shown to hold of every process's step, action by      *)
(* action; the shepherd's and the environment's steps are few.             *)
(***************************************************************************)
EXTENDS Deploy, TLAPS

Labels == Inside \cup Outside \cup Reading

StartRereads(p) == \E c \in Rereads : StartReread(p, c)

(* Where a process is about to build, swap in or judge its head, the head  *)
(* is a commit.                                                            *)
Headed == {"checkout", "adding", "build", "swap"}
HeadKnown == \A p \in Proc : pc[p] \in Headed => job[p].head \in Sha

(* Type correctness is not inductive alone: `current` becomes a head.      *)
TypeInv == TypeOK /\ HeadKnown

-----------------------------------------------------------------------------
(* The record of a job.                                                    *)

LEMMA NoJobType == NoJob \in Job
  BY BranchAssumption DEF NoJob, Job, Record, MaybeSha, Table, Go, Rereads, Settings

LEMMA JobFields ==
  ASSUME NEW j \in Job
  PROVE  /\ j.state \in Record /\ j.branch \in Branch /\ j.table \in Table
         /\ j.head \in MaybeSha /\ j.started \in MaybeSha /\ j.to \in MaybeSha
         /\ j.state.deployed \in MaybeSha /\ j.state.staged \in MaybeSha
  BY DEF Job, Record

LEMMA JobUpdates ==
  ASSUME NEW j \in Job
  PROVE  /\ \A c \in Rereads : [j EXCEPT !.cmd = c] \in Job
         /\ \A c \in Go, r \in Record : [j EXCEPT !.cmd = c, !.state = r] \in Job
         /\ \A c \in Settings, t \in Table : [j EXCEPT !.cmd = c, !.table = t] \in Job
         /\ \A r \in Record : [j EXCEPT !.state = r] \in Job
         /\ \A r \in Record : [j EXCEPT !.landed = TRUE, !.state = r] \in Job
         /\ \A t \in Table : [j EXCEPT !.table = t] \in Job
         /\ \A b \in Branch : [j EXCEPT !.branch = b] \in Job
         /\ \A h, s \in MaybeSha : [j EXCEPT !.head = h, !.started = s] \in Job
         /\ \A s \in MaybeSha : [j EXCEPT !.to = s] \in Job
         /\ \A h \in MaybeSha : [j EXCEPT !.landed = TRUE, !.state.deployed = h] \in Job
  BY DEF Job, Record

LEMMA RecordUpdates ==
  ASSUME NEW r \in Record, NEW s \in MaybeSha
  PROVE  /\ [r EXCEPT !.deployed = s] \in Record
         /\ [r EXCEPT !.failed = s] \in Record
         /\ [r EXCEPT !.staged = s] \in Record
         /\ [deployed |-> s, failed |-> None, staged |-> None] \in Record
  BY DEF Record, MaybeSha

LEMMA TableUpdates ==
  ASSUME NEW t \in Table
  PROVE  /\ \A b \in Branch : [t EXCEPT !.branch = b] \in Table
         /\ \A w \in {"auto", "manual"} : [t EXCEPT !.watch = w] \in Table
  BY DEF Table

LEMMA RecallType ==
  ASSUME job \in [Proc -> Job], NEW p \in Proc, NEW j \in Job, Recall(p, j)
  PROVE  job' \in [Proc -> Job]
  BY DEF Recall

-----------------------------------------------------------------------------
(* What one process's step does to each part of the state.                 *)

(* A step of one process leaves the others where they are.                 *)
LEMMA OthersStep ==
  ASSUME TypeOK, NEW p \in Proc, Step(p), NEW q \in Proc, q # p
  PROVE  pc'[q] = pc[q] /\ job'[q] = job[q]
<1>1. CASE StartTick(p) \/ StartDeploy(p) \/ StartRereads(p) \/ Reread(p) \/
          Adopt(p) \/ Hold(p) \/ Abandon(p) \/ RefuseUncut(p) \/
          NothingToDo(p) \/ Attempt(p)
  BY <1>1 DEF StartTick, StartGo, StartDeploy, StartRereads, StartReread,
       Reread, Adopt, Hold, Abandon, RefuseUncut, NothingToDo, Attempt,
       TypeOK, Goto, Finish, Release, Failing, Recall
<1>2. CASE Promote(p) \/ Reuse(p) \/ BeginCheckout(p) \/ EndCheckout(p) \/
          CheckoutFails(p) \/ Build(p) \/ BuildFails(p) \/ ReadTable(p) \/
          RecordStaged(p) \/ Swap(p)
  BY <1>2 DEF Promote, Reuse, BeginCheckout, EndCheckout, CheckoutFails,
       Build, BuildFails, ReadTable, RecordStaged, Swap, TypeOK, Goto,
       Finish, Release, Failing, Recall
<1>3. CASE Capture(p) \/ Reload(p) \/ Verify(p) \/ Landed(p) \/ Undo(p) \/
          Rollback(p) \/ Correct(p) \/ CaptureBack(p) \/ ReloadBack(p) \/
          Retry(p)
  BY <1>3 DEF Capture, Reload, Verify, Landed, Undo, Rollback, Correct,
       CaptureBack, ReloadBack, Retry, TypeOK, Goto, Finish, Release,
       Failing, Recall
<1>4. CASE VerifyBack(p) \/ RecordOutcome(p) \/ BeginRemoval(p) \/
          EndRemoval(p) \/ Sweep(p) \/ Change(p) \/ Lift(p) \/ StartBranch(p)
          \/ StartWatch(p) \/ Crash(p)
  BY <1>4 DEF VerifyBack, RecordOutcome, BeginRemoval, EndRemoval, Sweep,
       Change, Lift, StartBranch, StartSettings, StartWatch, Crash, TypeOK,
       Goto, Finish, Release, Failing, Recall
<1>5. QED
  BY <1>1, <1>2, <1>3, <1>4 DEF Step, Starts, Proceeds, StartRereads

LEMMA PcStep ==
  ASSUME TypeOK, NEW p \in Proc, Step(p)
  PROVE  pc' \in [Proc -> Labels]
<1>1. CASE StartTick(p) \/ StartDeploy(p) \/ StartRereads(p) \/ Reread(p) \/
          Adopt(p) \/ Hold(p) \/ Abandon(p) \/ RefuseUncut(p) \/
          NothingToDo(p) \/ Attempt(p)
  BY <1>1 DEF StartTick, StartGo, StartDeploy, StartRereads, StartReread,
       Reread, Adopt, Hold, Abandon, RefuseUncut, NothingToDo, Attempt,
       TypeOK, Goto, Finish, Release, Failing, Labels, Inside, Outside,
       Reading
<1>2. CASE Promote(p) \/ Reuse(p) \/ BeginCheckout(p) \/ EndCheckout(p) \/
          CheckoutFails(p) \/ Build(p) \/ BuildFails(p) \/ ReadTable(p) \/
          RecordStaged(p) \/ Swap(p)
  BY <1>2 DEF Promote, Reuse, BeginCheckout, EndCheckout, CheckoutFails,
       Build, BuildFails, ReadTable, RecordStaged, Swap, TypeOK, Goto,
       Finish, Release, Failing, Labels, Inside, Outside, Reading
<1>3. CASE Capture(p) \/ Reload(p) \/ Verify(p) \/ Landed(p) \/ Undo(p) \/
          Rollback(p) \/ Correct(p) \/ CaptureBack(p) \/ ReloadBack(p) \/
          Retry(p)
  BY <1>3 DEF Capture, Reload, Verify, Landed, Undo, Rollback, Correct,
       CaptureBack, ReloadBack, Retry, TypeOK, Goto, Finish, Release,
       Failing, Labels, Inside, Outside, Reading
<1>4. CASE VerifyBack(p) \/ RecordOutcome(p) \/ BeginRemoval(p) \/
          EndRemoval(p) \/ Sweep(p) \/ Change(p) \/ Lift(p) \/ StartBranch(p)
          \/ StartWatch(p) \/ Crash(p)
  BY <1>4 DEF VerifyBack, RecordOutcome, BeginRemoval, EndRemoval, Sweep,
       Change, Lift, StartBranch, StartSettings, StartWatch, Crash, TypeOK,
       Goto, Finish, Release, Failing, Labels, Inside, Outside, Reading
<1>5. QED
  BY <1>1, <1>2, <1>3, <1>4 DEF Step, Starts, Proceeds, StartRereads

LEMMA JobStep ==
  ASSUME TypeOK, NEW p \in Proc, Step(p)
  PROVE  job' \in [Proc -> Job]
<1> /\ job \in [Proc -> Job] /\ job[p] \in Job /\ record \in Record /\ table \in Table
    /\ current \in MaybeSha /\ job[p].state.staged \in MaybeSha
    /\ job[p].head \in MaybeSha /\ job[p].state \in Record
  BY JobFields DEF TypeOK, MaybeSha
<1>1. CASE Reuse(p) \/ BeginCheckout(p) \/ EndCheckout(p) \/ CheckoutFails(p)
          \/ Build(p) \/ BuildFails(p) \/ Swap(p) \/ Capture(p) \/ Reload(p)
          \/ Verify(p) \/ Undo(p) \/ CaptureBack(p) \/ ReloadBack(p) \/
          Retry(p) \/ VerifyBack(p) \/ EndRemoval(p)
  BY <1>1 DEF Reuse, BeginCheckout, EndCheckout, CheckoutFails, Build,
       BuildFails, Swap, Capture, Reload, Verify, Undo, CaptureBack,
       ReloadBack, Retry, VerifyBack, EndRemoval, Failing
<1>2. CASE StartTick(p) \/ StartDeploy(p)
  BY <1>2, NoJobType, JobUpdates, RecordUpdates, RecallType DEF StartTick,
       StartGo, StartDeploy, Go
<1>3. CASE StartRereads(p) \/ Reread(p) \/ ReadTable(p)
  BY <1>3, NoJobType, JobUpdates, RecordUpdates, RecallType DEF
       StartRereads, StartReread, Reread, ReadTable
<1>4. CASE Adopt(p)
  BY <1>4, NoJobType, JobUpdates, RecordUpdates, RecallType DEF Adopt,
       TypeOK, Finish, Release, Table
<1>5. CASE Hold(p) \/ Abandon(p) \/ RefuseUncut(p) \/ NothingToDo(p) \/
          Sweep(p) \/ Lift(p) \/ Crash(p) \/ Change(p)
  BY <1>5, NoJobType, RecallType DEF Hold, Abandon, RefuseUncut,
       NothingToDo, Sweep, Lift, Crash, Change, Finish, Release
<1>6. CASE Attempt(p)
  <2>1. remote[job[p].branch] \in MaybeSha
    BY JobFields DEF TypeOK, MaybeSha
  <2>2. [job[p] EXCEPT !.head = remote[job[p].branch], !.started = current] \in Job
    BY <2>1, JobUpdates
  <2>3. QED
    BY <1>6, <2>2, RecallType DEF Attempt
<1>7. CASE Promote(p)
  BY <1>7, NoJobType, JobUpdates, RecordUpdates, RecallType DEF Promote,
       Finish, Release
<1>8. CASE RecordStaged(p)
  BY <1>8, NoJobType, JobUpdates, RecordUpdates, RecallType DEF
       RecordStaged, WithStaged
<1>9. CASE Landed(p)
  <2>1. [deployed |-> job[p].head, failed |-> None, staged |-> None] \in Record
    BY RecordUpdates
  <2>2. /\ [job[p] EXCEPT !.landed = TRUE, !.state.deployed = job[p].head] \in Job
        /\ [job[p] EXCEPT !.landed = TRUE, !.state =
              [deployed |-> job[p].head, failed |-> None, staged |-> None]] \in Job
    BY <2>1, JobUpdates
  <2>3. QED
    BY <1>9, <2>2, RecallType DEF Landed
<1>10. CASE Rollback(p)
  BY <1>10, NoJobType, JobUpdates, RecordUpdates, RecallType, JobFields DEF
       Rollback, TypeOK, Target, RollbackTarget, Usable
<1>11. CASE Correct(p)
  BY <1>11, NoJobType, JobUpdates, RecordUpdates, RecallType, JobFields DEF
       Correct
<1>12. CASE RecordOutcome(p)
  BY <1>12, NoJobType, JobUpdates, RecordUpdates, RecallType DEF
       RecordOutcome, MaybeSha, Failed, Outcome
<1>13. CASE BeginRemoval(p)
  BY <1>13, NoJobType, JobUpdates, RecordUpdates, RecallType DEF
       BeginRemoval, MaybeSha, Present
<1>14. CASE StartBranch(p) \/ StartWatch(p)
  BY <1>14, NoJobType, JobUpdates, RecordUpdates, RecallType, TableUpdates
       DEF StartBranch, StartSettings, StartWatch, Settings
<1>15. QED
  BY <1>1, <1>2, <1>3, <1>4, <1>5, <1>6, <1>7, <1>8, <1>9, <1>10, <1>11,
       <1>12, <1>13, <1>14 DEF Step, Starts, Proceeds, StartRereads

LEMMA HeadStep ==
  ASSUME TypeInv, NEW p \in Proc, Step(p)
  PROVE  pc'[p] \in Headed => job'[p].head \in Sha
<1> USE DEF TypeInv
<1> /\ pc \in [Proc -> Labels] /\ job \in [Proc -> Job] /\ job[p] \in Job
    /\ pc[p] \in Headed => job[p].head \in Sha
  BY DEF TypeOK, HeadKnown, Labels
<1>1. CASE StartTick(p) \/ StartDeploy(p) \/ StartRereads(p) \/ Reread(p) \/
          Abandon(p) \/ RefuseUncut(p) \/ NothingToDo(p) \/ CheckoutFails(p)
          \/ BuildFails(p) \/ ReadTable(p) \/ RecordStaged(p) \/ Swap(p) \/
          Capture(p) \/ Reload(p) \/ Verify(p) \/ Landed(p) \/ Undo(p) \/
          Rollback(p) \/ Correct(p) \/ CaptureBack(p) \/ ReloadBack(p) \/
          Retry(p) \/ VerifyBack(p) \/ RecordOutcome(p) \/ BeginRemoval(p) \/
          EndRemoval(p) \/ Sweep(p) \/ Change(p) \/ Lift(p) \/ StartBranch(p)
          \/ StartWatch(p) \/ Crash(p)
  BY <1>1 DEF StartTick, StartGo, StartDeploy, StartRereads, StartReread,
       Reread, Abandon, RefuseUncut, NothingToDo, CheckoutFails, BuildFails,
       ReadTable, RecordStaged, Swap, Capture, Reload, Verify, Landed, Undo,
       Rollback, Correct, CaptureBack, ReloadBack, Retry, VerifyBack,
       RecordOutcome, BeginRemoval, EndRemoval, Sweep, Change, Lift,
       StartBranch, StartSettings, StartWatch, Crash, Goto, Finish, Release,
       Failing, Headed
<1>2. CASE Adopt(p) \/ Hold(p)
  BY <1>2 DEF Adopt, Hold, Goto, Finish, Release, Headed
<1>3. CASE Reuse(p) \/ BeginCheckout(p) \/ EndCheckout(p) \/ Build(p)
  BY <1>3 DEF Reuse, BeginCheckout, EndCheckout, Build, Goto, Headed
<1>4. CASE Attempt(p)
  BY <1>4 DEF Attempt, TypeOK, Recall, Job
<1>5. CASE Promote(p)
  <2>1. CASE Finish(p)
    BY <2>1 DEF Finish, Goto, Headed
  <2>2. CASE Recall(p, [job[p] EXCEPT !.head = job[p].state.staged, !.started = current])
    <3>1. job'[p] = [job[p] EXCEPT !.head = job[p].state.staged, !.started = current]
      BY <2>2 DEF Recall
    <3>2. job'[p].head = job[p].state.staged
      BY <3>1 DEF Job
    <3>3. CASE Exists(job[p].state.staged)
      BY <3>2, <3>3, JobFields DEF Exists, MaybeSha
    <3>4. CASE ~Exists(job[p].state.staged)
      BY <1>5, <3>4 DEF Promote, Finished, Release, Finish, Goto, Headed
    <3>5. QED
      BY <3>3, <3>4
  <2>3. QED
    BY <1>5, <2>1, <2>2 DEF Promote, Release
<1>6. QED
  BY <1>1, <1>2, <1>3, <1>4, <1>5 DEF Step, Starts, Proceeds, StartRereads

LEMMA DiskStep ==
  ASSUME TypeInv, NEW p \in Proc, Step(p)
  PROVE  /\ current' \in Sha
         /\ record' \in Record /\ Valid(record)'
         /\ release' \in [Sha -> {"absent", "partial", "whole"}]
         /\ marker' \subseteq Sha
<1> /\ job[p] \in Job
    /\ pc[p] \in Headed => job[p].head \in Sha
  BY DEF TypeInv, TypeOK, HeadKnown
<1> TypeOK
  BY DEF TypeInv
<1>1. CASE BeginCheckout(p) \/ EndCheckout(p) \/ CheckoutFails(p) \/ Swap(p)
          \/ BeginRemoval(p) \/ EndRemoval(p) \/ Sweep(p)
  BY <1>1 DEF BeginCheckout, EndCheckout, CheckoutFails, Swap, BeginRemoval,
       EndRemoval, Sweep, TypeOK, Headed
<1>2. CASE RecordStaged(p) \/ Landed(p) \/ Correct(p)
  BY <1>2 DEF RecordStaged, Landed, Correct, TypeOK, WithStaged, Writes,
       WriteFails, Valid, Record, Job, MaybeSha
<1>3. CASE RecordOutcome(p) \/ Lift(p)
  BY <1>3 DEF RecordOutcome, Lift, TypeOK, Failed, Outcome, Writes,
       WriteFails, Valid, Record, Job, MaybeSha
<1>4. CASE Undo(p) \/ Rollback(p)
  BY <1>4 DEF Undo, Rollback, TypeOK, Target, RollbackTarget, Usable,
       Exists, Job, Record, MaybeSha
<1>5. CASE StartTick(p) \/ StartDeploy(p) \/ StartRereads(p) \/ Reread(p) \/
          Adopt(p) \/ Hold(p) \/ Abandon(p) \/ RefuseUncut(p) \/
          NothingToDo(p) \/ Attempt(p) \/ Promote(p) \/ Reuse(p) \/ Build(p)
          \/ BuildFails(p) \/ ReadTable(p) \/ Capture(p) \/ Reload(p) \/
          Verify(p) \/ CaptureBack(p) \/ ReloadBack(p) \/ Retry(p) \/
          VerifyBack(p) \/ Change(p) \/ StartBranch(p) \/ StartWatch(p) \/
          Crash(p)
  BY <1>5 DEF StartTick, StartGo, StartDeploy, StartRereads, StartReread,
       Reread, Adopt, Hold, Abandon, RefuseUncut, NothingToDo, Attempt,
       Promote, Reuse, Build, BuildFails, ReadTable, Capture, Reload,
       Verify, CaptureBack, ReloadBack, Retry, VerifyBack, Change,
       StartBranch, StartSettings, StartWatch, Crash, TypeOK, disk, Valid
<1>6. QED
  BY <1>1, <1>2, <1>3, <1>4, <1>5 DEF Step, Starts, Proceeds, StartRereads

LEMMA RestStep ==
  ASSUME TypeOK, NEW p \in Proc, Step(p)
  PROVE  /\ lock' \in Proc \cup {None} /\ table' \in Table /\ remote' \in [Branch -> Sha]
         /\ running' \in Sha /\ inflight' \in Sha \cup {NoReload, Accepted}
         /\ fresh' \subseteq {"running", "inflight"}
         /\ verified' \subseteq Sha
<1> job[p] \in Job
  BY DEF TypeOK
<1>1. CASE Hold(p) \/ Adopt(p) \/ Abandon(p) \/ RefuseUncut(p) \/
          NothingToDo(p) \/ Promote(p) \/ Sweep(p) \/ Crash(p) \/ Change(p) \/
          Capture(p) \/ Reload(p) \/ Verify(p) \/ CaptureBack(p) \/
          ReloadBack(p) \/ Retry(p) \/ VerifyBack(p)
  BY <1>1 DEF Hold, Adopt, Abandon, RefuseUncut, NothingToDo, Promote,
       Sweep, Crash, Change, Capture, Reload, Verify, CaptureBack,
       ReloadBack, Retry, VerifyBack, TypeOK, shepherd, Release, Accept, Job
<1>2. CASE StartTick(p) \/ StartDeploy(p) \/ StartRereads(p) \/ Reread(p) \/
          Attempt(p) \/ Reuse(p) \/ BeginCheckout(p) \/ EndCheckout(p) \/
          CheckoutFails(p) \/ Build(p) \/ BuildFails(p) \/ ReadTable(p) \/
          RecordStaged(p) \/ Swap(p) \/ Landed(p) \/ Undo(p) \/ Rollback(p) \/
          Correct(p) \/ RecordOutcome(p) \/ BeginRemoval(p) \/ EndRemoval(p)
          \/ Lift(p) \/ StartBranch(p) \/ StartWatch(p)
  BY <1>2 DEF StartTick, StartGo, StartDeploy, StartRereads, StartReread,
       Reread, Attempt, Reuse, BeginCheckout, EndCheckout, CheckoutFails,
       Build, BuildFails, ReadTable, RecordStaged, Swap, Landed, Undo,
       Rollback, Correct, RecordOutcome, BeginRemoval, EndRemoval, Lift,
       StartBranch, StartSettings, StartWatch, TypeOK, shepherd
<1>3. QED
  BY <1>1, <1>2 DEF Step, Starts, Proceeds, StartRereads

(* No process adds to a budget, and none repoints `current` by hand.       *)
LEMMA SpendStep ==
  ASSUME TypeOK,
         \/ UNCHANGED left
         \/ \E k \in {"crash", "fault", "reply", "command"} : Spend(k)
  PROVE  left' \in BoundsType /\ left'.repoint = left.repoint
  BY DEF TypeOK, Spend, BoundsType

LEMMA BudgetStep ==
  ASSUME TypeOK, NEW p \in Proc, Step(p)
  PROVE  left' \in BoundsType /\ left'.repoint = left.repoint
<1>1. CASE StartDeploy(p) \/ StartRereads(p) \/ Abandon(p) \/ CheckoutFails(p)
          \/ StartBranch(p) \/ StartWatch(p) \/ Crash(p) \/ EndRemoval(p)
  BY <1>1, SpendStep DEF StartDeploy, StartGo, StartRereads, StartReread,
       Abandon, CheckoutFails, StartBranch, StartSettings, StartWatch,
       Crash, EndRemoval
<1>2. CASE RecordStaged(p) \/ Landed(p) \/ Correct(p) \/ RecordOutcome(p) \/
          Lift(p)
  BY <1>2, SpendStep DEF RecordStaged, Landed, Correct, RecordOutcome, Lift,
       Writes, WriteFails
<1>3. CASE Swap(p) \/ Capture(p) \/ Reload(p) \/ Undo(p) \/ Rollback(p) \/
          ReloadBack(p) \/ Retry(p) \/ Change(p)
  BY <1>3, SpendStep DEF Swap, Capture, Reload, Undo, Rollback, ReloadBack,
       Retry, Change
<1>4. CASE StartTick(p) \/ Reread(p) \/ Adopt(p) \/ Hold(p) \/ RefuseUncut(p)
          \/ NothingToDo(p) \/ Attempt(p) \/ Promote(p) \/ Reuse(p) \/
          BeginCheckout(p) \/ EndCheckout(p) \/ Build(p) \/ BuildFails(p) \/
          ReadTable(p) \/ Verify(p) \/ CaptureBack(p) \/ VerifyBack(p) \/
          BeginRemoval(p) \/ Sweep(p)
  BY <1>4 DEF StartTick, StartGo, Reread, Adopt, Hold, RefuseUncut,
       NothingToDo, Attempt, Promote, Reuse, BeginCheckout, EndCheckout,
       Build, BuildFails, ReadTable, Verify, CaptureBack, VerifyBack,
       BeginRemoval, Sweep, TypeOK
<1>5. QED
  BY <1>1, <1>2, <1>3, <1>4 DEF Step, Starts, Proceeds, StartRereads

-----------------------------------------------------------------------------
(* The tree lock.                                                          *)

LEMMA FinishLeaves ==
  ASSUME pc \in [Proc -> Labels], NEW p \in Proc, Finish(p)
  PROVE  ~Holds(p)'
  BY DEF Finish, Goto, Holds, Inside, Reading

LEMMA StartOutside ==
  ASSUME TypeOK, NEW p \in Proc, NEW c \in Go, StartGo(p, c)
  PROVE  ~Holds(p)'
<1>1. pc'[p] = "adopt" /\ job'[p] = [job[p] EXCEPT !.cmd = c, !.state = record]
  BY DEF TypeOK, StartGo, Goto, Recall
<1>2. [job[p] EXCEPT !.cmd = c, !.state = record].cmd = c
  BY DEF TypeOK, Job
<1>3. QED
  BY <1>1, <1>2 DEF Holds, Inside, Reading, Go, Rereads

(* A process enters the tree only by taking the lock, and leaves it with   *)
(* the lock.                                                               *)
LEMMA LockStep ==
  ASSUME TypeOK, Exclusive, NEW p \in Proc, Step(p)
  PROVE  \/ lock' = lock /\ (Holds(p)' => Holds(p))
         \/ lock = None /\ lock' = p
         \/ lock = p /\ lock' = None /\ ~Holds(p)'
<1> /\ pc \in [Proc -> Labels] /\ job \in [Proc -> Job] /\ job[p] \in Job
    /\ Holds(p) => lock = p
  BY DEF TypeOK, Exclusive, Labels
<1>1. CASE Reuse(p) \/ BeginCheckout(p) \/ EndCheckout(p) \/ CheckoutFails(p)
          \/ Build(p) \/ BuildFails(p) \/ ReadTable(p) \/ RecordStaged(p) \/
          Swap(p) \/ Capture(p) \/ Reload(p) \/ Verify(p) \/ Landed(p) \/
          Undo(p) \/ Rollback(p) \/ Correct(p) \/ CaptureBack(p) \/
          ReloadBack(p) \/ Retry(p) \/ VerifyBack(p) \/ RecordOutcome(p) \/
          BeginRemoval(p) \/ EndRemoval(p) \/ Attempt(p)
  BY <1>1 DEF Reuse, BeginCheckout, EndCheckout, CheckoutFails, Build,
       BuildFails, ReadTable, RecordStaged, Swap, Capture, Reload, Verify,
       Landed, Undo, Rollback, Correct, CaptureBack, ReloadBack, Retry,
       VerifyBack, RecordOutcome, BeginRemoval, EndRemoval, Attempt, Holds,
       Inside
<1>2. CASE StartTick(p) \/ StartDeploy(p)
  BY <1>2, StartOutside DEF StartTick, StartGo, StartDeploy, Go
<1>3. CASE StartRereads(p) \/ StartBranch(p) \/ StartWatch(p)
  BY <1>3 DEF StartRereads, StartReread, StartBranch, StartSettings,
       StartWatch, Goto, Holds, Inside, Reading
<1>4. CASE Reread(p)
  BY <1>4 DEF Reread, Goto, Recall, Holds, Inside, Reading, Job
<1>5. CASE Hold(p) \/ Lift(p) \/ Crash(p) \/ Change(p)
  BY <1>5, FinishLeaves DEF Hold, Lift, Crash, Change, Free, Goto, Holds,
       Inside, Reading
<1>6. CASE Adopt(p)
  BY <1>6, FinishLeaves DEF Adopt, Holds, Inside, Reading, Goto, Recall,
       Release, Rereads, Go
<1>7. CASE Abandon(p) \/ RefuseUncut(p) \/ NothingToDo(p) \/ Promote(p) \/
          Sweep(p)
  BY <1>7, FinishLeaves DEF Abandon, RefuseUncut, NothingToDo, Promote,
       Sweep, Release, Holds, Inside
<1>8. QED
  BY <1>1, <1>2, <1>3, <1>4, <1>5, <1>6, <1>7 DEF Step, Starts, Proceeds,
       StartRereads

(* Only the process inside the tree moves the link or asks for a reload.   *)
LEMMA OutsideStep ==
  ASSUME TypeOK, NEW p \in Proc, Step(p), ~Holds(p)
  PROVE  UNCHANGED <<current, running, inflight, fresh>>
<1>1. CASE Swap(p) \/ Capture(p) \/ Reload(p) \/ Undo(p) \/ Rollback(p) \/
          CaptureBack(p) \/ ReloadBack(p) \/ Retry(p)
  BY <1>1 DEF Swap, Capture, Reload, Undo, Rollback, CaptureBack,
       ReloadBack, Retry, Holds, Inside
<1>2. QED
  BY <1>1 DEF Step, Starts, Proceeds, disk, shepherd, StartTick, StartGo,
       StartDeploy, StartRereads, StartReread, Reread, Adopt, Hold, Abandon,
       RefuseUncut, NothingToDo, Attempt, Promote, Reuse, BeginCheckout,
       EndCheckout, CheckoutFails, Build, BuildFails, ReadTable,
       RecordStaged, Verify, Landed, Correct, VerifyBack, RecordOutcome,
       BeginRemoval, EndRemoval, Sweep, Change, Lift, StartBranch,
       StartSettings, StartWatch, Crash

-----------------------------------------------------------------------------
(* Type correctness.                                                       *)

LEMMA TypeInit == Init => TypeInv
<1> SUFFICES ASSUME NEW first \in Sha, InitAt(first)
             PROVE  TypeInv
  BY DEF Init
<1>1. job \in [Proc -> Job] /\ pc \in [Proc -> Labels]
  BY NoJobType DEF InitAt, Labels, Outside
<1>2. record \in Record /\ Valid(record)
  BY ShaAssumption DEF InitAt, Record, MaybeSha, Valid
<1>3. TypeOK
  BY <1>1, <1>2, BoundsAssumption DEF InitAt, TypeOK, Labels
<1>4. HeadKnown
  BY DEF InitAt, HeadKnown, Headed
<1>5. QED
  BY <1>3, <1>4 DEF TypeInv

LEMMA TypeShepherd ==
  ASSUME TypeInv, Shepherd \/ Environment
  PROVE  TypeInv'
<1> USE DEF TypeInv, TypeOK
<1>1. HeadKnown'
  BY DEF HeadKnown, Shepherd, Environment, Spawn, TurnOver, GiveUp, Restart,
         Push, HandRepoint, HandRemove
<1>2. CASE Spawn \/ TurnOver \/ GiveUp \/ Restart
  BY <1>1, <1>2 DEF Spawn, TurnOver, GiveUp, Restart, disk, Valid
<1>3. ASSUME NEW b \in Branch, NEW s \in Sha, Push(b, s)
      PROVE  TypeInv'
  BY <1>1, <1>3 DEF Push, Spend, disk, shepherd, Valid, BoundsType
<1>4. ASSUME NEW s \in Sha, HandRepoint(s)
      PROVE  TypeInv'
  BY <1>1, <1>4 DEF HandRepoint, Spend, shepherd, Valid, BoundsType
<1>5. ASSUME NEW s \in Sha, HandRemove(s)
      PROVE  TypeInv'
  BY <1>1, <1>5 DEF HandRemove, Spend, shepherd, Valid, BoundsType
<1>6. QED
  BY <1>2, <1>3, <1>4, <1>5 DEF Shepherd, Environment

LEMMA TypeNext == TypeInv /\ [Next]_vars => TypeInv'
<1> SUFFICES ASSUME TypeInv, [Next]_vars PROVE TypeInv'
  OBVIOUS
<1>1. ASSUME NEW p \in Proc, Step(p) PROVE TypeInv'
  <2> TypeOK
    BY DEF TypeInv
  <2>1. TypeOK'
    BY <1>1, PcStep, JobStep, DiskStep, RestStep, BudgetStep DEF TypeOK, Labels
  <2>2. HeadKnown'
    BY <1>1, OthersStep, HeadStep DEF TypeInv, HeadKnown
  <2>3. QED
    BY <2>1, <2>2 DEF TypeInv
<1>2. CASE Shepherd \/ Environment
  BY <1>2, TypeShepherd
<1>3. CASE UNCHANGED vars
  BY <1>3 DEF TypeInv, TypeOK, HeadKnown, vars, disk, shepherd, Valid
<1>4. QED
  BY <1>1, <1>2, <1>3 DEF Next

LEMMA TypeInvariant == Spec => []TypeInv
  BY TypeInit, TypeNext, PTL DEF Spec

(* Whatever the commits, processes and budgets, every variable keeps its   *)
(* type: in particular no handler of src/deploy leaves `current` naming no *)
(* release, or writes a record that State::validate would refuse to read.  *)
THEOREM TypeCorrect == Spec => []TypeOK
<1>1. TypeInv => TypeOK
  BY DEF TypeInv
<1>2. QED
  BY <1>1, TypeInvariant, PTL

-----------------------------------------------------------------------------
(* Mutual exclusion.                                                       *)

LEMMA ExclusiveNext == TypeInv /\ Exclusive /\ [Next]_vars => Exclusive'
<1> SUFFICES ASSUME TypeInv, Exclusive, [Next]_vars, NEW q \in Proc, Holds(q)'
             PROVE  lock' = q
  BY DEF Exclusive
<1> TypeOK
  BY DEF TypeInv
<1>1. ASSUME NEW p \in Proc, Step(p) PROVE lock' = q
  <2>1. CASE q = p
    BY <1>1, <2>1, LockStep DEF Exclusive
  <2>2. CASE q # p
    <3>1. Holds(q) /\ lock = q
      BY <1>1, <2>2, OthersStep DEF Exclusive, Holds
    <3>2. lock' = lock
      BY <1>1, <2>2, <3>1, LockStep, ProcAssumption
    <3>3. QED
      BY <3>1, <3>2
  <2>3. QED
    BY <2>1, <2>2
<1>2. CASE Shepherd \/ Environment
  BY <1>2 DEF Exclusive, Holds, Shepherd, Environment, Spawn, TurnOver, GiveUp,
              Restart, Push, HandRepoint, HandRemove
<1>3. CASE UNCHANGED vars
  BY <1>3 DEF Exclusive, Holds, vars
<1>4. QED
  BY <1>1, <1>2, <1>3 DEF Next

(* At most one process is inside a deploy of the tree (lock.rs), however   *)
(* many operators there are and whoever is killed: the lock is taken only  *)
(* when it is free and given up only together with the tree.               *)
THEOREM MutualExclusion == Spec => []Exclusive
<1>1. Init => Exclusive
  BY DEF Init, InitAt, Exclusive, Holds, Inside, Reading
<1>2. QED
  BY <1>1, TypeInvariant, ExclusiveNext, PTL DEF Spec

-----------------------------------------------------------------------------
(* A verdict is about the release under judgement.                         *)

(* From the swap to the verdict `current` is the head, and from a          *)
(* rollback's swap to its verdict it is the rollback's target.             *)
Forward == {"capture", "reload", "verify", "landed"}
Backward == {"correct", "captureBack", "reloadBack", "verifyBack"}
Onto(p) ==
  /\ pc[p] \in Forward => current = job[p].head
  /\ pc[p] \in Backward => current = job[p].to

(* Once the generation is captured, every instance spawned since was       *)
(* spawned from what `current` has named all that time.                    *)
Judging == {"reload", "verify", "landed", "reloadBack", "verifyBack"}
SpawnedFrom(c) ==
  /\ "running" \in fresh => running = c
  /\ "inflight" \in fresh /\ inflight \in Sha => inflight = c
Spawned(p) == pc[p] \in Judging => SpawnedFrom(current)

(* Nobody repoints `current` by hand.                                      *)
HandsOff == left.repoint = 0

VerdictInv == HandsOff /\ \A p \in Proc : Onto(p) /\ Spawned(p)

LEMMA JudgedHolds ==
  ASSUME NEW p \in Proc, pc[p] \in Forward \cup Backward
  PROVE  Holds(p)
  BY DEF Forward, Backward, Holds, Inside

(* The step of the process that is itself under way.                       *)
LEMMA OntoStep ==
  ASSUME TypeOK, VerdictInv, NEW p \in Proc, Step(p)
  PROVE  Onto(p)' /\ Spawned(p)'
<1> /\ pc \in [Proc -> Labels] /\ job \in [Proc -> Job] /\ job[p] \in Job
    /\ Onto(p) /\ Spawned(p)
    /\ NoReload \notin Sha /\ Accepted \notin Sha
  BY ShaAssumption DEF TypeOK, VerdictInv, Labels
<1>1. CASE StartTick(p) \/ StartDeploy(p) \/ StartRereads(p) \/ Reread(p) \/
          Adopt(p) \/ Hold(p) \/ Abandon(p) \/ RefuseUncut(p) \/
          NothingToDo(p) \/ Attempt(p) \/ Promote(p) \/ Reuse(p) \/
          BeginCheckout(p) \/ EndCheckout(p) \/ CheckoutFails(p) \/ Build(p)
          \/ BuildFails(p) \/ ReadTable(p) \/ RecordStaged(p) \/ Landed(p) \/
          Undo(p) \/ RecordOutcome(p) \/ BeginRemoval(p) \/ EndRemoval(p) \/ Sweep(p) \/
          Change(p) \/ Lift(p) \/ StartBranch(p) \/ StartWatch(p) \/ Crash(p)
  BY <1>1 DEF StartTick, StartGo, StartDeploy, StartRereads, StartReread,
       Reread, Adopt, Hold, Abandon, RefuseUncut, NothingToDo, Attempt,
       Promote, Reuse, BeginCheckout, EndCheckout, CheckoutFails, Build,
       BuildFails, ReadTable, RecordStaged, Landed, Undo, RecordOutcome,
       BeginRemoval, EndRemoval, Sweep, Change, Lift, StartBranch, StartSettings,
       StartWatch, Crash, Goto, Finish, Release, Failing, Onto, Spawned,
       Forward, Backward, Judging
<1>2. CASE Swap(p)
  BY <1>2 DEF Swap, Goto, Onto, Spawned, Forward, Backward, Judging
<1>3. CASE Capture(p) \/ CaptureBack(p)
  BY <1>3 DEF Capture, CaptureBack, disk, Goto, Onto, Spawned, SpawnedFrom,
       Forward, Backward, Judging
<1>4. CASE Reload(p)
  BY <1>4 DEF Reload, Accept, disk, Goto, Onto, Spawned, SpawnedFrom,
       Forward, Backward, Judging
<1>5. CASE Verify(p) \/ VerifyBack(p)
  BY <1>5 DEF Verify, VerifyBack, disk, shepherd, Goto, Onto, Spawned,
       SpawnedFrom, Forward, Backward, Judging
<1>6. CASE Rollback(p)
  <2>1. [job[p] EXCEPT !.to = Target(p)].to = Target(p)
    BY DEF Job
  <2>2. QED
    BY <1>6, <2>1 DEF Rollback, Goto, Recall, Onto, Spawned, Forward,
         Backward, Judging
<1>7. CASE Correct(p)
  BY <1>7 DEF Correct, Goto, Recall, Onto, Spawned, Forward, Backward,
       Judging, Job
<1>8. CASE ReloadBack(p) \/ Retry(p)
  BY <1>8 DEF ReloadBack, Retry, Accept, disk, Goto, Onto, Spawned,
       SpawnedFrom, Forward, Backward, Judging
<1>9. QED
  BY <1>1, <1>2, <1>3, <1>4, <1>5, <1>6, <1>7, <1>8 DEF Step, Starts,
       Proceeds, StartRereads

(* Everyone else is outside the tree meanwhile, so what one process is     *)
(* judging stands still under the others' steps.                           *)
LEMMA OntoOthers ==
  ASSUME TypeOK, Exclusive, VerdictInv, NEW p \in Proc, Step(p),
         NEW q \in Proc, q # p
  PROVE  Onto(q)' /\ Spawned(q)'
<1>1. Onto(q) /\ Spawned(q) /\ pc'[q] = pc[q] /\ job'[q] = job[q]
  BY OthersStep DEF VerdictInv
<1>2. CASE pc[q] \in Forward \cup Backward
  <2>1. ~Holds(p)
    BY <1>2, JudgedHolds DEF Exclusive
  <2>2. QED
    BY <1>1, <2>1, OutsideStep DEF Onto, Spawned, SpawnedFrom
<1>3. CASE pc[q] \notin Forward \cup Backward
  BY <1>1, <1>3 DEF Onto, Spawned, Forward, Backward, Judging
<1>4. QED
  BY <1>2, <1>3

(* The shepherd only ever spawns from `current`.                           *)
LEMMA OntoShepherd ==
  ASSUME TypeOK, VerdictInv, Shepherd \/ Environment, NEW p \in Proc
  PROVE  Onto(p)' /\ Spawned(p)'
<1> /\ Onto(p) /\ Spawned(p) /\ HandsOff
    /\ NoReload \notin Sha /\ Accepted \notin Sha
  BY ShaAssumption DEF VerdictInv
<1>1. CASE Shepherd
  BY <1>1 DEF Shepherd, Spawn, TurnOver, GiveUp, Restart, disk, Onto, Spawned,
       SpawnedFrom
<1>2. CASE Environment
  BY <1>2 DEF Environment, Push, HandRepoint, HandRemove, Spend, HandsOff,
       disk, shepherd, Onto, Spawned, SpawnedFrom
<1>3. QED
  BY <1>1, <1>2

LEMMA HandsOffNext == TypeOK /\ HandsOff /\ [Next]_vars => HandsOff'
<1> SUFFICES ASSUME TypeOK, HandsOff, [Next]_vars PROVE HandsOff'
  OBVIOUS
<1>1. ASSUME NEW p \in Proc, Step(p) PROVE HandsOff'
  BY <1>1, BudgetStep DEF HandsOff
<1>2. CASE Shepherd \/ Environment
  BY <1>2 DEF Shepherd, Spawn, TurnOver, GiveUp, Restart, Environment, Push,
       HandRepoint, HandRemove, Spend, HandsOff, TypeOK, BoundsType
<1>3. CASE UNCHANGED vars
  BY <1>3 DEF vars, HandsOff
<1>4. QED
  BY <1>1, <1>2, <1>3 DEF Next

LEMMA VerdictNext ==
  TypeInv /\ Exclusive /\ VerdictInv /\ [Next]_vars => VerdictInv'
<1> SUFFICES ASSUME TypeInv, Exclusive, VerdictInv, [Next]_vars
             PROVE  VerdictInv'
  OBVIOUS
<1> TypeOK
  BY DEF TypeInv
<1>1. HandsOff'
  BY HandsOffNext DEF VerdictInv
<1>2. ASSUME NEW p \in Proc, Step(p), NEW q \in Proc
      PROVE  Onto(q)' /\ Spawned(q)'
  BY <1>2, OntoStep, OntoOthers
<1>3. ASSUME Shepherd \/ Environment, NEW q \in Proc
      PROVE  Onto(q)' /\ Spawned(q)'
  BY <1>3, OntoShepherd
<1>4. CASE UNCHANGED vars
  BY <1>4 DEF VerdictInv, HandsOff, vars, disk, shepherd, Onto, Spawned,
       SpawnedFrom
<1>5. QED
  BY <1>1, <1>2, <1>3, <1>4 DEF VerdictInv, Next

(* A verdict never vouches for another release than the one it names, so   *)
(* long as nobody repoints `current` by hand between a deploy's swap and   *)
(* its verdict: verify::wait passes on pids not in the captured generation *)
(* without ever learning which release they run, and what makes that sound *)
(* is the order of capture and reload, and the tree lock.                  *)
THEOREM VerdictCorrect ==
  ASSUME Bounds.repoint = 0
  PROVE  Spec => []VerdictIsOfHead
<1>1. Init => VerdictInv
  BY DEF Init, InitAt, VerdictInv, HandsOff, Onto, Spawned, Forward, Backward,
         Judging
<1>2. TypeInv /\ VerdictInv => VerdictIsOfHead
  <2> SUFFICES ASSUME TypeInv, VerdictInv, NEW p \in Proc, TurnedOver
               PROVE  /\ pc[p] \in {"verify", "landed"} => running = job[p].head
                      /\ pc[p] = "verifyBack" => running = job[p].to
    BY DEF VerdictIsOfHead
  <2>1. Onto(p) /\ Spawned(p)
    BY DEF VerdictInv
  <2>2. QED
    BY <2>1 DEF Onto, Spawned, SpawnedFrom, TurnedOver, Forward, Backward,
         Judging
<1>3. QED
  BY <1>1, <1>2, TypeInvariant, MutualExclusion, VerdictNext, PTL DEF Spec

=============================================================================
