----------------------------- MODULE TreeProofs -----------------------------
(***************************************************************************)
(* More proofs about Deploy: that what is built and served is whole; that  *)
(* what is staged stays staged; that where ticks or promotes land releases *)
(* the record, the link and the verdicts agree and a hold is heeded; and   *)
(* that what the record names is not removed.  What outlasts kills and     *)
(* failures is proved without excluding them.                              *)
(***************************************************************************)
EXTENDS DeployProofs, FiniteSetTheorems

-----------------------------------------------------------------------------
(* Budgets only shrink.                                                    *)

Kinds == {"push", "crash", "fault", "reply", "repoint", "remove", "command"}
Spending == UNCHANGED left \/ \E c \in Kinds : Spend(c)

LEMMA SpendKeepsZero ==
  ASSUME TypeOK, NEW k \in Kinds, left[k] = 0, Spending
  PROVE  left'[k] = 0
  BY DEF TypeOK, Spend, Spending, BoundsType, Kinds

LEMMA StepSpends ==
  ASSUME NEW p \in Proc, Step(p)
  PROVE  Spending
<1> USE DEF Spending
<1>1. CASE StartDeploy(p) \/ StartRereads(p) \/ Abandon(p) \/ CheckoutFails(p)
          \/ StartBranch(p) \/ StartWatch(p) \/ Crash(p) \/ EndRemoval(p)
  BY <1>1 DEF Kinds, StartDeploy, StartGo, StartRereads, StartReread,
       Abandon, CheckoutFails, StartBranch, StartSettings, StartWatch,
       Crash, EndRemoval
<1>2. CASE RecordStaged(p) \/ Landed(p) \/ Correct(p) \/ RecordOutcome(p) \/
          Lift(p)
  BY <1>2 DEF Kinds, RecordStaged, Landed, Correct, RecordOutcome, Lift,
       Writes, WriteFails
<1>3. CASE Swap(p) \/ Capture(p) \/ Reload(p) \/ Undo(p) \/ Rollback(p) \/
          ReloadBack(p) \/ Retry(p) \/ Change(p)
  BY <1>3 DEF Kinds, Swap, Capture, Reload, Undo, Rollback, ReloadBack,
       Retry, Change
<1>4. CASE StartTick(p) \/ Reread(p) \/ Adopt(p) \/ Hold(p) \/ RefuseUncut(p)
          \/ NothingToDo(p) \/ Attempt(p) \/ Promote(p) \/ Reuse(p) \/
          BeginCheckout(p) \/ EndCheckout(p) \/ Build(p) \/ BuildFails(p) \/
          ReadTable(p) \/ Verify(p) \/ CaptureBack(p) \/ VerifyBack(p) \/
          BeginRemoval(p) \/ Sweep(p)
  BY <1>4 DEF StartTick, StartGo, Reread, Adopt, Hold, RefuseUncut,
       NothingToDo, Attempt, Promote, Reuse, BeginCheckout, EndCheckout,
       Build, BuildFails, ReadTable, Verify, CaptureBack, VerifyBack,
       BeginRemoval, Sweep
<1>5. QED
  BY <1>1, <1>2, <1>3, <1>4 DEF Step, Starts, Proceeds, StartRereads

LEMMA ZeroStays ==
  ASSUME TypeOK, [Next]_vars, NEW k \in Kinds, left[k] = 0
  PROVE  left'[k] = 0
<1>1. Spending
  <2>1. ASSUME NEW p \in Proc, Step(p) PROVE Spending
    BY <2>1, StepSpends
  <2>2. CASE Shepherd
    BY <2>2 DEF Shepherd, Spawn, TurnOver, GiveUp, Restart, Spending
  <2>3. CASE Environment
    BY <2>3 DEF Environment, Push, HandRepoint, HandRemove, Kinds, Spending
  <2>4. CASE UNCHANGED vars
    BY <2>4 DEF vars, Spending
  <2>5. QED
    BY <2>1, <2>2, <2>3, <2>4 DEF Next
<1>2. QED
  BY <1>1, SpendKeepsZero

(* Nobody is killed and no file or git operation fails.                    *)
Calm == Bounds.crash = 0 /\ left.crash = 0 /\ left.fault = 0

LEMMA CalmNext == TypeInv /\ Calm /\ [Next]_vars => Calm'
  BY ZeroStays DEF Calm, Kinds, TypeInv

-----------------------------------------------------------------------------
(* What is built and served is whole.                                      *)

(* A part of a release belongs to the process that is writing or removing  *)
(* it, and a whole one has its marker.                                     *)
Writing(p, s) ==
  \/ pc[p] = "adding" /\ job[p].head = s
  \/ pc[p] = "removing" /\ job[p].to = s

NoLeftovers == \A s \in Sha : release[s] = "partial" => \E p \in Proc : Writing(p, s)
WholeMarked == \A s \in Sha : release[s] = "whole" => s \in marker

Cared(p) ==
  /\ pc[p] \in {"build", "swap"} => release[job[p].head] = "whole"
  /\ pc[p] = "removing" => job[p].to # current

DiskInv ==
  /\ NoLeftovers /\ WholeMarked /\ ServedIntact
  /\ \A p \in Proc : Cared(p)

LEMMA DiskInit == Init => DiskInv
<1> SUFFICES ASSUME NEW first \in Sha, InitAt(first) PROVE DiskInv
  BY DEF Init
<1>1. QED
  BY DEF InitAt, DiskInv, NoLeftovers, WholeMarked, ServedIntact, Cared

(* Inside the tree and neither writing nor removing, a process finds no    *)
(* release in part.                                                        *)
LEMMA TidyInside ==
  ASSUME TypeOK, Exclusive, NoLeftovers, NEW p \in Proc, Holds(p),
         pc[p] \notin {"adding", "removing"}, NEW s \in Sha
  PROVE  release[s] # "partial"
<1> SUFFICES ASSUME NEW q \in Proc, Writing(q, s) PROVE FALSE
  BY DEF NoLeftovers
<1>1. Holds(q)
  BY DEF Writing, Holds, Inside
<1>2. q = p
  BY <1>1 DEF Exclusive
<1>3. QED
  BY <1>2 DEF Writing

LEMMA OutsideDisk ==
  ASSUME NEW p \in Proc, Step(p), ~Holds(p)
  PROVE  UNCHANGED <<current, release, marker>>
<1>1. CASE Swap(p) \/ Undo(p) \/ Rollback(p) \/ BeginCheckout(p) \/
          EndCheckout(p) \/ CheckoutFails(p) \/ BeginRemoval(p) \/
          EndRemoval(p) \/ Sweep(p)
  BY <1>1 DEF Swap, Undo, Rollback, BeginCheckout, EndCheckout,
       CheckoutFails, BeginRemoval, EndRemoval, Sweep, Holds, Inside
<1>2. QED
  BY <1>1 DEF Step, Starts, Proceeds, disk, StartTick, StartGo,
       StartDeploy, StartRereads, StartReread, Reread, Adopt, Hold, Abandon,
       RefuseUncut, NothingToDo, Attempt, Promote, Reuse, Build, BuildFails,
       ReadTable, RecordStaged, Capture, Reload, Verify, Landed, Correct,
       CaptureBack, ReloadBack, Retry, VerifyBack, RecordOutcome, Change,
       Lift, StartBranch, StartSettings, StartWatch, Crash

(* What the process under way does to the disk.                            *)
LEMMA DiskOwn ==
  ASSUME TypeInv, Exclusive, Calm, DiskInv, NEW p \in Proc, Step(p)
  PROVE  /\ \A s \in Sha : release'[s] = "partial" => \/ Writing(p, s)'
                                                      \/ release[s] = "partial" /\ ~Writing(p, s)
         /\ WholeMarked' /\ ServedIntact' /\ Cared(p)'
<1> /\ TypeOK /\ pc \in [Proc -> Labels] /\ job \in [Proc -> Job] /\ job[p] \in Job
    /\ release \in [Sha -> {"absent", "partial", "whole"}] /\ current \in Sha
    /\ pc[p] \in Headed => job[p].head \in Sha
    /\ release[current] = "whole" /\ current \in marker
  BY DEF TypeInv, TypeOK, HeadKnown, Labels, DiskInv, ServedIntact, WholeMarked
<1> WholeMarked /\ ServedIntact /\ Cared(p) /\ NoLeftovers
  BY DEF DiskInv
<1> None \notin Sha
  BY ShaAssumption
<1>1. CASE BeginCheckout(p)
  <2>1. job[p].head \in Sha /\ job[p].head # current
    BY <1>1, ShaAssumption DEF BeginCheckout, Headed, Finished, Exists
  <2>2. QED
    BY <1>1, <2>1 DEF BeginCheckout, Goto, Writing, WholeMarked, ServedIntact, Cared
<1>2. CASE EndCheckout(p)
  BY <1>2 DEF EndCheckout, Goto, Headed, Writing, WholeMarked, ServedIntact, Cared
<1>3. CASE BeginRemoval(p)
  <2>1. PICK s \in Present \ Spared(p) :
          /\ release' = [release EXCEPT ![s] = "partial"]
          /\ Recall(p, [job[p] EXCEPT !.to = s])
    BY <1>3 DEF BeginRemoval
  <2>2. s \in Sha /\ s # current
    BY <2>1 DEF Present, Spared
  <2>3. job'[p].to = s /\ pc'[p] = "removing" /\ pc[p] = "prune" /\ UNCHANGED <<current, marker>>
    BY <1>3, <2>1 DEF BeginRemoval, Goto, Recall, Job
  <2>4. QED
    BY <2>1, <2>2, <2>3 DEF Writing, WholeMarked, ServedIntact, Cared
<1>4. CASE EndRemoval(p)
  BY <1>4 DEF EndRemoval, Spend, Calm, Goto, Writing, WholeMarked, ServedIntact, Cared
<1>5. CASE Sweep(p)
  BY <1>5 DEF Sweep, Release, Finish, Goto, Writing, WholeMarked, ServedIntact,
       Cared, Present
<1>6. CASE Reuse(p)
  <2>1. \A s \in Sha : release[s] # "partial"
    BY <1>6, TidyInside DEF Reuse, Holds, Inside
  <2>2. release[job[p].head] = "whole"
    BY <1>6, <2>1 DEF Reuse, Headed, Finished, Exists
  <2>3. QED
    BY <1>6, <2>2 DEF Reuse, disk, Goto, Writing, WholeMarked, ServedIntact, Cared
<1>7. CASE Promote(p)
  <2>1. \A s \in Sha : release[s] # "partial"
    BY <1>7, TidyInside DEF Promote, Holds, Inside
  <2>2. UNCHANGED <<current, release, marker>> /\ pc[p] = "check"
    BY <1>7 DEF Promote, disk
  <2>3. CASE Release(p)
    BY <2>2, <2>3 DEF Release, Finish, Goto, Writing, WholeMarked, ServedIntact, Cared
  <2>4. CASE ~Release(p)
    <3>1. /\ Exists(job[p].state.staged) /\ pc'[p] = "build"
          /\ job'[p] = [job[p] EXCEPT !.head = job[p].state.staged, !.started = current]
      BY <1>7, <2>4 DEF Promote, Finished, Goto, Recall
    <3>2. job'[p].head = job[p].state.staged
      BY <3>1 DEF Job
    <3>3. job[p].state.staged \in Sha
      BY <3>1, JobFields DEF Exists, MaybeSha
    <3>4. release[job'[p].head] = "whole"
      BY <2>1, <3>1, <3>2, <3>3 DEF Exists
    <3>5. QED
      BY <2>2, <3>1, <3>4 DEF Writing, WholeMarked, ServedIntact, Cared
  <2>5. QED
    BY <2>3, <2>4
<1>8. CASE Build(p)
  BY <1>8 DEF Build, disk, Goto, Writing, WholeMarked, ServedIntact, Cared
<1>9. CASE Swap(p)
  BY <1>9 DEF Swap, Goto, Writing, WholeMarked, ServedIntact, Cared
<1>10. CASE Undo(p) \/ Rollback(p)
  <2>1. \A s \in Sha : release[s] # "partial"
    BY <1>10, TidyInside DEF Undo, Rollback, Holds, Inside
  <2>2. /\ pc[p] \in {"undo", "rollback"} /\ UNCHANGED <<release, marker>>
        /\ pc'[p] \in {"record", "correct", "captureBack"}
        /\ \/ UNCHANGED current
           \/ Target(p) # None /\ current' = Target(p)
    <3>1. CASE Undo(p)
      BY <3>1 DEF Undo, Goto
    <3>2. CASE Rollback(p)
      BY <3>2 DEF Rollback, Goto
    <3>3. QED
      BY <1>10, <3>1, <3>2
  <2>3. Target(p) # None => release[Target(p)] = "whole"
    BY <2>1, JobFields DEF Target, RollbackTarget, Usable, Exists, MaybeSha
  <2>4. QED
    BY <2>2, <2>3 DEF Writing, WholeMarked, ServedIntact, Cared
<1>11. CASE CheckoutFails(p) \/ Crash(p) \/ Abandon(p)
  BY <1>11 DEF CheckoutFails, Crash, Abandon, Spend, Calm
<1>12. CASE StartTick(p) \/ StartDeploy(p) \/ StartRereads(p) \/ Reread(p) \/
          Adopt(p) \/ Hold(p) \/ RefuseUncut(p) \/ NothingToDo(p) \/
          Attempt(p) \/ BuildFails(p) \/ ReadTable(p) \/ RecordStaged(p)
  BY <1>12 DEF StartTick, StartGo, StartDeploy, StartRereads, StartReread,
       Reread, Adopt, Hold, RefuseUncut, NothingToDo, Attempt, BuildFails,
       ReadTable, RecordStaged, disk, Goto, Finish, Release, Failing,
       Writing, WholeMarked, ServedIntact, Cared
<1>13. CASE Capture(p) \/ Reload(p) \/ Verify(p) \/ Landed(p) \/ Correct(p) \/
          CaptureBack(p) \/ ReloadBack(p) \/ Retry(p) \/ VerifyBack(p) \/
          RecordOutcome(p) \/ Change(p) \/ Lift(p) \/ StartBranch(p) \/
          StartWatch(p)
  BY <1>13 DEF Capture, Reload, Verify, Landed, Correct, CaptureBack,
       ReloadBack, Retry, VerifyBack, RecordOutcome, Change, Lift,
       StartBranch, StartSettings, StartWatch, disk, Goto, Finish, Release,
       Writing, WholeMarked, ServedIntact, Cared
<1>14. QED
  BY <1>1, <1>2, <1>3, <1>4, <1>5, <1>6, <1>7, <1>8, <1>9, <1>10, <1>11,
       <1>12, <1>13 DEF Step, Starts, Proceeds, StartRereads

LEMMA DiskProc ==
  ASSUME TypeInv, Exclusive, Calm, DiskInv, NEW p \in Proc, Step(p)
  PROVE  DiskInv'
<1> TypeOK
  BY DEF TypeInv
<1>1. ASSUME NEW q \in Proc, q # p, Holds(q)
      PROVE  UNCHANGED <<current, release, marker>>
  BY <1>1, OutsideDisk DEF Exclusive
<1>2. NoLeftovers'
  <2> SUFFICES ASSUME NEW s \in Sha, release'[s] = "partial", ~Writing(p, s)'
               PROVE  \E q \in Proc : Writing(q, s)'
    BY DEF NoLeftovers
  <2>1. release[s] = "partial" /\ ~Writing(p, s)
    BY DiskOwn
  <2>2. PICK q \in Proc : Writing(q, s)
    BY <2>1 DEF DiskInv, NoLeftovers
  <2>3. Writing(q, s)'
    BY <2>1, <2>2, OthersStep DEF Writing
  <2>4. QED
    BY <2>3
<1>3. ASSUME NEW q \in Proc PROVE Cared(q)'
  <2>1. CASE q = p
    BY <2>1, DiskOwn
  <2>2. CASE q # p
    <3>1. pc'[q] = pc[q] /\ job'[q] = job[q] /\ Cared(q)
      BY <2>2, OthersStep DEF DiskInv
    <3>2. CASE pc[q] \in {"build", "swap", "removing"}
      BY <1>1, <2>2, <3>1, <3>2 DEF Holds, Inside, Cared
    <3>3. CASE pc[q] \notin {"build", "swap", "removing"}
      BY <3>1, <3>3 DEF Cared
    <3>4. QED
      BY <3>2, <3>3
  <2>3. QED
    BY <2>1, <2>2
<1>4. QED
  BY <1>2, <1>3, DiskOwn DEF DiskInv

LEMMA DiskNext == TypeInv /\ Exclusive /\ Calm /\ DiskInv /\ [Next]_vars => DiskInv'
<1> SUFFICES ASSUME TypeInv, Exclusive, Calm, DiskInv, [Next]_vars PROVE DiskInv'
  OBVIOUS
<1> USE DEF DiskInv, NoLeftovers, WholeMarked, ServedIntact, Cared, Writing
<1>1. ASSUME NEW p \in Proc, Step(p) PROVE DiskInv'
  BY <1>1, DiskProc
<1>2. CASE Shepherd
  BY <1>2 DEF Shepherd, Spawn, TurnOver, GiveUp, Restart, disk
<1>3. ASSUME NEW b \in Branch, NEW s \in Sha, Push(b, s) PROVE DiskInv'
  BY <1>3 DEF Push, disk
<1>4. ASSUME NEW s \in Sha, HandRepoint(s) PROVE DiskInv'
  BY <1>4 DEF HandRepoint
<1>5. ASSUME NEW s \in Sha, HandRemove(s) PROVE DiskInv'
  <2>1. \A p \in Proc : pc[p] \notin Inside
    BY <1>5, ProcAssumption DEF HandRemove, Exclusive, Holds
  <2>2. QED
    BY <1>5, <2>1 DEF HandRemove, Inside, TypeInv, TypeOK
<1>6. CASE UNCHANGED vars
  BY <1>6 DEF vars, disk
<1>7. QED
  BY <1>1, <1>2, <1>3, <1>4, <1>5, <1>6 DEF Next, Environment

LEMMA DiskInvariant ==
  ASSUME Bounds.crash = 0, Bounds.fault = 0
  PROVE  Spec => [](Calm /\ DiskInv)
<1>1. Init => Calm
  BY DEF Init, InitAt, Calm
<1>2. QED
  BY <1>1, DiskInit, CalmNext, DiskNext, TypeInvariant, MutualExclusion, PTL DEF Spec

(* `current` leads to a whole release at every instant, whoever deploys,   *)
(* stages, promotes, prunes, repoints or removes by hand, as long as no    *)
(* process is killed and no file or git operation fails: each release      *)
(* found in part has somebody working on it, and whoever is inside the     *)
(* tree lock is alone with the releases (checkout_release, undo_swap,      *)
(* restore, prune).                                                        *)
THEOREM ServedWhole ==
  ASSUME Bounds.crash = 0, Bounds.fault = 0
  PROVE  Spec => []ServedIntact
<1>1. DiskInv => ServedIntact
  BY DEF DiskInv
<1>2. QED
  BY <1>1, DiskInvariant, PTL

(* Under the same assumption a release that is built, or about to be       *)
(* swapped in, is the whole commit, pruned and removed by hand as they may *)
(* be meanwhile (checkout_release, promote_with).                          *)
THEOREM BuiltWhole ==
  ASSUME Bounds.crash = 0, Bounds.fault = 0
  PROVE  Spec => []BuildsWhole
<1>1. DiskInv => BuildsWhole
  BY DEF DiskInv, Cared, BuildsWhole
<1>2. QED
  BY <1>1, DiskInvariant, PTL

-----------------------------------------------------------------------------
(* Kills and faults, where nothing is ever removed.                        *)

(* A marker vouches for the whole release: with no removal to be cut short *)
(* between a directory and its marker, no kill can part the two.           *)
MarkedWhole == marker \subseteq {s \in Sha : release[s] = "whole"}

Marking(p) ==
  /\ pc[p] \in {"build", "swap"} => release[job[p].head] = "whole"
  /\ pc[p] = "adding" => job[p].head \notin marker
  /\ pc[p] # "removing"

MarkInv == left.remove = 0 /\ MarkedWhole /\ \A p \in Proc : Marking(p)

LEMMA NothingPruned ==
  ASSUME Cardinality(Sha) <= Keep, NEW p \in Proc, BeginRemoval(p)
  PROVE  FALSE
<1>1. Present \subseteq Sha /\ IsFiniteSet(Sha)
  BY ShaAssumption DEF Present
<1>2. IsFiniteSet(Present) /\ Cardinality(Present) <= Cardinality(Sha)
  BY <1>1, FS_Subset
<1>3. Cardinality(Present) \in Nat /\ Cardinality(Sha) \in Nat /\ Cardinality(Present) > Keep
  BY <1>1, <1>2, FS_CardinalityType DEF BeginRemoval
<1>4. QED
  BY <1>2, <1>3, KeepAssumption

LEMMA MarkOwn ==
  ASSUME Cardinality(Sha) <= Keep, TypeInv, MarkInv, NEW p \in Proc, Step(p)
  PROVE  MarkedWhole' /\ Marking(p)'
<1> /\ TypeOK /\ pc \in [Proc -> Labels] /\ job \in [Proc -> Job] /\ job[p] \in Job
    /\ release \in [Sha -> {"absent", "partial", "whole"}]
    /\ pc[p] \in Headed => job[p].head \in Sha
    /\ MarkedWhole /\ Marking(p)
    /\ None \notin Sha
  BY ShaAssumption DEF TypeInv, TypeOK, HeadKnown, Labels, MarkInv
<1>1. CASE Reuse(p) \/ BeginCheckout(p) \/ EndCheckout(p) \/ CheckoutFails(p)
  BY <1>1 DEF Reuse, BeginCheckout, EndCheckout, CheckoutFails, disk, Goto,
       Failing, Headed, Finished, Exists, MarkedWhole, Marking
<1>2. CASE Promote(p)
  <2>1. UNCHANGED <<current, release, marker>> /\ pc[p] = "check"
    BY <1>2 DEF Promote, disk
  <2>2. CASE Release(p)
    BY <2>1, <2>2 DEF Release, Finish, Goto, MarkedWhole, Marking
  <2>3. CASE ~Release(p)
    <3>1. /\ job[p].state.staged \in marker /\ pc'[p] = "build"
          /\ job'[p] = [job[p] EXCEPT !.head = job[p].state.staged, !.started = current]
      BY <1>2, <2>3 DEF Promote, Finished, Goto, Recall
    <3>2. job'[p].head = job[p].state.staged
      BY <3>1 DEF Job
    <3>3. QED
      BY <2>1, <3>1, <3>2 DEF MarkedWhole, Marking
  <2>4. QED
    BY <2>2, <2>3
<1>3. CASE BeginRemoval(p) \/ EndRemoval(p) \/ Sweep(p)
  BY <1>3, NothingPruned DEF EndRemoval, Sweep, Release, Finish, Goto,
       MarkedWhole, Marking
<1>4. CASE StartTick(p) \/ StartDeploy(p) \/ StartRereads(p) \/ Reread(p) \/
          Adopt(p) \/ Hold(p) \/ Abandon(p) \/ RefuseUncut(p) \/ NothingToDo(p)
          \/ Attempt(p) \/ Build(p) \/ BuildFails(p) \/ ReadTable(p) \/
          RecordStaged(p) \/ Swap(p) \/ Undo(p) \/ Rollback(p) \/ Crash(p)
  BY <1>4 DEF StartTick, StartGo, StartDeploy, StartRereads, StartReread,
       Reread, Adopt, Hold, Abandon, RefuseUncut, NothingToDo, Attempt,
       Build, BuildFails, ReadTable, RecordStaged, Swap, Undo, Rollback,
       Crash, disk, Goto, Finish, Release, Failing, MarkedWhole, Marking
<1>5. CASE Capture(p) \/ Reload(p) \/ Verify(p) \/ Landed(p) \/ Correct(p) \/
          CaptureBack(p) \/ ReloadBack(p) \/ Retry(p) \/ VerifyBack(p) \/
          RecordOutcome(p) \/ Change(p) \/ Lift(p) \/ StartBranch(p) \/
          StartWatch(p)
  BY <1>5 DEF Capture, Reload, Verify, Landed, Correct, CaptureBack,
       ReloadBack, Retry, VerifyBack, RecordOutcome, Change, Lift,
       StartBranch, StartSettings, StartWatch, disk, Goto, Finish, Release,
       MarkedWhole, Marking
<1>6. QED
  BY <1>1, <1>2, <1>3, <1>4, <1>5 DEF Step, Starts, Proceeds, StartRereads

LEMMA MarkProc ==
  ASSUME Cardinality(Sha) <= Keep, TypeInv, Exclusive, MarkInv,
         NEW p \in Proc, Step(p), NEW q \in Proc
  PROVE  Marking(q)'
<1>1. CASE q = p
  BY <1>1, MarkOwn
<1>2. CASE q # p
  <2>1. pc'[q] = pc[q] /\ job'[q] = job[q] /\ Marking(q)
    BY <1>2, OthersStep DEF MarkInv, TypeInv
  <2>2. CASE Holds(q)
    <3>1. UNCHANGED <<release, marker>>
      BY <1>2, <2>2, OutsideDisk DEF Exclusive
    <3>2. QED
      BY <2>1, <3>1 DEF Marking
  <2>3. CASE ~Holds(q)
    BY <2>1, <2>3 DEF Marking, Holds, Inside
  <2>4. QED
    BY <2>2, <2>3
<1>3. QED
  BY <1>1, <1>2

LEMMA MarkNext ==
  ASSUME Cardinality(Sha) <= Keep
  PROVE  TypeInv /\ Exclusive /\ MarkInv /\ [Next]_vars => MarkInv'
<1> SUFFICES ASSUME TypeInv, Exclusive, MarkInv, [Next]_vars PROVE MarkInv'
  OBVIOUS
<1>1. left'.remove = 0
  BY ZeroStays DEF MarkInv, TypeInv, Kinds
<1>2. ASSUME NEW p \in Proc, Step(p) PROVE MarkInv'
  BY <1>1, <1>2, MarkOwn, MarkProc DEF MarkInv
<1>3. CASE Shepherd
  BY <1>1, <1>3 DEF Shepherd, Spawn, TurnOver, GiveUp, Restart, disk, MarkInv,
       MarkedWhole, Marking
<1>4. CASE Environment
  BY <1>1, <1>4 DEF Environment, Push, HandRepoint, HandRemove, Spend, disk,
       MarkInv, MarkedWhole, Marking
<1>5. CASE UNCHANGED vars
  BY <1>5 DEF vars, disk, MarkInv, MarkedWhole, Marking
<1>6. QED
  BY <1>2, <1>3, <1>4, <1>5 DEF Next

(* Whatever is killed and whatever fails, a release is built or swapped in *)
(* only whole, as long as none is removed, by hand or for there being more *)
(* than `retention`: the marker is written last and looked for first       *)
(* (checkout_release).                                                     *)
THEOREM KilledBuildsWhole ==
  ASSUME Cardinality(Sha) <= Keep, Bounds.remove = 0
  PROVE  Spec => []BuildsWhole
<1>1. Init => MarkInv
  BY DEF Init, InitAt, MarkInv, MarkedWhole, Marking
<1>2. MarkInv => BuildsWhole
  BY DEF MarkInv, Marking, BuildsWhole
<1>3. QED
  BY <1>1, <1>2, MarkNext, TypeInvariant, MutualExclusion, PTL DEF Spec

(* What `current` leads to, and what a process may yet put there, has its  *)
(* marker: the head of an attempt under way, and what a rollback could go  *)
(* back to, which is the link as it was or the release the record named.   *)
Vouched == marker \cup {None}
Switched == {"capture", "reload", "verify", "landed"}
Trusted(p) ==
  /\ {job[p].started, job[p].to, job[p].state.deployed} \subseteq Vouched
  /\ pc[p] \in Switched => job[p].head \in marker
ServeInv ==
  /\ WholeMarked
  /\ current \in marker /\ record.deployed \in Vouched
  /\ \A p \in Proc : Trusted(p)

LEMMA MarkerGrows ==
  ASSUME Cardinality(Sha) <= Keep, TypeInv, MarkInv, WholeMarked,
         NEW p \in Proc, Step(p)
  PROVE  marker \subseteq marker' /\ WholeMarked'
<1> /\ release \in [Sha -> {"absent", "partial", "whole"}] /\ marker \subseteq Sha
    /\ pc[p] \in Headed => job[p].head \in Sha
    /\ MarkedWhole /\ Marking(p)
  BY DEF TypeInv, TypeOK, HeadKnown, MarkInv
<1>1. CASE BeginCheckout(p)
  <2>1. job[p].head \in Sha /\ job[p].head \notin marker
    BY <1>1, ShaAssumption DEF BeginCheckout, Finished, Exists, MarkedWhole, Headed
  <2>2. QED
    BY <1>1, <2>1 DEF BeginCheckout, WholeMarked
<1>2. CASE EndCheckout(p) \/ CheckoutFails(p)
  BY <1>2 DEF EndCheckout, CheckoutFails, WholeMarked, MarkedWhole, Headed
<1>3. CASE BeginRemoval(p) \/ EndRemoval(p)
  BY <1>3, NothingPruned DEF EndRemoval, Marking
<1>4. CASE Sweep(p)
  BY <1>4 DEF Sweep, Present, MarkedWhole, WholeMarked
<1>5. CASE UNCHANGED <<release, marker>>
  BY <1>5 DEF WholeMarked
<1>6. QED
  BY <1>1, <1>2, <1>3, <1>4, <1>5 DEF Step, Starts, Proceeds, disk, StartTick,
     StartGo, StartDeploy, StartRereads, StartReread, Reread, Adopt, Hold,
     Abandon, RefuseUncut, NothingToDo, Attempt, Promote, Reuse, Build,
     BuildFails, ReadTable, RecordStaged, Swap, Capture, Reload, Verify,
     Landed, Undo, Rollback, Correct, CaptureBack, ReloadBack, Retry,
     VerifyBack, RecordOutcome, Change, Lift, StartBranch, StartSettings,
     StartWatch, Crash

LEMMA ServeOwn ==
  ASSUME Cardinality(Sha) <= Keep, TypeInv, MarkInv, ServeInv,
         NEW p \in Proc, Step(p)
  PROVE  /\ WholeMarked' /\ current' \in marker' /\ record'.deployed \in Vouched'
         /\ Trusted(p)'
<1> /\ TypeOK /\ pc \in [Proc -> Labels] /\ job \in [Proc -> Job] /\ job[p] \in Job
    /\ record \in Record
    /\ release \in [Sha -> {"absent", "partial", "whole"}]
    /\ pc[p] \in Headed => job[p].head \in Sha
    /\ MarkedWhole /\ Marking(p) /\ WholeMarked /\ Trusted(p)
    /\ current \in marker /\ record.deployed \in Vouched
    /\ None \notin Sha
  BY ShaAssumption DEF TypeInv, TypeOK, HeadKnown, Labels, MarkInv, ServeInv
<1>1. marker \subseteq marker' /\ WholeMarked'
  BY MarkerGrows
<1>2. Target(p) \in Vouched
  BY DEF Target, RollbackTarget, Usable, Trusted, Vouched
<1>3. current' \in marker
  <2>1. CASE Swap(p)
    BY <2>1 DEF Swap, Marking, WholeMarked, Headed
  <2>2. CASE Undo(p) \/ Rollback(p)
    BY <1>2, <2>2 DEF Undo, Rollback, Vouched
  <2>3. CASE UNCHANGED current
    BY <2>3
  <2>4. QED
    BY <2>1, <2>2, <2>3 DEF Step, Starts, Proceeds, disk, StartTick, StartGo,
       StartDeploy, StartRereads, StartReread, Reread, Adopt, Hold, Abandon,
       RefuseUncut, NothingToDo, Attempt, Promote, Reuse, BeginCheckout,
       EndCheckout, CheckoutFails, Build, BuildFails, ReadTable, RecordStaged,
       Capture, Reload, Verify, Landed, Correct, CaptureBack, ReloadBack, Retry,
       VerifyBack, RecordOutcome, BeginRemoval, EndRemoval, Sweep, Change, Lift,
       StartBranch, StartSettings, StartWatch, Crash
<1>4. record'.deployed \in Vouched
  <2>1. CASE Landed(p)
    <3>1. record' \in {record, [deployed |-> job[p].head, failed |-> None, staged |-> None]}
      BY <2>1 DEF Landed, Writes, WriteFails
    <3>2. QED
      BY <2>1, <3>1 DEF Landed, Trusted, Switched, Vouched
  <2>2. CASE Correct(p)
    <3>1. record' \in {record, [job[p].state EXCEPT !.deployed = job[p].to]}
      BY <2>2 DEF Correct, Writes, WriteFails
    <3>2. QED
      BY <3>1 DEF Trusted, Job, Record
  <2>3. CASE RecordStaged(p) \/ RecordOutcome(p) \/ Lift(p)
    <3>1. record' \in {record, WithStaged(p), Outcome(job[p]), [record EXCEPT !.failed = None]}
      BY <2>3 DEF RecordStaged, RecordOutcome, Lift, Writes, WriteFails
    <3>2. QED
      BY <3>1 DEF WithStaged, Outcome, Trusted, Job, Record
  <2>4. CASE UNCHANGED record
    BY <2>4
  <2>5. QED
    BY <2>1, <2>2, <2>3, <2>4 DEF Step, Starts, Proceeds, disk, StartTick, StartGo,
       StartDeploy, StartRereads, StartReread, Reread, Adopt, Hold, Abandon,
       RefuseUncut, NothingToDo, Attempt, Promote, Reuse, BeginCheckout,
       EndCheckout, CheckoutFails, Build, BuildFails, ReadTable, Swap,
       Capture, Reload, Verify, Undo, Rollback, CaptureBack, ReloadBack, Retry,
       VerifyBack, BeginRemoval, EndRemoval, Sweep, Change,
       StartBranch, StartSettings, StartWatch, Crash
<1>5. Trusted(p)'
  <2> DEFINE same == /\ job'[p].state = job[p].state /\ job'[p].to = job[p].to
                     /\ job'[p].started = job[p].started /\ job'[p].head = job[p].head
  <2>1. CASE job'[p] = NoJob /\ pc'[p] = "idle"
    BY <2>1 DEF Trusted, NoJob, Vouched, Switched
  <2>2. CASE same /\ pc'[p] \notin Switched
    BY <1>1, <2>2 DEF Trusted, Vouched
  <2>3. CASE StartTick(p) \/ StartDeploy(p) \/ Reread(p)
    <3>1. \/ \E c : job'[p] = [job[p] EXCEPT !.cmd = c, !.state = record]
          \/ job'[p] = [job[p] EXCEPT !.state = record]
      BY <2>3 DEF StartTick, StartDeploy, StartGo, Reread, Recall
    <3>2. job'[p].state = record /\ job'[p].started = job[p].started /\ job'[p].to = job[p].to
      BY <3>1 DEF Job
    <3>3. pc'[p] = "adopt"
      BY <2>3 DEF StartTick, StartDeploy, StartGo, Reread, Goto
    <3>4. QED
      BY <1>1, <3>2, <3>3 DEF Trusted, Vouched, Switched
  <2>4. CASE Attempt(p) \/ Promote(p)
    <3>1. \/ pc'[p] = "idle" /\ job'[p] = NoJob
          \/ /\ pc'[p] \in {"checkout", "build"}
             /\ \E h : job'[p] = [job[p] EXCEPT !.head = h, !.started = current]
      BY <2>4 DEF Attempt, Promote, Recall, Goto, Finish, Release
    <3>2. QED
      BY <1>1, <2>1, <3>1 DEF Trusted, Vouched, Switched, Job
  <2>5. CASE Swap(p)
    BY <1>1, <2>5 DEF Swap, Goto, Marking, WholeMarked, Headed, Trusted, Vouched
  <2>6. CASE Capture(p) \/ Reload(p) \/ Verify(p)
    BY <1>1, <2>6 DEF Capture, Reload, Verify, Goto, Trusted, Vouched, Switched
  <2>7. CASE Landed(p)
    <3> DEFINE next == [deployed |-> job[p].head, failed |-> None, staged |-> None]
    <3>1. /\ pc'[p] = "record" /\ job[p].head \in marker
          /\ \/ job'[p] = [job[p] EXCEPT !.landed = TRUE, !.state = next]
             \/ job'[p] = [job[p] EXCEPT !.landed = TRUE, !.state.deployed = job[p].head]
      BY <2>7 DEF Landed, Recall, Goto, Trusted, Switched
    <3>2. job'[p].started = job[p].started /\ job'[p].to = job[p].to
      BY <3>1 DEF Job
    <3>3. job'[p].state = next \/ job'[p].state = [job[p].state EXCEPT !.deployed = job[p].head]
      BY <3>1 DEF Job
    <3>4. job'[p].state.deployed = job[p].head
      BY <3>3 DEF Job, Record
    <3>5. QED
      BY <1>1, <3>1, <3>2, <3>4 DEF Trusted, Vouched, Switched
  <2>8. CASE Rollback(p)
    <3>1. /\ pc'[p] \notin Switched
          /\ \/ job'[p] = job[p]
             \/ job'[p] = [job[p] EXCEPT !.to = Target(p)]
      BY <2>8 DEF Rollback, Recall, Goto, Switched
    <3>2. /\ job'[p].state = job[p].state /\ job'[p].started = job[p].started
          /\ job'[p].to \in {job[p].to, Target(p)}
      BY <3>1 DEF Job
    <3>3. QED
      BY <1>1, <1>2, <3>1, <3>2 DEF Trusted, Vouched
  <2>9. CASE Correct(p)
    <3>1. /\ pc'[p] \notin Switched
          /\ job'[p] = [job[p] EXCEPT !.state = [job[p].state EXCEPT !.deployed = job[p].to]]
      BY <2>9 DEF Correct, Recall, Goto, Switched
    <3>2. /\ job'[p].state.deployed = job[p].to /\ job'[p].started = job[p].started
          /\ job'[p].to = job[p].to
      BY <3>1 DEF Job, Record
    <3>3. QED
      BY <1>1, <3>1, <3>2 DEF Trusted, Vouched
  <2>10. CASE RecordStaged(p) \/ RecordOutcome(p)
    <3>1. /\ pc'[p] = "prune"
          /\ \/ job'[p] = job[p]
             \/ \E r \in {record, WithStaged(p), Outcome(job[p])} :
                  job'[p] = [job[p] EXCEPT !.state = r]
      BY <2>10 DEF RecordStaged, RecordOutcome, Recall, Goto
    <3>2. /\ job'[p].state \in {job[p].state, record, WithStaged(p), Outcome(job[p])}
          /\ job'[p].started = job[p].started /\ job'[p].to = job[p].to
      BY <3>1 DEF Job
    <3>3. job'[p].state.deployed \in {job[p].state.deployed, record.deployed}
      BY <3>2 DEF WithStaged, Outcome, Job, Record
    <3>4. QED
      BY <1>1, <3>1, <3>2, <3>3 DEF Trusted, Vouched, Switched
  <2>11. CASE StartRereads(p) \/ StartBranch(p) \/ StartWatch(p) \/ ReadTable(p)
    <3>1. /\ pc'[p] \notin Switched
          /\ \/ \E c : job'[p] = [job[p] EXCEPT !.cmd = c]
             \/ \E c, t : job'[p] = [job[p] EXCEPT !.cmd = c, !.table = t]
             \/ \E t : job'[p] = [job[p] EXCEPT !.table = t]
      <4>1. ASSUME NEW c \in Rereads, StartReread(p, c)
            PROVE  pc'[p] = "hold" /\ job'[p] = [job[p] EXCEPT !.cmd = c]
        BY <4>1 DEF StartReread, Recall, Goto
      <4>2. ASSUME NEW c, NEW t, StartSettings(p, c, t)
            PROVE  pc'[p] = "change" /\ job'[p] = [job[p] EXCEPT !.cmd = c, !.table = t]
        BY <4>2 DEF StartSettings, Recall, Goto
      <4>3. CASE ReadTable(p)
        BY <4>3 DEF ReadTable, Recall, Goto, Switched
      <4>4. QED
        BY <2>11, <4>1, <4>2, <4>3 DEF StartRereads, StartBranch, StartWatch, Switched
    <3>2. QED
      BY <2>2, <3>1 DEF Job
  <2>12. CASE Adopt(p) \/ Hold(p) \/ RefuseUncut(p) \/ NothingToDo(p) \/ Sweep(p)
              \/ Change(p) \/ Lift(p) \/ Abandon(p) \/ Crash(p)
    <3>1. \/ pc'[p] = "idle" /\ job'[p] = NoJob
          \/ pc'[p] \notin Switched /\ job'[p] = job[p]
          \/ pc'[p] \notin Switched /\ job'[p] = [job[p] EXCEPT !.branch = table.branch]
      BY <2>12 DEF Adopt, Hold, RefuseUncut, NothingToDo, Sweep, Change, Lift,
         Abandon, Crash, Finish, Release, Recall, Goto, Switched
    <3>2. QED
      BY <2>1, <2>2, <3>1 DEF Job
  <2>13. CASE Reuse(p) \/ BeginCheckout(p) \/ EndCheckout(p) \/ CheckoutFails(p) \/
              Build(p) \/ BuildFails(p) \/ Undo(p) \/ CaptureBack(p) \/ ReloadBack(p)
              \/ Retry(p) \/ VerifyBack(p) \/ EndRemoval(p)
    BY <2>2, <2>13 DEF Reuse, BeginCheckout, EndCheckout, CheckoutFails, Failing,
       Build, BuildFails, Undo, CaptureBack, ReloadBack, Retry, VerifyBack,
       EndRemoval, Goto, Switched
  <2>14. QED
    BY <2>3, <2>4, <2>5, <2>6, <2>7, <2>8, <2>9, <2>10, <2>11, <2>12, <2>13,
       NothingPruned DEF Step, Starts, Proceeds, StartRereads
<1>6. QED
  BY <1>1, <1>3, <1>4, <1>5 DEF Vouched

LEMMA ServeNext ==
  ASSUME Cardinality(Sha) <= Keep
  PROVE  TypeInv /\ MarkInv /\ ServeInv /\ [Next]_vars => ServeInv'
<1> SUFFICES ASSUME TypeInv, MarkInv, ServeInv, [Next]_vars PROVE ServeInv'
  OBVIOUS
<1>1. ASSUME NEW p \in Proc, Step(p) PROVE ServeInv'
  <2>1. ASSUME NEW q \in Proc PROVE Trusted(q)'
    <3>1. CASE q = p
      BY <1>1, <3>1, ServeOwn
    <3>2. CASE q # p
      BY <1>1, <3>2, OthersStep, MarkerGrows DEF ServeInv, TypeInv, Trusted, Vouched
    <3>3. QED
      BY <3>1, <3>2
  <2>2. QED
    BY <1>1, <2>1, ServeOwn DEF ServeInv
<1>2. CASE Shepherd
  BY <1>2 DEF Shepherd, Spawn, TurnOver, GiveUp, Restart, disk, ServeInv,
     WholeMarked, Trusted, Vouched
<1>3. CASE Environment
  BY <1>3 DEF Environment, Push, HandRepoint, HandRemove, Spend, disk, MarkInv,
     ServeInv, WholeMarked, Trusted, Vouched
<1>4. CASE UNCHANGED vars
  BY <1>4 DEF vars, disk, ServeInv, WholeMarked, Trusted, Vouched
<1>5. QED
  BY <1>1, <1>2, <1>3, <1>4 DEF Next

(* `current` leads to a whole release whatever is killed and whatever      *)
(* fails, and wherever an operator repoints it, as long as no release is   *)
(* removed, by hand or for there being more than `retention`: the link     *)
(* never dangles for a write that was cut short (swap, undo_swap,          *)
(* roll_back).                                                             *)
THEOREM KilledServesWhole ==
  ASSUME Cardinality(Sha) <= Keep, Bounds.remove = 0
  PROVE  Spec => []ServedIntact
<1>1. Init => MarkInv /\ ServeInv
  BY DEF Init, InitAt, MarkInv, MarkedWhole, Marking, ServeInv, WholeMarked,
     Trusted, NoJob, Vouched, Switched
<1>2. MarkInv /\ ServeInv => ServedIntact
  BY DEF MarkInv, MarkedWhole, ServeInv, ServedIntact
<1>3. QED
  BY <1>1, <1>2, MarkNext, ServeNext, TypeInvariant, MutualExclusion, PTL DEF Spec

-----------------------------------------------------------------------------
(* What is staged stays.                                                   *)

(* Nobody deploys by command or switches `watch`, so the target is watched *)
(* and the dog's, or manual and its operators'.  If it is peaceful too,    *)
(* nothing is killed or fails.                                             *)
Steady == Commands \cap {"deploy", "watch"} = {}
Peaceful == Bounds.crash = 0 /\ Bounds.fault = 0
Orderly == Steady /\ Peaceful

(* Each process's part, by the mode the sheep is in.                       *)
DogPlaces == {"adopt", "hold", "check", "checkout", "adding", "build", "swap",
              "capture", "reload", "verify", "landed", "undo", "rollback",
              "correct", "captureBack", "reloadBack", "verifyBack", "record", "prune",
              "removing"}
StagePlaces == {"hold", "read", "adopt", "check", "checkout", "adding", "build",
                "stageRead", "stageRecord", "prune", "removing"}
LandPlaces == {"build", "swap", "capture", "reload", "verify", "landed", "undo",
               "rollback", "correct", "captureBack", "reloadBack", "verifyBack",
               "record", "prune", "removing"}
Arriving == {"idle", "hold", "read"}
Part(p) ==
  \/ pc[p] = "idle"
  \/ /\ p = Dog /\ job[p].cmd = "tick"
     /\ pc[p] \in DogPlaces
     /\ table.watch = "manual" => pc[p] = "adopt"
  \/ /\ p # Dog /\ job[p].cmd = "stage" /\ pc[p] \in StagePlaces
     /\ table.watch = "auto" => pc[p] \in Arriving \cup {"adopt"}
  \/ /\ p # Dog /\ job[p].cmd = "promote"
     /\ pc[p] \in LandPlaces \cup Arriving \cup {"adopt", "check"}
     /\ table.watch = "auto" => pc[p] \in Arriving \cup {"adopt", "check"}
  \/ /\ p # Dog /\ job[p].cmd = "branch" /\ pc[p] \in {"change", "lift"}
     /\ pc[p] = "change" => job[p].table.watch = table.watch

(* An operator's copy of the record is read under the lock, and the dog's  *)
(* cannot go stale.  A write that is answered with a failure may have been *)
(* made: a landing's then leaves a copy with a staged release the record   *)
(* has lost, and any may leave one that is only pruned with.               *)
Current(p) ==
  IF p = Dog THEN table.watch = "auto" => job[p].state.staged = None
  ELSE IF pc[p] \in Arriving \cup {"change", "lift"} THEN job[p].state = NoJob.state
  ELSE /\ \/ job[p].state.staged = record.staged
          \/ ~Peaceful /\ record.staged = None /\ pc[p] = "record"
          \/ ~Peaceful /\ pc[p] \in {"prune", "removing"}
       /\ job[p].cmd = "stage" => job[p].state.deployed = record.deployed

Building == {"build", "stageRead", "stageRecord", "swap", "capture", "reload",
             "verify", "landed"}
Aimed(p) == pc[p] \in Building => job[p].head \in Sha

StageInv ==
  /\ table.watch = "auto" => record.staged = None
  /\ \A p \in Proc : Part(p) /\ Current(p) /\ Aimed(p)

(* What the process under way does to the record and to its copy of it.    *)
LEMMA StageOwn ==
  ASSUME Steady, Peaceful => Calm, TypeInv, StageInv, NEW p \in Proc, Step(p)
  PROVE  /\ table'.watch = table.watch
         /\ table.watch = "auto" => record'.staged = None
         /\ Part(p)' /\ Current(p)' /\ Aimed(p)'
<1> /\ TypeOK /\ pc \in [Proc -> Labels] /\ job \in [Proc -> Job] /\ job[p] \in Job
    /\ record \in Record /\ Valid(record) /\ table \in Table /\ None \notin Sha
    /\ Dog \notin Operator /\ "deploy" \notin Commands /\ "watch" \notin Commands
    /\ Part(p) /\ Current(p) /\ Aimed(p)
    /\ table.watch = "auto" => record.staged = None
    /\ pc[p] \in Headed => job[p].head \in Sha
  BY ProcAssumption, ShaAssumption DEF TypeInv, TypeOK, HeadKnown, Labels, Steady,
     StageInv
<1> table.watch \in {"auto", "manual"}
  BY DEF Table
<1> USE DEF Part, Current, Aimed, Goto, Arriving, Building
<1>1. CASE StartTick(p)
  <2>1. /\ pc'[p] = "adopt" /\ p = Dog /\ UNCHANGED <<record, table>>
        /\ job'[p] = [job[p] EXCEPT !.cmd = "tick", !.state = record]
    BY <1>1 DEF StartTick, StartGo, Recall, disk
  <2>2. job'[p].cmd = "tick" /\ job'[p].state = record
    BY <2>1 DEF Job
  <2>3. QED
    BY <2>1, <2>2 DEF DogPlaces
<1>2. CASE StartRereads(p)
  <2>1. PICK c \in Rereads : StartReread(p, c)
    BY <1>2 DEF StartRereads
  <2>2. /\ pc[p] = "idle" /\ pc'[p] = "hold" /\ p # Dog /\ UNCHANGED <<record, table>>
        /\ job'[p] = [job[p] EXCEPT !.cmd = c]
    BY <2>1 DEF StartReread, Recall, disk
  <2>3. job'[p].cmd = c /\ job'[p].state = job[p].state /\ c \in {"stage", "promote"}
    BY <2>2 DEF Job, Rereads
  <2>4. QED
    BY <2>2, <2>3 DEF StagePlaces
<1>3. CASE StartBranch(p)
  <2>1. PICK b \in Branch : StartSettings(p, "branch", [table EXCEPT !.branch = b])
    BY <1>3 DEF StartBranch
  <2>2. /\ pc[p] = "idle" /\ pc'[p] = "change" /\ p # Dog /\ UNCHANGED <<record, table>>
        /\ job'[p] = [job[p] EXCEPT !.cmd = "branch", !.table = [table EXCEPT !.branch = b]]
    BY <2>1 DEF StartSettings, Recall, disk
  <2>3. /\ job'[p].cmd = "branch" /\ job'[p].state = job[p].state
        /\ job'[p].table = [table EXCEPT !.branch = b]
    BY <2>2 DEF Job
  <2>4. job'[p].table.watch = table.watch
    BY <2>3 DEF Table
  <2>5. QED
    BY <2>2, <2>3, <2>4
<1>4. CASE Reread(p)
  <2>1. /\ pc[p] = "read" /\ pc'[p] = "adopt" /\ p # Dog /\ UNCHANGED <<record, table>>
        /\ job'[p] = [job[p] EXCEPT !.state = record]
    BY <1>4 DEF Reread, Recall, DogPlaces, disk
  <2>2. job'[p].cmd = job[p].cmd /\ job'[p].state = record
    BY <2>1 DEF Job
  <2>3. QED
    BY <2>1, <2>2 DEF StagePlaces
<1>5. CASE Adopt(p)
  <2>1. /\ pc[p] = "adopt" /\ UNCHANGED <<record, table>>
        /\ \/ pc'[p] = "idle" /\ job'[p] = NoJob
           \/ /\ job'[p] = [job[p] EXCEPT !.branch = table.branch]
              /\ \/ /\ job[p].cmd \in Go /\ pc'[p] = "hold"
                    /\ job[p].cmd = "tick" => table.watch = "auto"
                 \/ /\ job[p].cmd \in Rereads /\ pc'[p] = "check"
                    /\ job[p].cmd = "stage" => table.watch = "manual"
    BY <1>5 DEF Adopt, Finish, Release, Recall, disk
  <2>2. CASE pc'[p] = "idle" /\ job'[p] = NoJob
    BY <2>1, <2>2 DEF NoJob
  <2>3. CASE job'[p] = [job[p] EXCEPT !.branch = table.branch]
    <3>1. job'[p].cmd = job[p].cmd /\ job'[p].state = job[p].state
      BY <2>3 DEF Job
    <3>2. QED
      BY <2>1, <2>3, <3>1 DEF Go, Rereads, DogPlaces, StagePlaces, NoJob
  <2>4. QED
    BY <2>1, <2>2, <2>3
<1>6. CASE Hold(p)
  <2>1. /\ pc[p] = "hold" /\ UNCHANGED <<record, table>>
        /\ \/ pc'[p] = "idle" /\ job'[p] = NoJob
           \/ /\ job' = job
              /\ pc'[p] = IF job[p].cmd \in Go THEN "check" ELSE "read"
    BY <1>6 DEF Hold, Finish, Recall, disk
  <2>2. QED
    BY <2>1 DEF Go, DogPlaces, StagePlaces, NoJob
<1>7. CASE RefuseUncut(p) \/ NothingToDo(p) \/ Sweep(p)
  <2>1. pc'[p] = "idle" /\ job'[p] = NoJob /\ UNCHANGED <<record, table>>
    BY <1>7 DEF RefuseUncut, NothingToDo, Sweep, Finish, Release, Recall, disk
  <2>2. QED
    BY <2>1 DEF NoJob
<1>8. CASE Attempt(p)
  <2>1. /\ pc[p] = "check" /\ pc'[p] = "checkout" /\ UNCHANGED <<record, table>>
        /\ job[p].cmd \in Go \cup {"stage"}
        /\ job'[p] = [job[p] EXCEPT !.head = remote[job[p].branch], !.started = current]
    BY <1>8 DEF Attempt, Recall, disk
  <2>2. job'[p].cmd = job[p].cmd /\ job'[p].state = job[p].state
    BY <2>1 DEF Job
  <2>3. QED
    BY <2>1, <2>2 DEF DogPlaces, StagePlaces, Go
<1>9. CASE Promote(p)
  <2>1. /\ pc[p] = "check" /\ job[p].cmd = "promote" /\ UNCHANGED <<record, table>>
        /\ \/ pc'[p] = "idle" /\ job'[p] = NoJob
           \/ /\ Exists(job[p].state.staged) /\ pc'[p] = "build"
              /\ job'[p] = [job[p] EXCEPT !.head = job[p].state.staged, !.started = current]
    BY <1>9 DEF Promote, Finished, Release, Finish, Recall, disk
  <2>2. CASE pc'[p] = "idle" /\ job'[p] = NoJob
    BY <2>1, <2>2 DEF NoJob
  <2>3. CASE pc'[p] = "build"
    <3>1. /\ job'[p].cmd = job[p].cmd /\ job'[p].state = job[p].state
          /\ job'[p].head = job[p].state.staged
      BY <2>1, <2>3 DEF Job
    <3>2. job[p].state.staged \in Sha
      BY <2>1, <2>3, JobFields DEF Exists, MaybeSha
    <3>3. table.watch = "manual" /\ p # Dog
      BY <2>1, <3>2
    <3>4. QED
      BY <2>1, <2>3, <3>1, <3>2, <3>3 DEF LandPlaces
  <2>4. QED
    BY <2>1, <2>2, <2>3
<1>10. CASE Reuse(p) \/ BeginCheckout(p) \/ EndCheckout(p) \/ Build(p) \/ BuildFails(p)
  <2>1. /\ pc[p] \in {"checkout", "adding", "build"} /\ UNCHANGED <<record, table, job>>
        /\ \/ pc[p] # "build" /\ pc'[p] \in {"adding", "build"}
           \/ pc[p] = "build" /\ pc'[p] = IF job[p].cmd = "stage" THEN "stageRead" ELSE "swap"
           \/ pc[p] = "build" /\ pc'[p] = IF job[p].cmd = "stage" THEN "prune" ELSE "record"
    BY <1>10 DEF Reuse, BeginCheckout, EndCheckout, Build, BuildFails, Failing, disk
  <2>2. QED
    BY <2>1 DEF Headed, DogPlaces, StagePlaces, LandPlaces
<1>11. CASE ReadTable(p)
  <2>1. /\ pc[p] = "stageRead" /\ pc'[p] = "stageRecord" /\ UNCHANGED <<record, table>>
        /\ job'[p] = [job[p] EXCEPT !.table = table]
    BY <1>11 DEF ReadTable, Recall, disk
  <2>2. /\ job'[p].cmd = job[p].cmd /\ job'[p].state = job[p].state
        /\ job'[p].head = job[p].head
    BY <2>1 DEF Job
  <2>3. QED
    BY <2>1, <2>2 DEF DogPlaces, StagePlaces, LandPlaces
<1>12. CASE RecordStaged(p)
  <2>1. Valid(WithStaged(p)) /\ WithStaged(p).deployed = record.deployed
    BY DEF Valid, WithStaged, Record
  <2>2. /\ pc[p] = "stageRecord" /\ pc'[p] = "prune" /\ UNCHANGED table
        /\ record' \in {record, WithStaged(p)}
        /\ \/ job'[p] = [job[p] EXCEPT !.state = record']
           \/ ~Peaceful /\ job'[p] = job[p]
    BY <1>12, <2>1 DEF RecordStaged, Recall, Writes, WriteFails, Spend, Calm
  <2>3. /\ job'[p].cmd = job[p].cmd
        /\ job'[p].state = record' \/ (~Peaceful /\ job'[p].state = job[p].state)
        /\ record'.deployed = record.deployed
    BY <2>1, <2>2 DEF Job
  <2>4. p # Dog /\ job[p].cmd = "stage" /\ table.watch = "manual"
    BY <2>2 DEF DogPlaces, StagePlaces, LandPlaces
  <2>5. QED
    BY <2>2, <2>3, <2>4 DEF StagePlaces
<1>13. CASE Swap(p) \/ Capture(p) \/ Reload(p) \/ Verify(p) \/ Undo(p) \/
          CaptureBack(p) \/ ReloadBack(p) \/ Retry(p) \/ VerifyBack(p) \/
          EndRemoval(p)
  <2>1. /\ pc[p] \in {"swap", "capture", "reload", "verify", "undo", "captureBack",
                      "reloadBack", "verifyBack", "removing"}
        /\ UNCHANGED <<record, table, job>>
    BY <1>13 DEF Swap, Capture, Reload, Verify, Undo, CaptureBack, ReloadBack,
         Retry, VerifyBack, EndRemoval, disk
  <2>2. /\ pc[p] = "removing" => pc'[p] = "prune"
        /\ pc[p] # "removing" => pc'[p] \in {"capture", "reload", "verify", "landed",
             "undo", "rollback", "captureBack", "reloadBack", "verifyBack", "record"}
        /\ pc'[p] \in Building => pc[p] \in Building
    BY <1>13 DEF Swap, Capture, Reload, Verify, Undo, CaptureBack, ReloadBack,
         Retry, VerifyBack, EndRemoval
  <2>3. QED
    BY <2>1, <2>2 DEF DogPlaces, StagePlaces, LandPlaces
<1>14. CASE Landed(p)
  <2> DEFINE next == [deployed |-> job[p].head, failed |-> None, staged |-> None]
  <2>1. Valid(next)
    BY <1>14 DEF Landed, Valid
  <2>2. /\ pc[p] = "landed" /\ pc'[p] = "record" /\ UNCHANGED table
        /\ \/ record' = next /\ job'[p] = [job[p] EXCEPT !.landed = TRUE, !.state = next]
           \/ /\ ~Peaceful /\ record' \in {record, next}
              /\ job'[p] = [job[p] EXCEPT !.landed = TRUE, !.state.deployed = job[p].head]
    BY <1>14, <2>1 DEF Landed, Recall, Writes, WriteFails, Spend, Calm
  <2>3. CASE record' = next /\ job'[p] = [job[p] EXCEPT !.landed = TRUE, !.state = next]
    <3>1. job'[p].cmd = job[p].cmd /\ job'[p].state = next
      BY <2>3 DEF Job
    <3>2. QED
      BY <2>2, <2>3, <3>1 DEF DogPlaces, StagePlaces, LandPlaces
  <2>4. CASE /\ ~Peaceful /\ record' \in {record, next}
             /\ job'[p] = [job[p] EXCEPT !.landed = TRUE, !.state.deployed = job[p].head]
    <3>1. job'[p].cmd = job[p].cmd /\ job'[p].state.staged = job[p].state.staged
      BY <2>4 DEF Job, Record
    <3>2. next.staged = None
      OBVIOUS
    <3>3. QED
      BY <2>2, <2>4, <3>1, <3>2 DEF DogPlaces, StagePlaces, LandPlaces
  <2>5. QED
    BY <2>2, <2>3, <2>4
<1>15. CASE Rollback(p) \/ BeginRemoval(p)
  <2>1. /\ pc[p] \in {"rollback", "prune"} /\ UNCHANGED <<record, table>>
        /\ pc[p] = "rollback" => pc'[p] \in {"record", "correct", "captureBack"}
        /\ pc[p] = "prune" => pc'[p] = "removing"
        /\ job'[p] = job[p] \/ \E t : job'[p] = [job[p] EXCEPT !.to = t]
    BY <1>15 DEF Rollback, BeginRemoval, Recall
  <2>2. job'[p].cmd = job[p].cmd /\ job'[p].state = job[p].state
    BY <2>1 DEF Job
  <2>3. QED
    BY <2>1, <2>2 DEF DogPlaces, StagePlaces, LandPlaces
<1>16. CASE Correct(p)
  <2> DEFINE next == [job[p].state EXCEPT !.deployed = job[p].to]
  <2>1. /\ pc[p] = "correct" /\ pc'[p] \in {"captureBack", "record"} /\ UNCHANGED table
        /\ record' \in {record, next}
        /\ job'[p] = [job[p] EXCEPT !.state = next]
    BY <1>16 DEF Correct, Recall, Writes, WriteFails
  <2>2. /\ job'[p].cmd = job[p].cmd /\ job'[p].state = next
        /\ next.staged = job[p].state.staged
    BY <2>1 DEF Job, Record
  <2>3. QED
    BY <2>1, <2>2 DEF DogPlaces, StagePlaces, LandPlaces
<1>17. CASE RecordOutcome(p)
  <2>1. /\ pc[p] = "record" /\ pc'[p] = "prune" /\ UNCHANGED table
        /\ record' \in {record, Outcome(job[p])}
        /\ \/ job'[p] = job[p]
           \/ UNCHANGED record /\ job'[p] = [job[p] EXCEPT !.state = record]
           \/ job'[p] = [job[p] EXCEPT !.state = Outcome(job[p])]
    BY <1>17 DEF RecordOutcome, Recall, Writes, WriteFails
  <2>2. Outcome(job[p]).staged = job[p].state.staged
    BY DEF Outcome, Job, Record
  <2>3. /\ job'[p].cmd = job[p].cmd
        /\ \/ job'[p].state.staged = job[p].state.staged
           \/ UNCHANGED record /\ job'[p].state = record
    BY <2>1, <2>2 DEF Job
  <2>4. QED
    BY <2>1, <2>2, <2>3 DEF DogPlaces, StagePlaces, LandPlaces
<1>18. CASE Change(p)
  <2>1. /\ pc[p] = "change" /\ UNCHANGED record /\ table' \in {table, job[p].table}
        /\ \/ pc'[p] = "idle" /\ job'[p] = NoJob
           \/ pc'[p] = "lift" /\ UNCHANGED job
    BY <1>18 DEF Change, Finish, Recall, disk
  <2>2. QED
    BY <2>1 DEF NoJob, DogPlaces, StagePlaces, LandPlaces
<1>19. CASE Lift(p)
  <2>1. /\ pc'[p] = "idle" /\ job'[p] = NoJob /\ UNCHANGED table
        /\ record' \in {record, [record EXCEPT !.failed = None]}
    BY <1>19 DEF Lift, Finish, Recall, Writes, WriteFails
  <2>2. record'.staged = record.staged
    BY <2>1 DEF Record
  <2>3. QED
    BY <2>1, <2>2 DEF NoJob
<1>20. CASE StartDeploy(p) \/ StartWatch(p)
  BY <1>20 DEF StartDeploy, StartWatch, StartSettings
<1>21. CASE Abandon(p) \/ CheckoutFails(p) \/ Crash(p)
  <2>1. /\ UNCHANGED <<record, table>>
        /\ \/ pc'[p] = "idle" /\ job'[p] = NoJob
           \/ /\ pc[p] = "adding" /\ UNCHANGED job
              /\ pc'[p] = IF job[p].cmd = "stage" THEN "prune" ELSE "record"
    BY <1>21 DEF Abandon, CheckoutFails, Crash, Finish, Failing, Recall, disk
  <2>2. QED
    BY <2>1 DEF NoJob, DogPlaces, StagePlaces, LandPlaces
<1>22. QED
  BY <1>1, <1>2, <1>3, <1>4, <1>5, <1>6, <1>7, <1>8, <1>9, <1>10, <1>11,
       <1>12, <1>13, <1>14, <1>15, <1>16, <1>17, <1>18, <1>19, <1>20, <1>21
       DEF Step, Starts, Proceeds, StartRereads

(* Outside the tree lock only `--branch` writes the record: its hold.      *)
LEMMA OutsideRecord ==
  ASSUME TypeOK, NEW p \in Proc, Step(p), ~Holds(p)
  PROVE  record'.deployed = record.deployed /\ record'.staged = record.staged
<1> record \in Record
  BY DEF TypeOK
<1>1. CASE Lift(p)
  <2>1. record' \in {record, [record EXCEPT !.failed = None]}
    BY <1>1 DEF Lift, Writes, WriteFails
  <2>2. QED
    BY <2>1 DEF Record
<1>2. CASE RecordStaged(p) \/ Landed(p) \/ Correct(p) \/ RecordOutcome(p)
  BY <1>2 DEF RecordStaged, Landed, Correct, RecordOutcome, Holds, Inside
<1>3. QED
  BY <1>1, <1>2 DEF Step, Starts, Proceeds, disk, StartTick, StartGo,
       StartDeploy, StartRereads, StartReread, Reread, Adopt, Hold, Abandon,
       RefuseUncut, NothingToDo, Attempt, Promote, Reuse, BeginCheckout,
       EndCheckout, CheckoutFails, Build, BuildFails, ReadTable, Swap,
       Capture, Reload, Verify, Undo, Rollback, CaptureBack, ReloadBack,
       Retry, VerifyBack, BeginRemoval, EndRemoval, Sweep, Change,
       StartBranch, StartSettings, StartWatch, Crash

(* An operator with a copy of the record is inside the tree lock.          *)
LEMMA CopyHolds ==
  ASSUME NEW q \in Proc, q # Dog, Part(q),
         pc[q] \notin Arriving \cup {"change", "lift"}
  PROVE  Holds(q)
  BY DEF Part, Arriving, Holds, Inside, Reading, Rereads, StagePlaces, LandPlaces

LEMMA StageOthers ==
  ASSUME Steady, Peaceful => Calm, TypeInv, Exclusive, StageInv, NEW p \in Proc, Step(p),
         NEW q \in Proc, q # p
  PROVE  Part(q)' /\ Current(q)' /\ Aimed(q)'
<1>1. /\ pc'[q] = pc[q] /\ job'[q] = job[q] /\ table'.watch = table.watch
      /\ Part(q) /\ Current(q) /\ Aimed(q) /\ TypeOK
  BY OthersStep, StageOwn DEF StageInv, TypeInv
<1>2. Part(q)' /\ Aimed(q)'
  BY <1>1 DEF Part, Aimed
<1>3. CASE q = Dog \/ pc[q] \in Arriving \cup {"change", "lift"}
  BY <1>1, <1>2, <1>3 DEF Current
<1>4. CASE q # Dog /\ pc[q] \notin Arriving \cup {"change", "lift"}
  <2>1. ~Holds(p)
    BY <1>1, <1>4, CopyHolds DEF Exclusive
  <2>2. record'.deployed = record.deployed /\ record'.staged = record.staged
    BY <1>1, <2>1, OutsideRecord
  <2>3. QED
    BY <1>1, <1>2, <1>4, <2>2 DEF Current
<1>5. QED
  BY <1>3, <1>4

LEMMA StageNext ==
  ASSUME Steady
  PROVE  TypeInv /\ Exclusive /\ (Peaceful => Calm) /\ StageInv /\ [Next]_vars
            => StageInv'
<1> SUFFICES ASSUME TypeInv, Exclusive, Peaceful => Calm, StageInv, [Next]_vars PROVE StageInv'
  OBVIOUS
<1>1. ASSUME NEW p \in Proc, Step(p) PROVE StageInv'
  BY <1>1, StageOwn, StageOthers DEF StageInv
<1>2. CASE Shepherd \/ Environment
  <2>1. UNCHANGED <<record, table, pc, job>>
    BY <1>2 DEF Shepherd, Spawn, TurnOver, GiveUp, Restart, Environment, Push,
       HandRepoint, HandRemove, disk
  <2>2. QED
    BY <2>1 DEF StageInv, Part, Current, Aimed
<1>3. CASE UNCHANGED vars
  BY <1>3 DEF vars, disk, StageInv, Part, Current, Aimed
<1>4. QED
  BY <1>1, <1>2, <1>3 DEF Next

LEMMA StageInit == Init => StageInv
<1> SUFFICES ASSUME NEW first \in Sha, InitAt(first) PROVE StageInv
  BY DEF Init
<1>1. QED
  BY DEF InitAt, NoJob, StageInv, Part, Current, Aimed, Arriving, Building

LEMMA StageInvariant ==
  ASSUME Steady
  PROVE  Spec => []StageInv
<1>1. Init => (Peaceful => Calm)
  BY DEF Init, InitAt, Peaceful, Calm
<1>2. TypeInv /\ (Peaceful => Calm) /\ [Next]_vars => (Peaceful => Calm)'
  BY CalmNext DEF Peaceful
<1>3. QED
  BY <1>1, <1>2, StageInit, StageNext, TypeInvariant, MutualExclusion, PTL DEF Spec

(* Where the target is watched and the dog's, or manual and its operators' *)
(* for good, a staged release stays recorded until a release lands, however *)
(* many operators stage, promote and change branches, whoever is killed,   *)
(* whatever fails and whatever is removed or repointed by hand: whoever    *)
(* writes the record whole has read it since `staged` was last written,    *)
(* but for a write of its own that failed after it was made                *)
(* (record_staged, record_landing, record, restore).                       *)
THEOREM StagedStays ==
  ASSUME Steady
  PROVE  Spec => StagedUntilLanded
<1> DEFINE A == record.staged # None /\ record'.staged = None =>
                  \E p \in Proc : pc[p] = "landed"
<1>1. TypeInv /\ Exclusive /\ StageInv /\ [Next]_vars => [A]_vars
  <2> SUFFICES ASSUME TypeInv, Exclusive, StageInv, Next,
                      record.staged # None, record'.staged = None
               PROVE  \E p \in Proc : pc[p] = "landed"
    OBVIOUS
  <2>1. ~(Shepherd \/ Environment)
    BY DEF Shepherd, Spawn, TurnOver, GiveUp, Restart, Environment, Push,
       HandRepoint, HandRemove, disk
  <2>2. PICK p \in Proc : Step(p)
    BY <2>1 DEF Next
  <2> /\ TypeOK /\ Part(p) /\ Current(p) /\ Aimed(p) /\ None \notin Sha
      /\ record \in Record /\ job[p] \in Job /\ table.watch # "auto"
    BY ShaAssumption DEF TypeInv, TypeOK, StageInv
  <2>3. Holds(p)
    BY <2>2, OutsideRecord
  <2>4. CASE Landed(p)
    BY <2>4 DEF Landed
  <2>5. CASE RecordStaged(p)
    <3>1. /\ pc[p] = "stageRecord" /\ record' \in {record, WithStaged(p)}
      BY <2>5 DEF RecordStaged, Writes, WriteFails
    <3>2. WithStaged(p).staged = job[p].head /\ job[p].head \in Sha
      BY <3>1 DEF WithStaged, Record, Aimed, Building
    <3>3. QED
      BY <3>1, <3>2
  <2>6. CASE Correct(p) \/ RecordOutcome(p)
    <3>1. /\ pc[p] \in {"correct", "record"}
          /\ record' \in {record, [job[p].state EXCEPT !.deployed = job[p].to],
                          Outcome(job[p])}
      BY <2>6 DEF Correct, RecordOutcome, Writes, WriteFails
    <3>2. record'.staged \in {record.staged, job[p].state.staged}
      BY <3>1 DEF Outcome, Job, Record
    <3>3. p # Dog
      BY <3>1, ShaAssumption DEF Part, Table, TypeOK
    <3>4. job[p].cmd # "stage"
      BY <3>1, <3>3 DEF Part, StagePlaces
    <3>5. job[p].state.staged = record.staged
      BY <3>1, <3>3, <3>4 DEF Current, Arriving
    <3>6. QED
      BY <3>2, <3>5
  <2>7. QED
    BY <2>2, <2>3, <2>4, <2>5, <2>6 DEF Step, Starts, Proceeds, disk, StartTick,
       StartGo, StartDeploy, StartReread, Reread, Adopt, Hold, Abandon,
       RefuseUncut, NothingToDo, Attempt, Promote, Reuse, BeginCheckout,
       EndCheckout, CheckoutFails, Build, BuildFails, ReadTable, Swap,
       Capture, Reload, Verify, Undo, Rollback, CaptureBack, ReloadBack,
       Retry, VerifyBack, BeginRemoval, EndRemoval, Sweep, Change, Lift,
       StartBranch, StartSettings, StartWatch, Crash, Holds, Inside, Reading
<1>2. QED
  BY <1>1, StageInvariant, TypeInvariant, MutualExclusion, PTL DEF Spec, StagedUntilLanded

-----------------------------------------------------------------------------
(* The record, the link and the verdicts agree.                            *)

(* Ticks land releases, or operators promote what they staged: nobody      *)
(* deploys by command, and not both promotes and switches `watch`.  It is  *)
(* quiet if nothing is killed or fails either, and nobody repoints         *)
(* `current` by hand; the shepherd may refuse, and stages, branches,       *)
(* pushes and removals by hand go on.                                      *)
InTurn == "deploy" \notin Commands /\ ~({"promote", "watch"} \subseteq Commands)
Quiet == InTurn /\ Peaceful /\ Bounds.repoint = 0

PromotePlaces == LandPlaces \cup {"hold", "read", "adopt", "check"}
RoleOf(p) ==
  \/ pc[p] = "idle"
  \/ p = Dog /\ job[p].cmd = "tick" /\ pc[p] \in DogPlaces
  \/ p # Dog /\ job[p].cmd = "stage" /\ pc[p] \in StagePlaces
  \/ p # Dog /\ job[p].cmd = "promote" /\ pc[p] \in PromotePlaces /\ "promote" \in Commands
  \/ p # Dog /\ job[p].cmd \in Settings /\ pc[p] \in {"change", "lift"}

(* From its swap until it has recorded a landing or put the link back, a   *)
(* process has moved `current` away from what the record is about.         *)
Moved == {"capture", "reload", "verify", "landed", "undo", "rollback"}
Home(p) == IF pc[p] \in Moved THEN job[p].started ELSE current

Told(s) == record.deployed \in {None, s} /\ record.failed # s
Truth ==
  /\ (\A p \in Proc : pc[p] \notin Moved) => Told(current)
  /\ \A p \in Proc : pc[p] \in Moved => Told(job[p].started)

(* What a process has read of the record still holds of it, a hold lifted  *)
(* meanwhile apart, and it has landed nothing yet.  A tick reads before it *)
(* has the lock; on a target that stays manual it goes no further.         *)
Unstaged(r) == r.staged = None \/ r.staged # r.deployed
Waits == Steady /\ table.watch = "manual"
HasRead(p) ==
  \/ pc[p] \in Inside
  \/ pc[p] = "hold" /\ p = Dog
  \/ pc[p] = "adopt" /\ ~(p = Dog /\ Waits)
Remembers(p) ==
  /\ HasRead(p) =>
       /\ job[p].state.deployed = record.deployed
       /\ record.failed \in {None, job[p].state.failed}
       /\ Unstaged(job[p].state)
  /\ pc[p] \in {"idle", "hold", "read", "adopt", "check"} => ~job[p].landed

(* From its decision to attempt a head to that attempt's ending, a process *)
(* began at the deployed release, and goes back to that or lands.          *)
Before == {"checkout", "adding", "build", "stageRead", "stageRecord", "swap"}
Back == {"captureBack", "reloadBack", "verifyBack"}
Trying(p) ==
  pc[p] \in Before \cup Moved \cup Back =>
    /\ job[p].head \in Sha \ {job[p].started}
    /\ job[p].started = job[p].state.deployed
    /\ Exists(job[p].started)
    /\ ~job[p].landed
    /\ current = IF pc[p] \in Moved THEN job[p].head ELSE job[p].started
Ending(p) ==
  /\ pc[p] # "correct"
  /\ pc[p] = "landed" => job[p].head \in verified
  /\ pc[p] = "record" =>
       /\ job[p].state.deployed = current
       /\ IF job[p].landed THEN job[p].state.failed = None
          ELSE job[p].head \in Sha \ {current}

Story(p) == Remembers(p) /\ Trying(p) /\ Ending(p)
Recorded == record.deployed \in verified \cup {None} /\ Unstaged(record)
AgreeInv ==
  /\ left.repoint = 0
  /\ Truth /\ Recorded
  /\ \A p \in Proc : RoleOf(p) /\ Story(p)

LEMMA AgreeInit ==
  ASSUME Bounds.repoint = 0
  PROVE  Init => AgreeInv
<1> SUFFICES ASSUME NEW first \in Sha, InitAt(first) PROVE AgreeInv
  BY DEF Init
<1>1. pc = [p \in Proc |-> "idle"] /\ job = [p \in Proc |-> NoJob]
  BY DEF InitAt
<1>2. Truth /\ Recorded
  BY <1>1, ShaAssumption DEF InitAt, Truth, Told, Recorded, Unstaged, Moved
<1>3. ASSUME NEW p \in Proc PROVE RoleOf(p) /\ Story(p)
  BY <1>1 DEF NoJob, RoleOf, Story, Remembers, HasRead, Inside, Trying, Ending,
     Before, Moved, Back
<1>4. QED
  BY <1>2, <1>3 DEF InitAt, AgreeInv

LEMMA BackToStart ==
  ASSUME NEW p \in Proc, Trying(p), pc[p] \in {"undo", "rollback"}
  PROVE  Target(p) = job[p].started /\ Target(p) # None
  BY DEF Trying, Moved, Target, RollbackTarget, Usable, Exists

(* Each process keeps to its part.                                         *)
LEMMA RoleStep ==
  ASSUME "deploy" \notin Commands, TypeOK, NEW p \in Proc, RoleOf(p), Step(p)
  PROVE  RoleOf(p)'
<1> /\ pc \in [Proc -> Labels] /\ job \in [Proc -> Job] /\ job[p] \in Job
    /\ Dog \notin Operator
  BY ProcAssumption DEF TypeOK, Labels
<1> USE DEF RoleOf, Goto, Settings
<1>1. CASE StartTick(p)
  <2>1. /\ pc'[p] = "adopt" /\ p = Dog
        /\ job'[p] = [job[p] EXCEPT !.cmd = "tick", !.state = record]
    BY <1>1 DEF StartTick, StartGo, Recall
  <2>2. job'[p].cmd = "tick"
    BY <2>1 DEF Job
  <2>3. QED
    BY <2>1, <2>2 DEF DogPlaces
<1>2. CASE StartRereads(p)
  <2>1. PICK c \in Rereads : StartReread(p, c)
    BY <1>2 DEF StartRereads
  <2>2. /\ pc'[p] = "hold" /\ p # Dog /\ c \in Commands
        /\ job'[p] = [job[p] EXCEPT !.cmd = c]
    BY <2>1 DEF StartReread, Recall
  <2>3. job'[p].cmd = c
    BY <2>2 DEF Job
  <2>4. QED
    BY <2>1, <2>2, <2>3 DEF Rereads, StagePlaces, PromotePlaces
<1>3. CASE StartBranch(p) \/ StartWatch(p)
  <2>1. PICK c \in Settings : \E t : StartSettings(p, c, t)
    BY <1>3 DEF StartBranch, StartWatch, Settings
  <2>2. PICK t : StartSettings(p, c, t)
    BY <2>1
  <2>3. /\ pc'[p] = "change" /\ p # Dog
        /\ job'[p] = [job[p] EXCEPT !.cmd = c, !.table = t]
    BY <2>2 DEF StartSettings, Recall
  <2>4. job'[p].cmd = c
    BY <2>3 DEF Job
  <2>5. QED
    BY <2>1, <2>3, <2>4
<1>4. CASE Reread(p) \/ ReadTable(p)
  <2>1. /\ \/ pc[p] = "read" /\ pc'[p] = "adopt"
           \/ pc[p] = "stageRead" /\ pc'[p] = "stageRecord"
        /\ \/ job'[p] = [job[p] EXCEPT !.state = record]
           \/ job'[p] = [job[p] EXCEPT !.table = table]
    BY <1>4 DEF Reread, ReadTable, Recall
  <2>2. job'[p].cmd = job[p].cmd
    BY <2>1 DEF Job
  <2>3. QED
    BY <2>1, <2>2 DEF DogPlaces, StagePlaces, PromotePlaces, LandPlaces
<1>5. CASE Adopt(p)
  <2>1. \/ pc'[p] = "idle"
        \/ /\ job'[p] = [job[p] EXCEPT !.branch = table.branch]
           /\ \/ job[p].cmd \in Go /\ pc'[p] = "hold"
              \/ job[p].cmd \in Rereads /\ pc'[p] = "check"
    BY <1>5 DEF Adopt, Finish, Release, Recall
  <2>2. CASE pc'[p] # "idle"
    <3>1. job'[p].cmd = job[p].cmd
      BY <2>1, <2>2 DEF Job
    <3>2. QED
      BY <1>5, <2>1, <2>2, <3>1 DEF Adopt, Go, Rereads, DogPlaces,
         StagePlaces, PromotePlaces
  <2>3. QED
    BY <2>2
<1>6. CASE Hold(p) \/ RefuseUncut(p) \/ NothingToDo(p) \/ Sweep(p) \/ Change(p)
          \/ Lift(p)
  BY <1>6 DEF Hold, RefuseUncut, NothingToDo, Sweep, Change, Lift, Finish,
       Release, Go, DogPlaces, StagePlaces, PromotePlaces, LandPlaces
<1>7. CASE Attempt(p)
  <2>1. /\ pc'[p] = "checkout" /\ pc[p] = "check" /\ job[p].cmd # "promote"
        /\ job'[p] = [job[p] EXCEPT !.head = remote[job[p].branch], !.started = current]
    BY <1>7 DEF Attempt, Recall, Go
  <2>2. job'[p].cmd = job[p].cmd
    BY <2>1 DEF Job
  <2>3. QED
    BY <2>1, <2>2 DEF DogPlaces, StagePlaces
<1>8. CASE Promote(p)
  <2>1. /\ pc[p] = "check" /\ job[p].cmd = "promote"
        /\ \/ pc'[p] = "idle"
           \/ /\ pc'[p] = "build"
              /\ job'[p] = [job[p] EXCEPT !.head = job[p].state.staged, !.started = current]
    BY <1>8 DEF Promote, Finish, Release, Recall
  <2>2. pc'[p] # "idle" => job'[p].cmd = "promote"
    BY <2>1 DEF Job
  <2>3. QED
    BY <2>1, <2>2 DEF DogPlaces, StagePlaces, PromotePlaces, LandPlaces
<1>9. CASE Reuse(p) \/ BeginCheckout(p) \/ EndCheckout(p) \/ Build(p) \/
          BuildFails(p) \/ Swap(p) \/ Capture(p) \/ Reload(p) \/ Verify(p) \/
          Undo(p) \/ CaptureBack(p) \/ ReloadBack(p) \/ Retry(p) \/ VerifyBack(p)
          \/ EndRemoval(p)
  BY <1>9 DEF Reuse, BeginCheckout, EndCheckout, Build, BuildFails, Swap,
       Capture, Reload, Verify, Undo, CaptureBack, ReloadBack, Retry,
       VerifyBack, EndRemoval, Failing, DogPlaces, StagePlaces, PromotePlaces,
       LandPlaces
<1>10. CASE RecordStaged(p)
  <2>1. p # Dog /\ job[p].cmd = "stage" /\ pc'[p] = "prune"
    BY <1>10 DEF RecordStaged, DogPlaces, PromotePlaces, LandPlaces
  <2>2. job'[p] = job[p] \/ \E r : job'[p] = [job[p] EXCEPT !.state = r]
    BY <1>10 DEF RecordStaged, Recall
  <2>3. job'[p].cmd = job[p].cmd
    BY <2>2 DEF Job
  <2>4. QED
    BY <2>1, <2>3 DEF StagePlaces
<1>11. CASE Landed(p)
  <2>1. pc[p] = "landed" /\ pc'[p] = "record"
    BY <1>11 DEF Landed
  <2>2. \/ job'[p] = [job[p] EXCEPT !.landed = TRUE, !.state.deployed = job[p].head]
        \/ job'[p] = [job[p] EXCEPT !.landed = TRUE, !.state =
                        [deployed |-> job[p].head, failed |-> None, staged |-> None]]
    BY <1>11 DEF Landed, Recall
  <2>3. job'[p].cmd = job[p].cmd
    BY <2>2 DEF Job
  <2>4. QED
    BY <2>1, <2>3 DEF DogPlaces, StagePlaces, PromotePlaces, LandPlaces
<1>12. CASE Rollback(p) \/ Correct(p)
  <2>1. pc[p] \in {"rollback", "correct"}
    BY <1>12 DEF Rollback, Correct
  <2>2. /\ pc'[p] \in {"correct", "captureBack", "record"}
        /\ \/ job'[p] = job[p]
           \/ job'[p] = [job[p] EXCEPT !.to = Target(p)]
           \/ \E r : job'[p] = [job[p] EXCEPT !.state = r]
    BY <1>12 DEF Rollback, Correct, Recall
  <2>3. job'[p].cmd = job[p].cmd
    BY <2>2 DEF Job
  <2>4. QED
    BY <2>1, <2>2, <2>3 DEF DogPlaces, StagePlaces, PromotePlaces, LandPlaces
<1>13. CASE RecordOutcome(p)
  <2>1. pc[p] = "record" /\ pc'[p] = "prune"
    BY <1>13 DEF RecordOutcome
  <2>2. job'[p] = job[p] \/ \E r : job'[p] = [job[p] EXCEPT !.state = r]
    BY <1>13 DEF RecordOutcome, Recall
  <2>3. job'[p].cmd = job[p].cmd
    BY <2>2 DEF Job
  <2>4. QED
    BY <2>1, <2>3 DEF DogPlaces, StagePlaces, PromotePlaces, LandPlaces
<1>14. CASE BeginRemoval(p)
  <2>1. pc[p] = "prune" /\ pc'[p] = "removing" /\ \E s : job'[p] = [job[p] EXCEPT !.to = s]
    BY <1>14 DEF BeginRemoval, Recall
  <2>2. job'[p].cmd = job[p].cmd
    BY <2>1 DEF Job
  <2>3. QED
    BY <2>1, <2>2 DEF DogPlaces, StagePlaces, PromotePlaces, LandPlaces
<1>15. CASE Abandon(p) \/ CheckoutFails(p) \/ Crash(p)
  <2>1. \/ pc'[p] = "idle"
        \/ /\ pc[p] = "adding" /\ UNCHANGED job
           /\ pc'[p] = IF job[p].cmd = "stage" THEN "prune" ELSE "record"
    BY <1>15 DEF Abandon, CheckoutFails, Crash, Finish, Failing
  <2>2. QED
    BY <2>1 DEF DogPlaces, StagePlaces, PromotePlaces, LandPlaces
<1>16. QED
  BY <1>1, <1>2, <1>3, <1>4, <1>5, <1>6, <1>7, <1>8, <1>9, <1>10, <1>11,
       <1>12, <1>13, <1>14, <1>15 DEF Step, Starts, Proceeds, StartRereads,
       StartDeploy

(* An operator who is not landing a promote leaves the link, the verdicts  *)
(* and what the record says is deployed alone, and at most lifts a hold.   *)
LEMMA OperatorStep ==
  ASSUME TypeOK, NEW p \in Proc, p # Dog, RoleOf(p), Step(p),
         job[p].cmd = "promote" => pc[p] \notin LandPlaces
  PROVE  /\ UNCHANGED <<current, verified>>
         /\ record'.deployed = record.deployed
         /\ record'.failed \in {None, record.failed}
<1> record \in Record
  BY DEF TypeOK
<1> USE DEF RoleOf, Settings, StagePlaces, PromotePlaces, LandPlaces
<1>1. CASE Swap(p) \/ Capture(p) \/ Reload(p) \/ Verify(p) \/ Landed(p) \/
          Undo(p) \/ Rollback(p) \/ Correct(p) \/ CaptureBack(p) \/
          ReloadBack(p) \/ Retry(p) \/ VerifyBack(p) \/ RecordOutcome(p)
  BY <1>1 DEF Swap, Capture, Reload, Verify, Landed, Undo, Rollback, Correct,
       CaptureBack, ReloadBack, Retry, VerifyBack, RecordOutcome
<1>2. CASE RecordStaged(p)
  <2>1. /\ UNCHANGED <<current, verified>>
        /\ UNCHANGED record \/ record' = [record EXCEPT !.staged = job[p].head]
    BY <1>2 DEF RecordStaged, WithStaged, Writes, WriteFails
  <2>2. QED
    BY <2>1 DEF Record
<1>3. CASE Lift(p)
  <2>1. /\ UNCHANGED <<current, verified>>
        /\ UNCHANGED record \/ record' = [record EXCEPT !.failed = None]
    BY <1>3 DEF Lift, Writes, WriteFails
  <2>2. QED
    BY <2>1 DEF Record
<1>4. QED
  BY <1>1, <1>2, <1>3 DEF Step, Starts, Proceeds, disk, StartTick, StartGo,
       StartDeploy, StartReread, Reread, Adopt, Hold, Abandon, RefuseUncut,
       NothingToDo, Attempt, Promote, Reuse, BeginCheckout, EndCheckout,
       CheckoutFails, Build, BuildFails, ReadTable, BeginRemoval, EndRemoval,
       Sweep, Change, StartBranch, StartSettings, StartWatch, Crash

(* No promote lands while a tick has read the record and may go on to act  *)
(* on it: an operator who may promote finds the target manual for good.    *)
LEMMA NoneLanding ==
  ASSUME InTurn, Steady => StageInv, NEW p \in Proc, p # Dog, RoleOf(p),
         pc[Dog] \in {"hold", "check"} \/ (pc[Dog] = "adopt" /\ ~Waits),
         table.watch \in {"auto", "manual"}
  PROVE  job[p].cmd = "promote" => pc[p] \notin LandPlaces
<1> SUFFICES ASSUME job[p].cmd = "promote", pc[p] \in LandPlaces PROVE FALSE
  OBVIOUS
<1>1. Steady
  BY DEF RoleOf, InTurn, Steady, LandPlaces, Settings
<1>2. Part(p) /\ Part(Dog)
  BY <1>1 DEF StageInv, Proc
<1>3. table.watch = "manual"
  BY <1>2 DEF Part, LandPlaces, Arriving
<1>4. QED
  BY <1>1, <1>2, <1>3 DEF Part, Waits

(* Outside the tree lock a process changes neither link nor verdicts, and  *)
(* of the record at most the hold, which it lifts.                         *)
LEMMA OutsideStory ==
  ASSUME TypeOK, NEW p \in Proc, Step(p), ~Holds(p)
  PROVE  /\ UNCHANGED <<current, release, verified>>
         /\ record'.deployed = record.deployed /\ record'.staged = record.staged
         /\ record'.failed \in {None, record.failed}
<1> record \in Record
  BY DEF TypeOK
<1>1. UNCHANGED verified
  BY DEF Step, Starts, Proceeds, StartTick, StartGo, StartDeploy, StartReread,
     Reread, Adopt, Hold, Abandon, RefuseUncut, NothingToDo, Attempt, Promote,
     Reuse, BeginCheckout, EndCheckout, CheckoutFails, Build, BuildFails,
     ReadTable, RecordStaged, Swap, Capture, Reload, Verify, Landed, Undo,
     Rollback, Correct, CaptureBack, ReloadBack, Retry, VerifyBack,
     RecordOutcome, BeginRemoval, EndRemoval, Sweep, Change, Lift, StartBranch,
     StartSettings, StartWatch, Crash, Holds, Inside
<1>2. record'.failed \in {None, record.failed}
  <2>1. CASE Lift(p)
    <3>1. record' \in {record, [record EXCEPT !.failed = None]}
      BY <2>1 DEF Lift, Writes, WriteFails
    <3>2. QED
      BY <3>1 DEF Record
  <2>2. CASE RecordStaged(p) \/ Landed(p) \/ Correct(p) \/ RecordOutcome(p)
    BY <2>2 DEF RecordStaged, Landed, Correct, RecordOutcome, Holds, Inside
  <2>3. QED
    BY <2>1, <2>2 DEF Step, Starts, Proceeds, disk, StartTick, StartGo,
       StartDeploy, StartReread, Reread, Adopt, Hold, Abandon, RefuseUncut,
       NothingToDo, Attempt, Promote, Reuse, BeginCheckout, EndCheckout,
       CheckoutFails, Build, BuildFails, ReadTable, Swap, Capture, Reload,
       Verify, Undo, Rollback, CaptureBack, ReloadBack, Retry, VerifyBack,
       BeginRemoval, EndRemoval, Sweep, Change, StartBranch, StartSettings,
       StartWatch, Crash
<1>3. QED
  BY <1>1, <1>2, OutsideDisk, OutsideRecord

LEMMA WorkingHolds ==
  ASSUME NEW p \in Proc,
         pc[p] \in Before \cup Moved \cup Back \cup {"landed", "record"}
  PROVE  Holds(p)
  BY DEF Before, Moved, Back, Holds, Inside

(* What holds of a process goes on holding while others act.               *)
LEMMA StoryKept ==
  ASSUME TypeOK, NEW q \in Proc, Story(q),
         pc'[q] = pc[q], job'[q] = job[q],
         HasRead(q)' => HasRead(q),
         HasRead(q) => /\ record'.deployed = record.deployed
                       /\ record'.failed \in {None, record.failed},
         Holds(q) => UNCHANGED <<current, release, verified>>
  PROVE  Story(q)'
<1>1. Remembers(q)'
  BY DEF Story, Remembers
<1>2. Trying(q)'
  BY WorkingHolds DEF Story, Trying, Exists
<1>3. Ending(q)'
  BY WorkingHolds DEF Story, Ending
<1>4. QED
  BY <1>1, <1>2, <1>3 DEF Story

(* The links and the record's names stand while nobody inside acts.        *)
LEMMA TruthKept ==
  ASSUME TypeOK, Truth, \A p \in Proc : Trying(p),
         \A p \in Proc : pc'[p] \in Moved <=> pc[p] \in Moved,
         \A p \in Proc : pc[p] \in Moved => job'[p] = job[p],
         current' = current, record'.deployed = record.deployed,
         record'.failed \in {None, record.failed}
  PROVE  Truth'
<1> current # None
  BY ShaAssumption DEF TypeOK
<1>1. ASSUME \A p \in Proc : pc[p] \notin Moved PROVE Told(current)'
  BY <1>1 DEF Truth, Told
<1>2. ASSUME NEW p \in Proc, pc[p] \in Moved PROVE Told(job[p].started)'
  <2>1. Told(job[p].started) /\ job[p].started # None
    BY <1>2 DEF Truth, Trying, Exists
  <2>2. job'[p].started = job[p].started
    BY <1>2
  <2>3. QED
    BY <2>1, <2>2 DEF Told
<1>3. QED
  BY <1>1, <1>2 DEF Truth

(* The step of a process outside the tree.                                 *)
LEMMA StoryOut ==
  ASSUME TypeInv, AgreeInv, NEW p \in Proc, ~Holds(p), Step(p)
  PROVE  Story(p)' /\ pc'[p] \notin Moved
<1> /\ TypeOK /\ pc \in [Proc -> Labels] /\ job \in [Proc -> Job] /\ job[p] \in Job
    /\ table.watch \in {"auto", "manual"} /\ Dog \notin Operator
    /\ Remembers(p) /\ RoleOf(p) /\ Recorded
  BY ProcAssumption DEF TypeInv, TypeOK, Table, AgreeInv, Story, Labels
<1> USE DEF Goto, Story, Remembers, Trying, Ending, Before, Moved, Back, HasRead, Inside
<1>1. CASE StartTick(p)
  <2>1. /\ pc[p] = "idle" /\ pc'[p] = "adopt" /\ UNCHANGED record
        /\ job'[p] = [job[p] EXCEPT !.cmd = "tick", !.state = record]
    BY <1>1 DEF StartTick, StartGo, Recall, disk
  <2>2. job'[p].state = record /\ job'[p].landed = job[p].landed
    BY <2>1 DEF Job
  <2>3. QED
    BY <2>1, <2>2 DEF Recorded
<1>2. CASE Starts(p)
  <2>1. CASE StartDeploy(p)
    <3>1. /\ pc[p] = "idle" /\ pc'[p] = "adopt" /\ UNCHANGED record
          /\ job'[p] = [job[p] EXCEPT !.cmd = "deploy", !.state = record]
      BY <2>1 DEF StartDeploy, StartGo, Recall, disk
    <3>2. job'[p].state = record /\ job'[p].landed = job[p].landed
      BY <3>1 DEF Job
    <3>3. QED
      BY <3>1, <3>2 DEF Recorded
  <2>2. ASSUME NEW c \in Rereads, StartReread(p, c) PROVE Story(p)' /\ pc'[p] \notin Moved
    <3>1. /\ pc[p] = "idle" /\ pc'[p] = "hold" /\ p # Dog
          /\ job'[p] = [job[p] EXCEPT !.cmd = c]
      BY <2>2 DEF StartReread, Recall
    <3>2. job'[p].landed = job[p].landed
      BY <3>1 DEF Job
    <3>3. QED
      BY <3>1, <3>2
  <2>3. CASE StartBranch(p) \/ StartWatch(p)
    <3>1. pc'[p] = "change"
      BY <2>3 DEF StartBranch, StartWatch, StartSettings
    <3>2. QED
      BY <3>1
  <2>4. QED
    BY <1>2, <2>1, <2>2, <2>3 DEF Starts
<1>3. CASE Adopt(p)
  <2>1. pc[p] = "adopt" /\ p = Dog /\ job[p].cmd = "tick" /\ UNCHANGED record
    BY <1>3 DEF Adopt, Holds, Reading, RoleOf, Rereads, StagePlaces, disk
  <2>2. \/ pc'[p] = "idle" /\ job'[p] = NoJob
        \/ /\ pc'[p] = "hold" /\ table.watch = "auto"
           /\ job'[p] = [job[p] EXCEPT !.branch = table.branch]
    BY <1>3, <2>1 DEF Adopt, Finish, Release, Recall, Rereads
  <2>3. CASE pc'[p] = "idle" /\ job'[p] = NoJob
    BY <2>3 DEF NoJob
  <2>4. CASE pc'[p] = "hold" /\ job'[p] = [job[p] EXCEPT !.branch = table.branch]
    <3>1. job'[p].state = job[p].state /\ job'[p].landed = job[p].landed
      BY <2>4 DEF Job
    <3>2. QED
      BY <2>1, <2>2, <2>4, <3>1 DEF Waits, NoJob
  <2>5. QED
    BY <2>2, <2>3, <2>4
<1>4. CASE Hold(p)
  <2>1. /\ pc[p] = "hold" /\ UNCHANGED record
        /\ \/ pc'[p] = "idle" /\ job'[p] = NoJob
           \/ /\ UNCHANGED job
              /\ pc'[p] = IF job[p].cmd \in Go THEN "check" ELSE "read"
    BY <1>4 DEF Hold, Finish, Recall, disk
  <2>2. CASE p = Dog
    BY <2>1, <2>2 DEF NoJob
  <2>3. CASE p # Dog
    <3>1. job[p].cmd \notin Go
      BY <2>1, <2>3 DEF RoleOf, Go, Settings
    <3>2. QED
      BY <2>1, <2>3, <3>1 DEF NoJob
  <2>4. QED
    BY <2>2, <2>3
<1>5. CASE Change(p) \/ Lift(p) \/ Abandon(p) \/ Crash(p)
  <2>1. \/ pc'[p] = "lift"
        \/ pc'[p] = "idle" /\ job'[p] = NoJob
    BY <1>5 DEF Change, Lift, Abandon, Crash, Finish, Recall
  <2>2. QED
    BY <2>1 DEF NoJob
<1>6. CASE Reread(p)
  BY <1>6 DEF Reread, RoleOf, Holds, Reading, Rereads, DogPlaces, Settings
<1>7. QED
  BY <1>1, <1>2, <1>3, <1>4, <1>5, <1>6 DEF Step, Proceeds, RefuseUncut,
     NothingToDo, Attempt, Promote, Reuse, BeginCheckout, EndCheckout,
     CheckoutFails, Build, BuildFails, ReadTable, RecordStaged, Swap, Capture,
     Reload, Verify, Landed, Undo, Rollback, Correct, CaptureBack, ReloadBack,
     Retry, VerifyBack, RecordOutcome, BeginRemoval, EndRemoval, Sweep, Holds

(* The step of the process inside the tree.                                *)
LEMMA StoryIn ==
  ASSUME TypeInv, Calm, DiskInv, VerdictIsOfHead, AgreeInv, NEW p \in Proc, Holds(p),
         Told(Home(p)), Step(p)
  PROVE  Story(p)' /\ Told(Home(p))' /\ Recorded'
<1> /\ TypeOK /\ Dog \notin Operator /\ Calm
    /\ pc \in [Proc -> Labels] /\ job \in [Proc -> Job] /\ job[p] \in Job
    /\ record \in Record /\ current \in Sha /\ None \notin Sha
    /\ Remembers(p) /\ Trying(p) /\ Ending(p) /\ RoleOf(p) /\ Recorded
    /\ release \in [Sha -> {"absent", "partial", "whole"}]
    /\ release[current] = "whole"
  BY ProcAssumption, ShaAssumption DEF TypeInv, TypeOK, AgreeInv, Story, Labels,
     DiskInv, ServedIntact
<1> DEFINE d == pc[p]
           j == job[p]
<1> d # "read" => HasRead(p)
  BY DEF Holds, HasRead, Reading, RoleOf, Rereads
<1> pc'[p] = "idle" => ~HasRead(p)'
  BY DEF HasRead, Inside
<1> USE DEF Story, Goto, Before, Moved, Back, Recorded
<1>1. CASE Reread(p)
  <2>1. /\ d = "read" /\ pc'[p] = "adopt"
        /\ UNCHANGED <<current, record, release, verified>>
        /\ job'[p] = [job[p] EXCEPT !.state = record]
    BY <1>1 DEF Reread, Recall, disk
  <2>2. job'[p].state = record /\ job'[p].landed = j.landed
    BY <2>1 DEF Job
  <2>3. QED
    BY <2>1, <2>2 DEF Told, Home, Remembers, Trying, Ending
<1>2. CASE Adopt(p)
  <2>1. d = "adopt" /\ job[p].cmd \in Rereads
    BY <1>2 DEF Adopt, Holds, Inside
  <2>2. /\ UNCHANGED <<current, record, release, verified>>
        /\ \/ pc'[p] = "idle" /\ job'[p] = NoJob
           \/ pc'[p] = "check" /\ job'[p] = [job[p] EXCEPT !.branch = table.branch]
    BY <1>2, <2>1 DEF Adopt, Finish, Release, Recall, Go, Rereads, disk
  <2>3. CASE pc'[p] = "idle" /\ job'[p] = NoJob
    BY <2>1, <2>2, <2>3 DEF NoJob, Told, Home, Remembers, Trying, Ending
  <2>4. CASE pc'[p] = "check" /\ job'[p] = [job[p] EXCEPT !.branch = table.branch]
    <3>1. job'[p].state = j.state /\ job'[p].landed = j.landed
      BY <2>4 DEF Job
    <3>2. QED
      BY <2>1, <2>2, <2>4, <3>1 DEF Told, Home, Remembers, Trying, Ending
  <2>5. QED
    BY <2>2, <2>3, <2>4
<1>3. CASE RefuseUncut(p) \/ NothingToDo(p) \/ Sweep(p) \/
          (Promote(p) /\ pc'[p] = "idle")
  <2>1. /\ d \in {"check", "prune"} /\ pc'[p] = "idle" /\ job'[p] = NoJob
        /\ UNCHANGED <<current, record, verified>>
    BY <1>3 DEF RefuseUncut, NothingToDo, Sweep, Promote, Finish, Release, Recall, disk
  <2>2. QED
    BY <2>1 DEF NoJob, Told, Home, Remembers, Trying, Ending
<1>4. CASE Attempt(p) \/ (Promote(p) /\ pc'[p] # "idle")
  <2>1. PICK head \in {remote[j.branch], j.state.staged} :
          /\ d = "check" /\ pc'[p] \in {"checkout", "build"}
          /\ \/ head = remote[j.branch] /\ head # j.state.deployed
             \/ head = j.state.staged /\ Exists(head)
          /\ j.state.deployed # None
          /\ UNCHANGED <<current, record, release, verified>>
          /\ job'[p] = [job[p] EXCEPT !.head = head, !.started = current]
    <3>1. CASE Attempt(p)
      BY <3>1 DEF Attempt, Recall, disk
    <3>2. CASE Promote(p) /\ pc'[p] # "idle"
      BY <3>2 DEF Promote, Finished, Release, Finish, Recall, disk
    <3>3. QED
      BY <1>4, <3>1, <3>2
  <2>2. /\ job'[p].head = head /\ job'[p].started = current
        /\ job'[p].state = j.state /\ job'[p].landed = j.landed
    BY <2>1 DEF Job
  <2>3. /\ j.state.deployed = current /\ ~j.landed
        /\ j.state.staged \in {None} \/ j.state.staged # current
    BY <2>1 DEF Told, Home, Remembers, Unstaged
  <2>4. remote[j.branch] \in Sha /\ j.state.staged \in Sha \cup {None}
    BY JobFields DEF TypeOK, MaybeSha
  <2>5. head \in Sha /\ head # current
    <3>1. CASE head = j.state.staged /\ head # None
      BY <2>3, <2>4, <3>1
    <3>2. CASE head = remote[j.branch] /\ head # j.state.deployed
      BY <2>3, <2>4, <3>2
    <3>3. QED
      BY <2>1, <2>4, <3>1, <3>2 DEF Exists
  <2>6. QED
    BY <2>1, <2>2, <2>3, <2>5 DEF Told, Home, Remembers, Trying, Ending, Exists
<1>5. CASE BeginCheckout(p) \/ EndCheckout(p)
  <2>1. /\ d \in Before /\ pc'[p] \in {"adding", "build"} /\ j.head \in Sha
        /\ UNCHANGED <<current, record, verified, job>>
        /\ \E r \in {"partial", "whole"} : release' = [release EXCEPT ![j.head] = r]
    BY <1>5 DEF BeginCheckout, EndCheckout, Trying
  <2>2. QED
    BY <2>1 DEF Told, Home, Remembers, Trying, Ending, Exists
<1>6. CASE Reuse(p) \/ Build(p)
  <2>1. /\ d \in {"checkout", "build"} /\ pc'[p] \in {"build", "swap", "stageRead"}
        /\ UNCHANGED <<current, record, verified, job, release>>
    BY <1>6 DEF Reuse, Build, disk
  <2>2. QED
    BY <2>1 DEF Told, Home, Remembers, Trying, Ending, Exists
<1>7. CASE BuildFails(p)
  <2>1. /\ d = "build" /\ pc'[p] \in {"record", "prune"}
        /\ UNCHANGED <<current, record, verified, job, release>>
    BY <1>7 DEF BuildFails, Failing, disk
  <2>2. QED
    BY <2>1 DEF Told, Home, Remembers, Trying, Ending, Exists
<1>8. CASE ReadTable(p)
  <2>1. /\ d = "stageRead" /\ pc'[p] = "stageRecord"
        /\ UNCHANGED <<current, record, verified, release>>
        /\ job'[p] = [job[p] EXCEPT !.table = table]
    BY <1>8 DEF ReadTable, Recall, disk
  <2>2. /\ job'[p].head = j.head /\ job'[p].started = j.started
        /\ job'[p].state = j.state /\ job'[p].landed = j.landed
    BY <2>1 DEF Job
  <2>3. QED
    BY <2>1, <2>2 DEF Told, Home, Remembers, Trying, Ending, Exists
<1>9. CASE RecordStaged(p)
  <2> DEFINE next == WithStaged(p)
  <2>1. d = "stageRecord"
    BY <1>9 DEF RecordStaged
  <2>2. /\ next.deployed = record.deployed /\ next.failed = record.failed
        /\ next.staged = j.head /\ j.head # record.deployed
    BY <2>1 DEF WithStaged, Record, Trying, Remembers
  <2>3. Valid(next)
    BY <2>2 DEF Valid, TypeOK
  <2>4. /\ pc'[p] = "prune" /\ UNCHANGED <<current, verified>>
        /\ record' \in {record, next} /\ job'[p] = [job[p] EXCEPT !.state = record']
    BY <1>9, <2>3 DEF RecordStaged, Writes, WriteFails, Spend, Calm, Recall
  <2>5. job'[p].state = record'
    BY <2>4 DEF Job
  <2>6. QED
    BY <2>1, <2>2, <2>4, <2>5 DEF Told, Home, Remembers, Trying, Ending, Unstaged
<1>10. CASE Swap(p)
  <2>1. /\ d = "swap" /\ pc'[p] = "capture" /\ current' = j.head
        /\ current = j.started
        /\ UNCHANGED <<record, verified, job, release>>
    BY <1>10 DEF Swap, Spend, Calm, Trying
  <2>2. QED
    BY <2>1 DEF Told, Home, Remembers, Trying, Ending, Exists
<1>11. CASE Capture(p) \/ Reload(p)
  <2>1. /\ d \in {"capture", "reload"}
        /\ pc'[p] \in {"reload", "verify", "undo", "rollback"}
        /\ UNCHANGED <<current, record, verified, job, release>>
    BY <1>11 DEF Capture, Reload, disk
  <2>2. QED
    BY <2>1 DEF Told, Home, Remembers, Trying, Ending, Exists
<1>12. CASE Verify(p)
  <2>1. /\ d = "verify" /\ UNCHANGED <<current, record, job, release>>
        /\ \/ TurnedOver /\ pc'[p] = "landed" /\ verified' = verified \cup {running}
           \/ pc'[p] = "rollback" /\ UNCHANGED verified
    BY <1>12 DEF Verify, disk
  <2>2. TurnedOver => running = j.head
    BY <2>1 DEF VerdictIsOfHead
  <2>3. QED
    BY <2>1, <2>2 DEF Told, Home, Remembers, Trying, Ending, Exists
<1>13. CASE Landed(p)
  <2> DEFINE next == [deployed |-> j.head, failed |-> None, staged |-> None]
  <2>1. d = "landed" /\ j.head \in Sha /\ current = j.head /\ j.head \in verified
    BY <1>13 DEF Landed, Trying, Ending
  <2>2. Valid(next)
    BY <2>1 DEF Valid
  <2>3. /\ record' = next /\ pc'[p] = "record" /\ UNCHANGED <<current, verified>>
        /\ job'[p] = [job[p] EXCEPT !.landed = TRUE, !.state = next]
    BY <1>13, <2>2 DEF Landed, Writes, WriteFails, Spend, Calm, Recall
  <2>4. job'[p].landed = TRUE /\ job'[p].state = next
    BY <2>3 DEF Job
  <2>5. QED
    BY <2>1, <2>3, <2>4 DEF Told, Home, Remembers, Trying, Ending, Unstaged
<1>14. CASE Undo(p)
  <2>1. /\ d = "undo" /\ pc'[p] = "record" /\ current' = j.started
        /\ UNCHANGED <<record, verified, job, release>>
    BY <1>14, BackToStart DEF Undo, Spend, Calm
  <2>2. QED
    BY <2>1 DEF Told, Home, Remembers, Trying, Ending, Exists
<1>15. CASE Rollback(p)
  <2>1. Target(p) = j.started /\ j.started # None /\ j.state.deployed = j.started
    BY <1>15, BackToStart DEF Rollback, Trying
  <2>2. /\ d = "rollback" /\ pc'[p] = "captureBack" /\ current' = j.started
        /\ UNCHANGED <<record, verified, release>>
        /\ job'[p] = [job[p] EXCEPT !.to = j.started]
    BY <1>15, <2>1 DEF Rollback, Spend, Calm, Recall
  <2>3. /\ job'[p].head = j.head /\ job'[p].started = j.started
        /\ job'[p].state = j.state /\ job'[p].landed = j.landed
    BY <2>2 DEF Job
  <2>4. QED
    BY <2>1, <2>2, <2>3 DEF Told, Home, Remembers, Trying, Ending, Exists
<1>16. CASE CaptureBack(p) \/ ReloadBack(p) \/ Retry(p) \/ VerifyBack(p)
  <2>1. /\ d \in Back /\ pc'[p] \in Back \cup {"record"}
        /\ UNCHANGED <<current, record, job, release>> /\ verified \subseteq verified'
    BY <1>16 DEF CaptureBack, ReloadBack, Retry, VerifyBack, disk
  <2>2. QED
    BY <2>1 DEF Told, Home, Remembers, Trying, Ending, Exists
<1>17. CASE RecordOutcome(p)
  <2> DEFINE next == Outcome(j)
  <2>1. /\ d = "record" /\ pc'[p] = "prune" /\ UNCHANGED <<current, verified>>
        /\ j.state.deployed = current /\ record.deployed = current
    BY <1>17 DEF RecordOutcome, Ending, Remembers
  <2>2. /\ next.deployed = current /\ next.failed = Failed(j) /\ Failed(j) # current
        /\ next.staged = j.state.staged
    BY <2>1 DEF Outcome, Failed, Ending, Job, Record
  <2>3. Valid(next) /\ Unstaged(next)
    BY <2>1, <2>2 DEF Valid, Unstaged, Remembers
  <2>4. \/ UNCHANGED <<record, job>>
        \/ UNCHANGED record /\ job'[p] = [job[p] EXCEPT !.state = record]
        \/ record' = next /\ job'[p] = [job[p] EXCEPT !.state = next]
    BY <1>17, <2>3 DEF RecordOutcome, Writes, WriteFails, Spend, Calm, Recall
  <2>5. CASE UNCHANGED <<record, job>>
    BY <2>1, <2>5 DEF Told, Home, Remembers, Trying, Ending
  <2>6. CASE UNCHANGED record /\ job'[p] = [job[p] EXCEPT !.state = record]
    <3>1. job'[p].state = record
      BY <2>6 DEF Job
    <3>2. QED
      BY <2>1, <2>6, <3>1 DEF Told, Home, Remembers, Trying, Ending
  <2>7. CASE record' = next /\ job'[p] = [job[p] EXCEPT !.state = next]
    <3>1. job'[p].state = next
      BY <2>7 DEF Job
    <3>2. QED
      BY <2>1, <2>2, <2>3, <2>7, <3>1 DEF Told, Home, Remembers, Trying, Ending
  <2>8. QED
    BY <2>4, <2>5, <2>6, <2>7
<1>18. CASE BeginRemoval(p) \/ EndRemoval(p)
  <2>1. /\ d \in {"prune", "removing"} /\ pc'[p] \in {"prune", "removing"}
        /\ UNCHANGED <<current, record, verified>>
        /\ job'[p] = job[p] \/ \E s : job'[p] = [job[p] EXCEPT !.to = s]
    BY <1>18 DEF BeginRemoval, EndRemoval, Recall
  <2>2. job'[p].state = j.state
    BY <2>1 DEF Job
  <2>3. QED
    BY <2>1, <2>2 DEF Told, Home, Remembers, Trying, Ending
<1>19. CASE Abandon(p) \/ CheckoutFails(p) \/ Crash(p)
  BY <1>19 DEF Abandon, CheckoutFails, Crash, Spend, Calm
<1>20. CASE StartTick(p) \/ Starts(p) \/ Hold(p) \/ Correct(p) \/ Change(p) \/ Lift(p)
  BY <1>20 DEF StartTick, StartGo, Starts, StartDeploy, StartReread,
       StartBranch, StartWatch, StartSettings, Hold, Correct, Change, Lift,
       Holds, Inside, Reading, Ending
<1>21. QED
  BY <1>1, <1>2, <1>3, <1>4, <1>5, <1>6, <1>7, <1>8, <1>9, <1>10, <1>11,
       <1>12, <1>13, <1>14, <1>15, <1>16, <1>17, <1>18, <1>19, <1>20
       DEF Step, Proceeds

(* The other processes meanwhile.                                          *)
LEMMA StoryOther ==
  ASSUME InTurn, Steady => StageInv /\ table'.watch = table.watch,
         TypeInv, Exclusive, AgreeInv,
         NEW p \in Proc, Step(p), NEW q \in Proc, q # p
  PROVE  Story(q)'
<1> /\ TypeOK /\ Dog \in Proc /\ table.watch \in {"auto", "manual"}
    /\ RoleOf(p) /\ RoleOf(q) /\ Story(q)
  BY DEF TypeInv, TypeOK, Table, AgreeInv, Proc
<1>1. pc'[q] = pc[q] /\ job'[q] = job[q]
  BY OthersStep
<1>2. HasRead(q)' => HasRead(q)
  BY <1>1 DEF HasRead, Waits
<1>3. CASE Holds(q)
  <2>1. ~Holds(p)
    BY <1>3 DEF Exclusive
  <2>2. QED
    BY <1>1, <1>2, <2>1, OutsideStory, StoryKept
<1>4. CASE ~Holds(q) /\ HasRead(q)
  <2>1. q = Dog /\ (pc[q] = "hold" \/ (pc[q] = "adopt" /\ ~Waits))
    BY <1>4 DEF HasRead, Holds, Reading, RoleOf, Rereads, Settings
  <2>2. job[p].cmd = "promote" => pc[p] \notin LandPlaces
    BY <2>1, NoneLanding
  <2>3. record'.deployed = record.deployed /\ record'.failed \in {None, record.failed}
    BY <2>1, <2>2, OperatorStep
  <2>4. QED
    BY <1>1, <1>2, <1>4, <2>3, StoryKept
<1>5. CASE ~Holds(q) /\ ~HasRead(q)
  BY <1>1, <1>2, <1>5, StoryKept
<1>6. QED
  BY <1>3, <1>4, <1>5

LEMMA AgreeStep ==
  ASSUME InTurn, Steady => StageInv /\ table'.watch = table.watch,
         TypeInv, Exclusive, Calm, DiskInv, VerdictIsOfHead, AgreeInv,
         NEW p \in Proc, Step(p)
  PROVE  Truth' /\ Recorded' /\ \A q \in Proc : RoleOf(q)' /\ Story(q)'
<1> /\ TypeOK /\ RoleOf(p) /\ "deploy" \notin Commands
    /\ \A q \in Proc : Trying(q)
  BY DEF TypeInv, AgreeInv, Story, InTurn
<1>1. ASSUME NEW q \in Proc, q # p
      PROVE  pc'[q] = pc[q] /\ job'[q] = job[q] /\ RoleOf(q)' /\ Story(q)'
  <2>1. pc'[q] = pc[q] /\ job'[q] = job[q]
    BY <1>1, OthersStep
  <2>2. RoleOf(q)'
    BY <2>1 DEF AgreeInv, RoleOf
  <2>3. QED
    BY <1>1, <2>1, <2>2, StoryOther
<1>2. RoleOf(p)'
  BY RoleStep
<1>3. CASE Holds(p)
  <2>1. ASSUME NEW q \in Proc, q # p PROVE pc[q] \notin Moved
    BY <1>3, <2>1, WorkingHolds DEF Exclusive
  <2>2. Told(Home(p))
    BY <2>1 DEF AgreeInv, Truth, Home
  <2>3. Story(p)' /\ Told(Home(p))' /\ Recorded'
    BY <1>3, <2>2, StoryIn
  <2>4. ASSUME NEW q \in Proc, q # p PROVE pc'[q] \notin Moved
    BY <1>1, <2>1, <2>4
  <2>5. Truth'
    BY <2>3, <2>4 DEF Truth, Home
  <2>6. QED
    BY <1>1, <1>2, <2>3, <2>5
<1>4. CASE ~Holds(p)
  <2>1. /\ UNCHANGED <<current, release, verified>>
        /\ record'.deployed = record.deployed /\ record'.staged = record.staged
        /\ record'.failed \in {None, record.failed}
    BY <1>4, OutsideStory
  <2>2. Story(p)' /\ pc'[p] \notin Moved /\ pc[p] \notin Moved
    BY <1>4, StoryOut, WorkingHolds
  <2>3. Recorded'
    BY <2>1 DEF AgreeInv, Recorded, Unstaged
  <2>4. Truth'
    BY <1>1, <2>1, <2>2, TruthKept DEF AgreeInv
  <2>5. QED
    BY <1>1, <1>2, <2>2, <2>3, <2>4
<1>5. QED
  BY <1>3, <1>4

(* The shepherd's steps and the environment's.                             *)
LEMMA AgreeElse ==
  ASSUME TypeInv, Exclusive, AgreeInv, Shepherd \/ Environment \/ UNCHANGED vars
  PROVE  Truth' /\ Recorded' /\ \A q \in Proc : RoleOf(q)' /\ Story(q)'
<1> TypeOK
  BY DEF TypeInv
<1>1. /\ UNCHANGED <<current, verified, record, pc, job, table>>
      /\ UNCHANGED release \/ lock = None
  <2>1. CASE Shepherd \/ UNCHANGED vars
    BY <2>1 DEF Shepherd, Spawn, TurnOver, GiveUp, Restart, vars, disk
  <2>2. CASE Environment
    BY <2>2 DEF Environment, Push, HandRepoint, HandRemove, Spend, AgreeInv, disk
  <2>3. QED
    BY <2>1, <2>2
<1>2. ASSUME NEW q \in Proc PROVE RoleOf(q)' /\ Story(q)'
  <2>1. Holds(q) => UNCHANGED release
    BY <1>1, ProcAssumption DEF Exclusive
  <2>2. HasRead(q)' => HasRead(q)
    BY <1>1 DEF HasRead, Waits
  <2>3. Story(q)'
    BY <1>1, <2>1, <2>2, StoryKept DEF AgreeInv
  <2>4. QED
    BY <1>1, <2>3 DEF AgreeInv, RoleOf
<1>3. Truth' /\ Recorded'
  BY <1>1 DEF AgreeInv, Truth, Told, Recorded, Unstaged
<1>4. QED
  BY <1>2, <1>3

(* On a steady target the table and the record are those of StageInv too.  *)
SteadyInv == Steady => StageInv

LEMMA SteadyInvariant == Spec => [](SteadyInv /\ (Peaceful => Calm))
<1>1. Init => SteadyInv /\ (Peaceful => Calm)
  BY StageInit DEF Init, InitAt, Peaceful, Calm, SteadyInv
<1>2. TypeInv /\ (Peaceful => Calm) /\ [Next]_vars => (Peaceful => Calm)'
  BY CalmNext DEF Peaceful
<1>3. TypeInv /\ Exclusive /\ (Peaceful => Calm) /\ SteadyInv /\ [Next]_vars => SteadyInv'
  BY StageNext DEF SteadyInv
<1>4. QED
  BY <1>1, <1>2, <1>3, TypeInvariant, MutualExclusion, PTL DEF Spec

LEMMA AgreeNext ==
  ASSUME Quiet
  PROVE  /\ TypeInv /\ Exclusive /\ Calm /\ SteadyInv /\ DiskInv /\ VerdictIsOfHead
         /\ AgreeInv /\ [Next]_vars
         => AgreeInv'
<1> SUFFICES ASSUME TypeInv, Exclusive, Calm, SteadyInv, DiskInv, VerdictIsOfHead,
                    AgreeInv, [Next]_vars
             PROVE  AgreeInv'
  OBVIOUS
<1>1. left'.repoint = 0
  BY ZeroStays DEF AgreeInv, Kinds, TypeInv
<1>2. ASSUME NEW p \in Proc, Step(p) PROVE AgreeInv'
  <2>1. Steady => StageInv /\ table'.watch = table.watch
    BY <1>2, StageOwn DEF SteadyInv
  <2>2. QED
    BY <1>1, <1>2, <2>1, AgreeStep DEF AgreeInv, Quiet
<1>3. CASE Shepherd \/ Environment \/ UNCHANGED vars
  BY <1>1, <1>3, AgreeElse DEF AgreeInv
<1>4. QED
  BY <1>2, <1>3 DEF Next

LEMMA AgreeInvariant ==
  ASSUME Quiet
  PROVE  Spec => [](AgreeInv /\ Exclusive)
<1>1. Bounds.crash = 0 /\ Bounds.fault = 0 /\ Bounds.repoint = 0
  BY DEF Quiet, Peaceful
<1>2. /\ Spec => [](Calm /\ DiskInv)
      /\ Spec => []VerdictIsOfHead
      /\ Init => AgreeInv
  BY <1>1, DiskInvariant, VerdictCorrect, AgreeInit
<1>3. QED
  BY <1>2, AgreeNext, SteadyInvariant, TypeInvariant, MutualExclusion, PTL DEF Spec

LEMMA ToldAtRest ==
  ASSUME AgreeInv, Exclusive, lock = None
  PROVE  Told(current)
<1>1. ASSUME NEW p \in Proc PROVE pc[p] \notin Moved
  BY WorkingHolds, ProcAssumption DEF Exclusive
<1>2. QED
  BY <1>1 DEF AgreeInv, Truth

(* With nobody working on the tree the record names what `current` names,  *)
(* for as many commits, branches, ticks, stages, promotes and settings     *)
(* verbs as one likes, whatever the shepherd refuses: every ending of an   *)
(* attempt that moved the link either puts it back or records the landing  *)
(* (swap_and_land, land, undo_swap, restore).                              *)
THEOREM RecordAgrees ==
  ASSUME Quiet
  PROVE  Spec => []Agreement
<1>1. AgreeInv /\ Exclusive => Agreement
  BY ToldAtRest DEF Agreement, Told
<1>2. QED
  BY <1>1, AgreeInvariant, PTL

(* And the release it holds is never the one that serves, though a stage   *)
(* or a `--branch` may have written the record while a deploy was away     *)
(* building (record, record_staged, lift_hold).                            *)
THEOREM HeldIsNotServed ==
  ASSUME Quiet
  PROVE  Spec => []NeverHoldsWhatServes
<1>1. AgreeInv /\ Exclusive => NeverHoldsWhatServes
  BY ToldAtRest DEF NeverHoldsWhatServes, Told
<1>2. QED
  BY <1>1, AgreeInvariant, PTL

(* Only what a verification passed on is recorded as deployed (land,       *)
(* record_landing).                                                        *)
THEOREM DeployedIsVerified ==
  ASSUME Quiet
  PROVE  Spec => []DeployedVerified
<1>1. AgreeInv => DeployedVerified
  BY DEF AgreeInv, Recorded, DeployedVerified
<1>2. QED
  BY <1>1, AgreeInvariant, PTL

(* A sha becomes held only by the ending of an attempt on that sha: no     *)
(* process's older copy of the record brings back a hold that `--branch`   *)
(* lifted (record, restore, lift_hold).                                    *)
THEOREM HoldsComeFromAttempts ==
  ASSUME Quiet
  PROVE  Spec => HoldOnlyFromAttempt
<1> DEFINE A == record'.failed \notin {None, record.failed} =>
                  \E p \in Proc : pc[p] = "record" /\ job[p].head = record'.failed
<1>1. TypeInv /\ AgreeInv /\ [Next]_vars => [A]_vars
  <2> SUFFICES ASSUME TypeInv, AgreeInv, Next, record'.failed \notin {None, record.failed}
               PROVE  \E p \in Proc : pc[p] = "record" /\ job[p].head = record'.failed
    OBVIOUS
  <2>1. ~(Shepherd \/ Environment)
    BY DEF Shepherd, Spawn, TurnOver, GiveUp, Restart, Environment, Push,
       HandRepoint, HandRemove, disk
  <2>2. PICK p \in Proc : Step(p)
    BY <2>1 DEF Next
  <2> TypeOK /\ job[p] \in Job /\ Ending(p) /\ Holds(p) /\ record \in Record
    BY <2>2, OutsideStory DEF TypeInv, TypeOK, AgreeInv, Story
  <2>3. ~RecordStaged(p)
    <3>1. ASSUME RecordStaged(p) PROVE record' \in {record, WithStaged(p)}
      BY <3>1 DEF RecordStaged, Writes, WriteFails
    <3>2. WithStaged(p).failed = record.failed
      BY DEF WithStaged, Record
    <3>3. QED
      BY <3>1, <3>2
  <2>4. Landed(p) \/ RecordOutcome(p)
    BY <2>2, <2>3 DEF Ending, Holds, Inside, Reading, Step, Starts, Proceeds,
       disk, StartTick, StartGo, StartDeploy, StartReread, Reread, Adopt, Hold,
       Abandon, RefuseUncut, NothingToDo, Attempt, Promote, Reuse,
       BeginCheckout, EndCheckout, CheckoutFails, Build, BuildFails, ReadTable,
       Swap, Capture, Reload, Verify, Undo, Rollback, Correct, CaptureBack,
       ReloadBack, Retry, VerifyBack, BeginRemoval, EndRemoval, Sweep, Change,
       Lift, StartBranch, StartSettings, StartWatch, Crash
  <2>5. RecordOutcome(p)
    BY <2>4 DEF Landed, Writes, WriteFails
  <2>6. pc[p] = "record" /\ record' = Outcome(job[p])
    BY <2>5 DEF RecordOutcome, Writes, WriteFails
  <2>7. Outcome(job[p]).failed \in {None, job[p].head}
    BY DEF Outcome, Failed, Job, Record
  <2>8. QED
    BY <2>6, <2>7
<1>2. QED
  BY <1>1, AgreeInvariant, TypeInvariant, PTL DEF Spec, HoldOnlyFromAttempt

(* A tick that has yet to decide has read the hold that is on disk, if it  *)
(* has not been lifted since: nobody else's attempt makes one.             *)
Undecided == pc[Dog] \in {"hold", "check"} \/ (pc[Dog] = "adopt" /\ ~Waits)
Heeds == Undecided => record.failed \in {None, job[Dog].state.failed}
HeedInv == (\A p \in Proc : RoleOf(p)) /\ Heeds

LEMMA HeedNext ==
  ASSUME InTurn
  PROVE  TypeInv /\ SteadyInv /\ (Peaceful => Calm) /\ HeedInv /\ [Next]_vars => HeedInv'
<1> SUFFICES ASSUME TypeInv, SteadyInv, Peaceful => Calm, HeedInv, [Next]_vars
             PROVE  HeedInv'
  OBVIOUS
<1> TypeOK /\ Dog \in Proc /\ record \in Record /\ job[Dog] \in Job
    /\ pc \in [Proc -> Labels] /\ job \in [Proc -> Job] /\ RoleOf(Dog)
    /\ table.watch \in {"auto", "manual"} /\ "deploy" \notin Commands
  BY DEF TypeInv, TypeOK, Proc, Labels, HeedInv, Table, InTurn
<1>1. ASSUME NEW p \in Proc, Step(p) PROVE HeedInv'
  <2>1. ASSUME NEW q \in Proc PROVE RoleOf(q)'
    <3>1. CASE q = p
      BY <1>1, <3>1, RoleStep DEF HeedInv
    <3>2. CASE q # p
      BY <1>1, <3>2, OthersStep DEF HeedInv, RoleOf
    <3>3. QED
      BY <3>1, <3>2
  <2>2. Steady => StageInv /\ table'.watch = table.watch
    BY <1>1, StageOwn DEF SteadyInv
  <2>3. CASE p # Dog /\ Undecided'
    <3>1. pc'[Dog] = pc[Dog] /\ job'[Dog] = job[Dog] /\ RoleOf(p)
      BY <1>1, <2>3, OthersStep DEF HeedInv
    <3>2. Undecided
      BY <2>2, <2>3, <3>1 DEF Undecided, Waits
    <3>3. job[p].cmd = "promote" => pc[p] \notin LandPlaces
      BY <2>2, <2>3, <3>1, <3>2, NoneLanding DEF Undecided
    <3>4. record'.failed \in {None, record.failed}
      BY <1>1, <2>3, <3>1, <3>3, OperatorStep
    <3>5. QED
      BY <2>1, <3>1, <3>2, <3>4 DEF HeedInv, Heeds
  <2>4. CASE p = Dog /\ Undecided'
    <3>1. StartTick(Dog) \/ Adopt(Dog) \/ Hold(Dog)
      BY <1>1, <2>4, ProcAssumption DEF Undecided, RoleOf, DogPlaces, Settings,
         Step, Starts, Proceeds, StartDeploy, StartReread, Reread, Abandon,
         RefuseUncut, NothingToDo, Attempt, Promote, Reuse, BeginCheckout,
         EndCheckout, CheckoutFails, Build, BuildFails, ReadTable, RecordStaged,
         Swap, Capture, Reload, Verify, Landed, Undo, Rollback, Correct,
         CaptureBack, ReloadBack, Retry, VerifyBack, RecordOutcome, BeginRemoval,
         EndRemoval, Sweep, Change, Lift, StartBranch, StartSettings, StartWatch,
         Crash, Goto, Finish, Release, Failing
    <3>2. CASE StartTick(Dog)
      <4>1. /\ UNCHANGED record
            /\ job'[Dog] = [job[Dog] EXCEPT !.cmd = "tick", !.state = record]
        BY <3>2 DEF StartTick, StartGo, Recall, disk
      <4>2. job'[Dog].state = record
        BY <4>1 DEF Job
      <4>3. QED
        BY <2>1, <4>1, <4>2 DEF HeedInv, Heeds
    <3>3. CASE Adopt(Dog) \/ Hold(Dog)
      <4>1. /\ pc[Dog] \in {"adopt", "hold"} /\ UNCHANGED record
            /\ pc[Dog] = "adopt" => table.watch = "auto"
            /\ job'[Dog] = job[Dog] \/ job'[Dog] = [job[Dog] EXCEPT !.branch = table.branch]
        BY <2>4, <3>3 DEF Adopt, Hold, Finish, Release, Goto, Recall, disk,
           Undecided, RoleOf, Rereads, Settings
      <4>2. job'[Dog].state = job[Dog].state
        BY <4>1 DEF Job
      <4>3. Undecided
        BY <4>1 DEF Undecided, Waits
      <4>4. QED
        BY <2>1, <4>1, <4>2, <4>3 DEF HeedInv, Heeds
    <3>4. QED
      BY <3>1, <3>2, <3>3
  <2>5. QED
    BY <2>1, <2>3, <2>4 DEF HeedInv, Heeds
<1>2. CASE Shepherd \/ Environment \/ UNCHANGED vars
  <2>1. UNCHANGED <<record, table, pc, job>>
    BY <1>2 DEF Shepherd, Spawn, TurnOver, GiveUp, Restart, Environment, Push,
       HandRepoint, HandRemove, vars, disk
  <2>2. QED
    BY <2>1 DEF HeedInv, Heeds, Undecided, Waits, RoleOf
<1>3. QED
  BY <1>1, <1>2 DEF Next

(* A tick attempts no sha the record on disk holds, though it decides by   *)
(* what it read before the lock, whoever is killed, whatever fails and     *)
(* whatever is repointed or removed by hand: where ticks land, a hold can  *)
(* only have been lifted since, and where operators promote, a tick goes   *)
(* no further than the table (go, held_back, adopted).                     *)
THEOREM HoldIsRespected ==
  ASSUME InTurn
  PROVE  Spec => HoldRespected
<1> DEFINE A == pc[Dog] = "check" /\ pc'[Dog] = "checkout" => job'[Dog].head # record.failed
<1>1. TypeInv /\ HeedInv /\ [Next]_vars => [A]_vars
  <2> SUFFICES ASSUME TypeInv, HeedInv, Next, pc[Dog] = "check", pc'[Dog] = "checkout"
               PROVE  job'[Dog].head # record.failed
    OBVIOUS
  <2>1. Step(Dog)
    <3>1. ~(Shepherd \/ Environment)
      BY DEF Shepherd, Spawn, TurnOver, GiveUp, Restart, Environment, Push,
         HandRepoint, HandRemove
    <3>2. PICK p \in Proc : Step(p)
      BY <3>1 DEF Next
    <3>3. QED
      BY <3>2, OthersStep DEF TypeInv, Proc
  <2>2. Attempt(Dog)
    BY <2>1 DEF TypeInv, TypeOK, Proc, Step, Starts, Proceeds, StartTick,
       StartGo, StartDeploy, StartReread, Reread, Adopt, Hold, Abandon,
       RefuseUncut, NothingToDo, Promote, Reuse, BeginCheckout, EndCheckout,
       CheckoutFails, Build, BuildFails, ReadTable, RecordStaged, Swap,
       Capture, Reload, Verify, Landed, Undo, Rollback, Correct, CaptureBack,
       ReloadBack, Retry, VerifyBack, RecordOutcome, BeginRemoval,
       EndRemoval, Sweep, Change, Lift, StartBranch, StartSettings,
       StartWatch, Crash, Goto, Finish, Release
  <2>3. /\ job'[Dog] = [job[Dog] EXCEPT !.head = remote[job[Dog].branch], !.started = current]
        /\ ~HeldBack(Dog, remote[job[Dog].branch]) /\ job[Dog] \in Job
        /\ job[Dog].branch \in Branch /\ remote \in [Branch -> Sha]
    BY <2>2, JobFields DEF Attempt, Recall, TypeInv, TypeOK, Proc
  <2>4. job'[Dog].head = remote[job[Dog].branch] /\ remote[job[Dog].branch] \in Sha
    BY <2>3 DEF Job
  <2>5. job[Dog].cmd = "tick"
    BY ProcAssumption DEF HeedInv, RoleOf, Proc, StagePlaces, Settings
  <2>6. QED
    BY <2>3, <2>4, <2>5, ShaAssumption DEF HeldBack, HeedInv, Heeds, Undecided
<1>2. Init => HeedInv
  BY DEF Init, InitAt, HeedInv, RoleOf, Heeds, Undecided, Proc
<1>3. QED
  BY <1>1, <1>2, HeedNext, SteadyInvariant, TypeInvariant, PTL DEF Spec, HoldRespected

-----------------------------------------------------------------------------
(* What the record names is not removed.                                   *)

(* While no release is removed by hand, what the record names is whole,    *)
(* and so is what a process may yet write there.                           *)
Whole(s) == s # None => release[s] = "whole"
Names(r) == {r.deployed, r.staged}
Keeping(p) ==
  /\ \/ p = Dog /\ table.watch = "manual"
     \/ \A s \in Names(job[p].state) : Whole(s)
  /\ pc[p] \in Building => Whole(job[p].head)
  /\ pc[p] = "correct" => Whole(job[p].to)
  /\ pc[p] = "removing" => job[p].to # None /\ release[job[p].to] # "whole"
KeepInv ==
  /\ left.remove <= Bounds.remove
  /\ left.remove = Bounds.remove =>
       /\ \A s \in Names(record) : Whole(s)
       /\ \A p \in Proc : Keeping(p)

LEMMA RemoveShrinks ==
  ASSUME TypeOK, [Next]_vars
  PROVE  left'.remove \in Nat /\ left'.remove <= left.remove
<1>1. Spending
  <2>1. ASSUME NEW p \in Proc, Step(p) PROVE Spending
    BY <2>1, StepSpends
  <2>2. CASE Shepherd \/ UNCHANGED vars
    BY <2>2 DEF Shepherd, Spawn, TurnOver, GiveUp, Restart, vars, Spending
  <2>3. CASE Environment
    BY <2>3 DEF Environment, Push, HandRepoint, HandRemove, Kinds, Spending
  <2>4. QED
    BY <2>1, <2>2, <2>3 DEF Next
<1>2. left \in BoundsType
  BY DEF TypeOK
<1>3. CASE UNCHANGED left
  BY <1>2, <1>3 DEF BoundsType
<1>4. ASSUME NEW c \in Kinds, Spend(c)
      PROVE  left'.remove \in Nat /\ left'.remove <= left.remove
  <2>1. left[c] \in Nat /\ left[c] > 0 /\ left.remove \in Nat
    BY <1>2, <1>4 DEF Spend, BoundsType, Kinds
  <2>2. left'.remove = IF c = "remove" THEN left[c] - 1 ELSE left.remove
    BY <1>2, <1>4 DEF Spend, BoundsType, Kinds
  <2>3. QED
    BY <2>1, <2>2
<1>5. QED
  BY <1>1, <1>3, <1>4 DEF Spending

(* A whole release stays whole, unless retention begins on it.             *)
LEMMA StaysWhole ==
  ASSUME TypeInv, Calm, DiskInv, NEW p \in Proc, Keeping(p), Step(p),
         NEW s \in Sha, release[s] = "whole"
  PROVE  release'[s] = "whole" \/ (BeginRemoval(p) /\ s \notin Spared(p))
<1> /\ release \in [Sha -> {"absent", "partial", "whole"}] /\ s \in marker
    /\ pc[p] \in Headed => job[p].head \in Sha
  BY DEF TypeInv, TypeOK, HeadKnown, DiskInv, WholeMarked
<1>1. CASE BeginCheckout(p)
  <2>1. s # job[p].head
    BY <1>1, ShaAssumption DEF BeginCheckout, Finished, Exists
  <2>2. QED
    BY <1>1, <2>1 DEF BeginCheckout
<1>2. CASE EndCheckout(p)
  BY <1>2 DEF EndCheckout
<1>3. CASE EndRemoval(p)
  BY <1>3 DEF EndRemoval, Keeping
<1>4. CASE BeginRemoval(p)
  BY <1>4 DEF BeginRemoval
<1>5. CASE CheckoutFails(p)
  BY <1>5 DEF CheckoutFails, Spend, Calm
<1>6. QED
  BY <1>1, <1>2, <1>3, <1>4, <1>5 DEF Step, Starts, Proceeds, disk, StartTick,
       StartGo, StartDeploy, StartRereads, StartReread, Reread, Adopt, Hold,
       Abandon, RefuseUncut, NothingToDo, Attempt, Promote, Reuse, Build,
       BuildFails, ReadTable, RecordStaged, Swap, Capture, Reload, Verify,
       Landed, Undo, Rollback, Correct, CaptureBack, ReloadBack, Retry,
       VerifyBack, RecordOutcome, Sweep, Change, Lift, StartBranch,
       StartSettings, StartWatch, Crash

(* Retention spares what the record names, and what its caller read there. *)
LEMMA NamesSpared ==
  ASSUME Orderly, TypeInv, StageInv, NEW p \in Proc, BeginRemoval(p)
  PROVE  Names(record) \cup Names(job[p].state) \subseteq Spared(p)
<1> pc[p] = "prune" /\ Part(p) /\ Current(p)
  BY DEF BeginRemoval, StageInv
<1>1. CASE job[p].cmd = "stage"
  <2>1. /\ job[p].state.staged = record.staged
        /\ job[p].state.deployed = record.deployed
    BY <1>1 DEF Part, Current, Arriving, Orderly
  <2>2. QED
    BY <2>1 DEF Spared, Names
<1>2. CASE job[p].cmd # "stage"
  BY <1>2 DEF Spared, Names
<1>3. QED
  BY <1>1, <1>2

(* What the record may come to name is whole before it is written.         *)
Kept == \A s \in Names(record) : Whole(s)

LEMMA NamesStayWhole ==
  ASSUME Orderly, TypeInv, Calm, DiskInv, StageInv, NEW p \in Proc, Keeping(p), Step(p),
         NEW s \in Names(record) \cup Names(job[p].state), Whole(s)
  PROVE  Whole(s)'
<1> SUFFICES ASSUME s # None PROVE release'[s] = "whole"
  BY DEF Whole
<1>1. s \in Sha /\ release[s] = "whole"
  BY JobFields DEF Names, Whole, TypeInv, TypeOK, Record, MaybeSha
<1>2. QED
  BY <1>1, StaysWhole, NamesSpared

LEMMA RecordKeeps ==
  ASSUME Orderly, TypeInv, Calm, DiskInv, StageInv, NEW p \in Proc, Step(p), Kept,
         Keeping(p)
  PROVE  Kept'
<1> /\ TypeOK /\ Part(p) /\ record \in Record /\ job[p] \in Job
  BY DEF TypeInv, TypeOK, StageInv
<1> SUFFICES ASSUME NEW s \in Names(record)', s # None PROVE release'[s] = "whole"
  BY DEF Kept, Whole
<1>1. CASE s \in Names(record)
  BY <1>1, NamesStayWhole DEF Kept, Whole
<1>2. CASE s \notin Names(record)
  <2>1. CASE RecordStaged(p) \/ Landed(p)
    <3>1. /\ pc[p] \in {"stageRecord", "landed"} /\ UNCHANGED release
          /\ record' \in {record, WithStaged(p),
                [deployed |-> job[p].head, failed |-> None, staged |-> None]}
      BY <2>1 DEF RecordStaged, Landed, Writes, WriteFails
    <3>2. s = job[p].head
      BY <1>2, <3>1 DEF Names, WithStaged, Record
    <3>3. QED
      BY <3>1, <3>2 DEF Keeping, Building, Whole
  <2>2. CASE Correct(p) \/ RecordOutcome(p)
    <3>1. /\ pc[p] \in {"correct", "record"} /\ UNCHANGED release
          /\ \/ record' = record
             \/ pc[p] = "correct" /\ record' = [job[p].state EXCEPT !.deployed = job[p].to]
             \/ record' = Outcome(job[p])
      BY <2>2 DEF Correct, RecordOutcome, Writes, WriteFails
    <3>2. \/ s \in Names(job[p].state)
          \/ pc[p] = "correct" /\ s = job[p].to
      BY <1>2, <3>1 DEF Names, Outcome, Job, Record
    <3>3. \A t \in Names(job[p].state) : Whole(t)
      BY <3>1 DEF Keeping, Part
    <3>4. QED
      BY <3>1, <3>2, <3>3 DEF Keeping, Whole
  <2>3. CASE Lift(p)
    <3>1. record' \in {record, [record EXCEPT !.failed = None]}
      BY <2>3 DEF Lift, Writes, WriteFails
    <3>2. QED
      BY <1>2, <3>1 DEF Names, Record
  <2>4. QED
    BY <1>2, <2>1, <2>2, <2>3 DEF Names, Step, Starts, Proceeds, disk, StartTick,
       StartGo, StartDeploy, StartRereads, StartReread, Reread, Adopt, Hold,
       Abandon, RefuseUncut, NothingToDo, Attempt, Promote, Reuse,
       BeginCheckout, EndCheckout, CheckoutFails, Build, BuildFails, ReadTable,
       Swap, Capture, Reload, Verify, Undo, Rollback, CaptureBack, ReloadBack,
       Retry, VerifyBack, BeginRemoval, EndRemoval, Sweep, Change,
       StartBranch, StartSettings, StartWatch, Crash
<1>3. QED
  BY <1>1, <1>2

(* What the process under way remembers, and works on, stays whole.        *)
Remembered(p) == (p = Dog /\ table.watch = "manual") \/ \A s \in Names(job[p].state) : Whole(s)

LEMMA StateKeeps ==
  ASSUME Orderly, TypeInv, Calm, DiskInv, StageInv, NEW p \in Proc, Step(p), Kept,
         Keeping(p)
  PROVE  Remembered(p)'
<1> /\ TypeOK /\ Part(p) /\ record \in Record /\ job \in [Proc -> Job] /\ job[p] \in Job
    /\ table'.watch = table.watch /\ Kept'
  BY StageOwn, RecordKeeps DEF TypeInv, TypeOK, StageInv, Orderly
<1>1. CASE p = Dog /\ table.watch = "manual"
  BY <1>1 DEF Remembered
<1>2. CASE ~(p = Dog /\ table.watch = "manual")
  <2> SUFFICES ASSUME NEW s \in Names(job'[p].state) PROVE Whole(s)'
    BY DEF Remembered
  <2>1. CASE s \in Names(job[p].state)
    BY <1>2, <2>1, NamesStayWhole DEF Keeping
  <2>2. CASE s \in Names(record)'
    BY <2>2 DEF Kept
  <2>3. CASE s = None
    BY <2>3 DEF Whole
  <2>4. CASE Correct(p) /\ s = job[p].to
    BY <2>4 DEF Correct, Keeping, Whole
  <2>5. \/ s \in Names(job[p].state) \cup Names(record)' \cup {None}
        \/ Correct(p) /\ s = job[p].to
    <3>1. CASE pc'[p] = "idle" /\ job'[p] = NoJob
      BY <3>1 DEF NoJob, Names
    <3>2. CASE StartTick(p) \/ Reread(p)
      <4>1. /\ UNCHANGED record
            /\ \/ job'[p] = [job[p] EXCEPT !.cmd = "tick", !.state = record]
               \/ job'[p] = [job[p] EXCEPT !.state = record]
        BY <3>2 DEF StartTick, StartGo, Reread, Recall, disk
      <4>2. job'[p].state = record'
        BY <4>1 DEF Job
      <4>3. QED
        BY <4>2 DEF Names
    <3>3. CASE RecordStaged(p)
      <4>1. Valid(WithStaged(p))
        BY DEF Valid, WithStaged, Record, TypeOK
      <4>2. job'[p] = [job[p] EXCEPT !.state = record']
        BY <3>3, <4>1 DEF RecordStaged, Recall, Writes, WriteFails, Spend, Calm
      <4>3. job'[p].state = record'
        BY <4>2 DEF Job
      <4>4. QED
        BY <4>3 DEF Names
    <3>4. CASE Landed(p)
      <4> DEFINE next == [deployed |-> job[p].head, failed |-> None, staged |-> None]
      <4>1. Valid(next)
        BY <3>4 DEF Landed, Valid
      <4>2. record' = next /\ job'[p] = [job[p] EXCEPT !.landed = TRUE, !.state = next]
        BY <3>4, <4>1 DEF Landed, Recall, Writes, WriteFails, Spend, Calm
      <4>3. job'[p].state = record'
        BY <4>2 DEF Job
      <4>4. QED
        BY <4>3 DEF Names
    <3>5. CASE Correct(p)
      <4> DEFINE next == [job[p].state EXCEPT !.deployed = job[p].to]
      <4>1. job'[p] = [job[p] EXCEPT !.state = next]
        BY <3>5 DEF Correct, Recall
      <4>2. job'[p].state = next
        BY <4>1 DEF Job
      <4>3. s \in {job[p].state.staged, job[p].to}
        BY <4>2 DEF Names, Job, Record
      <4>4. QED
        BY <3>5, <4>3 DEF Names
    <3>6. CASE RecordOutcome(p)
      <4>1. \/ job'[p] = job[p]
            \/ UNCHANGED record /\ job'[p] = [job[p] EXCEPT !.state = record]
            \/ job'[p] = [job[p] EXCEPT !.state = Outcome(job[p])]
        BY <3>6 DEF RecordOutcome, Recall
      <4>2. Names(Outcome(job[p])) = Names(job[p].state)
        BY DEF Names, Outcome, Job, Record
      <4>3. \/ job'[p].state = job[p].state
            \/ UNCHANGED record /\ job'[p].state = record
            \/ job'[p].state = Outcome(job[p])
        BY <4>1 DEF Job
      <4>4. QED
        BY <4>2, <4>3 DEF Names
    <3>7. CASE StartRereads(p) \/ StartBranch(p) \/ StartWatch(p) \/ Adopt(p)
               \/ Attempt(p) \/ Promote(p) \/ ReadTable(p) \/ Rollback(p) \/ BeginRemoval(p)
      <4>1. (pc'[p] = "idle" /\ job'[p] = NoJob) \/ job'[p].state = job[p].state
        <5>1. CASE StartRereads(p) \/ StartBranch(p) \/ StartWatch(p)
          <6>1. \/ \E c : job'[p] = [job[p] EXCEPT !.cmd = c]
                \/ \E c, t : job'[p] = [job[p] EXCEPT !.cmd = c, !.table = t]
            <7>1. ASSUME NEW c \in Rereads, StartReread(p, c)
                  PROVE  job'[p] = [job[p] EXCEPT !.cmd = c]
              BY <7>1 DEF StartReread, Recall
            <7>2. ASSUME NEW c, NEW t, StartSettings(p, c, t)
                  PROVE  job'[p] = [job[p] EXCEPT !.cmd = c, !.table = t]
              BY <7>2 DEF StartSettings, Recall
            <7>3. QED
              BY <5>1, <7>1, <7>2 DEF StartRereads, StartBranch, StartWatch
          <6>2. QED
            BY <6>1 DEF Job
        <5>2. CASE Adopt(p) \/ Promote(p)
          <6>1. \/ pc'[p] = "idle" /\ job'[p] = NoJob
                \/ job'[p] = [job[p] EXCEPT !.branch = table.branch]
                \/ job'[p] = [job[p] EXCEPT !.head = job[p].state.staged, !.started = current]
            BY <5>2 DEF Adopt, Promote, Recall, Goto, Finish, Release, TypeOK
          <6>2. QED
            BY <6>1 DEF Job
        <5>3. CASE Attempt(p) \/ ReadTable(p)
          BY <5>3 DEF Attempt, ReadTable, Recall, Job
        <5>4. CASE Rollback(p) \/ BeginRemoval(p)
          BY <5>4 DEF Rollback, BeginRemoval, Recall, Job
        <5>5. QED
          BY <3>7, <5>1, <5>2, <5>3, <5>4
      <4>2. QED
        BY <3>1, <4>1
    <3>8. CASE job'[p] = job[p]
      BY <3>8
    <3>9. CASE Hold(p) \/ RefuseUncut(p) \/ NothingToDo(p) \/ Sweep(p) \/ Change(p)
               \/ Lift(p)
      <4>1. (pc'[p] = "idle" /\ job'[p] = NoJob) \/ job'[p] = job[p]
        BY <3>9 DEF Hold, RefuseUncut, NothingToDo, Sweep, Change, Lift, Finish,
           Release, Goto, Recall, TypeOK
      <4>2. QED
        BY <3>1, <3>8, <4>1
    <3>10. CASE StartDeploy(p) \/ Abandon(p) \/ CheckoutFails(p) \/ Crash(p)
      BY <3>10 DEF StartDeploy, Orderly, Steady, Abandon, CheckoutFails, Crash, Spend, Calm
    <3>11. QED
      BY <3>2, <3>3, <3>4, <3>5, <3>6, <3>7, <3>8, <3>9, <3>10 DEF Step, Starts,
         Proceeds, StartRereads, Reuse, BeginCheckout, EndCheckout, Build,
         BuildFails, Swap, Capture, Reload, Verify, Undo, CaptureBack, ReloadBack,
         Retry, VerifyBack, EndRemoval
  <2>6. QED
    BY <2>1, <2>2, <2>3, <2>4, <2>5
<1>3. QED
  BY <1>1, <1>2

LEMMA KeepOwn ==
  ASSUME Orderly, TypeInv, Exclusive, Calm, DiskInv, StageInv, NEW p \in Proc, Step(p),
         Kept, Keeping(p)
  PROVE  Keeping(p)'
<1> /\ TypeOK /\ pc \in [Proc -> Labels] /\ job \in [Proc -> Job] /\ job[p] \in Job
    /\ release \in [Sha -> {"absent", "partial", "whole"}]
  BY DEF TypeInv, TypeOK, Labels
<1>1. Remembered(p)'
  BY StateKeeps
<1>2. pc'[p] \in Building => Whole(job[p].head)'
  <2>1. CASE pc'[p] \in {"build", "swap"}
    BY <2>1, DiskOwn DEF Cared, Whole
  <2>2. CASE pc'[p] \in Building \ {"build", "swap"}
    <3>1. CASE pc[p] \in Building
      <4>1. /\ UNCHANGED release /\ job'[p].head = job[p].head
        <5>1. CASE Build(p) \/ Swap(p) \/ Capture(p) \/ Reload(p) \/ Verify(p)
          BY <5>1 DEF Build, Swap, Capture, Reload, Verify, disk
        <5>2. CASE ReadTable(p)
          BY <5>2 DEF ReadTable, Recall, Job, disk
        <5>3. QED
          BY <2>2, <3>1, <5>1, <5>2 DEF Building, Step, Starts, Proceeds, StartTick,
             StartGo, StartDeploy, StartReread, Reread, Adopt, Hold, Abandon,
             RefuseUncut, NothingToDo, Attempt, Promote, Reuse, BeginCheckout,
             EndCheckout, CheckoutFails, BuildFails, Failing, RecordStaged, Landed,
             Undo, Rollback, Correct, CaptureBack, ReloadBack, Retry, VerifyBack,
             RecordOutcome, BeginRemoval, EndRemoval, Sweep, Change, Lift,
             StartBranch, StartWatch, StartSettings, Crash, Goto, Finish, Release,
             Reading
      <4>2. QED
        BY <3>1, <4>1 DEF Keeping, Whole
    <3>2. CASE pc[p] \notin Building
      BY <2>2, <3>2 DEF Building, Step, Starts, Proceeds, StartTick, StartGo,
         StartDeploy, StartReread, Reread, Adopt, Hold, Abandon, RefuseUncut,
         NothingToDo, Attempt, Promote, Reuse, BeginCheckout, EndCheckout,
         CheckoutFails, Build, BuildFails, Failing, ReadTable, RecordStaged,
         Swap, Capture, Reload, Verify, Landed, Undo, Rollback, Correct,
         CaptureBack, ReloadBack, Retry, VerifyBack, RecordOutcome,
         BeginRemoval, EndRemoval, Sweep, Change, Lift, StartBranch,
         StartWatch, StartSettings, Crash, Goto, Finish, Release
    <3>3. QED
      BY <3>1, <3>2
  <2>3. QED
    BY <2>1, <2>2
<1>3. pc'[p] = "correct" => Whole(job[p].to)'
  <2> SUFFICES ASSUME pc'[p] = "correct" PROVE Whole(job[p].to)'
    OBVIOUS
  <2>1. Rollback(p)
    BY DEF Step, Starts, Proceeds, StartTick, StartGo, StartDeploy, StartReread,
       Reread, Adopt, Hold, Abandon, RefuseUncut, NothingToDo, Attempt,
       Promote, Reuse, BeginCheckout, EndCheckout, CheckoutFails, Build,
       BuildFails, Failing, ReadTable, RecordStaged, Swap, Capture, Reload,
       Verify, Landed, Undo, Correct, CaptureBack, ReloadBack, Retry,
       VerifyBack, RecordOutcome, BeginRemoval, EndRemoval, Sweep, Change,
       Lift, StartBranch, StartWatch, StartSettings, Crash, Goto, Finish,
       Release
  <2>2. /\ pc[p] = "rollback" /\ Target(p) # None /\ UNCHANGED release
        /\ job'[p] = [job[p] EXCEPT !.to = Target(p)]
    BY <2>1 DEF Rollback, Goto, Recall
  <2>3. job'[p].to = Target(p)
    BY <2>2 DEF Job
  <2>4. \A s \in Sha : release[s] # "partial"
    BY <2>2, TidyInside DEF DiskInv, Holds, Inside
  <2>5. Target(p) \in Sha /\ release[Target(p)] # "absent"
    BY <2>2, JobFields DEF Target, RollbackTarget, Usable, Exists, MaybeSha
  <2>6. QED
    BY <2>2, <2>3, <2>4, <2>5 DEF Whole
<1>4. pc'[p] = "removing" => job'[p].to # None /\ release'[job'[p].to] # "whole"
  <2> SUFFICES ASSUME pc'[p] = "removing"
               PROVE  job'[p].to # None /\ release'[job'[p].to] # "whole"
    OBVIOUS
  <2>1. BeginRemoval(p)
    BY DEF Step, Starts, Proceeds, StartTick, StartGo, StartDeploy, StartReread,
       Reread, Adopt, Hold, Abandon, RefuseUncut, NothingToDo, Attempt,
       Promote, Reuse, BeginCheckout, EndCheckout, CheckoutFails, Build,
       BuildFails, Failing, ReadTable, RecordStaged, Swap, Capture, Reload,
       Verify, Landed, Undo, Rollback, Correct, CaptureBack, ReloadBack,
       Retry, VerifyBack, RecordOutcome, EndRemoval, Sweep, Change, Lift,
       StartBranch, StartWatch, StartSettings, Crash, Goto, Finish, Release
  <2>2. PICK s \in Present \ Spared(p) :
          /\ release' = [release EXCEPT ![s] = "partial"]
          /\ Recall(p, [job[p] EXCEPT !.to = s])
    BY <2>1 DEF BeginRemoval
  <2>3. s \in Sha /\ job'[p].to = s
    BY <2>2 DEF Present, Recall, Job
  <2>4. QED
    BY <2>2, <2>3, ShaAssumption
<1>5. QED
  BY <1>1, <1>2, <1>3, <1>4 DEF Keeping, Remembered

LEMMA KeepOthers ==
  ASSUME Orderly, TypeInv, Exclusive, Calm, DiskInv, StageInv, NEW p \in Proc, Step(p),
         NEW q \in Proc, q # p, Keeping(q)
  PROVE  Keeping(q)'
<1>1. /\ pc'[q] = pc[q] /\ job'[q] = job[q] /\ table'.watch = table.watch
      /\ Part(q) /\ Current(q) /\ Part(p) /\ TypeOK
  BY OthersStep, StageOwn DEF StageInv, TypeInv, Orderly
<1>2. CASE UNCHANGED release
  BY <1>1, <1>2 DEF Keeping, Whole
<1>3. CASE Holds(q)
  <2>1. ~Holds(p)
    BY <1>3 DEF Exclusive
  <2>2. QED
    BY <1>2, <2>1, OutsideDisk
<1>4. CASE ~Holds(q) /\ q # Dog
  <2>1. job[q].state = NoJob.state
    BY <1>1, <1>4, CopyHolds DEF Current
  <2>2. \A s \in Names(job'[q].state) : Whole(s)'
    BY <1>1, <2>1 DEF Names, NoJob, Whole
  <2>3. QED
    BY <1>1, <1>4, <2>2 DEF Keeping, Holds, Inside, Building
<1>5. CASE ~Holds(q) /\ q = Dog /\ table.watch = "manual"
  BY <1>1, <1>5 DEF Keeping, Part, Building
<1>6. CASE q = Dog /\ table.watch = "auto"
  <2>1. /\ p # Dog /\ pc[p] \notin {"checkout", "adding", "prune", "removing"}
    BY <1>1, <1>6 DEF Part, Arriving
  <2>2. UNCHANGED release
    <3>1. CASE BeginCheckout(p) \/ EndCheckout(p) \/ CheckoutFails(p) \/
               BeginRemoval(p) \/ EndRemoval(p)
      BY <2>1, <3>1 DEF BeginCheckout, EndCheckout, CheckoutFails, BeginRemoval,
         EndRemoval
    <3>2. QED
      BY <3>1 DEF Step, Starts, Proceeds, disk, StartTick, StartGo, StartDeploy,
         StartReread, Reread, Adopt, Hold, Abandon, RefuseUncut, NothingToDo,
         Attempt, Promote, Reuse, Build, BuildFails, ReadTable, RecordStaged, Swap,
         Capture, Reload, Verify, Landed, Undo, Rollback, Correct, CaptureBack,
         ReloadBack, Retry, VerifyBack, RecordOutcome, Sweep, Change, Lift,
         StartBranch, StartWatch, StartSettings, Crash
  <2>3. QED
    BY <1>2, <2>2
<1>7. QED
  BY <1>1, <1>3, <1>4, <1>5, <1>6 DEF TypeOK, Table

LEMMA KeepNext ==
  ASSUME Orderly
  PROVE  TypeInv /\ Exclusive /\ Calm /\ DiskInv /\ StageInv /\ KeepInv /\ [Next]_vars
           => KeepInv'
<1> SUFFICES ASSUME TypeInv, Exclusive, Calm, DiskInv, StageInv, KeepInv, [Next]_vars
             PROVE  KeepInv'
  OBVIOUS
<1> TypeOK
  BY DEF TypeInv
<1>1. left'.remove \in Nat /\ left'.remove <= left.remove
  BY RemoveShrinks
<1>2. left'.remove <= Bounds.remove
  <2>1. left.remove <= Bounds.remove /\ left.remove \in Nat /\ Bounds.remove \in Nat
    BY BoundsAssumption DEF KeepInv, TypeOK, BoundsType
  <2>2. QED
    BY <1>1, <2>1
<1>3. ASSUME left'.remove = Bounds.remove
      PROVE  Kept' /\ \A q \in Proc : Keeping(q)'
  <2>1. left.remove = Bounds.remove
    <3>1. left.remove <= Bounds.remove /\ left.remove \in Nat /\ Bounds.remove \in Nat
      BY BoundsAssumption DEF KeepInv, TypeOK, BoundsType
    <3>2. QED
      BY <1>1, <1>3, <3>1
  <2>2. Kept /\ \A q \in Proc : Keeping(q)
    BY <2>1 DEF KeepInv, Kept
  <2>3. ASSUME NEW p \in Proc, Step(p) PROVE Kept' /\ \A q \in Proc : Keeping(q)'
    BY <2>2, <2>3, RecordKeeps, KeepOwn, KeepOthers
  <2>4. ASSUME NEW s \in Sha, HandRemove(s) PROVE FALSE
    <3>1. left'.remove = left.remove - 1 /\ left.remove \in Nat
      BY <2>4 DEF HandRemove, Spend, TypeOK, BoundsType
    <3>2. QED
      BY <1>3, <2>1, <3>1
  <2>5. ASSUME UNCHANGED <<record, release, table, pc, job>>
        PROVE  Kept' /\ \A q \in Proc : Keeping(q)'
    BY <2>2, <2>5 DEF Kept, Keeping, Whole
  <2>6. CASE Shepherd \/ Environment \/ UNCHANGED vars
    BY <2>4, <2>5, <2>6 DEF Shepherd, Spawn, TurnOver, GiveUp, Restart, Environment,
       Push, HandRepoint, vars, disk
  <2>7. QED
    BY <2>3, <2>6 DEF Next
<1>4. QED
  BY <1>2, <1>3 DEF KeepInv, Kept

(* Retention never takes a release the record names, whoever stages,       *)
(* promotes or ticks and however `current` is repointed by hand: whoever   *)
(* prunes has its own copy of the names, the disk's, or both, and under    *)
(* the tree lock the one it leaves out cannot have changed (prune, stage). *)
THEOREM RecordedStays ==
  ASSUME Orderly
  PROVE  Spec => []RecordedKept
<1>1. Init => KeepInv
  <2> SUFFICES ASSUME NEW first \in Sha, InitAt(first) PROVE KeepInv
    BY DEF Init
  <2>1. left.remove <= Bounds.remove
    BY BoundsAssumption DEF InitAt, BoundsType
  <2>2. \A s \in Names(record) : Whole(s)
    BY DEF InitAt, Names, Whole
  <2>3. \A p \in Proc : Keeping(p)
    BY DEF InitAt, NoJob, Keeping, Names, Whole, Building
  <2>4. QED
    BY <2>1, <2>2, <2>3 DEF KeepInv
<1>2. KeepInv => RecordedKept
  BY DEF KeepInv, Names, Whole, RecordedKept
<1>3. Spec => []StageInv /\ [](Calm /\ DiskInv)
  BY StageInvariant, DiskInvariant DEF Orderly, Peaceful
<1>4. QED
  BY <1>1, <1>2, <1>3, KeepNext, TypeInvariant, MutualExclusion, PTL DEF Spec

=============================================================================
