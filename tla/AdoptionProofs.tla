--------------------------- MODULE AdoptionProofs ---------------------------
(***************************************************************************)
(* Proofs about Adoption, for every number of processes and instances and  *)
(* every amount of trouble: types and the tree lock in any setting, and,   *)
(* where the dog is removed only while nothing else goes on, every safety  *)
(* property the module states.                                             *)
(*                                                                         *)
(* The argument is who may ask the shepherd for anything.  A process that  *)
(* does is either inside the tree lock or restoring, and then every other  *)
(* one is at most on its way to the lock: it remembers nothing of the      *)
(* flock that could become untrue.  So what a command was told is still so *)
(* when it acts on it, but for what it has done itself: the first part     *)
(* (Undisturbed) has that of the originals and the clone, the second       *)
(* (Reckoning) of every row, and so of what is reported in the end.        *)
(***************************************************************************)
EXTENDS Adoption, FiniteSetTheorems, TLAPS

OnTheWay == {"registered", "check", "hold"}

(* What a process at l with memory j is up to.                             *)
RoleOf(l, j) ==
  /\ l = "idle" => j.cmd = "none"
  /\ l \in OnTheWay \cup Inside => j.cmd = "init"
  /\ l \in Restoring => j.cmd = "remove"
  /\ l \in {"hold"} \cup Inside => j.config = "own"
  /\ l \in {"live", "delete", "putBack", "fallback"} => j.config \in Config

TypeInv == TypeOK /\ \A p \in Process : RoleOf(pc[p], job[p])

(* A removal has the sheep to itself.                                      *)
Apart ==
  \A p, q \in Process : p # q /\ job[p].cmd = "remove" => job[q].cmd = "none"

(* What it was told of the flock and the roll is still so.                 *)
KeptBy(p) ==
  /\ pc[p] \in Watching \cup Undoing \cup {"start"} => job[p].previous \subseteq Ids(flock)
  /\ pc[p] \in {"drain", "drainRepair"} => job[p].todo \cap job[p].previous = {}

ClonedFor(p) ==
  /\ pc[p] \in Inside \ {"build"} => linked
  /\ pc[p] \in {"read", "live", "delete", "putBack", "fallback"} /\ job[p].config = "tree" => linked
  /\ pc[p] = "read" => roll = job[p].config
  /\ pc[p] = "letGo" => roll # "tree"

Undisturbed ==
  /\ Apart /\ CloneKeptForTree
  /\ \A p \in Process : KeptBy(p) /\ ClonedFor(p)

IInv == TypeInv /\ (Patient => Undisturbed)

-----------------------------------------------------------------------------
(* Lemmas about steps.                                                     *)

(* A step of p leaves the other processes where they are.                  *)
Moves(p, l, j) ==
  /\ pc' \in [Process -> Places] /\ job' \in [Process -> Job]
  /\ pc'[p] = l /\ job'[p] = j
  /\ \A q \in Process \ {p} : pc'[q] = pc[q] /\ job'[q] = job[q]

(* The lock stays, or p takes it or lets go of it.                         *)
Locks(p) ==
  /\ lock' \in Process \cup {None}
  /\ lock' = lock \/ (lock = None /\ lock' = p) \/ (lock = p /\ lock' = None)

ShepherdTyped ==
  /\ flock' \subseteq Row /\ nextId' \in Nat /\ roll' \in Config \cup {"none"}
TreeTyped ==
  /\ watch' \in {"unset", "manual", "auto"}
  /\ swapped' \in BOOLEAN /\ linked' \in BOOLEAN
  /\ record' \in {"absent", "never", "deployed"}

LEMMA Moving ==
  ASSUME TypeInv, NEW p \in Process, NEW l \in Places, NEW j \in Job,
         Goto(p, l) \/ (l = pc[p] /\ pc' = pc),
         Recall(p, j) \/ (j = job[p] /\ job' = job)
  PROVE  Moves(p, l, j)
  BY DEF TypeInv, TypeOK, Goto, Recall, Moves

LEMMA Idles == "idle" \in Places /\ NoJob \in Job /\ RoleOf("idle", NoJob)
  BY DEF Places, NoJob, Job, RoleOf, OnTheWay, Inside, Preparing, Starting, Watching,
     Cleaning, Undoing, Restoring

(* p reports: it is idle, and without the lock.                            *)
LEMMA Reporting ==
  ASSUME TypeInv, NEW p \in Process, NEW t \in Told, Report(p, t)
  PROVE  /\ Moves(p, "idle", NoJob) /\ Locks(p)
         /\ told' \in [Process -> Told]
<1>1. Moves(p, "idle", NoJob)  BY Idles, Moving DEF Report
<1>2. Locks(p)  BY DEF Report, Locks, TypeInv, TypeOK
<1>3. told' \in [Process -> Told]  BY DEF Report, TypeInv, TypeOK
<1> QED  BY <1>1, <1>2, <1>3

LEMMA Says == ASSUME NEW kind \in Kinds PROVE Say(kind) \in Told
  BY DEF Say, NothingTold, Told

LEMMA Undoes ==
  ASSUME NEW removed \in BOOLEAN, NEW repaired \in BOOLEAN
  PROVE  Undone(removed, repaired) \in Told
  BY DEF Undone, Told, Kinds

(* p goes on.                                                              *)
LEMMA Continuing ==
  ASSUME TypeInv, NEW p \in Process, NEW l \in Places, NEW j \in Job, Continue(p, l, j)
  PROVE  /\ Moves(p, l, j) /\ Locks(p)
         /\ lock' = lock /\ told' \in [Process -> Told]
<1>1. Moves(p, l, j)  BY Moving DEF Continue
<1>2. lock' = lock /\ told' \in [Process -> Told] /\ Locks(p)
  BY DEF Continue, Locks, TypeInv, TypeOK
<1> QED  BY <1>1, <1>2

(* A step of p keeps the types if what it changes is typed.                *)
LEMMA StepTyped ==
  ASSUME TypeInv, NEW p \in Process, NEW l \in Places, NEW j \in Job,
         Moves(p, l, j), Locks(p), told' \in [Process -> Told],
         l \in Inside => lock' = p,
         RoleOf(l, j), ShepherdTyped, TreeTyped, left' \in BoundsType
  PROVE  TypeInv'
<1>1. ASSUME NEW q \in Process PROVE RoleOf(pc[q], job[q])'
  BY DEF Moves, TypeInv, RoleOf
<1>2. ASSUME NEW q \in Process, pc'[q] \in Inside PROVE lock' = q
  <2>1. CASE q = p  BY <1>2, <2>1 DEF Moves
  <2>2. CASE q # p
    <3>1. lock = q  BY <1>2, <2>2 DEF Moves, TypeInv, TypeOK
    <3> QED  BY <2>2, <3>1, ProcessAssumption DEF Locks
  <2> QED  BY <2>1, <2>2
<1>3. TypeOK'  BY <1>2 DEF TypeOK, Moves, Locks, ShepherdTyped, TreeTyped
<1> QED  BY <1>1, <1>3 DEF TypeInv

-----------------------------------------------------------------------------
(* The shepherd's rows, and the budgets.                                   *)

LEMMA RowIds == ASSUME NEW rows, rows \subseteq Row PROVE Ids(rows) \subseteq Nat
  BY DEF Ids, Row

LEMMA RowPids == ASSUME NEW rows, rows \subseteq Row PROVE Pids(rows) \subseteq Nat \X Nat
  BY DEF Pids, Row

LEMMA Keeping == ASSUME TypeInv, UNCHANGED shepherd PROVE ShepherdTyped
  BY DEF TypeInv, TypeOK, shepherd, ShepherdTyped

LEMMA Troubling ==
  ASSUME TypeInv, NEW kind \in {"crash", "fault", "refuse", "lost", "death"}, Trouble(kind)
  PROVE  left' \in BoundsType
<1> DEFINE spent == [left EXCEPT ![kind] = @ - 1]
<1>1. left \in BoundsType /\ left[kind] > 0 /\ left.trouble > 0
  BY DEF TypeInv, TypeOK, Trouble
<1>2. spent \in BoundsType /\ spent.trouble = left.trouble  BY <1>1 DEF BoundsType
<1>3. left' = [spent EXCEPT !.trouble = left.trouble - 1]  BY DEF Trouble
<1> HIDE DEF spent
<1>4. left.trouble - 1 \in Nat  BY <1>1 DEF BoundsType
<1> QED  BY <1>2, <1>3, <1>4 DEF BoundsType

(* Rows are added, and the name registered.                                *)
LEMMA Registering ==
  ASSUME TypeInv, NEW c \in Config, Starts(c)
  PROVE  /\ ShepherdTyped /\ roll' = c /\ Ids(flock) \subseteq Ids(flock')
         /\ NewIds(c) \subseteq Nat
<1>1. nextId \in Nat /\ Instances[c] \in Nat /\ flock \subseteq Row
  BY InstancesAssumption DEF TypeInv, TypeOK
<1>2. NewIds(c) \subseteq Nat  BY <1>1 DEF NewIds
<1>3. flock' \subseteq Row  BY <1>1, <1>2 DEF Starts, Row
<1>4. Ids(flock) \subseteq Ids(flock')  BY DEF Starts, Ids
<1> QED  BY <1>1, <1>2, <1>3, <1>4 DEF Starts, ShepherdTyped

LEMMA Deleting ==
  ASSUME TypeInv, NEW id, Deletes(id)
  PROVE  /\ ShepherdTyped /\ roll' \in {roll, "none"}
         /\ Ids(flock) \ {id} \subseteq Ids(flock')
<1>1. flock' \subseteq Row /\ nextId' \in Nat  BY DEF Deletes, Without, TypeInv, TypeOK
<1>2. roll' \in {roll, "none"}  BY DEF Deletes
<1>3. Ids(flock) \ {id} \subseteq Ids(flock')  BY DEF Deletes, Without, Ids
<1> QED  BY <1>1, <1>2, <1>3 DEF ShepherdTyped, TypeInv, TypeOK

-----------------------------------------------------------------------------
(* What one process does, and the others.                                  *)

Asks(p) == pc[p] \in Inside \cup Restoring
SheepKept == UNCHANGED <<flock, roll, linked>>

(* While p asks, nobody else remembers anything.                           *)
LEMMA Alone ==
  ASSUME TypeInv, Apart, NEW p \in Process, Asks(p), NEW q \in Process, q # p
  PROVE  pc[q] \in {"idle"} \cup OnTheWay
<1>1. pc[q] \in Places /\ RoleOf(pc[p], job[p]) /\ RoleOf(pc[q], job[q])
  BY DEF TypeInv, TypeOK
<1>2. CASE pc[p] \in Inside
  <2>1. pc[q] \notin Inside  BY <1>2, ProcessAssumption DEF TypeInv, TypeOK
  <2>2. pc[q] \notin Restoring  BY <1>1, <1>2 DEF RoleOf, Apart
  <2> QED  BY <1>1, <2>1, <2>2 DEF Places, OnTheWay
<1>3. CASE pc[p] \in Restoring
  <2>1. job[q].cmd = "none"  BY <1>1, <1>3 DEF RoleOf, Apart
  <2> QED  BY <1>1, <2>1 DEF RoleOf, Places, OnTheWay
<1> QED  BY <1>2, <1>3 DEF Asks

LEMMA StepKeeps ==
  ASSUME IInv, NEW p \in Process, NEW l \in Places, NEW j \in Job, Moves(p, l, j),
         TypeInv', Asks(p) \/ SheepKept,
         j.cmd \in {job[p].cmd, "none"},
         Patient => KeptBy(p)' /\ ClonedFor(p)' /\ CloneKeptForTree'
  PROVE  IInv'
<1> SUFFICES ASSUME Patient PROVE Undisturbed'  BY DEF IInv
<1>1. TypeInv /\ Undisturbed  BY DEF IInv
<1>2. Apart'
  BY <1>1 DEF Undisturbed, Apart, Moves
<1>3. ASSUME NEW q \in Process, q # p PROVE KeptBy(q)' /\ ClonedFor(q)'
  <2>1. pc'[q] = pc[q] /\ job'[q] = job[q]  BY <1>3 DEF Moves
  <2>2. CASE SheepKept
    BY <1>1, <2>1, <2>2 DEF Undisturbed, KeptBy, ClonedFor, SheepKept, Ids
  <2>3. CASE Asks(p)
    <3>1. pc'[q] \in {"idle"} \cup OnTheWay  BY <1>1, <1>3, <2>1, <2>3, Alone DEF Undisturbed
    <3> QED
      BY <3>1 DEF KeptBy, ClonedFor, OnTheWay, Inside, Preparing, Starting, Watching,
         Cleaning, Undoing
  <2> QED  BY <2>2, <2>3
<1> QED  BY <1>2, <1>3 DEF Undisturbed

(* A report, whatever became of the sheep.                                 *)
LEMMA Reported ==
  ASSUME IInv, NEW p \in Process, NEW t \in Told, Report(p, t),
         ShepherdTyped, TreeTyped, left' \in BoundsType, Asks(p) \/ SheepKept,
         Patient => CloneKeptForTree'
  PROVE  IInv'
<1>1. TypeInv /\ "idle" \notin Inside
  BY DEF IInv, Inside, Preparing, Starting, Watching, Cleaning, Undoing
<1>2. Moves(p, "idle", NoJob) /\ Locks(p) /\ told' \in [Process -> Told]
  BY <1>1, Reporting
<1>3. TypeInv'  BY <1>1, <1>2, Idles, StepTyped
<1>4. KeptBy(p)' /\ ClonedFor(p)'
  BY <1>1, <1>2 DEF Moves, KeptBy, ClonedFor, Watching, Undoing
<1>5. NoJob.cmd = "none"  BY DEF NoJob
<1> QED  BY <1>2, <1>3, <1>4, <1>5, Idles, StepKeeps

(* p goes on, whatever became of the sheep.                                *)
LEMMA Moved ==
  ASSUME IInv, NEW p \in Process, NEW l \in Places, NEW j \in Job,
         Moves(p, l, j), Locks(p), told' = told, l \in Inside => lock' = p, RoleOf(l, j),
         ShepherdTyped, TreeTyped, left' \in BoundsType, Asks(p) \/ SheepKept,
         j.cmd = job[p].cmd,
         Patient => KeptBy(p)' /\ ClonedFor(p)' /\ CloneKeptForTree'
  PROVE  IInv'
<1>1. TypeInv /\ told' \in [Process -> Told]  BY DEF IInv, TypeInv, TypeOK
<1>2. TypeInv'  BY <1>1, StepTyped
<1> QED  BY <1>2, StepKeeps

(* What is known of a process at work.                                     *)
LEMMA AtWork ==
  ASSUME IInv, NEW p \in Process
  PROVE  /\ TypeInv /\ job[p] \in Job /\ left \in BoundsType /\ RoleOf(pc[p], job[p])
         /\ flock \subseteq Row /\ TypeOK
         /\ pc[p] \in Inside => lock = p
         /\ Patient => KeptBy(p) /\ ClonedFor(p) /\ CloneKeptForTree
  BY DEF IInv, TypeInv, TypeOK, Undisturbed

(* The tree, of which a step of the others changes nothing.                *)
LEMMA TreeStays == ASSUME TypeOK, UNCHANGED <<watch, tree>> PROVE TreeTyped
  BY DEF TypeOK, TreeTyped, tree

(* p goes on, or reports, and the sheep is left alone.                     *)
LEMMA QuietContinue ==
  ASSUME IInv, NEW p \in Process, NEW l \in Places, NEW j \in Job, Continue(p, l, j),
         l \in Inside => lock = p, RoleOf(l, j), j.cmd = job[p].cmd,
         UNCHANGED shepherd, linked' = linked, TreeTyped, left' \in BoundsType,
         Patient /\ Moves(p, l, j) => KeptBy(p)' /\ ClonedFor(p)'
  PROVE  IInv'
<1>1. TypeInv  BY DEF IInv
<1>2. Moves(p, l, j) /\ Locks(p) /\ lock' = lock  BY <1>1, Continuing
<1>3. ShepherdTyped /\ SheepKept /\ told' = told
  BY <1>1, Keeping DEF shepherd, SheepKept, Continue
<1>4. Patient => CloneKeptForTree'  BY <1>3 DEF IInv, Undisturbed, CloneKeptForTree, SheepKept
<1> QED  BY <1>2, <1>3, <1>4, Moved

LEMMA QuietReport ==
  ASSUME IInv, NEW p \in Process, NEW t \in Told, Report(p, t),
         UNCHANGED shepherd, linked' = linked, TreeTyped, left' \in BoundsType
  PROVE  IInv'
<1>1. ShepherdTyped /\ SheepKept  BY Keeping DEF IInv, shepherd, SheepKept
<1>2. Patient => CloneKeptForTree'  BY <1>1 DEF IInv, Undisturbed, CloneKeptForTree, SheepKept
<1> QED  BY <1>1, <1>2, Reported

(* Past the build the clone is linked, so whatever a process inside asks   *)
(* for, the sheep can fetch.                                               *)
LEMMA InsideMoved ==
  ASSUME IInv, NEW p \in Process, NEW l \in Inside \ {"build"}, NEW j \in Job,
         pc[p] \in Inside \ {"build"}, j.cmd = job[p].cmd, j.config = job[p].config,
         Moves(p, l, j), UNCHANGED <<lock, told>>, ShepherdTyped, TreeTyped,
         linked' = linked, left' \in BoundsType,
         Patient => KeptBy(p)'
  PROVE  IInv'
<1>1. /\ Asks(p) /\ lock = p /\ Locks(p) /\ RoleOf(pc[p], job[p])
      /\ Patient => ClonedFor(p)
  BY AtWork DEF Asks, Locks, TypeOK
<1>2. l \in Places /\ l \notin Restoring /\ l # "idle" /\ l # "hold"
  BY DEF Places, Inside, Preparing, Starting, Watching, Cleaning, Undoing, Restoring
<1>3. RoleOf(l, j)
  BY <1>1, <1>2 DEF RoleOf, OnTheWay, Restoring
<1>4. Patient => ClonedFor(p)' /\ CloneKeptForTree'
  BY <1>1, <1>2 DEF ClonedFor, CloneKeptForTree, Moves, Restoring
<1> QED  BY <1>1, <1>2, <1>3, <1>4, Moved

LEMMA InsideContinue ==
  ASSUME IInv, NEW p \in Process, NEW l \in Inside \ {"build"}, NEW j \in Job,
         pc[p] \in Inside \ {"build"}, j.cmd = job[p].cmd, j.config = job[p].config,
         Continue(p, l, j), ShepherdTyped, TreeTyped,
         linked' = linked, left' \in BoundsType,
         Patient /\ Moves(p, l, j) => KeptBy(p)'
  PROVE  IInv'
<1>1. l \in Places  BY DEF Places
<1>2. Moves(p, l, j)  BY <1>1, Continuing DEF IInv
<1> QED  BY <1>2, InsideMoved DEF Continue

LEMMA InsideReport ==
  ASSUME IInv, NEW p \in Process, NEW t \in Told, Report(p, t),
         pc[p] \in Inside \ {"build"}, ShepherdTyped, TreeTyped,
         linked' = linked, left' \in BoundsType
  PROVE  IInv'
<1>1. Asks(p) /\ (Patient => ClonedFor(p))  BY AtWork DEF Asks
<1>2. Patient => CloneKeptForTree'  BY <1>1 DEF ClonedFor, CloneKeptForTree
<1> QED  BY <1>1, <1>2, Reported

(* A command begins.                                                       *)
LEMMA BeginKeeps ==
  ASSUME IInv, NEW p \in Process, StartInit(p) \/ StartRemove(p)
  PROVE  IInv'
<1>1. TypeInv /\ TypeOK /\ UNCHANGED <<shepherd, watch, tree, left>> /\ pc[p] = "idle"
  BY DEF IInv, TypeInv, StartInit, StartRemove, Fresh
<1>2. /\ left' \in BoundsType /\ ShepherdTyped /\ TreeTyped /\ SheepKept
  BY <1>1, Keeping, TreeStays DEF TypeOK, SheepKept, shepherd, tree
<1>3. PICK l \in {"registered", "roll"}, cmd \in {"init", "remove"} :
        /\ Continue(p, l, [NoJob EXCEPT !.cmd = cmd])
        /\ cmd = IF l = "roll" THEN "remove" ELSE "init"
        /\ Patient => Running("remove") = {}
        /\ Patient /\ l = "roll" => Running("init") = {}
  BY DEF StartInit, StartRemove
<1> DEFINE j == [NoJob EXCEPT !.cmd = cmd]
<1>4. j \in Job /\ j.cmd = cmd  BY Idles DEF NoJob, Job
<1>5. l \in Places /\ l \notin Inside /\ RoleOf(l, j)
  BY <1>3, <1>4 DEF Places, OnTheWay, Inside, Preparing, Starting, Watching, Cleaning,
     Undoing, Restoring, RoleOf
<1>6. Continue(p, l, j)  BY <1>3
<1> HIDE DEF j
<1>7. Moves(p, l, j) /\ Locks(p) /\ told' \in [Process -> Told]
  BY <1>1, <1>4, <1>5, <1>6, Continuing
<1>8. TypeInv'  BY <1>1, <1>2, <1>4, <1>5, <1>7, StepTyped
<1>9. ASSUME Patient PROVE Undisturbed'
  <2>1. Apart'
    <3>1. \A q \in Process : job[q].cmd # "remove"  BY <1>3, <1>9 DEF Running
    <3>2. l = "roll" => \A q \in Process : job[q].cmd = "none"
      BY <1>1, <1>3, <1>9, <3>1 DEF Running, TypeOK, Job
    <3> QED  BY <1>3, <1>4, <1>7, <3>1, <3>2 DEF Apart, Moves
  <2>2. ASSUME NEW q \in Process PROVE KeptBy(q)' /\ ClonedFor(q)'
    <3>1. CASE q = p
      BY <1>3, <1>5, <1>7, <3>1 DEF Moves, KeptBy, ClonedFor, Inside, Watching, Undoing
    <3>2. CASE q # p
      BY <1>2, <1>7, <1>9, <3>2 DEF Moves, IInv, Undisturbed, KeptBy, ClonedFor, SheepKept, Ids
    <3> QED  BY <3>1, <3>2
  <2>3. CloneKeptForTree'
    BY <1>2, <1>9 DEF IInv, Undisturbed, CloneKeptForTree, SheepKept
  <2> QED  BY <2>1, <2>2, <2>3 DEF Undisturbed
<1> QED  BY <1>8, <1>9 DEF IInv

-----------------------------------------------------------------------------
(* prepare_with.                                                           *)

LEMMA ReadRegisteredKeeps ==
  ASSUME IInv, NEW p \in Process, ReadRegistered(p)
  PROVE  IInv'
<1>1. /\ pc[p] = "registered" /\ UNCHANGED <<shepherd, watch, tree>>
      /\ left' \in BoundsType /\ TreeTyped /\ linked' = linked
  BY AtWork, Troubling, TreeStays DEF ReadRegistered, ReadErrs, tree
<1>2. ASSUME Continue(p, "check", [job[p] EXCEPT !.config = roll]) PROVE IInv'
  <2> DEFINE j == [job[p] EXCEPT !.config = roll]
  <2>1. j \in Job /\ j.cmd = job[p].cmd  BY AtWork DEF TypeOK, Job
  <2>2. Continue(p, "check", j)  BY <1>2
  <2> HIDE DEF j
  <2>3. job[p].cmd = "init"  BY <1>1, AtWork DEF RoleOf, OnTheWay
  <2>4. "check" \in Places /\ "check" \notin Inside /\ RoleOf("check", j)
    BY <2>1, <2>3 DEF Places, OnTheWay, Inside, Preparing, Starting, Watching,
       Cleaning, Undoing, Restoring, RoleOf
  <2>5. Moves(p, "check", j) => KeptBy(p)' /\ ClonedFor(p)'
    BY <2>4 DEF Moves, KeptBy, ClonedFor, Inside, Watching, Undoing
  <2> QED  BY <1>1, <2>1, <2>2, <2>4, <2>5, QuietContinue
<1>3. Say("unregistered") \in Told /\ Say("refused") \in Told  BY Says DEF Kinds
<1> QED  BY <1>1, <1>2, <1>3, QuietReport DEF ReadRegistered

LEMMA RepairRecordKeeps ==
  ASSUME IInv, NEW p \in Process, RepairRecord(p)
  PROVE  IInv'
<1>1. TypeOK /\ UNCHANGED <<shepherd, watch, swapped, linked>> /\ Report(p, Say("refused"))
  BY AtWork DEF RepairRecord
<1>2. TreeTyped  BY <1>1 DEF RepairRecord, TypeOK, TreeTyped
<1>3. left' \in BoundsType  BY AtWork, Troubling DEF RepairRecord
<1>4. Say("refused") \in Told  BY Says DEF Kinds
<1> QED  BY <1>1, <1>2, <1>3, <1>4, QuietReport

LEMMA CheckTreeKeeps ==
  ASSUME IInv, NEW p \in Process, CheckTree(p)
  PROVE  IInv'
<1>1. /\ pc[p] = "check" /\ job[p].config = "own" /\ UNCHANGED <<shepherd, linked>>
      /\ left' \in BoundsType /\ TreeTyped
  BY AtWork, TreeStays DEF CheckTree, tree
<1>2. CASE Continue(p, "hold", job[p])
  <2>1. job[p] \in Job /\ job[p].cmd = "init"  BY <1>1, AtWork DEF RoleOf, OnTheWay
  <2>2. "hold" \in Places /\ "hold" \notin Inside /\ RoleOf("hold", job[p])
    BY <1>1, <2>1 DEF Places, OnTheWay, Inside, Preparing, Starting, Watching, Cleaning,
       Undoing, Restoring, RoleOf
  <2>3. Moves(p, "hold", job[p]) => KeptBy(p)' /\ ClonedFor(p)'
    BY <2>2 DEF Moves, KeptBy, ClonedFor, Inside, Watching, Undoing
  <2> QED  BY <1>1, <1>2, <2>1, <2>2, <2>3, QuietContinue
<1>3. Say("refused") \in Told  BY Says DEF Kinds
<1> QED  BY <1>1, <1>2, <1>3, QuietReport DEF CheckTree

LEMMA HoldTreeKeeps ==
  ASSUME IInv, NEW p \in Process, HoldTree(p)
  PROVE  IInv'
<1>1. /\ pc[p] = "hold" /\ UNCHANGED <<shepherd, linked>>
      /\ left' \in BoundsType /\ TreeTyped /\ TypeInv
  BY AtWork, TreeStays DEF HoldTree, tree
<1>2. CASE lock = None /\ lock' = p /\ Goto(p, "build") /\ UNCHANGED <<job, told>>
  <2>1. job[p] \in Job /\ job[p].cmd = "init" /\ job[p].config = "own"
    BY <1>1, AtWork DEF RoleOf, OnTheWay
  <2>2. "build" \in Places /\ RoleOf("build", job[p])
    BY <2>1 DEF Places, OnTheWay, Inside, Preparing, Restoring, RoleOf
  <2>3. Moves(p, "build", job[p]) /\ Locks(p)  BY <1>1, <1>2, <2>1, <2>2, Moving DEF Locks
  <2>4. ShepherdTyped /\ SheepKept  BY <1>1, Keeping DEF shepherd, SheepKept
  <2>5. KeptBy(p)' /\ ClonedFor(p)'
    BY <2>3 DEF Moves, KeptBy, ClonedFor, Watching, Undoing
  <2>6. Patient => CloneKeptForTree'
    BY <2>4, AtWork DEF SheepKept, CloneKeptForTree
  <2> QED  BY <1>1, <1>2, <2>1, <2>2, <2>3, <2>4, <2>5, <2>6, Moved
<1>3. Say("refused") \in Told  BY Says DEF Kinds
<1> QED  BY <1>1, <1>2, <1>3, QuietReport DEF HoldTree

LEMMA BuildFirstKeeps ==
  ASSUME IInv, NEW p \in Process, BuildFirst(p)
  PROVE  IInv'
<1>1. /\ pc[p] = "build" /\ UNCHANGED <<shepherd, watch, swapped, record>>
      /\ linked' \in {linked, TRUE} /\ left' \in BoundsType /\ TypeInv /\ TypeOK
  BY AtWork, Troubling DEF BuildFirst
<1>2. ShepherdTyped /\ TreeTyped  BY <1>1, Keeping DEF TypeOK, TreeTyped
<1>3. /\ Patient => CloneKeptForTree'
      /\ Asks(p) /\ lock = p /\ RoleOf(pc[p], job[p]) /\ job[p] \in Job
  <2>1. roll' = roll /\ (linked => linked')
    <3>1. linked' = linked \/ linked' = TRUE  BY <1>1, Zenon
    <3> QED  BY <1>1, <3>1 DEF shepherd
  <2>2. Patient => CloneKeptForTree  BY AtWork
  <2>3. Patient => CloneKeptForTree'  BY <2>1, <2>2 DEF CloneKeptForTree
  <2>4. Asks(p) /\ pc[p] \in Inside  BY <1>1 DEF Asks, Inside, Preparing
  <2> QED  BY <2>3, <2>4, AtWork
<1>4. CASE linked' = TRUE /\ Continue(p, "manual", job[p])
  <2>1. job[p].cmd = "init" /\ job[p].config = "own"
    BY <1>1, <1>3 DEF RoleOf, Inside, Preparing
  <2>2. "manual" \in Places /\ RoleOf("manual", job[p])
    BY <2>1 DEF Places, OnTheWay, Inside, Preparing, Restoring, RoleOf
  <2>3. Moves(p, "manual", job[p]) /\ Locks(p) /\ lock' = p /\ told' = told
    BY <1>1, <1>3, <1>4, <2>2, Continuing DEF Continue
  <2>4. KeptBy(p)' /\ ClonedFor(p)'
    BY <1>4, <2>3 DEF Moves, KeptBy, ClonedFor, Watching, Undoing
  <2> QED  BY <1>1, <1>2, <1>3, <2>2, <2>3, <2>4, Moved
<1>5. Say("refused") \in Told  BY Says DEF Kinds
<1>6. CASE Report(p, Say("refused"))  BY <1>1, <1>2, <1>3, <1>5, <1>6, Reported
<1> QED  BY <1>4, <1>6 DEF BuildFirst

LEMMA PrepareKeeps ==
  ASSUME IInv, NEW p \in Process, SetManual(p) \/ SwapFirst(p) \/ WriteFirst(p)
  PROVE  IInv'
<1>1. /\ pc[p] \in {"manual", "swap", "write"} /\ UNCHANGED shepherd
      /\ linked' = linked /\ left' \in BoundsType /\ TypeInv /\ TypeOK /\ job[p] \in Job
  <2>1. CASE SetManual(p)  BY <2>1, AtWork, Troubling DEF SetManual, tree
  <2>2. CASE SwapFirst(p)  BY <2>2, AtWork, Troubling DEF SwapFirst
  <2>3. CASE WriteFirst(p)  BY <2>3, AtWork, Troubling DEF WriteFirst
  <2> QED  BY <2>1, <2>2, <2>3
<1>2. TreeTyped
  BY <1>1 DEF SetManual, SwapFirst, WriteFirst, TypeOK, TreeTyped, tree
<1>3. ShepherdTyped  BY <1>1, Keeping
<1>4. pc[p] \in Inside \ {"build"}  BY <1>1 DEF Inside, Preparing
<1>5. ASSUME NEW l \in {"swap", "write", "describe"}, Continue(p, l, job[p]) PROVE IInv'
  <2>1. l \in Inside \ {"build"}  BY DEF Inside, Preparing, Starting
  <2>2. Moves(p, l, job[p]) => KeptBy(p)'  BY DEF Moves, KeptBy, Watching, Undoing
  <2> QED  BY <1>1, <1>2, <1>3, <1>4, <1>5, <2>1, <2>2, InsideContinue
<1>6. Say("refused") \in Told  BY Says DEF Kinds
<1>7. CASE Report(p, Say("refused"))
  BY <1>1, <1>2, <1>3, <1>4, <1>6, <1>7, InsideReport
<1> QED  BY <1>5, <1>7 DEF SetManual, SwapFirst, WriteFirst, Prepared

-----------------------------------------------------------------------------
(* cut_over, attempt and undo_start.                                       *)

(* What a describe lists.                                                  *)
LEMMA Listing ==
  ASSUME TypeOK, NEW rows, rows \subseteq Listed
  PROVE  /\ Ids(rows) \subseteq Nat /\ Pids(rows) \subseteq Nat \X Nat
         /\ Ids(rows) \subseteq Ids(flock)
<1>1. rows \subseteq flock /\ rows \subseteq Row  BY DEF Listed, TypeOK
<1> QED  BY <1>1, RowIds, RowPids DEF Ids

(* A read of the flock ends in what it was answered, or in an error.       *)
LEMMA ReadErring ==
  ASSUME TypeInv, ReadErrs PROVE UNCHANGED shepherd /\ left' \in BoundsType
  BY Troubling DEF ReadErrs

LEMMA DescribeBeforeKeeps ==
  ASSUME IInv, NEW p \in Process, DescribeBefore(p)
  PROVE  IInv'
<1>1. pc[p] = "describe" /\ UNCHANGED <<shepherd, watch, tree>> /\ left' \in BoundsType
  BY AtWork, ReadErring DEF DescribeBefore
<1>2. TypeOK /\ TreeTyped /\ linked' = linked /\ ShepherdTyped
  BY <1>1, AtWork, TreeStays, Keeping DEF tree
<1>3. pc[p] \in Inside \ {"build"} /\ "start" \in Inside \ {"build"}
  BY <1>1 DEF Inside, Starting
<1>4. ASSUME Continue(p, "start", [job[p] EXCEPT !.previous = Ids(Listed)]) PROVE IInv'
  <2> DEFINE j == [job[p] EXCEPT !.previous = Ids(Listed)]
  <2>1. Ids(Listed) \subseteq Nat /\ Ids(Listed) \subseteq Ids(flock)  BY <1>2, Listing
  <2>2. /\ j \in Job /\ j.cmd = job[p].cmd /\ j.config = job[p].config
        /\ j.previous = Ids(Listed)
    BY <2>1, AtWork DEF Job
  <2>3. Continue(p, "start", j)  BY <1>4
  <2> HIDE DEF j
  <2>4. Moves(p, "start", j) => KeptBy(p)'
    BY <1>1, <2>1, <2>2 DEF Moves, KeptBy, shepherd, Ids
  <2> QED  BY <1>1, <1>2, <1>3, <2>2, <2>3, <2>4, InsideContinue
<1>5. Say("unstarted") \in Told  BY Says DEF Kinds
<1> QED  BY <1>1, <1>2, <1>3, <1>4, <1>5, InsideReport DEF DescribeBefore

(* A Start is answered, or comes back with an error.                       *)
LEMMA StartErring ==
  ASSUME TypeInv, NEW c \in Config, Errs(Starts(c))
  PROVE  ShepherdTyped /\ left' \in BoundsType
  BY Troubling, Registering, Keeping DEF Errs

LEMMA StartBesideKeeps ==
  ASSUME IInv, NEW p \in Process, StartBeside(p)
  PROVE  IInv'
<1>1. pc[p] = "start" /\ UNCHANGED <<watch, tree>> /\ TypeInv /\ TypeOK /\ "tree" \in Config
  BY AtWork DEF StartBeside, Config
<1>2. TreeTyped /\ linked' = linked  BY <1>1, TreeStays DEF tree
<1>3. pc[p] \in Inside \ {"build"} /\ "arrive" \in Inside \ {"build"}
  BY <1>1 DEF Inside, Starting, Watching
<1>4. CASE Starts("tree") /\ Continue(p, "arrive", job[p]) /\ UNCHANGED left
  <2>1. ShepherdTyped /\ Ids(flock) \subseteq Ids(flock')  BY <1>1, <1>4, Registering
  <2>2. Patient /\ Moves(p, "arrive", job[p]) => KeptBy(p)'
    BY <1>1, <2>1, AtWork DEF Moves, KeptBy
  <2>3. left' \in BoundsType /\ job[p] \in Job  BY <1>4, AtWork
  <2> QED  BY <1>2, <1>3, <1>4, <2>1, <2>2, <2>3, InsideContinue
<1>5. Say("unstarted") \in Told  BY Says DEF Kinds
<1>6. CASE Errs(Starts("tree")) /\ Report(p, Say("unstarted"))
  <2>1. ShepherdTyped /\ left' \in BoundsType  BY <1>1, <1>6, StartErring
  <2> QED  BY <1>2, <1>3, <1>5, <1>6, <2>1, InsideReport
<1> QED  BY <1>4, <1>6 DEF StartBeside

(* A look that changes nothing but what is remembered of it.               *)
LEMMA Looks ==
  ASSUME IInv, NEW p \in Process, NEW l \in Inside \ {"build"}, NEW j \in Job,
         pc[p] \in Watching \cup Undoing, Continue(p, l, j),
         j.cmd = job[p].cmd, j.config = job[p].config, j.previous = job[p].previous,
         l \in {"drain", "drainRepair"} => j.todo \cap j.previous = {},
         UNCHANGED <<shepherd, watch, tree>>, left' \in BoundsType
  PROVE  IInv'
<1>1. pc[p] \in Inside \ {"build"}  BY DEF Inside, Watching, Undoing
<1>2. TypeOK /\ TreeTyped /\ linked' = linked /\ ShepherdTyped /\ flock' = flock
  BY AtWork, TreeStays, Keeping DEF tree, shepherd
<1>3. Patient /\ Moves(p, l, j) => KeptBy(p)'
  BY <1>2, AtWork DEF Moves, KeptBy, Ids
<1> QED  BY <1>1, <1>2, <1>3, InsideContinue

LEMMA ArriveKeeps ==
  ASSUME IInv, NEW p \in Process, Arrive(p)
  PROVE  IInv'
<1>1. pc[p] = "arrive" /\ UNCHANGED <<shepherd, watch, tree>> /\ left' \in BoundsType
  BY AtWork, ReadErring DEF Arrive
<1>2. TypeOK /\ job[p] \in Job  BY AtWork
<1>3. pc[p] \in Watching \cup Undoing /\ {"dwell", "undo"} \subseteq Inside \ {"build"}
  BY <1>1 DEF Inside, Watching, Undoing
<1>4. CASE Continue(p, "undo", job[p])  BY <1>1, <1>2, <1>3, <1>4, Looks
<1>5. ASSUME Continue(p, "dwell", [job[p] EXCEPT !.arrived = Pids(Up(Newcomers(p)))])
      PROVE  IInv'
  <2> DEFINE new == Up(Newcomers(p))
             j == [job[p] EXCEPT !.arrived = Pids(new)]
  <2>1. new \subseteq Listed  BY DEF Up, Newcomers
  <2>2. Pids(new) \subseteq Nat \X Nat  BY <1>2, <2>1, Listing
  <2> HIDE DEF new
  <2>3. /\ j \in Job /\ j.cmd = job[p].cmd /\ j.config = job[p].config
        /\ j.previous = job[p].previous
    BY <1>2, <2>2 DEF Job
  <2>4. Continue(p, "dwell", j)  BY <1>5 DEF new
  <2> HIDE DEF j
  <2> QED  BY <1>1, <1>3, <2>3, <2>4, Looks
<1> QED  BY <1>4, <1>5 DEF Arrive

LEMMA DwellKeeps ==
  ASSUME IInv, NEW p \in Process, Dwell(p)
  PROVE  IInv'
<1>1. pc[p] = "dwell" /\ UNCHANGED <<shepherd, watch, tree>> /\ left' \in BoundsType
  BY AtWork, ReadErring DEF Dwell
<1>2. TypeOK /\ job[p] \in Job  BY AtWork
<1>3. pc[p] \in Watching \cup Undoing /\ {"old", "undo"} \subseteq Inside \ {"build"}
  BY <1>1 DEF Inside, Watching, Undoing, Cleaning
<1>4. CASE Continue(p, "undo", job[p])  BY <1>1, <1>2, <1>3, <1>4, Looks
<1>5. ASSUME Continue(p, "old", [job[p] EXCEPT !.todo = job[p].previous]) PROVE IInv'
  <2> DEFINE j == [job[p] EXCEPT !.todo = job[p].previous]
  <2>1. /\ j \in Job /\ j.cmd = job[p].cmd /\ j.config = job[p].config
        /\ j.previous = job[p].previous
    BY <1>2 DEF Job
  <2>2. Continue(p, "old", j)  BY <1>5
  <2> HIDE DEF j
  <2> QED  BY <1>1, <1>3, <2>1, <2>2, Looks
<1> QED  BY <1>4, <1>5 DEF Dwell

(* One row of several goes, or will not; the originals are not among them  *)
(* in an undo.                                                             *)
LEMMA DeleteOneKeeps ==
  ASSUME IInv, NEW p \in Process, pc[p] \in {"old", "drain", "drainRepair"}, DeleteOne(p),
         UNCHANGED <<pc, watch, tree, lock, told>>
  PROVE  IInv'
<1>1. TypeInv /\ TypeOK /\ job[p] \in Job /\ pc[p] \in Inside \ {"build"} /\ pc' = pc
  BY AtWork DEF Inside, Cleaning, Undoing
<1>2. PICK id \in job[p].todo, clean \in BOOLEAN :
        /\ Recall(p, [job[p] EXCEPT !.todo = @ \ {id}, !.clean = clean])
        /\ Deletes(id) \/ UNCHANGED shepherd
        /\ left' \in BoundsType
  <2>1. PICK id \in job[p].todo :
          \/ /\ Deletes(id) /\ UNCHANGED left
             /\ Recall(p, [job[p] EXCEPT !.todo = @ \ {id}])
          \/ /\ DeleteErrs(id)
             /\ Recall(p, [job[p] EXCEPT !.todo = @ \ {id}, !.clean = FALSE])
    BY DEF DeleteOne
  <2>2. CASE Deletes(id) /\ UNCHANGED left /\ Recall(p, [job[p] EXCEPT !.todo = @ \ {id}])
    <3>1. /\ [job[p] EXCEPT !.todo = @ \ {id}, !.clean = job[p].clean]
               = [job[p] EXCEPT !.todo = @ \ {id}]
          /\ job[p].clean \in BOOLEAN
      BY <1>1 DEF Job
    <3> QED  BY <2>2, <3>1, AtWork
  <2>3. CASE /\ DeleteErrs(id)
             /\ Recall(p, [job[p] EXCEPT !.todo = @ \ {id}, !.clean = FALSE])
    <3>1. (Deletes(id) \/ UNCHANGED shepherd) /\ left' \in BoundsType
      BY <1>1, <2>3, AtWork, Troubling DEF DeleteErrs, Errs
    <3> QED  BY <2>3, <3>1
  <2> QED  BY <2>1, <2>2, <2>3
<1> DEFINE j == [job[p] EXCEPT !.todo = @ \ {id}, !.clean = clean]
<1>3. /\ j \in Job /\ j.cmd = job[p].cmd /\ j.config = job[p].config
      /\ j.previous = job[p].previous /\ j.todo = job[p].todo \ {id}
  BY <1>1 DEF Job
<1>4. Recall(p, j)  BY <1>2
<1> HIDE DEF j
<1>5. pc[p] \in Places  BY <1>1 DEF Places
<1>6. Moves(p, pc[p], j)  BY <1>1, <1>3, <1>4, <1>5, Moving
<1>7. ShepherdTyped /\ Ids(flock) \ {id} \subseteq Ids(flock')
  BY <1>1, <1>2, Deleting, Keeping DEF shepherd, Ids
<1>8. TreeTyped /\ linked' = linked  BY <1>1, TreeStays DEF tree
<1>9. ASSUME Patient PROVE KeptBy(p)'
  <2>1. KeptBy(p)  BY <1>9, AtWork
  <2>2. CASE pc[p] = "old"  BY <1>6, <2>2 DEF Moves, KeptBy, Watching, Undoing
  <2>3. CASE pc[p] \in {"drain", "drainRepair"}
    <3>1. /\ job[p].previous \subseteq Ids(flock) \ {id}
          /\ j.todo \cap j.previous = {}
      BY <1>2, <1>3, <2>1, <2>3 DEF KeptBy, Undoing
    <3> QED  BY <1>3, <1>6, <1>7, <3>1 DEF Moves, KeptBy
  <2> QED  BY <2>2, <2>3
<1> QED  BY <1>1, <1>2, <1>3, <1>6, <1>7, <1>8, <1>9, InsideMoved

(* The loop over the rows is done.                                         *)
LEMMA DeletedAllKeeps ==
  ASSUME IInv, NEW p \in Process, NEW l \in {"record", "repair"},
         pc[p] = IF l = "record" THEN "old" ELSE "drain",
         Goto(p, l), UNCHANGED <<shepherd, job, left, watch, tree, lock, told>>
  PROVE  IInv'
<1>1. TypeInv /\ TypeOK /\ job[p] \in Job /\ left' \in BoundsType  BY AtWork
<1>2. pc[p] \in Inside \ {"build"} /\ l \in Inside \ {"build"} /\ l \in Places
  BY DEF Places, Inside, Cleaning, Undoing
<1>3. Moves(p, l, job[p])  BY <1>1, <1>2, Moving
<1>4. ShepherdTyped /\ TreeTyped /\ linked' = linked /\ flock' = flock
  BY <1>1, Keeping, TreeStays DEF tree, shepherd
<1>5. Patient => KeptBy(p)'
  BY <1>3, <1>4, AtWork DEF Moves, KeptBy, Watching, Undoing, Ids
<1> QED  BY <1>1, <1>2, <1>3, <1>4, <1>5, InsideMoved

LEMMA DeleteLoopsKeep ==
  ASSUME IInv, NEW p \in Process, DeleteOld(p) \/ Drain(p)
  PROVE  IInv'
  BY DeleteOneKeeps, DeletedAllKeeps DEF DeleteOld, Drain

LEMMA RecordLandedKeeps ==
  ASSUME IInv, NEW p \in Process, RecordLanded(p)
  PROVE  IInv'
<1>1. /\ pc[p] = "record" /\ UNCHANGED <<shepherd, watch, swapped, linked>>
      /\ left' \in BoundsType /\ TypeInv /\ TypeOK /\ job[p] \in Job
  BY AtWork, Troubling DEF RecordLanded
<1>2. ShepherdTyped /\ TreeTyped
  BY <1>1, Keeping DEF RecordLanded, TypeOK, TreeTyped
<1>3. pc[p] \in Inside \ {"build"} /\ "auto" \in Inside \ {"build"}
  BY <1>1 DEF Inside, Cleaning
<1>4. CASE Continue(p, "auto", job[p])
  <2>1. Moves(p, "auto", job[p]) => KeptBy(p)'  BY DEF Moves, KeptBy, Watching, Undoing
  <2> QED  BY <1>1, <1>2, <1>3, <1>4, <2>1, InsideContinue
<1>5. ASSUME NEW kind \in {"stranded", "unrecorded"}, Report(p, Say(kind)) PROVE IInv'
  <2>1. Say(kind) \in Told  BY Says DEF Kinds
  <2> QED  BY <1>1, <1>2, <1>3, <1>5, <2>1, InsideReport
<1> QED  BY <1>4, <1>5 DEF RecordLanded

LEMMA SetAutoKeeps ==
  ASSUME IInv, NEW p \in Process, SetAuto(p)
  PROVE  IInv'
<1>1. /\ pc[p] = "auto" /\ UNCHANGED <<shepherd, tree>>
      /\ left' \in BoundsType /\ TypeInv /\ TypeOK
  BY AtWork, Troubling DEF SetAuto
<1>2. ShepherdTyped /\ TreeTyped /\ linked' = linked
  BY <1>1, Keeping DEF SetAuto, TypeOK, TreeTyped, tree
<1>3. pc[p] \in Inside \ {"build"}  BY <1>1 DEF Inside, Cleaning
<1>4. Say("landed") \in Told /\ Say("unrecorded") \in Told  BY Says DEF Kinds
<1> QED  BY <1>1, <1>2, <1>3, <1>4, InsideReport DEF SetAuto

LEMMA UndoKeeps ==
  ASSUME IInv, NEW p \in Process, Undo(p)
  PROVE  IInv'
<1>1. pc[p] = "undo" /\ UNCHANGED <<shepherd, watch, tree>> /\ left' \in BoundsType
  BY AtWork, ReadErring DEF Undo
<1>2. TypeOK /\ TypeInv /\ job[p] \in Job  BY AtWork
<1>3. pc[p] \in Watching \cup Undoing /\ pc[p] \in Inside \ {"build"}
      /\ "drain" \in Inside \ {"build"}
  BY <1>1 DEF Inside, Undoing
<1>4. ASSUME Continue(p, "drain", [job[p] EXCEPT !.todo = ToDrain(p), !.clean = TRUE])
      PROVE  IInv'
  <2> DEFINE j == [job[p] EXCEPT !.todo = ToDrain(p), !.clean = TRUE]
  <2>1. ToDrain(p) \subseteq Nat /\ ToDrain(p) \cap job[p].previous = {}
    BY <1>2, Listing DEF ToDrain
  <2>2. /\ j \in Job /\ j.cmd = job[p].cmd /\ j.config = job[p].config
        /\ j.previous = job[p].previous /\ j.todo = ToDrain(p)
    BY <1>2, <2>1 DEF Job
  <2>3. Continue(p, "drain", j)  BY <1>4
  <2> HIDE DEF j
  <2> QED  BY <1>1, <1>3, <2>1, <2>2, <2>3, Looks
<1>5. Undone(FALSE, FALSE) \in Told  BY Undoes
<1>6. ShepherdTyped /\ TreeTyped /\ linked' = linked
  BY <1>1, <1>2, Keeping, TreeStays DEF tree
<1> QED  BY <1>1, <1>3, <1>4, <1>5, <1>6, InsideReport DEF Undo

LEMMA RepairKeeps ==
  ASSUME IInv, NEW p \in Process, Repair(p)
  PROVE  IInv'
<1> DEFINE j == [job[p] EXCEPT !.repair = NewIds(job[p].config)]
<1>1. pc[p] = "repair" /\ UNCHANGED <<watch, tree>> /\ TypeInv /\ TypeOK /\ job[p] \in Job
  BY AtWork DEF Repair
<1>2. TreeTyped /\ linked' = linked  BY <1>1, TreeStays DEF tree
<1>3. pc[p] \in Inside \ {"build"} /\ "await" \in Inside \ {"build"}
  BY <1>1 DEF Inside, Undoing
<1>4. job[p].config \in Config  BY <1>1, <1>3, AtWork DEF RoleOf, Config
<1>5. CASE Starts(job[p].config) /\ UNCHANGED left /\ Continue(p, "await", j)
  <2>1. /\ ShepherdTyped /\ Ids(flock) \subseteq Ids(flock')
        /\ NewIds(job[p].config) \subseteq Nat
    BY <1>1, <1>4, <1>5, Registering
  <2>2. /\ j \in Job /\ j.cmd = job[p].cmd /\ j.config = job[p].config
        /\ j.previous = job[p].previous
    BY <1>1, <2>1 DEF Job
  <2> HIDE DEF j
  <2>3. Patient /\ Moves(p, "await", j) => KeptBy(p)'
    BY <1>1, <2>1, <2>2, AtWork DEF Moves, KeptBy, Undoing
  <2>4. left' \in BoundsType  BY <1>5, AtWork
  <2> QED  BY <1>2, <1>3, <1>5, <2>1, <2>2, <2>3, <2>4, InsideContinue
<1>6. Undone(job[p].clean, FALSE) \in Told  BY <1>1, Undoes DEF Job
<1>7. CASE Errs(Starts(job[p].config)) /\ Report(p, Undone(job[p].clean, FALSE))
  <2>1. ShepherdTyped /\ left' \in BoundsType  BY <1>1, <1>4, <1>7, StartErring
  <2> QED  BY <1>2, <1>3, <1>6, <1>7, <2>1, InsideReport
<1> QED  BY <1>5, <1>7 DEF Repair

LEMMA AwaitRepairKeeps ==
  ASSUME IInv, NEW p \in Process, AwaitRepair(p)
  PROVE  IInv'
<1>1. pc[p] = "await" /\ UNCHANGED <<shepherd, watch, tree>> /\ left' \in BoundsType
  BY AtWork, ReadErring DEF AwaitRepair
<1>2. TypeOK /\ TypeInv /\ job[p] \in Job  BY AtWork
<1>3. pc[p] \in Watching \cup Undoing /\ pc[p] \in Inside \ {"build"}
      /\ "drainRepair" \in Inside \ {"build"}
  BY <1>1 DEF Inside, Undoing
<1>4. PICK clean \in BOOLEAN :
        \/ Continue(p, "drainRepair", [job[p] EXCEPT !.todo = ToDrain(p), !.clean = clean])
        \/ Report(p, Undone(FALSE, TRUE))
  <2>1. /\ [job[p] EXCEPT !.todo = ToDrain(p), !.clean = job[p].clean]
             = [job[p] EXCEPT !.todo = ToDrain(p)]
        /\ job[p].clean \in BOOLEAN
    BY <1>2 DEF Job
  <2> QED  BY <2>1 DEF AwaitRepair
<1> DEFINE j == [job[p] EXCEPT !.todo = ToDrain(p), !.clean = clean]
<1>5. CASE Continue(p, "drainRepair", j)
  <2>1. ToDrain(p) \subseteq Nat /\ ToDrain(p) \cap job[p].previous = {}
    BY <1>2, Listing DEF ToDrain
  <2>2. /\ j \in Job /\ j.cmd = job[p].cmd /\ j.config = job[p].config
        /\ j.previous = job[p].previous /\ j.todo = ToDrain(p)
    BY <1>2, <2>1 DEF Job
  <2> HIDE DEF j
  <2> QED  BY <1>1, <1>3, <1>5, <2>1, <2>2, Looks
<1>6. Undone(FALSE, TRUE) \in Told  BY Undoes
<1>7. ShepherdTyped /\ TreeTyped /\ linked' = linked
  BY <1>1, <1>2, Keeping, TreeStays DEF tree
<1>8. CASE Report(p, Undone(FALSE, TRUE))
  BY <1>1, <1>3, <1>6, <1>7, <1>8, InsideReport
<1> QED  BY <1>4, <1>5, <1>8

LEMMA DrainRepairKeeps ==
  ASSUME IInv, NEW p \in Process, DrainRepair(p)
  PROVE  IInv'
<1>1. /\ pc[p] = "drainRepair" /\ UNCHANGED <<watch, tree>>
      /\ TypeOK /\ TypeInv /\ job[p] \in Job
  BY AtWork DEF DrainRepair
<1>2. CASE DeleteOne(p) /\ UNCHANGED <<pc, lock, told>>  BY <1>1, <1>2, DeleteOneKeeps
<1>3. CASE UNCHANGED <<shepherd, left>> /\ Report(p, Undone(job[p].clean, TRUE))
  <2>1. Undone(job[p].clean, TRUE) \in Told  BY <1>1, Undoes DEF Job
  <2>2. ShepherdTyped /\ TreeTyped /\ linked' = linked /\ left' \in BoundsType
    BY <1>1, <1>3, AtWork, Keeping, TreeStays DEF tree
  <2>3. pc[p] \in Inside \ {"build"}  BY <1>1 DEF Inside, Undoing
  <2> QED  BY <1>3, <2>1, <2>2, <2>3, InsideReport
<1> QED  BY <1>2, <1>3 DEF DrainRepair

-----------------------------------------------------------------------------
(* restore::all and put_back.                                              *)

LEMMA RestoreContinue ==
  ASSUME IInv, NEW p \in Process, NEW l \in Restoring, NEW j \in Job,
         pc[p] \in Restoring, j.cmd = job[p].cmd, Continue(p, l, j),
         l \in {"live", "delete", "putBack", "fallback"} => j.config \in Config,
         ShepherdTyped, UNCHANGED <<watch, tree>>, left' \in BoundsType,
         Patient /\ Moves(p, l, j) => ClonedFor(p)' /\ CloneKeptForTree'
  PROVE  IInv'
<1>1. TypeInv /\ TypeOK /\ RoleOf(pc[p], job[p])  BY AtWork
<1>2. l \in Places /\ l \notin Inside /\ l \notin {"idle"} \cup OnTheWay
  BY DEF Places, OnTheWay, Inside, Preparing, Starting, Watching, Cleaning, Undoing, Restoring
<1>3. Moves(p, l, j) /\ Locks(p)  BY <1>1, <1>2, Continuing
<1>4. Asks(p) /\ RoleOf(l, j)  BY <1>1, <1>2 DEF Asks, RoleOf, OnTheWay
<1>5. TreeTyped /\ told' = told  BY <1>1, TreeStays DEF Continue
<1>6. KeptBy(p)'  BY <1>2, <1>3 DEF Moves, KeptBy, Inside, Starting, Watching, Undoing
<1> QED  BY <1>2, <1>3, <1>4, <1>5, <1>6, Moved

LEMMA RestoreReport ==
  ASSUME IInv, NEW p \in Process, NEW kind \in Kinds, pc[p] \in Restoring,
         Report(p, Say(kind)), ShepherdTyped, UNCHANGED <<watch, tree>>,
         left' \in BoundsType, Patient => CloneKeptForTree'
  PROVE  IInv'
<1>1. Say(kind) \in Told /\ Asks(p)  BY Says DEF Asks
<1>2. TreeTyped  BY AtWork, TreeStays
<1> QED  BY <1>1, <1>2, Reported

(* What a restore that changes nothing leaves as it was.                   *)
LEMMA RestoreQuiet ==
  ASSUME IInv, NEW p \in Process, UNCHANGED <<shepherd, tree>>
  PROVE  /\ ShepherdTyped /\ roll' = roll /\ linked' = linked
         /\ Patient => CloneKeptForTree'
<1>1. ShepherdTyped /\ roll' = roll /\ linked' = linked
  BY AtWork, Keeping DEF shepherd, tree
<1> QED  BY <1>1, AtWork DEF CloneKeptForTree

LEMMA ReadRollKeeps ==
  ASSUME IInv, NEW p \in Process, ReadRoll(p)
  PROVE  IInv'
<1>1. pc[p] = "roll" /\ UNCHANGED <<shepherd, watch, tree>> /\ left' \in BoundsType
  BY AtWork, ReadErring DEF ReadRoll
<1>2. pc[p] \in Restoring /\ "read" \in Restoring  BY <1>1 DEF Restoring
<1>3. /\ ShepherdTyped /\ roll' = roll /\ linked' = linked
      /\ Patient => CloneKeptForTree'
  BY <1>1, RestoreQuiet
<1>4. ASSUME Continue(p, "read", [job[p] EXCEPT !.config = roll]) PROVE IInv'
  <2> DEFINE j == [job[p] EXCEPT !.config = roll]
  <2>1. j \in Job /\ j.cmd = job[p].cmd /\ j.config = roll  BY AtWork DEF TypeOK, Job
  <2>2. Continue(p, "read", j)  BY <1>4
  <2> HIDE DEF j
  <2>3. Patient /\ Moves(p, "read", j) => ClonedFor(p)'
    BY <1>3, <2>1, AtWork DEF Moves, ClonedFor, CloneKeptForTree, Inside, Preparing,
       Starting, Watching, Cleaning, Undoing
  <2> QED  BY <1>1, <1>2, <1>3, <2>1, <2>2, <2>3, RestoreContinue
<1>5. "blocked" \in Kinds  BY DEF Kinds
<1> QED  BY <1>1, <1>2, <1>3, <1>4, <1>5, RestoreReport DEF ReadRoll

LEMMA ReadForRestoreKeeps ==
  ASSUME IInv, NEW p \in Process, ReadForRestore(p)
  PROVE  IInv'
<1>1. pc[p] = "read" /\ UNCHANGED <<shepherd, watch, tree>> /\ left' \in BoundsType
  BY AtWork, Troubling DEF ReadForRestore
<1>2. pc[p] \in Restoring /\ {"letGo", "live"} \subseteq Restoring  BY <1>1 DEF Restoring
<1>3. /\ ShepherdTyped /\ roll' = roll /\ linked' = linked
      /\ Patient => CloneKeptForTree'
  BY <1>1, RestoreQuiet
<1>4. job[p] \in Job /\ (Patient => ClonedFor(p))  BY AtWork
<1>5. ASSUME NeverMoved(p), Continue(p, "letGo", [job[p] EXCEPT !.never = TRUE])
      PROVE  IInv'
  <2> DEFINE j == [job[p] EXCEPT !.never = TRUE]
  <2>1. j \in Job /\ j.cmd = job[p].cmd  BY <1>4 DEF Job
  <2>2. Continue(p, "letGo", j)  BY <1>5
  <2> HIDE DEF j
  <2>3. Patient => roll' # "tree"  BY <1>1, <1>3, <1>4, <1>5 DEF ClonedFor, NeverMoved
  <2>4. Patient /\ Moves(p, "letGo", j) => ClonedFor(p)'
    BY <2>3 DEF Moves, ClonedFor, Inside, Preparing, Starting, Watching, Cleaning, Undoing
  <2> QED  BY <1>1, <1>2, <1>3, <2>1, <2>2, <2>4, RestoreContinue
<1>6. CASE job[p].config # "none" /\ Continue(p, "live", job[p])
  <2>1. job[p].config \in Config  BY <1>4, <1>6 DEF Job
  <2>2. Patient /\ Moves(p, "live", job[p]) => ClonedFor(p)'
    BY <1>1, <1>3, <1>4 DEF Moves, ClonedFor, Inside, Preparing, Starting, Watching,
       Cleaning, Undoing
  <2> QED  BY <1>1, <1>2, <1>3, <1>4, <1>6, <2>1, <2>2, RestoreContinue
<1>7. "untouched" \in Kinds  BY DEF Kinds
<1>8. CASE Report(p, Say("untouched"))
  BY <1>1, <1>2, <1>3, <1>7, <1>8, RestoreReport
<1> QED  BY <1>5, <1>6, <1>8 DEF ReadForRestore

LEMMA DescribeLiveKeeps ==
  ASSUME IInv, NEW p \in Process, DescribeLive(p)
  PROVE  IInv'
<1>1. pc[p] = "live" /\ UNCHANGED <<shepherd, watch, tree>> /\ left' \in BoundsType
  BY AtWork, ReadErring DEF DescribeLive
<1>2. pc[p] \in Restoring /\ "delete" \in Restoring  BY <1>1 DEF Restoring
<1>3. /\ ShepherdTyped /\ roll' = roll /\ linked' = linked
      /\ Patient => CloneKeptForTree'
  BY <1>1, RestoreQuiet
<1>4. /\ job[p] \in Job /\ TypeOK /\ (Patient => ClonedFor(p))
      /\ job[p].config \in Config
  BY <1>1, AtWork DEF RoleOf
<1>5. ASSUME Continue(p, "delete", [job[p] EXCEPT !.previous = Ids(Listed),
                                                 !.todo = Ids(Listed)])
      PROVE  IInv'
  <2> DEFINE j == [job[p] EXCEPT !.previous = Ids(Listed), !.todo = Ids(Listed)]
  <2>1. Ids(Listed) \subseteq Nat  BY <1>4, Listing
  <2>2. j \in Job /\ j.cmd = job[p].cmd /\ j.config = job[p].config
    BY <1>4, <2>1 DEF Job
  <2>3. Continue(p, "delete", j)  BY <1>5
  <2> HIDE DEF j
  <2>4. Patient /\ Moves(p, "delete", j) => ClonedFor(p)'
    BY <1>1, <1>3, <1>4, <2>2 DEF Moves, ClonedFor, Inside, Preparing, Starting,
       Watching, Cleaning, Undoing
  <2> QED  BY <1>1, <1>2, <1>3, <1>4, <2>2, <2>3, <2>4, RestoreContinue
<1>6. "untouched" \in Kinds  BY DEF Kinds
<1> QED  BY <1>1, <1>2, <1>3, <1>5, <1>6, RestoreReport DEF DescribeLive

LEMMA DeleteLiveKeeps ==
  ASSUME IInv, NEW p \in Process, DeleteLive(p)
  PROVE  IInv'
<1>1. /\ pc[p] = "delete" /\ UNCHANGED <<watch, tree>> /\ linked' = linked
      /\ TypeInv /\ job[p] \in Job /\ job[p].config \in Config
      /\ Patient => ClonedFor(p) /\ CloneKeptForTree
  BY AtWork DEF DeleteLive, RoleOf, tree
<1>2. pc[p] \in Restoring /\ {"delete", "putBack"} \subseteq Restoring
  BY <1>1 DEF Restoring
<1>3. ASSUME NEW id, Deletes(id) \/ UNCHANGED shepherd
      PROVE  ShepherdTyped /\ (Patient => CloneKeptForTree')
  <2>1. ShepherdTyped /\ roll' \in {roll, "none"}
    BY <1>1, <1>3, Deleting, Keeping DEF shepherd
  <2> QED  BY <1>1, <2>1 DEF CloneKeptForTree
<1>4. ASSUME NEW j \in Job, j.cmd = job[p].cmd, j.config = job[p].config,
             NEW l \in {"delete", "putBack"}, Continue(p, l, j),
             ShepherdTyped, Patient => CloneKeptForTree', left' \in BoundsType
      PROVE  IInv'
  <2>1. Patient /\ Moves(p, l, j) => ClonedFor(p)'
    BY <1>1, <1>4 DEF Moves, ClonedFor, Inside, Preparing, Starting, Watching, Cleaning,
       Undoing
  <2> QED  BY <1>1, <1>2, <1>4, <2>1, RestoreContinue
<1>5. ASSUME NEW id \in job[p].todo, Deletes(id), UNCHANGED left,
             Continue(p, "delete", [job[p] EXCEPT !.todo = @ \ {id}, !.deleted = TRUE])
      PROVE  IInv'
  <2> DEFINE j == [job[p] EXCEPT !.todo = @ \ {id}, !.deleted = TRUE]
  <2>1. j \in Job /\ j.cmd = job[p].cmd /\ j.config = job[p].config  BY <1>1 DEF Job
  <2>2. Continue(p, "delete", j)  BY <1>5
  <2> HIDE DEF j
  <2>3. left' \in BoundsType  BY <1>5, AtWork
  <2> QED  BY <1>3, <1>4, <1>5, <2>1, <2>2, <2>3
<1>6. ASSUME NEW id \in job[p].todo, DeleteErrs(id),
             NEW kind \in {"partlyDeleted", "untouched"}, Report(p, Say(kind))
      PROVE  IInv'
  <2>1. (Deletes(id) \/ UNCHANGED shepherd) /\ left' \in BoundsType
    BY <1>1, <1>6, AtWork, Troubling DEF DeleteErrs, Errs
  <2>2. kind \in Kinds  BY DEF Kinds
  <2> QED  BY <1>1, <1>2, <1>3, <1>6, <2>1, <2>2, RestoreReport
<1>7. CASE Continue(p, "putBack", job[p]) /\ UNCHANGED <<shepherd, left>>
  <2>1. left' \in BoundsType  BY <1>7, AtWork
  <2> QED  BY <1>1, <1>3, <1>4, <1>7, <2>1
<1> QED  BY <1>5, <1>6, <1>7 DEF DeleteLive

LEMMA PutBackKeeps ==
  ASSUME IInv, NEW p \in Process, PutBack(p)
  PROVE  IInv'
<1>1. /\ pc[p] = "putBack" /\ UNCHANGED <<watch, tree>> /\ linked' = linked
      /\ TypeInv /\ job[p] \in Job /\ job[p].config \in Config /\ "own" \in Config
      /\ Patient => ClonedFor(p) /\ CloneKeptForTree
  BY AtWork DEF PutBack, RoleOf, tree, Config
<1>2. pc[p] \in Restoring /\ {"letGo", "fallback"} \subseteq Restoring
  BY <1>1 DEF Restoring
<1>3. CASE Starts("own") /\ Continue(p, "letGo", job[p]) /\ UNCHANGED left
  <2>1. ShepherdTyped /\ roll' = "own" /\ left' \in BoundsType
    BY <1>1, <1>3, AtWork, Registering
  <2>2. Patient /\ Moves(p, "letGo", job[p]) => ClonedFor(p)' /\ CloneKeptForTree'
    BY <2>1 DEF Moves, ClonedFor, CloneKeptForTree, Inside, Preparing, Starting, Watching,
       Cleaning, Undoing
  <2> QED  BY <1>1, <1>2, <1>3, <2>1, <2>2, RestoreContinue
<1>4. CASE Errs(Starts("own")) /\ Continue(p, "fallback", job[p])
  <2>1. ShepherdTyped /\ left' \in BoundsType  BY <1>1, <1>4, StartErring
  <2>2. roll' \in {roll, "own"}  BY <1>1, <1>4, Registering DEF Errs, shepherd
  <2>3. Patient /\ Moves(p, "fallback", job[p]) => ClonedFor(p)' /\ CloneKeptForTree'
    BY <1>1, <2>2 DEF Moves, ClonedFor, CloneKeptForTree, Inside, Preparing, Starting,
       Watching, Cleaning, Undoing
  <2> QED  BY <1>1, <1>2, <1>4, <2>1, <2>3, RestoreContinue
<1> QED  BY <1>3, <1>4 DEF PutBack

LEMMA FallbackKeeps ==
  ASSUME IInv, NEW p \in Process, Fallback(p)
  PROVE  IInv'
<1>1. /\ pc[p] = "fallback" /\ UNCHANGED <<watch, tree>> /\ linked' = linked
      /\ TypeInv /\ job[p].config \in Config
      /\ Patient => ClonedFor(p) /\ CloneKeptForTree
  BY AtWork DEF Fallback, RoleOf, tree
<1>2. /\ ShepherdTyped /\ left' \in BoundsType /\ roll' \in {roll, job[p].config}
  <2>1. CASE Starts(job[p].config) /\ UNCHANGED left
    BY <1>1, <2>1, AtWork, Registering
  <2>2. CASE Errs(Starts(job[p].config))
    BY <1>1, <2>2, StartErring, Registering DEF Errs, shepherd
  <2> QED  BY <2>1, <2>2 DEF Fallback
<1>3. Patient => CloneKeptForTree'  BY <1>1, <1>2 DEF ClonedFor, CloneKeptForTree
<1>4. pc[p] \in Restoring /\ "reset" \in Kinds /\ "gone" \in Kinds
  BY <1>1 DEF Restoring, Kinds
<1> QED  BY <1>1, <1>2, <1>3, <1>4, RestoreReport DEF Fallback

LEMMA LetGoKeeps ==
  ASSUME IInv, NEW p \in Process, LetGo(p)
  PROVE  IInv'
<1>1. /\ pc[p] = "letGo" /\ UNCHANGED <<shepherd, watch, swapped, record>>
      /\ linked' \in {linked, FALSE} /\ left' \in BoundsType
      /\ TypeInv /\ TypeOK /\ (Patient => ClonedFor(p))
  BY AtWork, Troubling DEF LetGo
<1>2. ShepherdTyped /\ TreeTyped /\ roll' = roll
  BY <1>1, Keeping DEF TypeOK, TreeTyped, shepherd
<1>3. Patient => CloneKeptForTree'  BY <1>1, <1>2 DEF ClonedFor, CloneKeptForTree
<1>4. Asks(p)  BY <1>1 DEF Asks, Restoring
<1>5. Say("neverMoved") \in Told /\ Say("returned") \in Told  BY Says DEF Kinds
<1> QED  BY <1>1, <1>2, <1>3, <1>4, <1>5, Reported DEF LetGo

-----------------------------------------------------------------------------
(* The shepherd, and a kill.                                               *)

(* Rows change, and none goes.                                             *)
LEMMA ShepherdKeeps ==
  ASSUME IInv, Shepherd
  PROVE  IInv'
<1>1. TypeInv /\ TypeOK /\ left \in BoundsType  BY DEF IInv, TypeInv, TypeOK
<1>2. UNCHANGED <<nextId, roll, watch, tree, lock, pc, job, told>>
  BY DEF Shepherd, Spawn, Die, Respawn
<1>3. left' \in BoundsType
  BY <1>1, Troubling DEF Shepherd, Spawn, Die, Respawn
<1>4. PICK r \in flock, s \in Row : flock' = (flock \ {r}) \cup {s} /\ s.id = r.id
  <2>1. ASSUME NEW r \in flock, NEW life \in {"up", "dead"}
        PROVE  [r EXCEPT !.life = life] \in Row /\ [r EXCEPT !.life = life].id = r.id
    BY <1>1, <2>1 DEF TypeOK, Row
  <2>2. ASSUME NEW r \in flock
        PROVE  /\ [r EXCEPT !.life = "up", !.restarts = @ + 1] \in Row
               /\ [r EXCEPT !.life = "up", !.restarts = @ + 1].id = r.id
    <3> DEFINE u == [r EXCEPT !.life = "up"]
    <3>1. u \in Row /\ u.id = r.id /\ u.restarts = r.restarts  BY <1>1 DEF TypeOK, Row
    <3>2. [r EXCEPT !.life = "up", !.restarts = @ + 1] = [u EXCEPT !.restarts = r.restarts + 1]
      OBVIOUS
    <3> HIDE DEF u
    <3>3. r.restarts + 1 \in Nat  BY <1>1 DEF TypeOK, Row
    <3> QED  BY <3>1, <3>2, <3>3 DEF Row
  <2>3. CASE Spawn  BY <2>1, <2>3 DEF Spawn
  <2>4. CASE Die  BY <2>1, <2>4 DEF Die
  <2>5. CASE Respawn  BY <2>2, <2>5 DEF Respawn
  <2> QED  BY <2>3, <2>4, <2>5 DEF Shepherd
<1>5. flock' \subseteq Row /\ Ids(flock) \subseteq Ids(flock')
  BY <1>1, <1>4 DEF TypeOK, Ids
<1>6. TypeInv'
  BY <1>1, <1>2, <1>3, <1>5 DEF TypeInv, TypeOK, tree
<1>7. ASSUME Patient PROVE Undisturbed'
  <2>1. Undisturbed  BY <1>7 DEF IInv
  <2>2. \A q \in Process : KeptBy(q)'
    BY <1>2, <1>5, <2>1 DEF Undisturbed, KeptBy
  <2>3. Apart' /\ CloneKeptForTree' /\ \A q \in Process : ClonedFor(q)'
    BY <1>2, <2>1 DEF Undisturbed, Apart, CloneKeptForTree, ClonedFor, tree
  <2> QED  BY <2>2, <2>3 DEF Undisturbed
<1> QED  BY <1>6, <1>7 DEF IInv

LEMMA CrashKeeps ==
  ASSUME IInv, NEW p \in Process, Crash(p)
  PROVE  IInv'
<1>1. /\ Report(p, Say("killed")) /\ UNCHANGED <<shepherd, watch, tree>>
      /\ left' \in BoundsType /\ TypeOK
  BY AtWork, Troubling DEF Crash
<1>2. Say("killed") \in Told  BY Says DEF Kinds
<1>3. TreeTyped /\ linked' = linked  BY <1>1, TreeStays DEF tree
<1> QED  BY <1>1, <1>2, <1>3, QuietReport

-----------------------------------------------------------------------------
(* The invariant, and what follows.                                        *)

LEMMA InitHolds == Init => IInv
<1> SUFFICES ASSUME Init PROVE IInv  OBVIOUS
<1>1. Instances["own"] \in Nat /\ Bounds \in BoundsType
  BY InstancesAssumption, BoundsAssumption DEF Config
<1>2. flock \subseteq Row  BY <1>1 DEF Init, Row, Config
<1>3. NothingTold \in Told  BY DEF NothingTold, Told, Kinds
<1>4. "idle" \notin Inside \cup Restoring
  BY DEF Inside, Preparing, Starting, Watching, Cleaning, Undoing, Restoring
<1>5. TypeOK
  BY <1>1, <1>2, <1>3, <1>4, Idles DEF Init, TypeOK, Config
<1>6. TypeInv  BY <1>5, Idles DEF Init, TypeInv
<1>7. Apart  BY DEF Init, Apart, NoJob
<1>8. CloneKeptForTree  BY DEF Init, CloneKeptForTree
<1>9. \A p \in Process : KeptBy(p) /\ ClonedFor(p)
  BY <1>4 DEF Init, KeptBy, ClonedFor, Inside, Watching, Undoing
<1> QED  BY <1>6, <1>7, <1>8, <1>9 DEF IInv, Undisturbed

LEMMA ProceedsKeeps ==
  ASSUME IInv, NEW p \in Process, Proceeds(p)
  PROVE  IInv'
<1>1. CASE Prepare(p)
  BY <1>1, ReadRegisteredKeeps, RepairRecordKeeps, CheckTreeKeeps, HoldTreeKeeps,
     BuildFirstKeeps, PrepareKeeps DEF Prepare
<1>2. CASE Cutover(p)
  BY <1>2, DescribeBeforeKeeps, StartBesideKeeps, ArriveKeeps, DwellKeeps,
     DeleteLoopsKeep, RecordLandedKeeps, SetAutoKeeps DEF Cutover
<1>3. CASE UndoStart(p)
  BY <1>3, UndoKeeps, DeleteLoopsKeep, RepairKeeps, AwaitRepairKeeps, DrainRepairKeeps
     DEF UndoStart
<1>4. CASE Restore(p)
  BY <1>4, ReadRollKeeps, ReadForRestoreKeeps, DescribeLiveKeeps, DeleteLiveKeeps,
     PutBackKeeps, FallbackKeeps, LetGoKeeps DEF Restore
<1> QED  BY <1>1, <1>2, <1>3, <1>4 DEF Proceeds

LEMMA NextHolds == IInv /\ [Next]_vars => IInv'
<1> SUFFICES ASSUME IInv, [Next]_vars PROVE IInv'  OBVIOUS
<1>1. CASE Next  BY <1>1, BeginKeeps, ProceedsKeeps, CrashKeeps, ShepherdKeeps DEF Next
<1>2. CASE UNCHANGED vars
  BY <1>2 DEF vars, shepherd, tree, IInv, TypeInv, TypeOK, Undisturbed, Apart,
     CloneKeptForTree, KeptBy, ClonedFor, Ids
<1> QED  BY <1>1, <1>2

LEMMA Always == Spec => []IInv
  BY InitHolds, NextHolds, PTL DEF Spec

(* Every variable keeps to its type, and whoever is between lock::hold and *)
(* its report holds the tree lock: at most one init is inside a sheep's    *)
(* tree, whatever is refused, lost, killed or removed beside it.           *)
THEOREM TypeCorrect == Spec => []TypeOK
<1>1. IInv => TypeOK  BY DEF IInv, TypeInv
<1> QED  BY <1>1, Always, PTL

(* cut_over, attempt and undo_start, while no removal runs beside them: no *)
(* failure, refusal, lost answer, late spawn or kill deregisters one of    *)
(* the operator's instances before the newcomers have stayed up.           *)
THEOREM OriginalsOutlive == ASSUME Patient PROVE Spec => []OriginalsKept
<1>1. IInv => OriginalsKept
  BY DEF IInv, Undisturbed, KeptBy, OriginalsKept
<1> QED  BY <1>1, Always, PTL

(* restore::all, put_back and cut_over: whatever fails on the way, a sheep *)
(* that the muster roll would start from its tree has its clone.           *)
THEOREM CloneIsKept == ASSUME Patient PROVE Spec => []CloneKeptForTree
<1>1. IInv => CloneKeptForTree  BY DEF IInv, Undisturbed
<1> QED  BY <1>1, Always, PTL

-----------------------------------------------------------------------------
(* What the flock, the roll and the reports amount to, while the dog is    *)
(* removed only when nothing else goes on.                                 *)

Spent == {"crash", "lost"}

(* Rows are named by their ids, and spawned in the order of them.          *)
Ordered ==
  /\ IsFiniteSet(flock)
  /\ \A r, s \in flock : r.id = s.id => r = s
  /\ \A r \in flock : r.id < nextId
  /\ \A r, s \in flock : r.life # "accepted" /\ s.life = "accepted" => r.id < s.id
  /\ (roll = "none") = (flock = {})

Budgeted == left \in BoundsType /\ \A kind \in Spent : left[kind] <= Bounds[kind]

(* A process reports once.  No setup gets past the check once a removal    *)
(* has begun; and before one, the sheep always has an instance.            *)
Past ==
  /\ record = "absent" => NoRemoval
  /\ \A p \in Process : pc[p] \in {"hold"} \cup Inside => NoRemoval
  /\ \A p \in Process : pc[p] # "idle" => job[p].cmd = Command[p] /\ told[p] = NothingTold
  /\ NoRemoval => Listed # {}

(* What a cutover knows of the originals, the newcomers and the roll.      *)
CutOf(p) ==
  /\ pc[p] \in {"start"} \cup Watching \cup Undoing =>
       job[p].previous # {} /\ job[p].previous \subseteq Ids(Listed)
  /\ pc[p] \in Watching \cup Cleaning => roll = "tree"
  /\ pc[p] = "dwell" =>
       /\ Cardinality(job[p].arrived) >= Instances["tree"]
       /\ \A pid \in job[p].arrived : pid[1] \notin job[p].previous
  /\ pc[p] \in {"dwell"} \cup Cleaning => Newcomers(p) # {}
  /\ pc[p] = "old" =>
       /\ job[p].todo \subseteq job[p].previous
       /\ job[p].clean => job[p].previous \cap Ids(flock) \subseteq job[p].todo
  /\ pc[p] \in {"record", "auto"} /\ job[p].clean => job[p].previous \cap Ids(flock) = {}
  /\ pc[p] = "auto" => job[p].clean /\ record = "deployed"
  /\ pc[p] \in {"await", "drainRepair"} => roll = job[p].config
  /\ pc[p] = "await" => (nextId - 1) \in job[p].repair
  /\ pc[p] = "drainRepair" /\ job[p].clean =>
       Ids(flock) \ job[p].previous \subseteq job[p].todo

(* What a removal knows of the rows it was told of.                        *)
RestoreOf(p) ==
  /\ pc[p] \in {"roll", "read", "live"} => job[p].previous = {} /\ ~job[p].deleted
  /\ pc[p] \in {"roll", "read", "live", "delete"} => Listed = flock
  /\ pc[p] = "delete" =>
       /\ job[p].todo = Ids(flock) /\ job[p].todo \subseteq job[p].previous
       /\ job[p].deleted = (job[p].todo # job[p].previous)
  /\ pc[p] = "putBack" => flock = {}
  /\ pc[p] = "fallback" /\ Unspent({"lost"}) => flock = {}
  /\ pc[p] = "letGo" /\ ~job[p].never => roll = "own" /\ \A r \in flock : r.from = "own"

(* Who has emptied the flock knows, or has said so.                        *)
Emptying == {"delete", "putBack", "fallback"}
Admits(p) == told[p].kind \in {"gone", "partlyDeleted"}
Noticed ==
  flock = {} /\ Unspent(Spent) => \E p \in Process : pc[p] \in Emptying \/ Admits(p)

(* The first setup finds the operator's instances and starts all others.   *)
AllFrom(c) == \A r \in flock : r.from = c
FirstOf(p) ==
  /\ pc[p] \in OnTheWay \cup Preparing \cup Starting => Listed = flock /\ AllFrom("own")
  /\ pc[p] = "start" => job[p].previous = Ids(flock)
  /\ pc[p] \in Watching \cup Cleaning =>
       \A r \in flock : r.id \in job[p].previous \/ r.from = "tree"
Whole ==
  FirstInit /\ NoRemoval =>
    /\ (\A p \in Process : Fresh(p)) => Listed = flock /\ AllFrom("own")
    /\ \A p \in Process : FirstOf(p)
    /\ watch = "auto" =>
         record = "deployed" /\ AllFrom("tree") /\ \A p \in Process : pc[p] = "idle"

Reckoning ==
  /\ Ordered /\ Budgeted /\ Past /\ Noticed /\ Whole
  /\ \A p \in Process : CutOf(p) /\ RestoreOf(p)

(* A step of a running command, and what it says at its end.               *)
Speaks(p, l) ==
  /\ \A q \in Process \ {p} : told'[q] = told[q]
  /\ IF l = "idle" THEN told'[p] # NothingTold ELSE told'[p] = told[p]
Firstly(p, l) ==
  /\ FirstOf(p)'
  /\ watch' = "auto" => l = "idle" /\ record' = "deployed" /\ AllFrom("tree")'
Honest(p) ==
  /\ \A q \in Process \ {p} : told'[q] = told[q] /\ pc'[q] = pc[q]
  /\ told'[p] # told[p] /\ Unspent({"lost"})' => ReportIsSo(job[p], told'[p])

LEMMA StepReckons ==
  ASSUME Patient, IInv, Reckoning, NEW p \in Process, pc[p] # "idle",
         NEW l \in Places, NEW j \in Job, Moves(p, l, j), Speaks(p, l),
         l # "idle" => j.cmd = job[p].cmd,
         Asks(p) \/ (UNCHANGED shepherd /\ (record' = record \/ lock = None)),
         record' = "absent" => record = "absent",
         l \in {"hold"} \cup Inside => NoRemoval,
         Ordered', Budgeted', NoRemoval => Listed' # {},
         CutOf(p)', RestoreOf(p)',
         flock' = {} /\ Unspent(Spent)' =>
           \/ Admits(p)' \/ l \in Emptying
           \/ flock = {} /\ Unspent(Spent) /\ pc[p] \notin Emptying,
         FirstInit /\ NoRemoval => Firstly(p, l)
  PROVE  Reckoning'
<1>1. /\ TypeInv /\ TypeOK /\ Apart /\ Past /\ RoleOf(pc[p], job[p])
      /\ job[p] \in Job /\ told[p] = NothingTold /\ job[p].cmd = Command[p]
      /\ \A q \in Process : CutOf(q) /\ RestoreOf(q) /\ RoleOf(pc[q], job[q])
  BY DEF IInv, TypeInv, TypeOK, Undisturbed, Reckoning, Past
<1>2. \A q \in Process : q # p => /\ pc'[q] = pc[q] /\ job'[q] = job[q] /\ told'[q] = told[q]
  BY DEF Moves, Speaks
<1>3. pc'[p] = l /\ job'[p] = j  BY DEF Moves
<1>4. \A q \in Process : Fresh(q)' = Fresh(q)
  BY <1>1, <1>2, <1>3 DEF Fresh, Speaks
<1>5. NoRemoval' = NoRemoval /\ FirstInit' = FirstInit
  BY <1>4 DEF NoRemoval, FirstInit
<1>6. Past'
  BY <1>1, <1>2, <1>3, <1>5 DEF Past, Speaks
<1>7. ASSUME NEW q \in Process, q # p PROVE CutOf(q)'
  <2>1. CASE Asks(p)
    <3>1. pc'[q] \in {"idle"} \cup OnTheWay  BY <1>1, <1>2, <1>7, <2>1, Alone
    <3> QED
      BY <3>1 DEF CutOf, OnTheWay, Watching, Undoing, Cleaning
  <2>2. CASE UNCHANGED shepherd /\ (record' = record \/ lock = None)
    <3>1. pc[q] = "auto" => lock = q  BY <1>1 DEF TypeOK, Inside, Cleaning
    <3>2. pc[q] = "auto" => record' = record  BY <2>2, <3>1, ProcessAssumption
    <3>3. CutOf(q)  BY <1>1
    <3> QED
      BY <1>2, <1>7, <2>2, <3>2, <3>3 DEF CutOf, shepherd, Listed, Newcomers, Ids
  <2> QED  BY <2>1, <2>2
<1>8. ASSUME NEW q \in Process, q # p PROVE RestoreOf(q)'
  <2>1. pc[p] \in Places /\ pc[q] \in Places /\ job[p].cmd # "none"
    BY <1>1 DEF TypeOK, Places, OnTheWay, RoleOf
  <2>2. pc[q] \notin Restoring  BY <1>1, <1>8, <2>1 DEF Apart, RoleOf
  <2> QED  BY <1>2, <1>8, <2>2 DEF RestoreOf, Restoring
<1>9. Noticed'
  BY <1>1, <1>2, <1>3 DEF Noticed, Admits, Reckoning, Past, NothingTold
<1>10. Whole'
  <2> SUFFICES ASSUME FirstInit, NoRemoval
      PROVE  /\ ~ \A q \in Process : Fresh(q)'
             /\ \A q \in Process : FirstOf(q)'
             /\ watch' = "auto" => /\ record' = "deployed" /\ AllFrom("tree")'
                                   /\ \A q \in Process : pc'[q] = "idle"
    BY <1>5 DEF Whole
  <2>1. ~Fresh(p)  BY DEF Fresh
  <2>2. \A q \in Process : q # p => pc'[q] = "idle"
    BY <1>2, <2>1, CommandAssumption DEF FirstInit, NoRemoval, Fresh
  <2>3. \A q \in Process : q # p => FirstOf(q)'
    BY <2>2 DEF FirstOf, OnTheWay, Preparing, Starting, Watching, Cleaning
  <2> QED  BY <1>3, <1>4, <2>1, <2>2, <2>3 DEF Firstly
<1> QED  BY <1>6, <1>7, <1>8, <1>9, <1>10 DEF Reckoning

(* The budgets.                                                            *)
LEMMA Paying ==
  ASSUME Budgeted, NEW kind \in {"crash", "fault", "refuse", "lost", "death"},
         Trouble(kind) \/ UNCHANGED left
  PROVE  /\ Budgeted'
         /\ Unspent(Spent)' => Unspent(Spent) /\ ~(Trouble("crash") \/ Trouble("lost"))
         /\ Unspent({"lost"})' => Unspent({"lost"}) /\ ~Trouble("lost")
<1> DEFINE spent == [left EXCEPT ![kind] = @ - 1]
<1>1. left \in BoundsType /\ Bounds \in BoundsType
  BY BoundsAssumption DEF Budgeted
<1>2. CASE Trouble(kind)
  <2>1. left[kind] > 0 /\ left.trouble > 0  BY <1>2 DEF Trouble
  <2>2. spent \in BoundsType /\ spent.trouble = left.trouble
        /\ spent[kind] = left[kind] - 1
        /\ \A k \in {"crash", "fault", "refuse", "lost", "death"} \ {kind} : spent[k] = left[k]
    BY <1>1, <2>1 DEF BoundsType
  <2>3. left' = [spent EXCEPT !.trouble = left.trouble - 1]  BY <1>2 DEF Trouble
  <2> HIDE DEF spent
  <2>4. left.trouble - 1 \in Nat  BY <1>1, <2>1 DEF BoundsType
  <2>5. left' \in BoundsType
        /\ \A k \in {"crash", "fault", "refuse", "lost", "death"} : left'[k] = spent[k]
    BY <2>2, <2>3, <2>4 DEF BoundsType
  <2>6. left'.crash = spent.crash /\ left'.lost = spent.lost
    BY <2>5
  <2>7. /\ left'.crash <= left.crash /\ left'.lost <= left.lost
        /\ kind = "crash" => left'.crash < left.crash
        /\ kind = "lost" => left'.lost < left.lost
    BY <1>1, <2>2, <2>6 DEF BoundsType
  <2>8. left.crash <= Bounds.crash /\ left.lost <= Bounds.lost
    BY DEF Budgeted, Spent
  <2>9. left'.crash \in Nat /\ left'.lost \in Nat /\ left.crash \in Nat /\ left.lost \in Nat
        /\ Bounds.crash \in Nat /\ Bounds.lost \in Nat
    BY <1>1, <2>5 DEF BoundsType
  <2>10. /\ Trouble("crash") => left'.crash = left.crash - 1
         /\ Trouble("lost") => left'.lost = left.lost - 1
    BY <1>1 DEF Trouble, BoundsType
  <2> QED  BY <2>5, <2>7, <2>8, <2>9, <2>10 DEF Budgeted, Spent, Unspent
<1>3. CASE UNCHANGED left
  <2>1. ~Trouble("crash") /\ ~Trouble("lost")
    <3>1. /\ Trouble("crash") => left'.crash = left.crash - 1
          /\ Trouble("lost") => left'.lost = left.lost - 1
      BY <1>1 DEF Trouble, BoundsType
    <3> QED  BY <1>1, <1>3, <3>1 DEF BoundsType
  <2> QED  BY <1>3, <2>1 DEF Budgeted, Unspent
<1> QED  BY <1>2, <1>3

-----------------------------------------------------------------------------
(* What the requests do to rows that keep their order.                     *)

LEMMA OrderedStarts ==
  ASSUME TypeOK, Ordered, NEW c \in Config, Starts(c)
  PROVE  /\ Ordered' /\ roll' = c /\ Listed' = Listed
         /\ flock \subseteq flock' /\ flock' # {}
         /\ Ids(flock') = Ids(flock) \cup NewIds(c)
         /\ \A r \in flock' : r \in flock \/ (r.from = c /\ r.id \in NewIds(c))
         /\ (nextId' - 1) \in NewIds(c)
<1> DEFINE Born(i) == [id |-> i, from |-> c, life |-> "accepted", restarts |-> 0]
           born == {Born(i) : i \in NewIds(c)}
<1>1. nextId \in Nat /\ Instances[c] \in Nat /\ Instances[c] > 0
  BY InstancesAssumption DEF TypeOK
<1>2. flock' = flock \cup born /\ nextId' = nextId + Instances[c] /\ roll' = c
  BY DEF Starts
<1>3. \A i \in NewIds(c) : i \in Nat /\ i >= nextId /\ i < nextId'
  BY <1>1, <1>2 DEF NewIds
<1>4. (nextId' - 1) \in NewIds(c)  BY <1>1, <1>2 DEF NewIds
<1>5. IsFiniteSet(flock')
  <2>1. IsFiniteSet(NewIds(c))  BY <1>1, FS_Interval DEF NewIds
  <2> DEFINE f == [i \in NewIds(c) |-> Born(i)]
  <2>2. f \in Surjection(NewIds(c), born)  BY DEF Surjection
  <2>3. IsFiniteSet(born)  BY <2>1, <2>2, FS_Surjection
  <2> QED  BY <1>2, <2>3, FS_Union DEF Ordered
<1>6. \A r \in born : /\ r.id \in NewIds(c) /\ r.from = c /\ r.life = "accepted"
                      /\ r = Born(r.id)
  OBVIOUS
<1>7. Born(nextId' - 1) \in born  BY <1>4
<1>8. \A i \in NewIds(c) : Born(i) \in born /\ Born(i).id = i  OBVIOUS
<1> HIDE DEF born, Born
<1>9. \A r \in flock : r.id \in Nat /\ r.id < nextId
  BY DEF Ordered, TypeOK, Row
<1>10. Listed' = Listed  BY <1>2, <1>6 DEF Listed
<1>11. Ids(flock') = Ids(flock) \cup NewIds(c)
  BY <1>2, <1>6, <1>8 DEF Ids
<1>12. \A r, s \in flock' : r.id = s.id => r = s
  <2>1. \A r, s \in born : r.id = s.id => r = s  BY <1>6
  <2>2. \A r \in flock, s \in born : r.id # s.id  BY <1>1, <1>3, <1>6, <1>9
  <2> QED  BY <1>2, <2>1, <2>2 DEF Ordered
<1>13. \A r \in flock' : r.id < nextId'
  BY <1>1, <1>2, <1>3, <1>6, <1>9
<1>14. \A r, s \in flock' : r.life # "accepted" /\ s.life = "accepted" => r.id < s.id
  BY <1>1, <1>2, <1>3, <1>6, <1>9 DEF Ordered
<1>15. flock' # {} /\ roll' # "none"  BY <1>2, <1>7 DEF Config
<1> QED
  BY <1>2, <1>4, <1>5, <1>6, <1>10, <1>11, <1>12, <1>13, <1>14, <1>15 DEF Ordered

LEMMA OrderedDeletes ==
  ASSUME TypeOK, Ordered, NEW id, Deletes(id)
  PROVE  /\ Ordered' /\ nextId' = nextId /\ id \in Ids(flock)
         /\ flock' \subseteq flock /\ \A r \in flock : r.id # id => r \in flock'
         /\ Ids(flock') = Ids(flock) \ {id}
         /\ Listed' = {r \in Listed : r.id # id}
         /\ flock' # {} => roll' = roll
<1>1. /\ flock' = {r \in flock : r.id # id} /\ nextId' = nextId
      /\ roll' = IF flock' = {} THEN "none" ELSE roll
  BY DEF Deletes, Without
<1>2. IsFiniteSet(flock')  BY <1>1, FS_Subset DEF Ordered
<1>3. id \in Ids(flock) /\ flock # {}  BY DEF Deletes, Ids
<1>4. (roll' = "none") = (flock' = {})  BY <1>1, <1>3 DEF Ordered
<1> QED
  BY <1>1, <1>2, <1>3, <1>4 DEF Ordered, Ids, Listed

(* Rows are spawned in their order: once the youngest is, all are.         *)
LEMMA AllSpawned ==
  ASSUME TypeOK, Ordered, (nextId - 1) \in Ids(Listed)
  PROVE  Listed = flock
<1>1. PICK r \in Listed : r.id = nextId - 1  BY DEF Ids
<1>2. ASSUME NEW s \in flock, s.life = "accepted" PROVE FALSE
  <2>1. r.id < s.id /\ s.id < nextId /\ s.id \in Nat /\ nextId \in Nat
    BY <1>1, <1>2 DEF Ordered, Listed, TypeOK, Row
  <2> QED  BY <1>1, <2>1
<1> QED  BY <1>2 DEF Listed

(* A pid is a row's, and as many rows as there are have as many pids.      *)
LEMMA PidsCount ==
  ASSUME TypeOK, Ordered, NEW rows \in SUBSET flock
  PROVE  Cardinality(Pids(rows)) = Cardinality(rows) /\ IsFiniteSet(Pids(rows))
<1>1. IsFiniteSet(rows)  BY FS_Subset DEF Ordered
<1> DEFINE f == [r \in rows |-> <<r.id, r.restarts>>]
<1>2. f \in Surjection(rows, Pids(rows)) /\ f \in Injection(rows, Pids(rows))
  BY DEF Surjection, Injection, IsInjective, Pids, Ordered
<1> QED  BY <1>1, <1>2, FS_Surjection

LEMMA OrderedStays ==
  ASSUME Ordered, UNCHANGED shepherd
  PROVE  Ordered' /\ Listed' = Listed /\ \A p : Newcomers(p)' = {r \in Listed : r.id \notin job'[p].previous}
  BY DEF Ordered, shepherd, Listed, Newcomers

-----------------------------------------------------------------------------
(* A command goes on, or ends.                                             *)

Kind == {"crash", "fault", "refuse", "lost", "death"}
Here(p) ==
  /\ IInv /\ TypeInv /\ TypeOK /\ Ordered /\ Budgeted /\ Past
  /\ job[p] \in Job /\ RoleOf(pc[p], job[p]) /\ KeptBy(p) /\ CutOf(p) /\ RestoreOf(p)
  /\ pc[p] # "idle" => told[p] = NothingTold /\ job[p].cmd = Command[p]
  /\ pc[p] \in {"hold"} \cup Inside => NoRemoval
  /\ pc[p] \in Inside => lock = p
  /\ FirstInit /\ NoRemoval => FirstOf(p) /\ (pc[p] # "idle" => watch # "auto")

LEMMA AtHand ==
  ASSUME Patient, IInv, Reckoning, NEW p \in Process
  PROVE  Here(p)
  BY AtWork DEF Here, IInv, Reckoning, Past, Whole, Undisturbed

LEMMA Goes ==
  ASSUME Patient, IInv, Reckoning, NEW p \in Process, pc[p] # "idle",
         NEW l \in Places \ {"idle"}, NEW j \in Job, Moves(p, l, j), told' = told,
         j.cmd = job[p].cmd,
         NEW kind \in Kind, Trouble(kind) \/ UNCHANGED left,
         Asks(p) \/ UNCHANGED <<shepherd, record>>,
         record' = "absent" => record = "absent",
         l \in {"hold"} \cup Inside => NoRemoval,
         Ordered', NoRemoval => Listed' # {}, CutOf(p)', RestoreOf(p)',
         flock' = {} => l \in Emptying \/ (flock = {} /\ pc[p] \notin Emptying),
         FirstInit /\ NoRemoval => FirstOf(p)' /\ watch' # "auto"
  PROVE  Reckoning' /\ Honest(p)
<1>1. Speaks(p, l) /\ Honest(p)  BY DEF Speaks, Honest, Moves
<1>2. Budgeted' /\ (Unspent(Spent)' => Unspent(Spent))  BY Paying DEF Reckoning, Kind
<1>3. FirstInit /\ NoRemoval => Firstly(p, l)  BY DEF Firstly
<1> QED  BY <1>1, <1>2, <1>3, StepReckons

LEMMA Closes ==
  ASSUME Patient, IInv, Reckoning, NEW p \in Process, pc[p] # "idle",
         NEW t \in Told, t # NothingTold, Report(p, t),
         NEW kind \in Kind, Trouble(kind) \/ UNCHANGED left,
         Asks(p) \/ (UNCHANGED shepherd /\ (record' = record \/ lock = None)),
         record' = "absent" => record = "absent",
         Ordered', NoRemoval => Listed' # {},
         flock' = {} /\ Unspent(Spent)' =>
           t.kind \in {"gone", "partlyDeleted"} \/ (flock = {} /\ pc[p] \notin Emptying),
         FirstInit /\ NoRemoval /\ watch' = "auto" => record' = "deployed" /\ AllFrom("tree")',
         Unspent({"lost"})' => ReportIsSo(job[p], t)
  PROVE  Reckoning' /\ Honest(p)
<1>1. TypeInv /\ told \in [Process -> Told]  BY DEF IInv, TypeInv, TypeOK
<1>2. Moves(p, "idle", NoJob) /\ "idle" \in Places /\ NoJob \in Job
  BY <1>1, Reporting, Idles
<1>3. Speaks(p, "idle") /\ told'[p] = t  BY <1>1 DEF Report, Speaks
<1>4. Budgeted' /\ (Unspent(Spent)' => Unspent(Spent))  BY Paying DEF Reckoning, Kind
<1>5. CutOf(p)' /\ RestoreOf(p)' /\ FirstOf(p)' /\ "idle" \notin {"hold"} \cup Inside
  BY <1>2 DEF Moves, CutOf, RestoreOf, FirstOf, OnTheWay, Inside, Preparing, Starting,
     Watching, Undoing, Cleaning
<1>6. FirstInit /\ NoRemoval => Firstly(p, "idle")  BY <1>5 DEF Firstly
<1>7. flock' = {} /\ Unspent(Spent)' =>
        \/ Admits(p)'
        \/ flock = {} /\ Unspent(Spent) /\ pc[p] \notin Emptying
  BY <1>3, <1>4 DEF Admits
<1>8. Reckoning'
  BY <1>2, <1>3, <1>4, <1>5, <1>6, <1>7, StepReckons
<1>9. Honest(p)  BY <1>2, <1>3 DEF Honest, Speaks, Moves
<1> QED  BY <1>8, <1>9

LEMMA Kinded ==
  ASSUME NEW kind \in Kinds \ {"none"}
  PROVE  Say(kind) \in Told /\ Say(kind) # NothingTold /\ Say(kind).kind = kind
  BY Says DEF Say, NothingTold, Told

(* The report of one who has changed nothing, and says so little.          *)
LEMMA Plain ==
  ASSUME Patient, IInv, Reckoning, NEW p \in Process, pc[p] \notin {"idle"} \cup Emptying,
         NEW k \in {"refused", "unregistered", "unstarted", "stranded", "unrecorded",
                    "neverMoved", "blocked"},
         Report(p, Say(k)), UNCHANGED <<shepherd, watch>>,
         NEW kind \in Kind, Trouble(kind) \/ UNCHANGED left,
         Asks(p) \/ record' = record \/ lock = None,
         record' = "absent" => record = "absent"
  PROVE  Reckoning' /\ Honest(p)
<1>1. Here(p)  BY AtHand
<1>2. /\ Say(k) \in Told /\ Say(k) # NothingTold /\ Say(k).kind = k
  BY Kinded DEF Kinds
<1>3. Ordered' /\ Listed' = Listed /\ flock' = flock
  BY <1>1, OrderedStays DEF Here, shepherd
<1>4. NoRemoval => Listed' # {}  BY <1>1, <1>3 DEF Here, Past
<1>5. FirstInit /\ NoRemoval => watch' # "auto"  BY <1>1 DEF Here
<1>6. ReportIsSo(job[p], Say(k))  BY <1>2 DEF ReportIsSo
<1> QED  BY <1>2, <1>3, <1>4, <1>5, <1>6, Closes

-----------------------------------------------------------------------------
(* The way to the first request that changes anything.                     *)

Before == OnTheWay \cup Preparing \cup {"describe"}

LEMMA Prepares ==
  ASSUME Patient, IInv, Reckoning, NEW p \in Process, pc[p] \in Before,
         NEW l \in Before, NEW j \in Job, Moves(p, l, j), told' = told, j.cmd = job[p].cmd,
         UNCHANGED shepherd, watch' # "auto" \/ watch' = watch,
         NEW kind \in Kind, Trouble(kind) \/ UNCHANGED left,
         Asks(p) \/ record' = record, record' = "absent" => record = "absent",
         l = "hold" => record = "absent", l \in Inside => pc[p] \in {"hold"} \cup Inside
  PROVE  Reckoning' /\ Honest(p)
<1>1. Here(p)  BY AtHand
<1>2. /\ Ordered' /\ Listed' = Listed /\ flock' = flock
      /\ \A x \in {"own", "tree"} : AllFrom(x)' = AllFrom(x)
  BY <1>1, OrderedStays DEF Here, shepherd, AllFrom
<1>3. l \in Places \ {"idle"} /\ pc[p] # "idle" /\ l \notin Emptying /\ pc[p] \notin Emptying
  BY DEF Before, Places, OnTheWay, Inside, Preparing, Starting, Restoring, Emptying
<1>4. CutOf(p)' /\ RestoreOf(p)'
  BY DEF Moves, CutOf, RestoreOf, Before, OnTheWay, Preparing, Watching, Undoing, Cleaning
<1>5. l \in {"hold"} \cup Inside => NoRemoval  BY <1>1 DEF Here, Past
<1>6. FirstInit /\ NoRemoval => FirstOf(p)' /\ watch' # "auto"
  <2> SUFFICES ASSUME FirstInit, NoRemoval PROVE FirstOf(p)' /\ watch' # "auto"
    OBVIOUS
  <2>1. FirstOf(p) /\ watch # "auto"  BY <1>1, <1>3 DEF Here
  <2>2. Listed = flock /\ AllFrom("own")
    BY <2>1 DEF FirstOf, Before, Starting
  <2>3. pc'[p] \in Before  BY DEF Moves
  <2> QED
    BY <1>2, <2>1, <2>2, <2>3 DEF FirstOf, Before, OnTheWay, Preparing, Watching, Cleaning
<1>7. NoRemoval => Listed' # {}  BY <1>1, <1>2 DEF Here, Past
<1> QED  BY <1>2, <1>3, <1>4, <1>5, <1>6, <1>7, Goes

LEMMA PrepareReckons ==
  ASSUME Patient, IInv, Reckoning, NEW p \in Process, Prepare(p)
  PROVE  Reckoning' /\ Honest(p)
<1>1. Here(p)  BY AtHand
<1>2. TypeInv /\ TypeOK /\ job[p] \in Job /\ lock \in Process \cup {None}
  BY <1>1 DEF Here, TypeOK
<1>3. \A x \in Before : x \in Places /\ x # "idle" /\ x \notin Emptying
  BY DEF Before, Places, OnTheWay, Inside, Preparing, Starting, Restoring, Emptying
<1>4. ASSUME NEW l \in Before, pc[p] \in Before, NEW j \in Job, Continue(p, l, j)
      PROVE  Moves(p, l, j) /\ told' = told
  BY <1>2, <1>3, <1>4, Continuing DEF Continue
<1>5. ASSUME NEW x \in Preparing PROVE x \in Before /\ x \in Inside /\ x # "hold"
  BY DEF Before, Inside, Preparing
<1>6. CASE ReadRegistered(p)
  <2>1. /\ pc[p] = "registered" /\ UNCHANGED <<shepherd, watch, record>>
        /\ \E kind \in Kind : Trouble(kind) \/ UNCHANGED left
    BY <1>6 DEF ReadRegistered, tree, ReadErrs, Kind
  <2>2. ASSUME Continue(p, "check", [job[p] EXCEPT !.config = roll])
        PROVE  Reckoning' /\ Honest(p)
    <3> DEFINE j == [job[p] EXCEPT !.config = roll]
    <3>1. j \in Job /\ j.cmd = job[p].cmd /\ Continue(p, "check", j)
      BY <1>2, <2>2 DEF TypeOK, Job
    <3> HIDE DEF j
    <3>2. "check" \in Before /\ pc[p] \in Before /\ "check" \notin Inside
      BY <2>1 DEF Before, OnTheWay, Inside, Preparing, Starting, Watching, Cleaning, Undoing
    <3>3. Moves(p, "check", j) /\ told' = told  BY <1>4, <3>1, <3>2
    <3> QED  BY <2>1, <3>1, <3>2, <3>3, Prepares
  <2>3. CASE \E k \in {"unregistered", "refused"} : Report(p, Say(k))
    BY <2>1, <2>3, Plain DEF Emptying
  <2> QED  BY <1>6, <2>2, <2>3 DEF ReadRegistered
<1>7. CASE RepairRecord(p)
  <2>1. /\ pc[p] = "check" /\ UNCHANGED <<shepherd, watch>> /\ Report(p, Say("refused"))
        /\ record' = record \/ lock = None
        /\ record' = "absent" => record = "absent"
        /\ \E kind \in Kind : Trouble(kind) \/ UNCHANGED left
    BY <1>7 DEF RepairRecord, Kind
  <2> QED  BY <2>1, Plain DEF Emptying
<1>8. CASE CheckTree(p)
  <2>1. /\ pc[p] = "check" /\ UNCHANGED <<shepherd, watch, record>>
        /\ \E kind \in Kind : Trouble(kind) \/ UNCHANGED left
    BY <1>8 DEF CheckTree, tree, Kind
  <2>2. CASE record = "absent" /\ Continue(p, "hold", job[p])
    <3>1. "hold" \in Before /\ pc[p] \in Before /\ "hold" \notin Inside
      BY <2>1 DEF Before, OnTheWay, Inside, Preparing, Starting, Watching, Cleaning, Undoing
    <3>2. Moves(p, "hold", job[p]) /\ told' = told  BY <1>2, <1>4, <2>2, <3>1
    <3> QED  BY <1>2, <2>1, <2>2, <3>1, <3>2, Prepares
  <2>3. CASE Report(p, Say("refused"))  BY <2>1, <2>3, Plain DEF Emptying
  <2> QED  BY <1>8, <2>2, <2>3 DEF CheckTree
<1>9. CASE HoldTree(p)
  <2>1. /\ pc[p] = "hold" /\ UNCHANGED <<shepherd, watch, record>>
        /\ \E kind \in Kind : Trouble(kind) \/ UNCHANGED left
    BY <1>9 DEF HoldTree, tree, Kind
  <2>2. CASE Goto(p, "build") /\ UNCHANGED <<job, told>>
    <3>1. "build" \in Before /\ pc[p] \in Before /\ "build" # "hold" /\ "build" \in Places
      BY <1>3, <2>1 DEF Before, OnTheWay, Preparing
    <3>2. Moves(p, "build", job[p])  BY <1>2, <2>2, <3>1, Moving
    <3> QED  BY <1>2, <2>1, <2>2, <3>1, <3>2, Prepares
  <2>3. CASE Report(p, Say("refused"))  BY <2>1, <2>3, Plain DEF Emptying
  <2> QED  BY <1>9, <2>2, <2>3 DEF HoldTree
<1>10. ASSUME pc[p] \in Preparing, UNCHANGED shepherd, watch' # "auto" \/ watch' = watch,
              record' = "absent" => record = "absent",
              \E kind \in Kind : Trouble(kind) \/ UNCHANGED left,
              \E l \in {"manual", "swap", "write", "describe"} : Continue(p, l, job[p])
       PROVE  Reckoning' /\ Honest(p)
  <2>1. PICK l \in {"manual", "swap", "write", "describe"} : Continue(p, l, job[p])
    BY <1>10
  <2>2. l \in Before /\ l # "hold" /\ Asks(p) /\ pc[p] \in Inside /\ pc[p] \in Before
    BY <1>10 DEF Before, Preparing, Asks, Inside
  <2>3. Moves(p, l, job[p]) /\ told' = told  BY <1>2, <1>4, <2>1, <2>2
  <2> QED  BY <1>2, <1>10, <2>2, <2>3, Prepares
<1>11. ASSUME pc[p] \in Preparing, UNCHANGED shepherd, watch' = watch,
              record' = "absent" => record = "absent",
              \E kind \in Kind : Trouble(kind) \/ UNCHANGED left,
              Report(p, Say("refused"))
       PROVE  Reckoning' /\ Honest(p)
  <2>1. pc[p] \notin {"idle"} \cup Emptying /\ Asks(p)
    BY <1>11 DEF Preparing, Emptying, Asks, Inside
  <2> QED  BY <1>11, <2>1, Plain
<1>12. CASE BuildFirst(p)
  <2>1. /\ pc[p] \in Preparing /\ UNCHANGED <<shepherd, watch, record>>
        /\ \E kind \in Kind : Trouble(kind) \/ UNCHANGED left
    BY <1>12 DEF BuildFirst, Preparing, Kind
  <2> QED  BY <1>10, <1>11, <1>12, <2>1 DEF BuildFirst
<1>13. CASE SwapFirst(p)
  <2>1. /\ pc[p] \in Preparing /\ UNCHANGED <<shepherd, watch, record>>
        /\ \E kind \in Kind : Trouble(kind) \/ UNCHANGED left
    BY <1>13 DEF SwapFirst, Preparing, Kind
  <2> QED  BY <1>10, <1>11, <1>13, <2>1 DEF SwapFirst
<1>14. CASE WriteFirst(p)
  <2>1. /\ pc[p] \in Preparing /\ UNCHANGED <<shepherd, watch>>
        /\ record' = "absent" => record = "absent"
        /\ \E kind \in Kind : Trouble(kind) \/ UNCHANGED left
    BY <1>14 DEF WriteFirst, Preparing, Kind
  <2> QED  BY <1>10, <1>11, <1>14, <2>1 DEF WriteFirst, Prepared
<1>15. CASE SetManual(p)
  <2>1. /\ pc[p] \in Preparing /\ UNCHANGED <<shepherd, record>>
        /\ \E kind \in Kind : Trouble(kind) \/ UNCHANGED left
    BY <1>15 DEF SetManual, tree, Preparing, Kind
  <2>2. CASE watch' = "manual" /\ Continue(p, "swap", job[p])
    BY <1>10, <2>1, <2>2
  <2>3. CASE watch' = watch /\ Report(p, Say("refused"))
    BY <1>11, <2>1, <2>3
  <2>4. CASE watch' = "manual" /\ Report(p, Say("refused"))
    <3>1. Say("refused") \in Told /\ Say("refused") # NothingTold
          /\ Say("refused").kind = "refused"
      BY Kinded DEF Kinds
    <3>2. Ordered' /\ Listed' = Listed /\ flock' = flock
      BY <1>1, <2>1, OrderedStays DEF Here, shepherd
    <3>3. NoRemoval => Listed' # {}  BY <1>1, <3>2 DEF Here, Past
    <3>4. ReportIsSo(job[p], Say("refused"))  BY <3>1 DEF ReportIsSo
    <3>5. pc[p] \notin {"idle"} \cup Emptying /\ Asks(p)
      BY <2>1 DEF Preparing, Emptying, Asks, Inside
    <3> QED  BY <2>1, <2>4, <3>1, <3>2, <3>3, <3>4, <3>5, Closes
  <2> QED  BY <1>15, <2>2, <2>3, <2>4 DEF SetManual
<1> QED
  BY <1>6, <1>7, <1>8, <1>9, <1>12, <1>13, <1>14, <1>15 DEF Prepare

-----------------------------------------------------------------------------
(* The cutover and its undo.                                               *)

Cutting == Starting \cup Watching \cup Cleaning \cup Undoing

LEMMA CutGoes ==
  ASSUME Patient, IInv, Reckoning, NEW p \in Process, pc[p] \in Cutting,
         NEW l \in Cutting \ {"describe"}, NEW j \in Job, Moves(p, l, j), told' = told,
         j.cmd = job[p].cmd, NEW kind \in Kind, Trouble(kind) \/ UNCHANGED left,
         record' \in {record, "deployed"}, UNCHANGED watch,
         Ordered', Listed' # {}, CutOf(p)', FirstInit => FirstOf(p)'
  PROVE  Reckoning' /\ Honest(p)
<1>1. Here(p) /\ pc[p] \in Inside /\ l \in Inside /\ pc[p] # "idle" /\ Asks(p)
  BY AtHand DEF Cutting, Inside, Starting, Watching, Cleaning, Undoing, Asks
<1>2. l \in Places \ {"idle"} /\ l \notin Restoring
  BY DEF Cutting, Places, Inside, Starting, Watching, Cleaning, Undoing, Restoring
<1>3. NoRemoval /\ (FirstInit => watch' # "auto") /\ flock' # {}
  BY <1>1 DEF Here, Listed
<1>4. RestoreOf(p)'  BY <1>2 DEF Moves, RestoreOf, Restoring
<1> QED  BY <1>1, <1>2, <1>3, <1>4, Goes

LEMMA CutCloses ==
  ASSUME Patient, IInv, Reckoning, NEW p \in Process, pc[p] \in Cutting,
         NEW t \in Told, t # NothingTold, Report(p, t),
         NEW kind \in Kind, Trouble(kind) \/ UNCHANGED left,
         record' = record, Ordered', Listed' # {},
         FirstInit /\ watch' = "auto" =>
           watch = "auto" \/ (record = "deployed" /\ AllFrom("tree")'),
         Unspent({"lost"})' => ReportIsSo(job[p], t)
  PROVE  Reckoning' /\ Honest(p)
<1>1. Here(p) /\ pc[p] \in Inside /\ pc[p] # "idle" /\ Asks(p)
  BY AtHand DEF Cutting, Inside, Starting, Watching, Cleaning, Undoing, Asks
<1>2. NoRemoval /\ (FirstInit => watch # "auto") /\ flock' # {}
  BY <1>1 DEF Here, Listed
<1> QED  BY <1>1, <1>2, Closes

(* A look at a flock that nobody changes meanwhile.                        *)
LEMMA CutLooks ==
  ASSUME Patient, IInv, Reckoning, NEW p \in Process, pc[p] \in Cutting,
         NEW l \in Cutting \ {"describe"}, NEW j \in Job, Moves(p, l, j), told' = told,
         j.cmd = job[p].cmd, NEW kind \in Kind, Trouble(kind) \/ UNCHANGED left,
         record' \in {record, "deployed"}, UNCHANGED <<shepherd, watch>>, CutOf(p)',
         l = "start" => pc[p] = "describe" /\ j.previous = Ids(Listed),
         l \in Watching \cup Cleaning =>
           pc[p] \in Watching \cup Cleaning /\ j.previous = job[p].previous
  PROVE  Reckoning' /\ Honest(p)
<1>1. Here(p) /\ pc[p] \in Inside /\ pc[p] # "idle"
  BY AtHand DEF Cutting, Inside, Starting, Watching, Cleaning, Undoing
<1>2. Ordered' /\ Listed' = Listed /\ flock' = flock /\ Listed # {}
  BY <1>1, OrderedStays DEF Here, shepherd, Past
<1>3. ASSUME FirstInit PROVE FirstOf(p)'
  <2>1. FirstOf(p)  BY <1>1, <1>3 DEF Here
  <2>2. pc'[p] = l /\ job'[p] = j  BY DEF Moves
  <2>3. CASE l = "start"
    BY <1>2, <2>1, <2>2, <2>3 DEF FirstOf, Starting, Watching, Cleaning, AllFrom
  <2>4. CASE l \in Watching \cup Cleaning
    BY <1>2, <2>1, <2>2, <2>4
       DEF FirstOf, Starting, Watching, Cleaning, AllFrom, OnTheWay, Preparing
  <2>5. CASE l \in Undoing
    BY <2>2, <2>5 DEF FirstOf, Starting, Watching, Cleaning, Undoing, OnTheWay, Preparing
  <2> QED  BY <2>3, <2>4, <2>5 DEF Cutting, Starting
<1> QED  BY <1>2, <1>3, CutGoes

(* A request that came to nothing.                                         *)
LEMMA Kindly ==
  /\ ReadErrs => UNCHANGED shepherd /\ \E kind \in Kind : Trouble(kind) \/ UNCHANGED left
  /\ UNCHANGED left => \E kind \in Kind : Trouble(kind) \/ UNCHANGED left
  /\ \A kind \in Kind : Trouble(kind) => \E k \in Kind : Trouble(k) \/ UNCHANGED left
  BY DEF ReadErrs, Kind

LEMMA DescribeBeforeReckons ==
  ASSUME Patient, IInv, Reckoning, NEW p \in Process, DescribeBefore(p)
  PROVE  Reckoning' /\ Honest(p)
<1>1. Here(p)  BY AtHand
<1>2. /\ pc[p] = "describe" /\ UNCHANGED <<shepherd, watch, record>>
      /\ \E kind \in Kind : Trouble(kind) \/ UNCHANGED left
  BY Kindly DEF DescribeBefore, tree
<1>3. TypeOK /\ TypeInv /\ job[p] \in Job /\ pc[p] \in Cutting /\ pc[p] \in Inside
  BY <1>1, <1>2 DEF Here, Cutting, Starting, Inside
<1>4. Listed' = Listed /\ flock' = flock /\ Listed # {}
  BY <1>1, <1>2, <1>3, OrderedStays DEF Here, shepherd, Past
<1>5. ASSUME Continue(p, "start", [job[p] EXCEPT !.previous = Ids(Listed)])
      PROVE  Reckoning' /\ Honest(p)
  <2> DEFINE j == [job[p] EXCEPT !.previous = Ids(Listed)]
  <2>1. Ids(Listed) \subseteq Nat  BY <1>3, Listing
  <2>2. j \in Job /\ j.cmd = job[p].cmd /\ j.previous = Ids(Listed)
    BY <1>3, <2>1 DEF Job
  <2>3. Continue(p, "start", j)  BY <1>5
  <2> HIDE DEF j
  <2>4. /\ "start" \in Places /\ "start" \in Cutting \ {"describe"}
        /\ "start" \notin Watching \cup Cleaning \cup Undoing
    BY DEF Places, Inside, Starting, Cutting, Watching, Cleaning, Undoing
  <2>5. Moves(p, "start", j) /\ told' = told
    BY <1>3, <2>2, <2>3, <2>4, Continuing DEF Continue
  <2>6. Ids(Listed) # {} /\ Ids(Listed)' = Ids(Listed)  BY <1>4 DEF Ids
  <2>7. CutOf(p)'
    BY <2>2, <2>4, <2>5, <2>6 DEF Moves, CutOf, Watching, Cleaning, Undoing
  <2> QED  BY <1>2, <1>3, <2>2, <2>4, <2>5, <2>7, CutLooks
<1>6. CASE Report(p, Say("unstarted"))
  <2>1. pc[p] \notin {"idle"} \cup Emptying  BY <1>2 DEF Emptying
  <2> QED  BY <1>2, <1>6, <2>1, Plain
<1> QED  BY <1>5, <1>6 DEF DescribeBefore

LEMMA StartBesideReckons ==
  ASSUME Patient, IInv, Reckoning, NEW p \in Process, StartBeside(p)
  PROVE  Reckoning' /\ Honest(p)
<1>1. Here(p)  BY AtHand
<1>2. pc[p] = "start" /\ UNCHANGED <<watch, record>>  BY DEF StartBeside, tree
<1>3. /\ TypeOK /\ TypeInv /\ Ordered /\ job[p] \in Job /\ pc[p] \in Cutting
      /\ pc[p] \in Inside /\ pc[p] \notin {"idle"} \cup Emptying /\ "tree" \in Config
      /\ CutOf(p)
  BY <1>1, <1>2 DEF Here, Cutting, Starting, Inside, Emptying, Config
<1>4. Listed # {} /\ NoRemoval  BY <1>1, <1>3 DEF Here, Past
<1>5. CASE Starts("tree") /\ Continue(p, "arrive", job[p]) /\ UNCHANGED left
  <2>1. /\ Ordered' /\ roll' = "tree" /\ Listed' = Listed
        /\ \A r \in flock' : r \in flock \/ r.from = "tree"
    BY <1>3, <1>5, OrderedStarts
  <2>2. /\ "arrive" \in Places /\ "arrive" \in Cutting \ {"describe"}
        /\ "arrive" \notin Starting \cup OnTheWay \cup Preparing
    BY DEF Places, Inside, Starting, Cutting, Watching, OnTheWay, Preparing
  <2>3. Moves(p, "arrive", job[p]) /\ told' = told
    BY <1>3, <1>5, <2>2, Continuing DEF Continue
  <2>4. CutOf(p)'
    <3>1. Ids(Listed)' = Ids(Listed)  BY <2>1 DEF Ids
    <3>2. job[p].previous # {} /\ job[p].previous \subseteq Ids(Listed)
      BY <1>2, <1>3 DEF CutOf
    <3> QED  BY <2>1, <2>3, <3>1, <3>2 DEF Moves, CutOf, Cleaning
  <2>5. ASSUME FirstInit PROVE FirstOf(p)'
    <3>1. job[p].previous = Ids(flock)
      BY <1>1, <1>2, <1>4, <2>5 DEF Here, FirstOf
    <3>2. \A r \in flock : r.id \in job[p].previous  BY <3>1 DEF Ids
    <3> QED  BY <2>1, <2>2, <2>3, <3>2 DEF Moves, FirstOf
  <2>6. \E kind \in Kind : Trouble(kind) \/ UNCHANGED left  BY <1>5, Kindly
  <2> QED  BY <1>2, <1>3, <1>4, <2>1, <2>2, <2>3, <2>4, <2>5, <2>6, CutGoes
<1>6. CASE Report(p, Say("unstarted")) /\ Trouble("refuse") /\ UNCHANGED shepherd
  BY <1>2, <1>3, <1>6, Plain DEF Kind
<1>7. CASE Report(p, Say("unstarted")) /\ Trouble("lost") /\ Starts("tree")
  <2>1. Ordered' /\ Listed' = Listed  BY <1>3, <1>7, OrderedStarts
  <2>2. /\ Say("unstarted") \in Told /\ Say("unstarted") # NothingTold
        /\ Say("unstarted").kind = "unstarted"
    BY Kinded DEF Kinds
  <2>3. ReportIsSo(job[p], Say("unstarted"))  BY <2>2 DEF ReportIsSo
  <2> QED  BY <1>2, <1>3, <1>4, <1>7, <2>1, <2>2, <2>3, CutCloses DEF Kind
<1> QED  BY <1>5, <1>6, <1>7 DEF StartBeside, Errs

LEMMA ArriveReckons ==
  ASSUME Patient, IInv, Reckoning, NEW p \in Process, Arrive(p)
  PROVE  Reckoning' /\ Honest(p)
<1>1. Here(p)  BY AtHand
<1>2. /\ pc[p] = "arrive" /\ UNCHANGED <<shepherd, watch, record>>
      /\ \E kind \in Kind : Trouble(kind) \/ UNCHANGED left
  BY Kindly DEF Arrive, tree
<1>3. /\ TypeOK /\ TypeInv /\ Ordered /\ job[p] \in Job /\ pc[p] \in Cutting /\ CutOf(p)
      /\ pc[p] \in Watching
  BY <1>1, <1>2 DEF Here, Cutting, Watching
<1>4. Listed' = Listed /\ flock' = flock /\ roll' = roll /\ Ids(Listed)' = Ids(Listed)
  BY <1>2, <1>3, OrderedStays DEF shepherd, Ids
<1>5. job[p].previous # {} /\ job[p].previous \subseteq Ids(Listed) /\ roll = "tree"
  BY <1>2, <1>3 DEF CutOf, Watching
<1>6. CASE Continue(p, "undo", job[p])
  <2>1. /\ "undo" \in Places /\ "undo" \in Cutting \ {"describe"}
        /\ "undo" \notin Watching \cup Cleaning
    BY DEF Places, Inside, Cutting, Watching, Cleaning, Undoing
  <2>2. Moves(p, "undo", job[p]) /\ told' = told
    BY <1>3, <1>6, <2>1, Continuing DEF Continue
  <2>3. CutOf(p)'
    BY <1>4, <1>5, <2>1, <2>2 DEF Moves, CutOf
  <2> QED  BY <1>2, <1>3, <2>1, <2>2, <2>3, CutLooks
<1>7. ASSUME Enough(Up(Newcomers(p))),
             Continue(p, "dwell", [job[p] EXCEPT !.arrived = Pids(Up(Newcomers(p)))])
      PROVE  Reckoning' /\ Honest(p)
  <2> DEFINE new == Up(Newcomers(p))
             j == [job[p] EXCEPT !.arrived = Pids(new)]
  <2>1. new \subseteq Listed /\ new \subseteq flock /\ \A r \in new : r.id \notin job[p].previous
    BY DEF Up, Newcomers, Listed
  <2>2. Cardinality(Pids(new)) >= Instances["tree"]
    BY <1>3, <1>7, <2>1, PidsCount DEF Enough
  <2>3. new # {}
    <3>1. Instances["tree"] \in Nat \ {0}  BY InstancesAssumption DEF Config
    <3>2. Cardinality({}) = 0  BY FS_EmptySet
    <3> QED  BY <1>7, <3>1, <3>2 DEF Enough
  <2>4. Newcomers(p) # {}  BY <2>3 DEF Up
  <2>5. \A pid \in Pids(new) : pid[1] \notin job[p].previous  BY <2>1 DEF Pids
  <2>6. Pids(new) \subseteq Nat \X Nat  BY <1>3, <2>1, Listing
  <2> HIDE DEF new
  <2>7. /\ j \in Job /\ j.cmd = job[p].cmd /\ j.previous = job[p].previous
        /\ j.arrived = Pids(new)
    BY <1>3, <2>6 DEF Job
  <2>8. Continue(p, "dwell", j)  BY <1>7 DEF new
  <2> HIDE DEF j
  <2>9. /\ "dwell" \in Places /\ "dwell" \in Cutting \ {"describe"}
        /\ "dwell" \notin Cleaning
    BY DEF Places, Inside, Cutting, Watching, Cleaning
  <2>10. Moves(p, "dwell", j) /\ told' = told
    BY <1>3, <2>7, <2>8, <2>9, Continuing DEF Continue
  <2>11. Newcomers(p)' = Newcomers(p)
    BY <1>4, <2>7, <2>10 DEF Moves, Newcomers
  <2>12. CutOf(p)'
    BY <1>4, <1>5, <2>2, <2>4, <2>5, <2>7, <2>9, <2>10, <2>11 DEF Moves, CutOf
  <2> QED  BY <1>2, <1>3, <2>7, <2>9, <2>10, <2>12, CutLooks
<1> QED  BY <1>6, <1>7 DEF Arrive

LEMMA DwellReckons ==
  ASSUME Patient, IInv, Reckoning, NEW p \in Process, Dwell(p)
  PROVE  Reckoning' /\ Honest(p)
<1>1. Here(p)  BY AtHand
<1>2. /\ pc[p] = "dwell" /\ UNCHANGED <<shepherd, watch, record>>
      /\ \E kind \in Kind : Trouble(kind) \/ UNCHANGED left
  BY Kindly DEF Dwell, tree
<1>3. /\ TypeOK /\ TypeInv /\ Ordered /\ job[p] \in Job /\ pc[p] \in Cutting /\ CutOf(p)
      /\ pc[p] \in Watching
  BY <1>1, <1>2 DEF Here, Cutting, Watching
<1>4. Listed' = Listed /\ flock' = flock /\ roll' = roll /\ Ids(Listed)' = Ids(Listed)
  BY <1>2, <1>3, OrderedStays DEF shepherd, Ids
<1>5. /\ job[p].previous # {} /\ job[p].previous \subseteq Ids(Listed) /\ roll = "tree"
      /\ Newcomers(p) # {}
  BY <1>2, <1>3 DEF CutOf, Watching
<1>6. CASE Continue(p, "undo", job[p])
  <2>1. /\ "undo" \in Places /\ "undo" \in Cutting \ {"describe"}
        /\ "undo" \notin Watching \cup Cleaning
    BY DEF Places, Inside, Cutting, Watching, Cleaning, Undoing
  <2>2. Moves(p, "undo", job[p]) /\ told' = told
    BY <1>3, <1>6, <2>1, Continuing DEF Continue
  <2>3. CutOf(p)'
    BY <1>4, <1>5, <2>1, <2>2 DEF Moves, CutOf
  <2> QED  BY <1>2, <1>3, <2>1, <2>2, <2>3, CutLooks
<1>7. ASSUME Continue(p, "old", [job[p] EXCEPT !.todo = job[p].previous])
      PROVE  Reckoning' /\ Honest(p)
  <2> DEFINE j == [job[p] EXCEPT !.todo = job[p].previous]
  <2>1. /\ j \in Job /\ j.cmd = job[p].cmd /\ j.previous = job[p].previous
        /\ j.todo = job[p].previous
    BY <1>3 DEF Job
  <2>2. Continue(p, "old", j)  BY <1>7
  <2> HIDE DEF j
  <2>3. /\ "old" \in Places /\ "old" \in Cutting \ {"describe"} /\ "old" \in Cleaning
        /\ "old" \notin Watching \cup Undoing
    BY DEF Places, Inside, Cutting, Watching, Cleaning, Undoing
  <2>4. Moves(p, "old", j) /\ told' = told
    BY <1>3, <2>1, <2>2, <2>3, Continuing DEF Continue
  <2>5. Newcomers(p)' = Newcomers(p)
    BY <1>4, <2>1, <2>4 DEF Moves, Newcomers
  <2>6. CutOf(p)'
    BY <1>4, <1>5, <2>1, <2>3, <2>4, <2>5 DEF Moves, CutOf
  <2> QED  BY <1>2, <1>3, <2>1, <2>3, <2>4, <2>6, CutLooks
<1> QED  BY <1>6, <1>7 DEF Dwell

(* One id of several is dealt with: its row goes, or somebody else has it, *)
(* or the delete is known to have failed.                                  *)
LEMMA DeletesOne ==
  ASSUME TypeOK, Ordered, NEW p \in Process, pc[p] \in Places, TypeInv, DeleteOne(p),
         UNCHANGED pc
  PROVE  \E id \in job[p].todo, j \in Job, kind \in Kind :
           /\ Moves(p, pc[p], j) /\ j.todo = job[p].todo \ {id}
           /\ j.cmd = job[p].cmd /\ j.previous = job[p].previous
           /\ j.config = job[p].config /\ j.repair = job[p].repair
           /\ Trouble(kind) \/ UNCHANGED left
           /\ Deletes(id) \/ UNCHANGED shepherd
           /\ j.clean => job[p].clean /\ Deletes(id)
<1>1. job[p] \in Job  BY DEF TypeOK
<1>2. PICK id \in job[p].todo :
        \/ /\ Deletes(id) /\ UNCHANGED left
           /\ Recall(p, [job[p] EXCEPT !.todo = @ \ {id}])
        \/ /\ DeleteErrs(id)
           /\ Recall(p, [job[p] EXCEPT !.todo = @ \ {id}, !.clean = FALSE])
  BY DEF DeleteOne
<1>3. CASE Deletes(id) /\ UNCHANGED left /\ Recall(p, [job[p] EXCEPT !.todo = @ \ {id}])
  <2> DEFINE j == [job[p] EXCEPT !.todo = @ \ {id}]
  <2>1. /\ j \in Job /\ j.todo = job[p].todo \ {id}
        /\ j.cmd = job[p].cmd /\ j.previous = job[p].previous
        /\ j.config = job[p].config /\ j.repair = job[p].repair /\ j.clean = job[p].clean
    BY <1>1 DEF Job
  <2>2. Recall(p, j)  BY <1>3
  <2> HIDE DEF j
  <2>3. Moves(p, pc[p], j)  BY <2>1, <2>2, Moving
  <2> QED  BY <1>3, <2>1, <2>3 DEF Kind
<1>4. CASE /\ DeleteErrs(id)
           /\ Recall(p, [job[p] EXCEPT !.todo = @ \ {id}, !.clean = FALSE])
  <2> DEFINE j == [job[p] EXCEPT !.todo = @ \ {id}, !.clean = FALSE]
  <2>1. /\ j \in Job /\ j.todo = job[p].todo \ {id}
        /\ j.cmd = job[p].cmd /\ j.previous = job[p].previous
        /\ j.config = job[p].config /\ j.repair = job[p].repair /\ ~j.clean
    BY <1>1 DEF Job
  <2>2. Recall(p, j)  BY <1>4
  <2> HIDE DEF j
  <2>3. Moves(p, pc[p], j)  BY <2>1, <2>2, Moving
  <2>4. \E kind \in Kind : Trouble(kind) \/ UNCHANGED left
    BY <1>4 DEF DeleteErrs, Errs, Kind
  <2>5. Deletes(id) \/ UNCHANGED shepherd  BY <1>4 DEF DeleteErrs, Errs
  <2> QED  BY <2>1, <2>3, <2>4, <2>5
<1> QED  BY <1>2, <1>3, <1>4

(* What is left of the flock then.                                         *)
LEMMA OrderedLoses ==
  ASSUME TypeOK, Ordered, NEW id, Deletes(id) \/ UNCHANGED shepherd
  PROVE  /\ Ordered' /\ nextId' = nextId /\ flock' \subseteq flock
         /\ \A r \in Listed : r.id # id => r \in Listed'
         /\ Ids(flock') \subseteq Ids(flock)
         /\ \A i \in Ids(Listed) : i # id => i \in Ids(Listed')
         /\ flock' # {} => roll' = roll
         /\ Deletes(id) => id \notin Ids(flock')
<1>1. CASE Deletes(id)  BY <1>1, OrderedDeletes DEF Ids
<1>2. CASE UNCHANGED shepherd /\ ~Deletes(id)
  BY <1>2, OrderedStays DEF shepherd
<1> QED  BY <1>1, <1>2

LEMMA DeleteOldReckons ==
  ASSUME Patient, IInv, Reckoning, NEW p \in Process, DeleteOld(p)
  PROVE  Reckoning' /\ Honest(p)
<1>1. Here(p)  BY AtHand
<1>2. pc[p] = "old" /\ UNCHANGED <<watch, record, told>>  BY DEF DeleteOld, tree
<1>3. /\ TypeOK /\ TypeInv /\ Ordered /\ job[p] \in Job /\ pc[p] \in Cutting /\ CutOf(p)
      /\ pc[p] \in Places /\ pc[p] # "describe"
  BY <1>1, <1>2 DEF Here, Cutting, Cleaning, TypeOK
<1>4. /\ roll = "tree" /\ Newcomers(p) # {} /\ job[p].todo \subseteq job[p].previous
      /\ job[p].clean => job[p].previous \cap Ids(flock) \subseteq job[p].todo
  BY <1>2, <1>3 DEF CutOf, Cleaning
<1>5. "old" \notin Watching \cup Undoing \cup {"start"} /\ "old" \in Cleaning
  BY DEF Watching, Undoing, Cleaning
<1>6. CASE DeleteOne(p) /\ UNCHANGED pc
  <2>1. PICK id \in job[p].todo, j \in Job, kind \in Kind :
           /\ Moves(p, pc[p], j) /\ j.todo = job[p].todo \ {id}
           /\ j.cmd = job[p].cmd /\ j.previous = job[p].previous
           /\ Trouble(kind) \/ UNCHANGED left
           /\ Deletes(id) \/ UNCHANGED shepherd
           /\ j.clean => job[p].clean /\ Deletes(id)
    BY <1>3, <1>6, DeletesOne
  <2>2. /\ Ordered' /\ flock' \subseteq flock
        /\ \A r \in Listed : r.id # id => r \in Listed'
        /\ Ids(flock') \subseteq Ids(flock)
        /\ flock' # {} => roll' = roll
        /\ Deletes(id) => id \notin Ids(flock')
    BY <1>3, <2>1, OrderedLoses
  <2>3. PICK r \in Newcomers(p) : TRUE  BY <1>4
  <2>4. r \in Listed' /\ r.id \notin job[p].previous
    BY <1>4, <2>1, <2>2, <2>3 DEF Newcomers
  <2>5. flock' # {} /\ Newcomers(p)' # {}
    BY <2>1, <2>4 DEF Listed, Newcomers, Moves
  <2>6. Ids(flock)' = Ids(flock')  BY DEF Ids
  <2>7. CutOf(p)'
    <3>1. pc'[p] = "old" /\ job'[p] = j /\ roll' = "tree"
      BY <1>2, <1>4, <2>1, <2>2, <2>5 DEF Moves
    <3>2. j.todo \subseteq j.previous  BY <1>4, <2>1
    <3>3. j.clean => j.previous \cap Ids(flock') \subseteq j.todo
      BY <1>4, <2>1, <2>2
    <3> QED  BY <1>5, <2>5, <2>6, <3>1, <3>2, <3>3 DEF CutOf
  <2>8. ASSUME FirstInit PROVE FirstOf(p)'
    <3>1. FirstOf(p)  BY <1>1, <1>2, <2>8 DEF Here, Inside, Cleaning
    <3>2. \A s \in flock : s.id \in job[p].previous \/ s.from = "tree"
      BY <1>2, <1>5, <3>1 DEF FirstOf
    <3> QED
      BY <1>2, <2>1, <2>2, <3>2 DEF Moves, FirstOf, OnTheWay, Preparing, Starting
  <2> QED  BY <1>2, <1>3, <2>1, <2>2, <2>4, <2>7, <2>8, CutGoes
<1>7. CASE job[p].todo = {} /\ Goto(p, "record") /\ UNCHANGED <<shepherd, job, left>>
  <2>1. /\ "record" \in Places /\ "record" \in Cutting \ {"describe"} /\ "record" \in Cleaning
        /\ "record" \notin Watching \cup Undoing
    BY DEF Places, Inside, Cutting, Watching, Cleaning, Undoing
  <2>2. Moves(p, "record", job[p])  BY <1>3, <1>7, <2>1, Moving
  <2>3. Newcomers(p)' = Newcomers(p) /\ Ids(flock)' = Ids(flock) /\ roll' = roll
    BY <1>3, <1>7, <2>2, OrderedStays DEF Moves, Newcomers, shepherd, Ids
  <2>4. CutOf(p)'
    BY <1>4, <1>7, <2>1, <2>2, <2>3 DEF Moves, CutOf
  <2>5. \E kind \in Kind : Trouble(kind) \/ UNCHANGED left  BY <1>7, Kindly
  <2> QED  BY <1>2, <1>3, <1>5, <1>7, <2>1, <2>2, <2>4, <2>5, CutLooks
<1> QED  BY <1>6, <1>7 DEF DeleteOld

LEMMA RecordLandedReckons ==
  ASSUME Patient, IInv, Reckoning, NEW p \in Process, RecordLanded(p)
  PROVE  Reckoning' /\ Honest(p)
<1>1. Here(p)  BY AtHand
<1>2. pc[p] = "record" /\ UNCHANGED <<shepherd, watch>> /\ record' \in {record, "deployed"}
  BY DEF RecordLanded
<1>3. /\ TypeOK /\ TypeInv /\ Ordered /\ job[p] \in Job /\ pc[p] \in Cutting /\ CutOf(p)
      /\ pc[p] \in Cleaning /\ Asks(p) /\ pc[p] \notin {"idle"} \cup Emptying
  BY <1>1, <1>2 DEF Here, Cutting, Cleaning, Asks, Inside, Emptying
<1>4. /\ roll = "tree" /\ Newcomers(p) # {}
      /\ job[p].clean => job[p].previous \cap Ids(flock) = {}
  BY <1>2, <1>3 DEF CutOf, Cleaning
<1>5. \E kind \in Kind : Trouble(kind) \/ UNCHANGED left
  BY Kindly DEF RecordLanded, Kind
<1>6. CASE record' = "deployed" /\ job[p].clean /\ Continue(p, "auto", job[p])
  <2>1. /\ "auto" \in Places /\ "auto" \in Cutting \ {"describe"} /\ "auto" \in Cleaning
        /\ "auto" \notin Watching \cup Undoing
    BY DEF Places, Inside, Cutting, Watching, Cleaning, Undoing
  <2>2. Moves(p, "auto", job[p]) /\ told' = told
    BY <1>3, <1>6, <2>1, Continuing DEF Continue
  <2>3. Newcomers(p)' = Newcomers(p) /\ Ids(flock)' = Ids(flock) /\ roll' = roll
    BY <1>2, <1>3, <2>2, OrderedStays DEF Moves, Newcomers, shepherd, Ids
  <2>4. CutOf(p)'
    BY <1>4, <1>6, <2>1, <2>2, <2>3 DEF Moves, CutOf
  <2> QED  BY <1>2, <1>3, <1>5, <2>1, <2>2, <2>4, CutLooks
<1>7. CASE \E k \in {"stranded", "unrecorded"} : Report(p, Say(k))
  BY <1>2, <1>3, <1>5, <1>7, Plain
<1> QED  BY <1>6, <1>7 DEF RecordLanded, Promoted

LEMMA SetAutoReckons ==
  ASSUME Patient, IInv, Reckoning, NEW p \in Process, SetAuto(p)
  PROVE  Reckoning' /\ Honest(p)
<1>1. Here(p)  BY AtHand
<1>2. pc[p] = "auto" /\ UNCHANGED <<shepherd, record>>  BY DEF SetAuto, tree
<1>3. /\ TypeOK /\ Ordered /\ pc[p] \in Cutting /\ CutOf(p)
      /\ pc[p] \in Cleaning /\ Asks(p) /\ pc[p] \notin {"idle"} \cup Emptying
      /\ pc[p] \in Inside
  BY <1>1, <1>2 DEF Here, Cutting, Cleaning, Asks, Inside, Emptying
<1>4. /\ roll = "tree" /\ record = "deployed" /\ job[p].previous \cap Ids(flock) = {}
  BY <1>2, <1>3 DEF CutOf, Cleaning
<1>5. Ordered' /\ Listed' = Listed /\ flock' = flock /\ Listed # {} /\ roll' = roll
  BY <1>1, <1>2, <1>3, OrderedStays DEF shepherd, Here, Past
<1>6. ASSUME FirstInit PROVE AllFrom("tree")'
  <2>1. FirstOf(p)  BY <1>1, <1>2, <1>3, <1>6 DEF Here
  <2>2. \A r \in flock : r.id \in job[p].previous \/ r.from = "tree"
    BY <1>3, <2>1 DEF FirstOf
  <2> QED  BY <1>4, <1>5, <2>2 DEF AllFrom, Ids
<1>7. CASE UNCHANGED left /\ Report(p, Say("landed"))
  <2>1. Say("landed") \in Told /\ Say("landed") # NothingTold /\ Say("landed").kind = "landed"
    BY Kinded DEF Kinds
  <2>2. ReportIsSo(job[p], Say("landed"))
    BY <1>4, <1>5, <2>1 DEF ReportIsSo
  <2> QED  BY <1>2, <1>3, <1>4, <1>5, <1>6, <1>7, <2>1, <2>2, CutCloses DEF Kind
<1>8. CASE Trouble("refuse") /\ UNCHANGED watch /\ Report(p, Say("unrecorded"))
  BY <1>2, <1>3, <1>8, Plain DEF Kind
<1>9. CASE Trouble("lost") /\ Report(p, Say("unrecorded"))
  <2>1. /\ Say("unrecorded") \in Told /\ Say("unrecorded") # NothingTold
        /\ Say("unrecorded").kind = "unrecorded"
    BY Kinded DEF Kinds
  <2>2. ReportIsSo(job[p], Say("unrecorded"))  BY <2>1 DEF ReportIsSo
  <2> QED  BY <1>2, <1>3, <1>4, <1>5, <1>6, <1>9, <2>1, <2>2, CutCloses DEF Kind
<1> QED  BY <1>7, <1>8, <1>9 DEF SetAuto

LEMMA CutoverReckons ==
  ASSUME Patient, IInv, Reckoning, NEW p \in Process, Cutover(p)
  PROVE  Reckoning' /\ Honest(p)
  BY DescribeBeforeReckons, StartBesideReckons, ArriveReckons, DwellReckons,
     DeleteOldReckons, RecordLandedReckons, SetAutoReckons DEF Cutover

(* What an undo says of itself.                                            *)
LEMMA Undones ==
  ASSUME NEW removed \in BOOLEAN, NEW repaired \in BOOLEAN, NEW j,
         repaired => roll' = j.config,
         repaired /\ removed => Ids(flock') = j.previous
  PROVE  /\ Undone(removed, repaired) \in Told /\ Undone(removed, repaired) # NothingTold
         /\ ReportIsSo(j, Undone(removed, repaired))
<1> DEFINE t == Undone(removed, repaired)
<1>1. t.kind = "undone" /\ (t.repaired = repaired) /\ (t.removed = removed)
  BY DEF Undone
<1>2. t # NothingTold  BY DEF Undone, NothingTold
<1> HIDE DEF t
<1>3. ReportIsSo(j, t)
  <2>1. t.repaired => roll' = j.config  BY <1>1
  <2>2. t.repaired /\ t.removed => Ids(flock') = j.previous  BY <1>1
  <2> QED  BY <1>1, <2>1, <2>2 DEF ReportIsSo
<1> QED  BY <1>2, <1>3, Undoes DEF t

LEMMA UndoReckons ==
  ASSUME Patient, IInv, Reckoning, NEW p \in Process, Undo(p)
  PROVE  Reckoning' /\ Honest(p)
<1>1. Here(p)  BY AtHand
<1>2. /\ pc[p] = "undo" /\ UNCHANGED <<shepherd, watch, record>>
      /\ \E kind \in Kind : Trouble(kind) \/ UNCHANGED left
  BY Kindly DEF Undo, tree
<1>3. /\ TypeOK /\ TypeInv /\ Ordered /\ job[p] \in Job /\ pc[p] \in Cutting /\ CutOf(p)
      /\ pc[p] \in Undoing
  BY <1>1, <1>2 DEF Here, Cutting, Undoing
<1>4. Listed' = Listed /\ flock' = flock /\ Ids(Listed)' = Ids(Listed) /\ Ordered'
  BY <1>2, <1>3, OrderedStays DEF shepherd, Ids
<1>5. job[p].previous # {} /\ job[p].previous \subseteq Ids(Listed)
  BY <1>3 DEF CutOf
<1>6. ASSUME Continue(p, "drain", [job[p] EXCEPT !.todo = ToDrain(p), !.clean = TRUE])
      PROVE  Reckoning' /\ Honest(p)
  <2> DEFINE j == [job[p] EXCEPT !.todo = ToDrain(p), !.clean = TRUE]
  <2>1. ToDrain(p) \subseteq Nat  BY <1>3, Listing DEF ToDrain
  <2>2. j \in Job /\ j.cmd = job[p].cmd /\ j.previous = job[p].previous
    BY <1>3, <2>1 DEF Job
  <2>3. Continue(p, "drain", j)  BY <1>6
  <2> HIDE DEF j
  <2>4. /\ "drain" \in Places /\ "drain" \in Cutting \ {"describe"}
        /\ "drain" \notin Watching \cup Cleaning
    BY DEF Places, Inside, Cutting, Watching, Cleaning, Undoing
  <2>5. Moves(p, "drain", j) /\ told' = told
    BY <1>3, <2>2, <2>3, <2>4, Continuing DEF Continue
  <2>6. CutOf(p)'
    BY <1>4, <1>5, <2>2, <2>4, <2>5 DEF Moves, CutOf
  <2> QED  BY <1>2, <1>3, <2>2, <2>4, <2>5, <2>6, CutLooks
<1>7. CASE Report(p, Undone(FALSE, FALSE))
  <2>1. /\ Undone(FALSE, FALSE) \in Told /\ Undone(FALSE, FALSE) # NothingTold
        /\ ReportIsSo(job[p], Undone(FALSE, FALSE))
    BY Undones
  <2>2. Listed' # {}  BY <1>4, <1>5 DEF Ids
  <2> QED  BY <1>2, <1>3, <1>4, <1>7, <2>1, <2>2, CutCloses
<1> QED  BY <1>6, <1>7 DEF Undo

(* Originals outlive a delete that leaves them alone.                      *)
LEMMA Leaves ==
  ASSUME TypeOK, Ordered, NEW p \in Process, NEW id, id \notin job[p].previous,
         job[p].previous # {}, job[p].previous \subseteq Ids(Listed),
         Deletes(id) \/ UNCHANGED shepherd
  PROVE  /\ job[p].previous \subseteq Ids(Listed)' /\ Listed' # {} /\ roll' = roll
<1>1. /\ \A i \in Ids(Listed) : i # id => i \in Ids(Listed')
      /\ flock' # {} => roll' = roll
  BY OrderedLoses
<1>2. Ids(Listed)' = Ids(Listed')  BY DEF Ids
<1>3. job[p].previous \subseteq Ids(Listed')  BY <1>1
<1>4. Listed' # {} /\ flock' # {}  BY <1>3 DEF Ids, Listed
<1> QED  BY <1>1, <1>2, <1>3, <1>4

LEMMA DrainReckons ==
  ASSUME Patient, IInv, Reckoning, NEW p \in Process, Drain(p)
  PROVE  Reckoning' /\ Honest(p)
<1>1. Here(p)  BY AtHand
<1>2. pc[p] = "drain" /\ UNCHANGED <<watch, record, told>>  BY DEF Drain, tree
<1>3. /\ TypeOK /\ TypeInv /\ Ordered /\ job[p] \in Job /\ pc[p] \in Cutting /\ CutOf(p)
      /\ pc[p] \in Places /\ pc[p] \in Undoing /\ pc[p] # "describe"
  BY <1>1, <1>2 DEF Here, Cutting, Undoing, TypeOK
<1>4. /\ job[p].previous # {} /\ job[p].previous \subseteq Ids(Listed)
      /\ job[p].todo \cap job[p].previous = {}
  BY <1>1, <1>2, <1>3 DEF Here, CutOf, KeptBy
<1>5. "drain" \notin Watching \cup Cleaning \cup {"start"} \cup Starting \cup OnTheWay \cup Preparing
  BY DEF Watching, Cleaning, Starting, OnTheWay, Preparing
<1>6. CASE DeleteOne(p) /\ UNCHANGED pc
  <2>1. PICK id \in job[p].todo, j \in Job, kind \in Kind :
           /\ Moves(p, pc[p], j)
           /\ j.cmd = job[p].cmd /\ j.previous = job[p].previous
           /\ Trouble(kind) \/ UNCHANGED left
           /\ Deletes(id) \/ UNCHANGED shepherd
    BY <1>3, <1>6, DeletesOne
  <2>2. Ordered'  BY <1>3, <2>1, OrderedLoses
  <2>3. job[p].previous \subseteq Ids(Listed)' /\ Listed' # {}
    BY <1>3, <1>4, <2>1, Leaves
  <2>4. pc'[p] = "drain" /\ job'[p] = j  BY <1>2, <2>1 DEF Moves
  <2>5. CutOf(p)'  BY <1>4, <1>5, <2>1, <2>3, <2>4 DEF CutOf
  <2>6. FirstOf(p)'  BY <1>5, <2>4 DEF FirstOf
  <2> QED  BY <1>2, <1>3, <2>1, <2>2, <2>3, <2>5, <2>6, CutGoes
<1>7. CASE job[p].todo = {} /\ Goto(p, "repair") /\ UNCHANGED <<shepherd, job, left>>
  <2>1. /\ "repair" \in Places /\ "repair" \in Cutting \ {"describe"}
        /\ "repair" \notin Watching \cup Cleaning
    BY DEF Places, Inside, Cutting, Watching, Cleaning, Undoing
  <2>2. Moves(p, "repair", job[p])  BY <1>3, <1>7, <2>1, Moving
  <2>3. Ids(Listed)' = Ids(Listed)
    BY <1>3, <1>7, OrderedStays DEF Ids
  <2>4. CutOf(p)'  BY <1>4, <2>1, <2>2, <2>3 DEF Moves, CutOf
  <2>5. \E kind \in Kind : Trouble(kind) \/ UNCHANGED left  BY <1>7, Kindly
  <2> QED  BY <1>2, <1>3, <1>7, <2>1, <2>2, <2>4, <2>5, CutLooks
<1> QED  BY <1>6, <1>7 DEF Drain

LEMMA RepairReckons ==
  ASSUME Patient, IInv, Reckoning, NEW p \in Process, Repair(p)
  PROVE  Reckoning' /\ Honest(p)
<1>1. Here(p)  BY AtHand
<1>2. pc[p] = "repair" /\ UNCHANGED <<watch, record>>  BY DEF Repair, tree
<1>3. /\ TypeOK /\ TypeInv /\ Ordered /\ job[p] \in Job /\ pc[p] \in Cutting /\ CutOf(p)
      /\ pc[p] \in Undoing /\ pc[p] # "describe" /\ job[p].config \in Config
  BY <1>1, <1>2 DEF Here, Cutting, Undoing, RoleOf, Inside, Config
<1>4. job[p].previous # {} /\ job[p].previous \subseteq Ids(Listed)
  BY <1>3 DEF CutOf
<1>5. Listed # {}  BY <1>4 DEF Ids
<1>6. Undone(job[p].clean, FALSE) \in Told /\ Undone(job[p].clean, FALSE) # NothingTold
      /\ ReportIsSo(job[p], Undone(job[p].clean, FALSE))
  <2>1. job[p].clean \in BOOLEAN  BY <1>3 DEF Job
  <2> QED  BY <2>1, Undones
<1>7. ASSUME Starts(job[p].config), UNCHANGED left,
             Continue(p, "await", [job[p] EXCEPT !.repair = NewIds(job[p].config)])
      PROVE  Reckoning' /\ Honest(p)
  <2> DEFINE j == [job[p] EXCEPT !.repair = NewIds(job[p].config)]
  <2>1. /\ Ordered' /\ roll' = job[p].config /\ Listed' = Listed
        /\ (nextId' - 1) \in NewIds(job[p].config)
    BY <1>3, <1>7, OrderedStarts
  <2>2. NewIds(job[p].config) \subseteq Nat
    BY <1>3, InstancesAssumption DEF NewIds, TypeOK
  <2>3. /\ j \in Job /\ j.cmd = job[p].cmd /\ j.previous = job[p].previous
        /\ j.config = job[p].config /\ j.repair = NewIds(job[p].config)
    BY <1>3, <2>2 DEF Job
  <2>4. Continue(p, "await", j)  BY <1>7
  <2> HIDE DEF j
  <2>5. /\ "await" \in Places /\ "await" \in Cutting \ {"describe"}
        /\ "await" \notin Watching \cup Cleaning \cup Starting \cup OnTheWay \cup Preparing
    BY DEF Places, Inside, Cutting, Watching, Cleaning, Undoing, Starting, OnTheWay, Preparing
  <2>6. Moves(p, "await", j) /\ told' = told
    BY <1>3, <2>3, <2>4, <2>5, Continuing DEF Continue
  <2>7. Ids(Listed)' = Ids(Listed) /\ pc'[p] = "await" /\ job'[p] = j
    BY <2>1, <2>6 DEF Ids, Moves
  <2>8. CutOf(p)'  BY <1>4, <2>1, <2>3, <2>5, <2>7 DEF CutOf
  <2>9. FirstOf(p)'  BY <2>5, <2>7 DEF FirstOf
  <2>10. \E kind \in Kind : Trouble(kind) \/ UNCHANGED left  BY <1>7, Kindly
  <2> QED  BY <1>2, <1>3, <1>5, <2>1, <2>3, <2>5, <2>6, <2>8, <2>9, <2>10, CutGoes
<1>8. CASE /\ Trouble("refuse") /\ UNCHANGED shepherd
           /\ Report(p, Undone(job[p].clean, FALSE))
  <2>1. Ordered' /\ Listed' = Listed  BY <1>3, <1>8, OrderedStays
  <2> QED  BY <1>2, <1>3, <1>5, <1>6, <1>8, <2>1, CutCloses DEF Kind
<1>9. CASE /\ Trouble("lost") /\ Starts(job[p].config)
           /\ Report(p, Undone(job[p].clean, FALSE))
  <2>1. Ordered' /\ Listed' = Listed  BY <1>3, <1>9, OrderedStarts
  <2> QED  BY <1>2, <1>3, <1>5, <1>6, <1>9, <2>1, CutCloses DEF Kind
<1> QED  BY <1>7, <1>8, <1>9 DEF Repair, Errs

LEMMA AwaitRepairReckons ==
  ASSUME Patient, IInv, Reckoning, NEW p \in Process, AwaitRepair(p)
  PROVE  Reckoning' /\ Honest(p)
<1>1. Here(p)  BY AtHand
<1>2. /\ pc[p] = "await" /\ UNCHANGED <<shepherd, watch, record>>
      /\ \E kind \in Kind : Trouble(kind) \/ UNCHANGED left
  BY Kindly DEF AwaitRepair, tree
<1>3. /\ TypeOK /\ TypeInv /\ Ordered /\ job[p] \in Job /\ pc[p] \in Cutting /\ CutOf(p)
      /\ pc[p] \in Undoing
  BY <1>1, <1>2 DEF Here, Cutting, Undoing
<1>4. /\ Listed' = Listed /\ flock' = flock /\ roll' = roll /\ Ordered'
      /\ Ids(Listed)' = Ids(Listed) /\ Ids(flock)' = Ids(flock)
  BY <1>2, <1>3, OrderedStays DEF shepherd, Ids
<1>5. /\ job[p].previous # {} /\ job[p].previous \subseteq Ids(Listed)
      /\ roll = job[p].config /\ (nextId - 1) \in job[p].repair
  BY <1>2, <1>3 DEF CutOf
<1>6. ASSUME NEW clean \in BOOLEAN, clean => AllPresent(p),
             Continue(p, "drainRepair", [job[p] EXCEPT !.todo = ToDrain(p), !.clean = clean])
      PROVE  Reckoning' /\ Honest(p)
  <2> DEFINE j == [job[p] EXCEPT !.todo = ToDrain(p), !.clean = clean]
  <2>1. ToDrain(p) \subseteq Nat  BY <1>3, Listing DEF ToDrain
  <2>2. /\ j \in Job /\ j.cmd = job[p].cmd /\ j.previous = job[p].previous
        /\ j.config = job[p].config /\ j.todo = ToDrain(p) /\ j.clean = clean
    BY <1>3, <1>6, <2>1 DEF Job
  <2>3. Continue(p, "drainRepair", j)  BY <1>6
  <2> HIDE DEF j
  <2>4. /\ "drainRepair" \in Places /\ "drainRepair" \in Cutting \ {"describe"}
        /\ "drainRepair" \notin Watching \cup Cleaning
    BY DEF Places, Inside, Cutting, Watching, Cleaning, Undoing
  <2>5. Moves(p, "drainRepair", j) /\ told' = told
    BY <1>3, <2>2, <2>3, <2>4, Continuing DEF Continue
  <2>6. ASSUME clean PROVE Ids(flock) \ job[p].previous \subseteq ToDrain(p)
    <3>1. (nextId - 1) \in Ids(Listed)  BY <1>5, <1>6, <2>6 DEF AllPresent
    <3>2. Listed = flock  BY <1>3, <3>1, AllSpawned
    <3> QED  BY <3>2 DEF ToDrain
  <2>7. CutOf(p)'
    <3>1. pc'[p] = "drainRepair" /\ job'[p] = j  BY <2>5 DEF Moves
    <3> QED  BY <1>4, <1>5, <2>2, <2>4, <2>6, <3>1 DEF CutOf
  <2> QED  BY <1>2, <1>3, <2>2, <2>4, <2>5, <2>7, CutLooks
<1>7. CASE /\ AllPresent(p)
           /\ Continue(p, "drainRepair", [job[p] EXCEPT !.todo = ToDrain(p)])
  <2>1. /\ job[p].clean \in BOOLEAN
        /\ [job[p] EXCEPT !.todo = ToDrain(p), !.clean = job[p].clean]
             = [job[p] EXCEPT !.todo = ToDrain(p)]
    BY <1>3 DEF Job
  <2> QED  BY <1>6, <1>7, <2>1
<1>8. CASE Report(p, Undone(FALSE, TRUE))
  <2>1. /\ Undone(FALSE, TRUE) \in Told /\ Undone(FALSE, TRUE) # NothingTold
        /\ ReportIsSo(job[p], Undone(FALSE, TRUE))
    BY <1>4, <1>5, Undones
  <2>2. Listed' # {}  BY <1>4, <1>5 DEF Ids
  <2> QED  BY <1>2, <1>3, <1>4, <1>8, <2>1, <2>2, CutCloses
<1> QED  BY <1>6, <1>7, <1>8 DEF AwaitRepair

LEMMA DrainRepairReckons ==
  ASSUME Patient, IInv, Reckoning, NEW p \in Process, DrainRepair(p)
  PROVE  Reckoning' /\ Honest(p)
<1>1. Here(p)  BY AtHand
<1>2. pc[p] = "drainRepair" /\ UNCHANGED <<watch, record>>  BY DEF DrainRepair, tree
<1>3. /\ TypeOK /\ TypeInv /\ Ordered /\ job[p] \in Job /\ pc[p] \in Cutting /\ CutOf(p)
      /\ pc[p] \in Places /\ pc[p] \in Undoing /\ pc[p] # "describe"
  BY <1>1, <1>2 DEF Here, Cutting, Undoing, TypeOK
<1>4. /\ job[p].previous # {} /\ job[p].previous \subseteq Ids(Listed)
      /\ job[p].previous \subseteq Ids(flock)
      /\ job[p].todo \cap job[p].previous = {} /\ roll = job[p].config
      /\ job[p].clean => Ids(flock) \ job[p].previous \subseteq job[p].todo
  BY <1>1, <1>2, <1>3 DEF Here, CutOf, KeptBy
<1>5. "drainRepair" \notin Watching \cup Cleaning \cup {"start"} \cup Starting \cup OnTheWay \cup Preparing
  BY DEF Watching, Cleaning, Starting, OnTheWay, Preparing
<1>6. CASE DeleteOne(p) /\ UNCHANGED <<pc, lock, told>>
  <2>1. PICK id \in job[p].todo, j \in Job, kind \in Kind :
           /\ Moves(p, pc[p], j) /\ j.todo = job[p].todo \ {id}
           /\ j.cmd = job[p].cmd /\ j.previous = job[p].previous
           /\ j.config = job[p].config
           /\ Trouble(kind) \/ UNCHANGED left
           /\ Deletes(id) \/ UNCHANGED shepherd
           /\ j.clean => job[p].clean /\ Deletes(id)
    BY <1>3, <1>6, DeletesOne
  <2>2. /\ Ordered' /\ Ids(flock') \subseteq Ids(flock)
        /\ Deletes(id) => id \notin Ids(flock')
    BY <1>3, <2>1, OrderedLoses
  <2>3. job[p].previous \subseteq Ids(Listed)' /\ Listed' # {} /\ roll' = roll
    BY <1>3, <1>4, <2>1, Leaves
  <2>4. pc'[p] = "drainRepair" /\ job'[p] = j  BY <1>2, <2>1 DEF Moves
  <2>5. Ids(flock)' = Ids(flock')  BY DEF Ids
  <2>6. j.clean => Ids(flock') \ j.previous \subseteq j.todo
    BY <1>4, <2>1, <2>2
  <2>7. CutOf(p)'  BY <1>4, <1>5, <2>1, <2>3, <2>4, <2>5, <2>6 DEF CutOf
  <2>8. FirstOf(p)'  BY <1>5, <2>4 DEF FirstOf
  <2> QED  BY <1>2, <1>3, <1>6, <2>1, <2>2, <2>3, <2>7, <2>8, CutGoes
<1>7. CASE /\ job[p].todo = {} /\ UNCHANGED <<shepherd, left>>
           /\ Report(p, Undone(job[p].clean, TRUE))
  <2>1. job[p].clean \in BOOLEAN  BY <1>3 DEF Job
  <2>2. flock' = flock /\ roll' = roll /\ Ordered' /\ Listed' = Listed
    BY <1>3, <1>7, OrderedStays DEF shepherd
  <2>3. job[p].clean => Ids(flock') = job[p].previous  BY <1>4, <1>7, <2>2
  <2>4. /\ Undone(job[p].clean, TRUE) \in Told
        /\ Undone(job[p].clean, TRUE) # NothingTold
        /\ ReportIsSo(job[p], Undone(job[p].clean, TRUE))
    BY <1>4, <2>1, <2>2, <2>3, Undones
  <2>5. Listed' # {}  BY <1>4, <2>2 DEF Ids
  <2>6. \E kind \in Kind : Trouble(kind) \/ UNCHANGED left  BY <1>7, Kindly
  <2> QED  BY <1>2, <1>3, <1>7, <2>1, <2>2, <2>4, <2>5, <2>6, CutCloses
<1> QED  BY <1>6, <1>7 DEF DrainRepair

LEMMA UndoStartReckons ==
  ASSUME Patient, IInv, Reckoning, NEW p \in Process, UndoStart(p)
  PROVE  Reckoning' /\ Honest(p)
  BY UndoReckons, DrainReckons, RepairReckons, AwaitRepairReckons, DrainRepairReckons
     DEF UndoStart

-----------------------------------------------------------------------------
(* The way back.                                                           *)

LEMMA BackGoes ==
  ASSUME Patient, IInv, Reckoning, NEW p \in Process, pc[p] \in Restoring,
         NEW l \in Restoring, NEW j \in Job, Moves(p, l, j), told' = told,
         j.cmd = job[p].cmd, NEW kind \in Kind, Trouble(kind) \/ UNCHANGED left,
         record' = record, Ordered', RestoreOf(p)',
         flock' = {} => l \in Emptying \/ (flock = {} /\ pc[p] \notin Emptying)
  PROVE  Reckoning' /\ Honest(p)
<1>1. Here(p) /\ pc[p] # "idle" /\ Asks(p) /\ job[p].cmd = "remove"
  BY AtHand DEF Here, RoleOf, Asks, Restoring
<1>2. l \in Places \ {"idle"} /\ l \notin {"hold"} \cup Inside
  BY DEF Places, Inside, Preparing, Starting, Watching, Cleaning, Undoing, Restoring
<1>3. ~NoRemoval  BY <1>1 DEF Here, NoRemoval, Fresh
<1>4. CutOf(p)'
  BY DEF Moves, CutOf, Restoring, Watching, Cleaning, Undoing
<1> QED  BY <1>1, <1>2, <1>3, <1>4, Goes

LEMMA BackCloses ==
  ASSUME Patient, IInv, Reckoning, NEW p \in Process, pc[p] \in Restoring,
         NEW k \in Kinds \ {"none"}, Report(p, Say(k)),
         NEW kind \in Kind, Trouble(kind) \/ UNCHANGED left,
         record' = record, Ordered',
         flock' = {} /\ Unspent(Spent)' =>
           k \in {"gone", "partlyDeleted"} \/ (flock = {} /\ pc[p] \notin Emptying),
         Unspent({"lost"})' => ReportIsSo(job[p], Say(k))
  PROVE  Reckoning' /\ Honest(p)
<1>1. Here(p) /\ pc[p] # "idle" /\ Asks(p) /\ job[p].cmd = "remove"
  BY AtHand DEF Here, RoleOf, Asks, Restoring
<1>2. ~NoRemoval  BY <1>1 DEF Here, NoRemoval, Fresh
<1>3. Say(k) \in Told /\ Say(k) # NothingTold /\ Say(k).kind = k  BY Kinded
<1> QED  BY <1>1, <1>2, <1>3, Closes

(* A removal at work, and what an answer that was lost costs.              *)
LEMMA Returning ==
  ASSUME Patient, IInv, Reckoning, NEW p \in Process, pc[p] \in Restoring
  PROVE  /\ TypeOK /\ TypeInv /\ Ordered /\ job[p] \in Job /\ RestoreOf(p)
         /\ RoleOf(pc[p], job[p])
         /\ Trouble("lost") => ~Unspent(Spent)' /\ ~Unspent({"lost"})'
         /\ \A kind \in Kind : Trouble(kind) \/ UNCHANGED left =>
              (Unspent({"lost"})' => Unspent({"lost"}))
<1>1. Here(p)  BY AtHand
<1>2. Budgeted  BY <1>1 DEF Here
<1>3. Trouble("lost") => ~Unspent(Spent)' /\ ~Unspent({"lost"})'
  BY <1>2, Paying
<1>4. \A kind \in Kind : Trouble(kind) \/ UNCHANGED left =>
        (Unspent({"lost"})' => Unspent({"lost"}))
  BY <1>2, Paying DEF Kind
<1> QED  BY <1>1, <1>3, <1>4 DEF Here

LEMMA ReadRollReckons ==
  ASSUME Patient, IInv, Reckoning, NEW p \in Process, ReadRoll(p)
  PROVE  Reckoning' /\ Honest(p)
<1>1. /\ pc[p] = "roll" /\ UNCHANGED <<shepherd, watch, record>>
      /\ \E kind \in Kind : Trouble(kind) \/ UNCHANGED left
  BY Kindly DEF ReadRoll, tree
<1>2. pc[p] \in Restoring /\ pc[p] \notin {"idle"} \cup Emptying
  BY <1>1 DEF Restoring, Emptying
<1>3. /\ TypeOK /\ TypeInv /\ Ordered /\ job[p] \in Job /\ RestoreOf(p)
  BY <1>2, Returning
<1>4. Ordered' /\ Listed' = Listed /\ flock' = flock
  BY <1>1, <1>3, OrderedStays DEF shepherd
<1>5. ASSUME Continue(p, "read", [job[p] EXCEPT !.config = roll])
      PROVE  Reckoning' /\ Honest(p)
  <2> DEFINE j == [job[p] EXCEPT !.config = roll]
  <2>1. /\ j \in Job /\ j.cmd = job[p].cmd /\ j.previous = job[p].previous
        /\ j.deleted = job[p].deleted
    BY <1>3 DEF Job, TypeOK
  <2>2. Continue(p, "read", j)  BY <1>5
  <2> HIDE DEF j
  <2>3. "read" \in Places /\ "read" \in Restoring  BY DEF Places, Restoring
  <2>4. Moves(p, "read", j) /\ told' = told
    BY <1>3, <2>1, <2>2, <2>3, Continuing DEF Continue
  <2>5. RestoreOf(p)'
    BY <1>1, <1>3, <1>4, <2>1, <2>4 DEF Moves, RestoreOf
  <2> QED  BY <1>1, <1>2, <1>4, <2>1, <2>3, <2>4, <2>5, BackGoes
<1>6. CASE Report(p, Say("blocked"))
  BY <1>1, <1>2, <1>6, Plain
<1> QED  BY <1>5, <1>6 DEF ReadRoll

LEMMA ReadForRestoreReckons ==
  ASSUME Patient, IInv, Reckoning, NEW p \in Process, ReadForRestore(p)
  PROVE  Reckoning' /\ Honest(p)
<1>1. /\ pc[p] = "read" /\ UNCHANGED <<shepherd, watch, record>>
      /\ \E kind \in Kind : Trouble(kind) \/ UNCHANGED left
  BY Kindly DEF ReadForRestore, tree, Kind
<1>2. pc[p] \in Restoring /\ pc[p] \notin {"idle"} \cup Emptying
  BY <1>1 DEF Restoring, Emptying
<1>3. /\ TypeOK /\ TypeInv /\ Ordered /\ job[p] \in Job /\ RestoreOf(p)
  BY <1>2, Returning
<1>4. Ordered' /\ Listed' = Listed /\ flock' = flock
  BY <1>1, <1>3, OrderedStays DEF shepherd
<1>5. ASSUME Continue(p, "letGo", [job[p] EXCEPT !.never = TRUE])
      PROVE  Reckoning' /\ Honest(p)
  <2> DEFINE j == [job[p] EXCEPT !.never = TRUE]
  <2>1. j \in Job /\ j.cmd = job[p].cmd /\ j.never
    BY <1>3 DEF Job
  <2>2. Continue(p, "letGo", j)  BY <1>5
  <2> HIDE DEF j
  <2>3. "letGo" \in Places /\ "letGo" \in Restoring  BY DEF Places, Restoring
  <2>4. Moves(p, "letGo", j) /\ told' = told
    BY <1>3, <2>1, <2>2, <2>3, Continuing DEF Continue
  <2>5. RestoreOf(p)'
    BY <2>1, <2>4 DEF Moves, RestoreOf
  <2> QED  BY <1>1, <1>2, <1>4, <2>1, <2>3, <2>4, <2>5, BackGoes
<1>6. CASE Continue(p, "live", job[p])
  <2>1. "live" \in Places /\ "live" \in Restoring  BY DEF Places, Restoring
  <2>2. Moves(p, "live", job[p]) /\ told' = told
    BY <1>3, <1>6, <2>1, Continuing DEF Continue
  <2>3. RestoreOf(p)'
    BY <1>1, <1>3, <1>4, <2>2 DEF Moves, RestoreOf
  <2> QED  BY <1>1, <1>2, <1>3, <1>4, <2>1, <2>2, <2>3, BackGoes
<1>7. CASE Report(p, Say("untouched"))
  <2>1. job[p].previous = {}  BY <1>1, <1>3 DEF RestoreOf
  <2>2. "untouched" \in Kinds \ {"none"} /\ Say("untouched").kind = "untouched"
    BY Kinded DEF Kinds
  <2>3. ReportIsSo(job[p], Say("untouched"))  BY <2>1, <2>2 DEF ReportIsSo
  <2> QED  BY <1>1, <1>2, <1>4, <1>7, <2>2, <2>3, BackCloses
<1> QED  BY <1>5, <1>6, <1>7 DEF ReadForRestore

LEMMA DescribeLiveReckons ==
  ASSUME Patient, IInv, Reckoning, NEW p \in Process, DescribeLive(p)
  PROVE  Reckoning' /\ Honest(p)
<1>1. /\ pc[p] = "live" /\ UNCHANGED <<shepherd, watch, record>>
      /\ \E kind \in Kind : Trouble(kind) \/ UNCHANGED left
  BY Kindly DEF DescribeLive, tree
<1>2. pc[p] \in Restoring /\ pc[p] \notin {"idle"} \cup Emptying
  BY <1>1 DEF Restoring, Emptying
<1>3. /\ TypeOK /\ TypeInv /\ Ordered /\ job[p] \in Job /\ RestoreOf(p)
  BY <1>2, Returning
<1>4. Ordered' /\ Listed' = Listed /\ flock' = flock
  BY <1>1, <1>3, OrderedStays DEF shepherd
<1>5. job[p].previous = {} /\ ~job[p].deleted /\ Listed = flock
  BY <1>1, <1>3 DEF RestoreOf
<1>6. ASSUME Continue(p, "delete", [job[p] EXCEPT !.previous = Ids(Listed),
                                                  !.todo = Ids(Listed)])
      PROVE  Reckoning' /\ Honest(p)
  <2> DEFINE j == [job[p] EXCEPT !.previous = Ids(Listed), !.todo = Ids(Listed)]
  <2>1. Ids(Listed) \subseteq Nat  BY <1>3, Listing
  <2>2. /\ j \in Job /\ j.cmd = job[p].cmd /\ j.previous = Ids(Listed)
        /\ j.todo = Ids(Listed) /\ j.deleted = job[p].deleted
    BY <1>3, <2>1 DEF Job
  <2>3. Continue(p, "delete", j)  BY <1>6
  <2> HIDE DEF j
  <2>4. "delete" \in Places /\ "delete" \in Restoring /\ "delete" \in Emptying
    BY DEF Places, Restoring, Emptying
  <2>5. Moves(p, "delete", j) /\ told' = told
    BY <1>3, <2>2, <2>3, <2>4, Continuing DEF Continue
  <2>6. Ids(flock)' = Ids(Listed)  BY <1>4, <1>5 DEF Ids
  <2>7. j.deleted = FALSE  BY <1>3, <1>5, <2>2 DEF Job
  <2>8. RestoreOf(p)'
    BY <1>4, <1>5, <2>2, <2>5, <2>6, <2>7 DEF Moves, RestoreOf
  <2> QED  BY <1>1, <1>2, <1>4, <2>2, <2>4, <2>5, <2>8, BackGoes
<1>7. CASE Report(p, Say("untouched"))
  <2>1. "untouched" \in Kinds \ {"none"} /\ Say("untouched").kind = "untouched"
    BY Kinded DEF Kinds
  <2>2. ReportIsSo(job[p], Say("untouched"))  BY <1>5, <2>1 DEF ReportIsSo
  <2> QED  BY <1>1, <1>2, <1>4, <1>7, <2>1, <2>2, BackCloses
<1> QED  BY <1>6, <1>7 DEF DescribeLive

LEMMA DeleteLiveReckons ==
  ASSUME Patient, IInv, Reckoning, NEW p \in Process, DeleteLive(p)
  PROVE  Reckoning' /\ Honest(p)
<1>1. pc[p] = "delete" /\ record' = record  BY DEF DeleteLive, tree
<1>2. pc[p] \in Restoring  BY <1>1 DEF Restoring
<1>3. /\ TypeOK /\ TypeInv /\ Ordered /\ job[p] \in Job /\ RestoreOf(p)
      /\ Trouble("lost") => ~Unspent(Spent)' /\ ~Unspent({"lost"})'
  BY <1>2, Returning
<1>4. /\ Listed = flock /\ job[p].todo = Ids(flock) /\ job[p].todo \subseteq job[p].previous
      /\ job[p].deleted = (job[p].todo # job[p].previous)
  BY <1>1, <1>3 DEF RestoreOf
<1>5. ASSUME NEW id \in job[p].todo, Deletes(id), UNCHANGED left,
             Continue(p, "delete", [job[p] EXCEPT !.todo = @ \ {id}, !.deleted = TRUE])
      PROVE  Reckoning' /\ Honest(p)
  <2> DEFINE j == [job[p] EXCEPT !.todo = @ \ {id}, !.deleted = TRUE]
  <2>1. /\ j \in Job /\ j.cmd = job[p].cmd /\ j.previous = job[p].previous
        /\ j.todo = job[p].todo \ {id} /\ j.deleted = TRUE
    BY <1>3 DEF Job
  <2>2. Continue(p, "delete", j)  BY <1>5
  <2> HIDE DEF j
  <2>3. "delete" \in Places /\ "delete" \in Restoring /\ "delete" \in Emptying
    BY DEF Places, Restoring, Emptying
  <2>4. Moves(p, "delete", j) /\ told' = told
    BY <1>3, <2>1, <2>2, <2>3, Continuing DEF Continue
  <2>5. /\ Ordered' /\ Ids(flock') = Ids(flock) \ {id}
        /\ flock' \subseteq flock /\ \A r \in flock : r.id # id => r \in flock'
        /\ Listed' = {r \in Listed : r.id # id}
    BY <1>3, <1>5, OrderedDeletes
  <2>6. Ids(flock)' = Ids(flock')  BY DEF Ids
  <2>7. Listed' = flock'
    <3>1. \A r \in flock' : r.id # id  BY <2>5 DEF Ids
    <3> QED  BY <1>4, <2>5, <3>1
  <2>8. j.todo = Ids(flock') /\ j.todo \subseteq j.previous /\ j.todo # j.previous
    BY <1>4, <2>1, <2>5
  <2>9. RestoreOf(p)'
    BY <2>1, <2>4, <2>6, <2>7, <2>8 DEF Moves, RestoreOf
  <2>10. \E kind \in Kind : Trouble(kind) \/ UNCHANGED left  BY <1>5, Kindly
  <2> QED  BY <1>1, <1>2, <2>1, <2>3, <2>4, <2>5, <2>9, <2>10, BackGoes
<1>6. ASSUME NEW id \in job[p].todo, DeleteErrs(id),
             NEW k \in {"partlyDeleted", "untouched"}, Report(p, Say(k)),
             (k = "partlyDeleted") = job[p].deleted
      PROVE  Reckoning' /\ Honest(p)
  <2>1. k \in Kinds \ {"none"} /\ Say(k).kind = k  BY Kinded DEF Kinds
  <2>2. CASE Trouble("refuse") /\ UNCHANGED shepherd
    <3>1. Ordered' /\ flock' = flock  BY <1>3, <2>2, OrderedStays DEF shepherd
    <3>2. flock' # {}  BY <1>4, <3>1 DEF Ids
    <3>3. ReportIsSo(job[p], Say(k))
      <4>1. CASE k = "untouched"
        <5>1. job[p].previous \subseteq Ids(flock')  BY <1>4, <1>6, <3>1, <4>1
        <5> QED  BY <2>1, <4>1, <5>1 DEF ReportIsSo
      <4>2. CASE k = "partlyDeleted"
        <5>1. ~(job[p].previous \subseteq Ids(flock'))  BY <1>4, <1>6, <3>1, <4>2
        <5> QED  BY <2>1, <3>2, <4>2, <5>1 DEF ReportIsSo
      <4> QED  BY <4>1, <4>2
    <3> QED  BY <1>1, <1>2, <1>6, <2>1, <2>2, <3>1, <3>2, <3>3, BackCloses DEF Kind
  <2>3. CASE Trouble("lost") /\ Deletes(id)
    <3>1. Ordered'  BY <1>3, <2>3, OrderedDeletes
    <3> QED  BY <1>1, <1>2, <1>3, <1>6, <2>1, <2>3, <3>1, BackCloses DEF Kind
  <2> QED  BY <1>4, <1>6, <2>2, <2>3 DEF DeleteErrs, Errs
<1>7. CASE job[p].todo = {} /\ Continue(p, "putBack", job[p]) /\ UNCHANGED <<shepherd, left>>
  <2>1. "putBack" \in Places /\ "putBack" \in Restoring /\ "putBack" \in Emptying
    BY DEF Places, Restoring, Emptying
  <2>2. Moves(p, "putBack", job[p]) /\ told' = told
    BY <1>3, <1>7, <2>1, Continuing DEF Continue
  <2>3. Ordered' /\ flock' = flock  BY <1>3, <1>7, OrderedStays DEF shepherd
  <2>4. flock' = {}  BY <1>4, <1>7, <2>3 DEF Ids
  <2>5. RestoreOf(p)'  BY <2>2, <2>4 DEF Moves, RestoreOf
  <2>6. \E kind \in Kind : Trouble(kind) \/ UNCHANGED left  BY <1>7, Kindly
  <2> QED  BY <1>1, <1>2, <1>3, <2>1, <2>2, <2>3, <2>5, <2>6, BackGoes
<1>8. ASSUME NEW id \in job[p].todo, DeleteErrs(id),
             Report(p, Say(IF job[p].deleted THEN "partlyDeleted" ELSE "untouched"))
      PROVE  Reckoning' /\ Honest(p)
  <2>1. job[p].deleted \in BOOLEAN  BY <1>3 DEF Job
  <2>2. CASE job[p].deleted  BY <1>6, <1>8, <2>1, <2>2
  <2>3. CASE ~job[p].deleted  BY <1>6, <1>8, <2>1, <2>3
  <2> QED  BY <2>2, <2>3
<1> QED  BY <1>5, <1>7, <1>8 DEF DeleteLive

LEMMA PutBackReckons ==
  ASSUME Patient, IInv, Reckoning, NEW p \in Process, PutBack(p)
  PROVE  Reckoning' /\ Honest(p)
<1>1. pc[p] = "putBack" /\ record' = record  BY DEF PutBack, tree
<1>2. pc[p] \in Restoring /\ "own" \in Config  BY <1>1 DEF Restoring, Config
<1>3. /\ TypeOK /\ TypeInv /\ Ordered /\ job[p] \in Job /\ flock = {}
      /\ Trouble("lost") => ~Unspent(Spent)' /\ ~Unspent({"lost"})'
  BY <1>1, <1>2, Returning DEF RestoreOf
<1>4. ASSUME Starts("own") PROVE Ordered' /\ flock' # {} /\ roll' = "own" /\ AllFrom("own")'
  BY <1>2, <1>3, <1>4, OrderedStarts DEF AllFrom
<1>5. CASE Starts("own") /\ Continue(p, "letGo", job[p]) /\ UNCHANGED left
  <2>1. "letGo" \in Places /\ "letGo" \in Restoring  BY DEF Places, Restoring
  <2>2. Moves(p, "letGo", job[p]) /\ told' = told
    BY <1>3, <1>5, <2>1, Continuing DEF Continue
  <2>3. RestoreOf(p)'  BY <1>4, <1>5, <2>2 DEF Moves, RestoreOf, AllFrom
  <2>4. \E kind \in Kind : Trouble(kind) \/ UNCHANGED left  BY <1>5, Kindly
  <2> QED  BY <1>1, <1>2, <1>3, <1>4, <1>5, <2>1, <2>2, <2>3, <2>4, BackGoes
<1>6. CASE Errs(Starts("own")) /\ Continue(p, "fallback", job[p])
  <2>1. "fallback" \in Places /\ "fallback" \in Restoring /\ "fallback" \in Emptying
    BY DEF Places, Restoring, Emptying
  <2>2. Moves(p, "fallback", job[p]) /\ told' = told
    BY <1>3, <1>6, <2>1, Continuing DEF Continue
  <2>3. CASE Trouble("refuse") /\ UNCHANGED shepherd
    <3>1. Ordered' /\ flock' = {}  BY <1>3, <2>3, OrderedStays DEF shepherd
    <3>2. RestoreOf(p)'  BY <2>2, <3>1 DEF Moves, RestoreOf
    <3> QED  BY <1>1, <1>2, <1>3, <2>1, <2>2, <2>3, <3>1, <3>2, BackGoes DEF Kind
  <2>4. CASE Trouble("lost") /\ Starts("own")
    <3>1. RestoreOf(p)'  BY <1>3, <2>2, <2>4 DEF Moves, RestoreOf
    <3> QED  BY <1>1, <1>2, <1>3, <1>4, <2>1, <2>2, <2>4, <3>1, BackGoes DEF Kind
  <2> QED  BY <1>6, <2>3, <2>4 DEF Errs
<1> QED  BY <1>5, <1>6 DEF PutBack

LEMMA FallbackReckons ==
  ASSUME Patient, IInv, Reckoning, NEW p \in Process, Fallback(p)
  PROVE  Reckoning' /\ Honest(p)
<1>1. pc[p] = "fallback" /\ record' = record  BY DEF Fallback, tree
<1>2. pc[p] \in Restoring  BY <1>1 DEF Restoring
<1>3. /\ TypeOK /\ Ordered /\ RestoreOf(p) /\ job[p].config \in Config
      /\ Trouble("lost") => ~Unspent(Spent)' /\ ~Unspent({"lost"})'
      /\ \A kind \in Kind : Trouble(kind) \/ UNCHANGED left =>
           (Unspent({"lost"})' => Unspent({"lost"}))
  BY <1>1, <1>2, Returning DEF RoleOf
<1>4. /\ "reset" \in Kinds \ {"none"} /\ Say("reset").kind = "reset"
      /\ "gone" \in Kinds \ {"none"} /\ Say("gone").kind = "gone"
  BY Kinded DEF Kinds
<1>5. ASSUME Starts(job[p].config)
      PROVE  Ordered' /\ flock' # {} /\ roll' = job[p].config
  BY <1>3, <1>5, OrderedStarts
<1>6. CASE Starts(job[p].config) /\ UNCHANGED left /\ Report(p, Say("reset"))
  <2>1. ReportIsSo(job[p], Say("reset"))  BY <1>4, <1>5, <1>6 DEF ReportIsSo
  <2> QED  BY <1>1, <1>2, <1>4, <1>5, <1>6, <2>1, BackCloses DEF Kind
<1>7. CASE Trouble("refuse") /\ UNCHANGED shepherd /\ Report(p, Say("gone"))
  <2>1. Ordered' /\ flock' = flock  BY <1>3, <1>7, OrderedStays DEF shepherd
  <2>2. ASSUME Unspent({"lost"})' PROVE ReportIsSo(job[p], Say("gone"))
    <3>1. Unspent({"lost"})  BY <1>3, <1>7, <2>2 DEF Kind
    <3>2. flock' = {} /\ roll' = "none"  BY <1>1, <1>3, <2>1, <3>1 DEF RestoreOf, Ordered
    <3> QED  BY <1>4, <3>2 DEF ReportIsSo
  <2> QED  BY <1>1, <1>2, <1>4, <1>7, <2>1, <2>2, BackCloses DEF Kind
<1>8. CASE Trouble("lost") /\ Starts(job[p].config) /\ Report(p, Say("gone"))
  BY <1>1, <1>2, <1>3, <1>4, <1>5, <1>8, BackCloses DEF Kind
<1> QED  BY <1>6, <1>7, <1>8 DEF Fallback, Errs

LEMMA LetGoReckons ==
  ASSUME Patient, IInv, Reckoning, NEW p \in Process, LetGo(p)
  PROVE  Reckoning' /\ Honest(p)
<1>1. /\ pc[p] = "letGo" /\ UNCHANGED <<shepherd, watch, record>>
      /\ \E kind \in Kind : Trouble(kind) \/ UNCHANGED left
      /\ Report(p, Say(IF job[p].never THEN "neverMoved" ELSE "returned"))
  BY DEF LetGo, Kind
<1>2. pc[p] \in Restoring /\ pc[p] \notin {"idle"} \cup Emptying
  BY <1>1 DEF Restoring, Emptying
<1>3. Ordered /\ RestoreOf(p)  BY <1>2, Returning
<1>4. CASE job[p].never  BY <1>1, <1>2, <1>4, Plain
<1>5. CASE ~job[p].never
  <2>1. roll = "own" /\ \A r \in flock : r.from = "own"
    BY <1>1, <1>3, <1>5 DEF RestoreOf
  <2>2. Ordered' /\ flock' = flock /\ roll' = roll
    BY <1>1, <1>3, OrderedStays DEF shepherd
  <2>3. "returned" \in Kinds \ {"none"} /\ Say("returned").kind = "returned"
    BY Kinded DEF Kinds
  <2>4. ReportIsSo(job[p], Say("returned"))  BY <2>1, <2>2, <2>3 DEF ReportIsSo
  <2> QED  BY <1>1, <1>2, <1>5, <2>2, <2>3, <2>4, BackCloses
<1> QED  BY <1>4, <1>5

LEMMA RestoreReckons ==
  ASSUME Patient, IInv, Reckoning, NEW p \in Process, Restore(p)
  PROVE  Reckoning' /\ Honest(p)
  BY ReadRollReckons, ReadForRestoreReckons, DescribeLiveReckons, DeleteLiveReckons,
     PutBackReckons, FallbackReckons, LetGoReckons DEF Restore

-----------------------------------------------------------------------------
(* A command begins; the shepherd works; a command is killed.              *)

LEMMA StartInitReckons ==
  ASSUME Patient, IInv, Reckoning, NEW p \in Process, StartInit(p)
  PROVE  Reckoning' /\ Honest(p)
<1>1. /\ pc[p] = "idle" /\ told[p] = NothingTold /\ Command[p] = "init"
      /\ UNCHANGED <<shepherd, watch, record, left, told>>
      /\ Continue(p, "registered", [NoJob EXCEPT !.cmd = "init"])
  BY DEF StartInit, Fresh, Continue, tree
<1>2. /\ TypeInv /\ TypeOK /\ Ordered /\ Budgeted /\ Past /\ Noticed /\ Whole
      /\ \A q \in Process : CutOf(q) /\ RestoreOf(q)
  BY DEF IInv, TypeInv, Reckoning
<1> DEFINE j == [NoJob EXCEPT !.cmd = "init"]
<1>3. j \in Job /\ j.cmd = "init"  BY Idles DEF NoJob, Job
<1>4. Continue(p, "registered", j)  BY <1>1
<1> HIDE DEF j
<1>5. "registered" \in Places  BY DEF Places
<1>6. Moves(p, "registered", j)  BY <1>2, <1>3, <1>4, <1>5, Continuing
<1>7. /\ pc'[p] = "registered" /\ job'[p] = j
      /\ \A q \in Process : q # p => pc'[q] = pc[q] /\ job'[q] = job[q]
  BY <1>6 DEF Moves
<1>8. /\ Ordered' /\ Budgeted' /\ Listed' = Listed /\ flock' = flock
      /\ Unspent(Spent)' = Unspent(Spent) /\ roll' = roll
  BY <1>1, <1>2, OrderedStays DEF shepherd, Budgeted, Unspent
<1>9. /\ \A q \in Process : q # p => Fresh(q)' = Fresh(q)
      /\ NoRemoval' = NoRemoval
  <2>1. \A q \in Process : q # p => Fresh(q)' = Fresh(q)
    BY <1>1, <1>7 DEF Fresh
  <2> QED  BY <1>1, <2>1 DEF NoRemoval
<1>10. Past'
  BY <1>1, <1>2, <1>3, <1>7, <1>8, <1>9 DEF Past, Inside, Preparing, Starting, Watching, Cleaning, Undoing
<1>11. ASSUME NEW q \in Process PROVE CutOf(q)' /\ RestoreOf(q)'
  <2>1. CASE q = p
    BY <1>7, <2>1 DEF CutOf, RestoreOf, Watching, Cleaning, Undoing
  <2>2. CASE q # p
    <3>1. CutOf(q)'
      BY <1>1, <1>2, <1>7, <1>8, <2>2 DEF CutOf, Ids, shepherd, Newcomers
    <3>2. RestoreOf(q)'
      BY <1>1, <1>2, <1>7, <1>8, <2>2 DEF RestoreOf, Ids, Unspent
    <3> QED  BY <3>1, <3>2
  <2> QED  BY <2>1, <2>2
<1>12. Noticed'
  BY <1>1, <1>2, <1>7, <1>8 DEF Noticed, Admits, Emptying, NothingTold
<1>13. Whole'
  <2> SUFFICES ASSUME FirstInit', NoRemoval
      PROVE  /\ ~ \A q \in Process : Fresh(q)'
             /\ \A q \in Process : FirstOf(q)'
             /\ watch' # "auto"
    BY <1>9 DEF Whole
  <2>1. ~Fresh(p)'  BY <1>7 DEF Fresh
  <2>2. \A q \in Process : q # p => Fresh(q)
    BY <1>1, <1>9, <2>1, CommandAssumption DEF FirstInit, NoRemoval
  <2>3. \A q \in Process : Fresh(q)  BY <1>1, <2>2 DEF Fresh
  <2>4. FirstInit  BY <2>3 DEF FirstInit
  <2>5. Listed = flock /\ AllFrom("own") /\ Listed # {}
    BY <1>2, <2>3, <2>4 DEF Whole, Past
  <2>6. watch' # "auto"
    <3>1. watch = "auto" => AllFrom("tree")  BY <1>2, <2>4 DEF Whole
    <3> QED  BY <1>1, <2>5, <3>1 DEF AllFrom
  <2>7. FirstOf(p)'
    BY <1>7, <1>8, <2>5 DEF FirstOf, AllFrom, Watching, Cleaning
  <2>8. \A q \in Process : q # p => FirstOf(q)'
    BY <1>7, <2>2 DEF Fresh, FirstOf, OnTheWay, Preparing, Starting, Watching, Cleaning
  <2> QED  BY <2>1, <2>6, <2>7, <2>8
<1>14. Honest(p)  BY <1>1, <1>7 DEF Honest
<1> QED  BY <1>8, <1>10, <1>11, <1>12, <1>13, <1>14 DEF Reckoning

LEMMA StartRemoveReckons ==
  ASSUME Patient, IInv, Reckoning, NEW p \in Process, StartRemove(p)
  PROVE  Reckoning' /\ Honest(p)
<1>1. /\ pc[p] = "idle" /\ told[p] = NothingTold /\ Command[p] = "remove"
      /\ record # "absent" /\ Running("init") = {} /\ Running("remove") = {}
      /\ Listed = flock
      /\ UNCHANGED <<shepherd, watch, record, left, told>>
      /\ Continue(p, "roll", [NoJob EXCEPT !.cmd = "remove"])
  BY DEF StartRemove, Fresh, Continue, tree
<1>2. /\ TypeInv /\ TypeOK /\ Ordered /\ Budgeted /\ Past /\ Noticed
      /\ \A q \in Process : CutOf(q) /\ RestoreOf(q) /\ RoleOf(pc[q], job[q])
  BY DEF IInv, TypeInv, Reckoning
<1> DEFINE j == [NoJob EXCEPT !.cmd = "remove"]
<1>3. j \in Job /\ j.cmd = "remove" /\ j.previous = {} /\ ~j.deleted
  BY Idles DEF NoJob, Job
<1>4. Continue(p, "roll", j)  BY <1>1
<1> HIDE DEF j
<1>5. "roll" \in Places  BY DEF Places, Restoring
<1>6. Moves(p, "roll", j)  BY <1>2, <1>3, <1>4, <1>5, Continuing
<1>7. /\ pc'[p] = "roll" /\ job'[p] = j
      /\ \A q \in Process : q # p => pc'[q] = pc[q] /\ job'[q] = job[q]
  BY <1>6 DEF Moves
<1>8. /\ Ordered' /\ Budgeted' /\ Listed' = Listed /\ flock' = flock
      /\ Unspent(Spent)' = Unspent(Spent) /\ roll' = roll
  BY <1>1, <1>2, OrderedStays DEF shepherd, Budgeted, Unspent
<1>9. ~NoRemoval'  BY <1>1, <1>7 DEF NoRemoval, Fresh
<1>10. \A q \in Process : pc[q] \notin {"hold"} \cup Inside
  BY <1>1, <1>2 DEF Running, RoleOf, OnTheWay
<1>11. Past'
  BY <1>1, <1>2, <1>3, <1>7, <1>9, <1>10
     DEF Past, Inside, Preparing, Starting, Watching, Cleaning, Undoing
<1>12. ASSUME NEW q \in Process PROVE CutOf(q)' /\ RestoreOf(q)'
  <2>1. CASE q = p
    BY <1>1, <1>3, <1>7, <1>8, <2>1 DEF CutOf, RestoreOf, Watching, Cleaning, Undoing
  <2>2. CASE q # p
    <3>1. CutOf(q)'
      BY <1>1, <1>2, <1>7, <1>8, <2>2 DEF CutOf, Ids, shepherd, Newcomers
    <3>2. RestoreOf(q)'
      BY <1>1, <1>2, <1>7, <1>8, <2>2 DEF RestoreOf, Ids, Unspent
    <3> QED  BY <3>1, <3>2
  <2> QED  BY <2>1, <2>2
<1>13. Noticed'
  BY <1>1, <1>2, <1>7, <1>8 DEF Noticed, Admits, Emptying, NothingTold
<1>14. Whole'  BY <1>9 DEF Whole
<1>15. Honest(p)  BY <1>1, <1>7 DEF Honest
<1> QED  BY <1>8, <1>11, <1>12, <1>13, <1>14, <1>15 DEF Reckoning

(* The shepherd spawns the oldest row it has accepted, or a row's instance *)
(* dies or is restarted: a row takes the place of itself.                  *)
LEMMA ShepherdReckons ==
  ASSUME Reckoning, TypeOK, Shepherd
  PROVE  Reckoning' /\ UNCHANGED <<told, pc>>
<1>1. /\ UNCHANGED <<nextId, roll, watch, record, pc, job, told>>
      /\ \E kind \in Kind : Trouble(kind) \/ UNCHANGED left
  BY DEF Shepherd, Spawn, Die, Respawn, Kind, tree
<1> DEFINE Replaces(r, s) ==
             /\ flock' = (flock \ {r}) \cup {s} /\ s.id = r.id /\ s.from = r.from
             /\ s.life # "accepted"
             /\ r.life = "accepted" =>
                  \A other \in flock : other.life = "accepted" => r.id <= other.id
<1>2. \E r \in flock : \E s : Replaces(r, s)
  <2>1. \A r \in flock, life \in {"up", "dead"} :
          /\ [r EXCEPT !.life = life].id = r.id /\ [r EXCEPT !.life = life].from = r.from
          /\ [r EXCEPT !.life = life].life = life
    BY DEF TypeOK, Row
  <2>2. ASSUME NEW r \in flock
        PROVE  LET s == [r EXCEPT !.life = "up", !.restarts = @ + 1]
               IN  s.id = r.id /\ s.from = r.from /\ s.life = "up"
    BY DEF TypeOK, Row
  <2>3. CASE Spawn  BY <2>1, <2>3 DEF Spawn
  <2>4. CASE Die  BY <2>1, <2>4 DEF Die
  <2>5. CASE Respawn  BY <2>2, <2>5 DEF Respawn
  <2> QED  BY <2>3, <2>4, <2>5 DEF Shepherd
<1>3. PICK r \in flock : \E s : Replaces(r, s)  BY <1>2
<1>4. PICK s : Replaces(r, s)  BY <1>3
<1>5. /\ Ordered /\ Budgeted /\ Past /\ Noticed /\ Whole
      /\ \A q \in Process : CutOf(q) /\ RestoreOf(q)
  BY DEF Reckoning
<1>6. Budgeted' /\ (Unspent(Spent)' => Unspent(Spent))
      /\ (Unspent({"lost"})' => Unspent({"lost"}))
  BY <1>1, <1>5, Paying DEF Kind
<1>7. Ids(flock') = Ids(flock) /\ flock' # {} /\ flock # {}
  BY <1>4 DEF Ids
<1>8. \A x \in Listed : x \in Listed' \/ (x = r /\ s \in Listed')
  BY <1>4 DEF Listed
<1>9. Ids(Listed) \subseteq Ids(Listed')
  BY <1>4, <1>8 DEF Ids
<1>10. Listed = flock => Listed' = flock'
  BY <1>4 DEF Listed
<1>11. \A x \in flock' : \E y \in flock : x.id = y.id /\ x.from = y.from
  BY <1>4
<1>12. Ordered'
  <2>1. IsFiniteSet(flock')
    <3>1. IsFiniteSet(flock \ {r})  BY <1>5, FS_Subset DEF Ordered
    <3> QED  BY <1>4, <3>1, FS_AddElement
  <2>2. \A x \in flock \ {r} : x.id # r.id  BY <1>5 DEF Ordered
  <2>3. \A x, y \in flock' : x.id = y.id => x = y
    BY <1>4, <1>5, <2>2 DEF Ordered
  <2>4. \A x \in flock' : x.id < nextId'
    BY <1>1, <1>4, <1>5 DEF Ordered
  <2>5. ASSUME NEW x \in flock', NEW y \in flock', x.life # "accepted", y.life = "accepted"
        PROVE  x.id < y.id
    <3>1. y \in flock /\ y # r  BY <1>4, <2>5
    <3>2. CASE x \in flock  BY <1>5, <2>5, <3>1, <3>2 DEF Ordered
    <3>3. CASE x = s
      <4>1. CASE r.life = "accepted"
        <5>1. r.id <= y.id /\ r.id # y.id  BY <1>4, <2>2, <2>5, <3>1, <4>1
        <5>2. r.id \in Nat /\ y.id \in Nat  BY <3>1 DEF TypeOK, Row
        <5> QED  BY <1>4, <3>3, <5>1, <5>2
      <4>2. CASE r.life # "accepted"
        BY <1>4, <1>5, <2>5, <3>1, <3>3, <4>2 DEF Ordered
      <4> QED  BY <4>1, <4>2
    <3> QED  BY <1>4, <3>2, <3>3
  <2>6. (roll' = "none") = (flock' = {})  BY <1>1, <1>5, <1>7 DEF Ordered
  <2> QED  BY <2>1, <2>3, <2>4, <2>5, <2>6 DEF Ordered
<1>13. NoRemoval' = NoRemoval /\ FirstInit' = FirstInit /\ \A q \in Process : Fresh(q)' = Fresh(q)
  BY <1>1 DEF NoRemoval, FirstInit, Fresh
<1>14. Past'
  <2>1. Listed # {} => Listed' # {}  BY <1>8
  <2> QED  BY <1>1, <1>5, <1>13, <2>1 DEF Past
<1>15. Noticed'  BY <1>7 DEF Noticed
<1>16. Ids(flock)' = Ids(flock) /\ Ids(Listed) \subseteq Ids(Listed)'
  BY <1>7, <1>9 DEF Ids
<1>17. ASSUME NEW q \in Process PROVE CutOf(q)'
  <2>1. Newcomers(q) # {} => Newcomers(q)' # {}
    BY <1>1, <1>4, <1>8 DEF Newcomers
  <2> QED  BY <1>1, <1>5, <1>16, <2>1 DEF CutOf
<1>18. ASSUME NEW q \in Process PROVE RestoreOf(q)'
  <2>1. RestoreOf(q)  BY <1>5
  <2>2. (\A x \in flock : x.from = "own") => \A x \in flock' : x.from = "own"
    BY <1>11
  <2> QED  BY <1>1, <1>6, <1>7, <1>10, <1>16, <2>1, <2>2 DEF RestoreOf
<1>19. Whole'
  <2>1. \A c \in {"own", "tree"} : AllFrom(c) => AllFrom(c)'
    BY <1>11 DEF AllFrom
  <2>2. ASSUME NEW q \in Process, FirstOf(q) PROVE FirstOf(q)'
    <3>1. (\A x \in flock : x.id \in job[q].previous \/ x.from = "tree") =>
            \A x \in flock' : x.id \in job[q].previous \/ x.from = "tree"
      BY <1>11
    <3> QED  BY <1>1, <1>10, <1>16, <2>1, <2>2, <3>1 DEF FirstOf
  <2> QED  BY <1>1, <1>5, <1>10, <1>13, <2>1, <2>2 DEF Whole
<1> QED  BY <1>1, <1>6, <1>12, <1>14, <1>15, <1>17, <1>18, <1>19 DEF Reckoning

LEMMA CrashReckons ==
  ASSUME Patient, IInv, Reckoning, NEW p \in Process, Crash(p)
  PROVE  Reckoning' /\ Honest(p)
<1>1. /\ pc[p] # "idle" /\ Trouble("crash") /\ Report(p, Say("killed"))
      /\ UNCHANGED <<shepherd, watch, record>>
  BY DEF Crash, tree
<1>2. Here(p)  BY AtHand
<1>3. Ordered' /\ Listed' = Listed /\ flock' = flock
  BY <1>1, <1>2, OrderedStays DEF Here, shepherd
<1>4. ~Unspent(Spent)'  BY <1>1, <1>2, Paying DEF Here
<1>5. /\ Say("killed") \in Told /\ Say("killed") # NothingTold /\ Say("killed").kind = "killed"
  BY Kinded DEF Kinds
<1>6. ReportIsSo(job[p], Say("killed"))  BY <1>5 DEF ReportIsSo
<1>7. NoRemoval => Listed' # {}  BY <1>2, <1>3 DEF Here, Past
<1>8. FirstInit /\ NoRemoval => watch' # "auto"  BY <1>1, <1>2 DEF Here
<1> QED  BY <1>1, <1>3, <1>4, <1>5, <1>6, <1>7, <1>8, Closes DEF Kind

-----------------------------------------------------------------------------
(* The invariant, and what follows where the dog is removed in peace.      *)

LEMMA InitReckons == Init => Reckoning
<1> SUFFICES ASSUME Init PROVE Reckoning  OBVIOUS
<1> DEFINE n == Instances["own"]
           Row0(i) == [id |-> i, from |-> "own", life |-> "up", restarts |-> 0]
<1>1. n \in Nat /\ n > 0 /\ Bounds \in BoundsType
  BY InstancesAssumption, BoundsAssumption DEF Config
<1>2. flock = {Row0(i) : i \in 0 .. (n - 1)} /\ nextId = n  BY DEF Init
<1>3. \A r \in flock : /\ r.id \in 0 .. (n - 1) /\ r = Row0(r.id) /\ r.from = "own"
                       /\ r.life = "up"
  BY <1>2
<1>4. Row0(0) \in flock  BY <1>1, <1>2
<1>5. IsFiniteSet(flock)
  <2>1. IsFiniteSet(0 .. (n - 1))  BY <1>1, FS_Interval
  <2> DEFINE f == [i \in 0 .. (n - 1) |-> Row0(i)]
  <2>2. f \in Surjection(0 .. (n - 1), flock)  BY <1>2 DEF Surjection
  <2> QED  BY <2>1, <2>2, FS_Surjection
<1> HIDE DEF n, Row0
<1>6. \A r, s \in flock : r.id = s.id => r = s  BY <1>3
<1>7. \A r \in flock : r.id < nextId  BY <1>1, <1>2, <1>3
<1>8. roll = "own" /\ flock # {}  BY <1>4 DEF Init
<1>9. Ordered  BY <1>3, <1>5, <1>6, <1>7, <1>8 DEF Ordered
<1>10. Budgeted
  <2>1. left = Bounds /\ Bounds.crash \in Nat /\ Bounds.lost \in Nat
    BY <1>1 DEF Init, BoundsType
  <2> QED  BY <1>1, <2>1 DEF Budgeted, Spent
<1>11. \A p \in Process : pc[p] = "idle" /\ Fresh(p)  BY DEF Init, Fresh
<1>12. Listed = flock /\ AllFrom("own")  BY <1>3 DEF Listed, AllFrom
<1>13. Past  BY <1>8, <1>11, <1>12 DEF Past, NoRemoval
<1>14. Noticed  BY <1>8 DEF Noticed
<1>15. \A p \in Process : CutOf(p) /\ RestoreOf(p) /\ FirstOf(p)
  BY <1>11 DEF CutOf, RestoreOf, FirstOf, OnTheWay, Preparing, Starting, Watching,
     Cleaning, Undoing
<1>16. Whole  BY <1>12, <1>15 DEF Whole, Init
<1> QED  BY <1>9, <1>10, <1>13, <1>14, <1>15, <1>16 DEF Reckoning

LEMMA ProceedsReckons ==
  ASSUME Patient, IInv, Reckoning, NEW p \in Process,
         StartInit(p) \/ StartRemove(p) \/ Proceeds(p) \/ Crash(p)
  PROVE  Reckoning' /\ Honest(p)
  BY StartInitReckons, StartRemoveReckons, PrepareReckons, CutoverReckons,
     UndoStartReckons, RestoreReckons, CrashReckons DEF Proceeds

LEMMA NextReckons ==
  ASSUME Patient, IInv, Reckoning, [Next]_vars
  PROVE  Reckoning'
<1>1. TypeOK  BY DEF IInv, TypeInv
<1>2. CASE Next  BY <1>1, <1>2, ProceedsReckons, ShepherdReckons DEF Next
<1>3. CASE UNCHANGED vars
  <2>1. UNCHANGED <<flock, nextId, roll, watch, record, pc, job, told, left>>
    BY <1>3 DEF vars, shepherd, tree
  <2>2. /\ Ordered /\ Budgeted /\ Past /\ Noticed /\ Whole
        /\ \A q \in Process : CutOf(q) /\ RestoreOf(q)
    BY DEF Reckoning
  <2>3. Ordered' /\ Listed' = Listed /\ flock' = flock  BY <2>1, <2>2 DEF Ordered, Listed
  <2>4. /\ \A q \in Process : Fresh(q)' = Fresh(q) /\ Admits(q)' = Admits(q)
        /\ NoRemoval' = NoRemoval /\ FirstInit' = FirstInit
        /\ Unspent(Spent)' = Unspent(Spent) /\ Unspent({"lost"})' = Unspent({"lost"})
    BY <2>1 DEF Fresh, NoRemoval, FirstInit, Unspent, Admits
  <2>5. Budgeted' /\ Past' /\ Noticed'
    BY <2>1, <2>2, <2>3, <2>4 DEF Budgeted, Past, Noticed
  <2>6. \A q \in Process : CutOf(q)' /\ RestoreOf(q)'
    BY <2>1, <2>2, <2>3, <2>4 DEF CutOf, RestoreOf, Ids, Newcomers
  <2>7. Whole'
    BY <2>1, <2>2, <2>3, <2>4 DEF Whole, FirstOf, AllFrom, Ids
  <2> QED  BY <2>3, <2>5, <2>6, <2>7 DEF Reckoning
<1> QED  BY <1>2, <1>3

LEMMA Reckons == ASSUME Patient PROVE Spec => [](IInv /\ Reckoning)
<1>1. Init => IInv /\ Reckoning  BY InitHolds, InitReckons
<1>2. IInv /\ Reckoning /\ [Next]_vars => IInv' /\ Reckoning'
  BY NextHolds, NextReckons
<1> QED  BY <1>1, <1>2, PTL DEF Spec

(* restore::all, put_back and undo_start: where nobody was killed and no   *)
(* answer lost, a sheep that is in the flock no more is one whose loss a   *)
(* command has reported, whatever was refused, failed or died.             *)
THEOREM NotLostUnnoticed == ASSUME Patient PROVE Spec => []StaysRegistered
<1>1. Reckoning => StaysRegistered
  BY DEF Reckoning, Noticed, StaysRegistered, Spent, Idle, Emptying, Admits
<1> QED  BY <1>1, Reckons, PTL

(* cut_over: the first setup turns `watch` to auto only when the record    *)
(* names its release and every instance of the sheep is of it.             *)
THEOREM AutoMeansWhole == ASSUME Patient PROVE Spec => []AutoIsWhole
<1>1. Reckoning => AutoIsWhole
  BY DEF Reckoning, Whole, AutoIsWhole, AllFrom
<1> QED  BY <1>1, Reckons, PTL

(* Every report of a setup or a removal is so, however the commands, the   *)
(* shepherd's spawns, its refusals and the kills interleave, as long as no *)
(* answer was lost.                                                        *)
THEOREM ReportsAreSo == ASSUME Patient PROVE Spec => TellsTheTruth
<1> DEFINE So(p) == told'[p] # told[p] /\ Unspent({"lost"})' => ReportIsSo(job[p], told'[p])
<1>1. ASSUME IInv, Reckoning, [Next]_vars, NEW p \in Process PROVE So(p)
  <2>1. TypeOK  BY <1>1 DEF IInv, TypeInv
  <2>2. ASSUME NEW q \in Process, StartInit(q) \/ StartRemove(q) \/ Proceeds(q) \/ Crash(q)
        PROVE  So(p)
    <3>1. Honest(q)  BY <1>1, <2>2, ProceedsReckons
    <3>2. CASE p = q  BY <3>1, <3>2 DEF Honest
    <3>3. CASE p # q  BY <3>1, <3>3 DEF Honest
    <3> QED  BY <3>2, <3>3
  <2>3. CASE Shepherd  BY <1>1, <2>1, <2>3, ShepherdReckons
  <2>4. CASE UNCHANGED vars  BY <2>4 DEF vars
  <2> QED  BY <1>1, <2>2, <2>3, <2>4 DEF Next
<1>2. IInv /\ Reckoning /\ [Next]_vars =>
        [\A p \in Process : told'[p] # told[p] /\ Unspent({"lost"})' =>
                              ReportIsSo(job[p], told'[p])]_vars
  BY <1>1
<1> QED  BY <1>2, Reckons, PTL DEF Spec, TellsTheTruth

(* Only its own look after the dwell turns a cutover to the originals.     *)
LEMMA OnlyDwells ==
  ASSUME NEW p \in Process, pc[p] = "dwell", Proceeds(p)
  PROVE  Dwell(p)
<1>1. ~Prepare(p)
  BY DEF Prepare, ReadRegistered, RepairRecord, CheckTree, HoldTree, BuildFirst,
     SetManual, SwapFirst, WriteFirst
<1>2. ~UndoStart(p)  BY DEF UndoStart, Undo, Drain, Repair, AwaitRepair, DrainRepair
<1>3. ~Restore(p)
  BY DEF Restore, ReadRoll, ReadForRestore, DescribeLive, DeleteLive, PutBack, Fallback, LetGo
<1> QED
  BY <1>1, <1>2, <1>3 DEF Proceeds, Cutover, DescribeBefore, StartBeside, Arrive,
     DeleteOld, RecordLanded, SetAuto

LEMMA DwellHandsOver ==
  ASSUME Patient, IInv, Reckoning, NEW p \in Process, Dwell(p), pc'[p] = "old", FirstInit
  PROVE  Cardinality({r \in Up(flock) : r.from = "tree" /\ r.restarts = 0})
           >= Instances["tree"]
<1> DEFINE survivors == {r \in Up(Listed) : <<r.id, r.restarts>> \in job[p].arrived}
           living == {r \in Up(flock) : r.from = "tree" /\ r.restarts = 0}
<1>1. Here(p) /\ pc[p] = "dwell" /\ pc[p] \in Watching /\ pc[p] \in Inside
  BY AtHand DEF Dwell, Watching, Inside
<1>2. CutOf(p) /\ FirstOf(p) /\ Ordered /\ TypeOK
  BY <1>1 DEF Here
<1>3. /\ Cardinality(job[p].arrived) >= Instances["tree"]
      /\ \A pid \in job[p].arrived : pid[1] \notin job[p].previous
      /\ \A r \in flock : r.id \in job[p].previous \/ r.from = "tree"
  BY <1>1, <1>2 DEF CutOf, FirstOf
<1>4. StayedUp(p)
  <2>1. ~(pc' = [pc EXCEPT ![p] = "undo"])  BY <1>2 DEF TypeOK
  <2> QED  BY <2>1 DEF Dwell, Continue, Goto
<1>5. Cardinality(survivors) = Cardinality(job[p].arrived) /\ \A r \in survivors : r.restarts = 0
  BY <1>4 DEF StayedUp
<1>6. survivors \subseteq living
  <2> SUFFICES ASSUME NEW r \in survivors PROVE r \in living  OBVIOUS
  <2>1. r \in flock /\ r.life = "up" /\ <<r.id, r.restarts>> \in job[p].arrived
    BY DEF Up, Listed
  <2>2. r.id \notin job[p].previous
    <3> DEFINE pid == <<r.id, r.restarts>>
    <3>1. pid \in job[p].arrived /\ pid[1] = r.id  BY <2>1
    <3> QED  BY <1>3, <3>1
  <2> QED  BY <1>3, <1>5, <2>1, <2>2 DEF Up
<1>7. IsFiniteSet(living)  BY <1>2, FS_Subset DEF Ordered, Up
<1>8. Cardinality(survivors) <= Cardinality(living)  BY <1>6, <1>7, FS_Subset
<1>9. Cardinality(survivors) \in Nat /\ Cardinality(living) \in Nat /\ Instances["tree"] \in Nat
  BY <1>6, <1>7, FS_Subset, FS_CardinalityType, InstancesAssumption DEF Config
<1> QED  BY <1>3, <1>5, <1>8, <1>9

(* attempt: when a first setup turns to the originals, as many instances   *)
(* of the release as it asks for are up, each of them the process that was *)
(* started, for any number of instances, deaths and restarts.              *)
THEOREM OnlyLivingTakeOver == ASSUME Patient PROVE Spec => HandsOverLiving
<1> DEFINE Over(p) ==
      FirstInit /\ pc[p] = "dwell" /\ pc'[p] = "old" =>
        Cardinality({r \in Up(flock) : r.from = "tree" /\ r.restarts = 0})
          >= Instances["tree"]
<1>1. ASSUME IInv, Reckoning, [Next]_vars, NEW p \in Process PROVE Over(p)
  <2> SUFFICES ASSUME FirstInit, pc[p] = "dwell", pc'[p] = "old"
      PROVE  Cardinality({r \in Up(flock) : r.from = "tree" /\ r.restarts = 0})
               >= Instances["tree"]
    OBVIOUS
  <2>1. TypeOK  BY <1>1 DEF IInv, TypeInv
  <2>2. ~Shepherd /\ ~UNCHANGED vars  BY DEF Shepherd, Spawn, Die, Respawn, vars
  <2>3. PICK q \in Process : StartInit(q) \/ StartRemove(q) \/ Proceeds(q) \/ Crash(q)
    BY <1>1, <2>2 DEF Next
  <2>4. q = p  BY <1>1, <2>3, ProceedsReckons DEF Honest
  <2>5. ~StartInit(p) /\ ~StartRemove(p)  BY DEF StartInit, StartRemove, Fresh
  <2>6. ~Crash(p)  BY <2>1 DEF Crash, Report, Goto, TypeOK
  <2>7. Dwell(p)  BY <2>3, <2>4, <2>5, <2>6, OnlyDwells
  <2> QED  BY <1>1, <2>7, DwellHandsOver
<1>2. IInv /\ Reckoning /\ [Next]_vars =>
        [\A p \in Process :
           FirstInit /\ pc[p] = "dwell" /\ pc'[p] = "old" =>
             Cardinality({r \in Up(flock) : r.from = "tree" /\ r.restarts = 0})
               >= Instances["tree"]]_vars
  BY <1>1
<1> QED  BY <1>2, Reckons, PTL DEF Spec, HandsOverLiving
=============================================================================
