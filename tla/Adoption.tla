------------------------------ MODULE Adoption ------------------------------
(***************************************************************************)
(* Taking a sheep over and giving it back.                                 *)
(*                                                                         *)
(* `shep-deploy init` (src/optin) builds the first release of a sheep,     *)
(* starts it beside the instances the operator runs from their own         *)
(* checkout, watches it, and deletes the originals or puts everything back.*)
(* The on-remove hook (src/restore) puts an adopted sheep back where it    *)
(* was.  Both talk to the shepherd, whose requests can be refused or have  *)
(* their answer lost, and either can be killed between any two requests.   *)
(*                                                                         *)
(* Abstractions.  A configuration is where the sheep runs from: the        *)
(* operator's checkout (Own) or the deploy tree's `current` (Tree).  A     *)
(* process id is a row id with its count of restarts.  Fetch, checkout and *)
(* build are one step that succeeds or fails.  The shared clone is a link  *)
(* that is there or not; Clones looks inside.                              *)
(***************************************************************************)
EXTENDS Naturals, FiniteSets

CONSTANTS
  Process,      \* processes that run `init` or the on-remove hook
  Command,      \* Command[p]: which of the two p runs, once
  None,         \* nobody
  Instances,    \* Instances["own"] and ["tree"]: what each config asks for
  Patient,      \* TRUE: the dog is removed only while no init runs and no
                \* row is yet to be spawned; FALSE: at any moment
  Bounds        \* budgets of environment events, see BoundsType

Config == {"own", "tree"}
BoundsType ==
  [crash: Nat,    \* processes killed
   fault: Nat,    \* failed file, git or build operations
   refuse: Nat,   \* requests the shepherd refuses
   lost: Nat,     \* requests it carries out and whose answer is lost
   death: Nat,    \* instances that die
   trouble: Nat]  \* of these five, together

ASSUME ProcessAssumption == None \notin Process
ASSUME CommandAssumption == Command \in [Process -> {"init", "remove"}]
ASSUME InstancesAssumption == Instances \in [Config -> Nat \ {0}]
ASSUME PatientAssumption == Patient \in BOOLEAN
ASSUME BoundsAssumption == Bounds \in BoundsType

VARIABLES
  flock,    \* the shepherd's rows of this sheep
  nextId,   \* the next row's id
  roll,     \* the config the muster roll has for the name, or "none"
  watch,    \* the sheep's table: "unset", "manual" or "auto"
  swapped,  \* `current` names a release
  record,   \* deploy.toml: absent, deployed: None ("never"), or deployed
  linked,   \* the tree links to the shared clone
  lock,     \* the holder of the tree lock
  pc,       \* where each process is
  job,      \* each process's memory
  told,     \* what each process's command reported
  left      \* what remains of Bounds

shepherd == <<flock, nextId, roll>>
tree == <<swapped, record, linked>>
vars == <<shepherd, watch, tree, lock, pc, job, told, left>>

-----------------------------------------------------------------------------
(* Types.                                                                  *)

(* A row of Response::Described, and one accepted but not yet spawned,     *)
(* which a describe does not list.                                         *)
Row == [id: Nat, from: Config, life: {"accepted", "up", "dead"}, restarts: Nat]

Kinds == {"none", "killed", "refused", "unregistered", "unstarted", "landed", "stranded",
          "unrecorded", "undone", "neverMoved", "blocked", "untouched", "returned", "reset",
          "partlyDeleted", "gone"}
Told == [kind: Kinds, removed: BOOLEAN, repaired: BOOLEAN]
NothingTold == [kind |-> "none", removed |-> FALSE, repaired |-> FALSE]

(* config: previous_config, or the roll restore::all read once; previous,  *)
(* arrived, repair: the ids, pids and ids those names have in the code, or *)
(* for a removal previous: the ids of `live`;                              *)
(* todo: ids still to delete; clean: no delete failed so far; deleted:     *)
(* any_delete_landed; never: the record named no deployed release.         *)
Job == [cmd: {"none", "init", "remove"}, config: Config \cup {"none"},
        previous: SUBSET Nat, arrived: SUBSET (Nat \X Nat), repair: SUBSET Nat,
        todo: SUBSET Nat, clean: BOOLEAN, deleted: BOOLEAN, never: BOOLEAN]
NoJob ==
  [cmd |-> "none", config |-> "none", previous |-> {}, arrived |-> {},
   repair |-> {}, todo |-> {}, clean |-> TRUE, deleted |-> FALSE, never |-> FALSE]

Preparing == {"build", "manual", "swap", "write"}
Starting == {"describe", "start"}
Watching == {"arrive", "dwell"}
Cleaning == {"old", "record", "auto"}
Undoing == {"undo", "drain", "repair", "await", "drainRepair"}
Inside == Preparing \cup Starting \cup Watching \cup Cleaning \cup Undoing
Restoring == {"roll", "read", "live", "delete", "putBack", "fallback", "letGo"}
Places == {"idle", "registered", "check", "hold"} \cup Inside \cup Restoring

-----------------------------------------------------------------------------
(* Small steps shared by the actions.                                      *)

Goto(p, l) == pc' = [pc EXCEPT ![p] = l]
Recall(p, j) == job' = [job EXCEPT ![p] = j]
Trouble(kind) ==
  /\ left[kind] > 0 /\ left.trouble > 0
  /\ left' = [left EXCEPT ![kind] = @ - 1, !.trouble = @ - 1]

(* The command ends with this report, and lets go of what it held.         *)
Report(p, t) ==
  /\ Goto(p, "idle") /\ Recall(p, NoJob)
  /\ told' = [told EXCEPT ![p] = t]
  /\ lock' = IF lock = p THEN None ELSE lock
Say(kind) == [NothingTold EXCEPT !.kind = kind]
Undone(removed, repaired) ==
  [kind |-> "undone", removed |-> removed, repaired |-> repaired]

Continue(p, l, j) == Goto(p, l) /\ Recall(p, j) /\ UNCHANGED <<lock, told>>

(* What a describe lists.                                                  *)
Listed == {r \in flock : r.life # "accepted"}
Up(rows) == {r \in rows : r.life = "up"}
Ids(rows) == {r.id : r \in rows}
Pids(rows) == {<<r.id, r.restarts>> : r \in rows}

(* Request::Start registers the rows at once, spawns them afterwards, and  *)
(* records the config on the roll; the name may already have rows.         *)
NewIds(config) == nextId .. (nextId + Instances[config] - 1)
Starts(config) ==
  /\ flock' = flock \cup {[id |-> i, from |-> config, life |-> "accepted",
                           restarts |-> 0] : i \in NewIds(config)}
  /\ nextId' = nextId + Instances[config]
  /\ roll' = config

(* Request::Delete stops and deregisters; the roll drops a name with no    *)
(* instance left.                                                          *)
Without(id) == {r \in flock : r.id # id}
Deletes(id) ==
  /\ id \in Ids(flock)
  /\ flock' = Without(id)
  /\ roll' = IF Without(id) = {} THEN "none" ELSE roll
  /\ UNCHANGED nextId

(* A request that changes the shepherd by A comes back with an error: it   *)
(* was refused, or carried out and its answer lost.                        *)
Errs(A) ==
  \/ Trouble("refuse") /\ UNCHANGED shepherd
  \/ Trouble("lost") /\ A
DeleteErrs(id) ==
  \/ Errs(Deletes(id))
  \/ id \notin Ids(flock) /\ UNCHANGED <<shepherd, left>>
(* A request that only reads comes back with an error.                     *)
ReadErrs == Trouble("refuse") /\ UNCHANGED shepherd

Fresh(p) == pc[p] = "idle" /\ told[p] = NothingTold
Running(cmd) == {p \in Process : job[p].cmd = cmd}

-----------------------------------------------------------------------------
(* prepare_with: the tree and the first release.                           *)

StartInit(p) ==
  /\ Fresh(p) /\ Command[p] = "init"
  /\ Patient => Running("remove") = {}
  /\ Continue(p, "registered", [NoJob EXCEPT !.cmd = "init"])
  /\ UNCHANGED <<shepherd, watch, tree, left>>

(* roll::registered, and the refusals of a sheep nobody registered.        *)
ReadRegistered(p) ==
  /\ pc[p] = "registered"
  /\ \/ /\ roll # "none" /\ UNCHANGED <<shepherd, left>>
        /\ Continue(p, "check", [job[p] EXCEPT !.config = roll])
     \/ /\ roll = "none" /\ UNCHANGED <<shepherd, left>>
        /\ Report(p, Say("unregistered"))
     \/ ReadErrs /\ Report(p, Say("refused"))
  /\ UNCHANGED <<watch, tree>>

(* A sheep that already runs from `current` has its record repaired, under *)
(* both locks, and is refused either way; so is one that runs from inside  *)
(* the tree.  The release a swap put there is on disk.                     *)
RepairRecord(p) ==
  /\ pc[p] = "check" /\ job[p].config = "tree"
  /\ IF swapped /\ lock = None /\ record = "never"
     THEN \/ record' = "deployed" /\ UNCHANGED left
          \/ record' \in {"never", "deployed"} /\ Trouble("fault")
     ELSE UNCHANGED <<record, left>>
  /\ Report(p, Say("refused"))
  /\ UNCHANGED <<shepherd, watch, swapped, linked>>

(* The record's existence is looked at before the lock.                    *)
CheckTree(p) ==
  /\ pc[p] = "check" /\ job[p].config = "own"
  /\ \/ record = "absent" /\ Continue(p, "hold", job[p])
     \/ record # "absent" /\ Report(p, Say("refused"))
  /\ UNCHANGED <<shepherd, watch, tree, left>>

(* lock::hold, which does not wait.                                        *)
HoldTree(p) ==
  /\ pc[p] = "hold"
  /\ \/ /\ lock = None /\ lock' = p /\ Goto(p, "build")
        /\ UNCHANGED <<job, told>>
     \/ lock # None /\ Report(p, Say("refused"))
  /\ UNCHANGED <<shepherd, watch, tree, left>>

(* share_clone, fetch, stage_release and build::run.  Any of them can      *)
(* fail, with the clone linked or not.                                     *)
BuildFirst(p) ==
  /\ pc[p] = "build"
  /\ \/ linked' = TRUE /\ Continue(p, "manual", job[p]) /\ UNCHANGED left
     \/ linked' \in {linked, TRUE} /\ Trouble("fault") /\ Report(p, Say("refused"))
  /\ UNCHANGED <<shepherd, watch, swapped, record>>

(* settings::change(Branch, Watch(Manual), Verify).                        *)
SetManual(p) ==
  /\ pc[p] = "manual"
  /\ \/ watch' = "manual" /\ Continue(p, "swap", job[p]) /\ UNCHANGED left
     \/ Trouble("refuse") /\ UNCHANGED watch /\ Report(p, Say("refused"))
     \/ Trouble("lost") /\ watch' = "manual" /\ Report(p, Say("refused"))
  /\ UNCHANGED <<shepherd, tree>>

(* swap::point_at, and only then the record, so that a kill between the    *)
(* two leaves a tree a second init does not take for a target.             *)
SwapFirst(p) ==
  /\ pc[p] = "swap"
  /\ \/ swapped' = TRUE /\ Continue(p, "write", job[p]) /\ UNCHANGED left
     \/ Trouble("fault") /\ UNCHANGED swapped /\ Report(p, Say("refused"))
  /\ UNCHANGED <<shepherd, watch, record, linked>>

(* The hold goes on, in Prepared, so that the cutover runs under it.       *)
PreparedUnheld(p) ==  \* mutant: prepare drops its hold
  Goto(p, "describe") /\ lock' = None /\ UNCHANGED <<job, told>>
Prepared(p) == Continue(p, "describe", job[p])

(* The State built before the lock, deployed None.                         *)
WriteFirst(p) ==
  /\ pc[p] = "write"
  /\ \/ record' = "never" /\ Prepared(p) /\ UNCHANGED left
     \/ /\ record' \in {record, "never"} /\ Trouble("fault")
        /\ Report(p, Say("refused"))
  /\ UNCHANGED <<shepherd, watch, swapped, linked>>

-----------------------------------------------------------------------------
(* cut_over and attempt.                                                   *)

(* One read for the ids to delete and the pids to compare against.         *)
DescribeBefore(p) ==
  /\ pc[p] = "describe"
  /\ \/ /\ Continue(p, "start", [job[p] EXCEPT !.previous = Ids(Listed)])
        /\ UNCHANGED <<shepherd, left>>
     \/ ReadErrs /\ Report(p, Say("unstarted"))
  /\ UNCHANGED <<watch, tree>>

(* sheep_config and the Start against `current`.  An error of either is    *)
(* passed on, with nothing undone.                                         *)
StartBeside(p) ==
  /\ pc[p] = "start"
  /\ \/ Starts("tree") /\ Continue(p, "arrive", job[p]) /\ UNCHANGED left
     \/ Errs(Starts("tree")) /\ Report(p, Say("unstarted"))
  /\ UNCHANGED <<watch, tree>>

Newcomers(p) == {r \in Listed : r.id \notin job[p].previous}
EnoughOfThem(rows) == rows # {}  \* mutant: the first one up will do
Enough(rows) == Cardinality(rows) >= Instances["tree"]

(* One look of phase one: enough are up, one is dead, the deadline has     *)
(* passed, or the shepherd is quiet.  A look that settles nothing is       *)
(* repeated.                                                               *)
Arrive(p) ==
  /\ pc[p] = "arrive"
  /\ LET new == Newcomers(p)
         healthy == \A r \in new : r.life # "dead"
     IN \/ /\ healthy /\ Enough(Up(new))
           /\ Continue(p, "dwell", [job[p] EXCEPT !.arrived = Pids(Up(new))])
           /\ UNCHANGED <<shepherd, left>>
        \/ /\ ~healthy \/ ~Enough(Up(new))
           /\ Continue(p, "undo", job[p])
           /\ UNCHANGED <<shepherd, left>>
        \/ ReadErrs /\ Continue(p, "undo", job[p])
  /\ UNCHANGED <<watch, tree>>

(* The look after the dwell: everything that arrived is still the process  *)
(* the Start spawned.                                                      *)
StayedUpBriefly(p) == job[p].arrived # {}  \* mutant: the second look is skipped
StayedUp(p) ==
  LET survivors == {r \in Up(Listed) : <<r.id, r.restarts>> \in job[p].arrived}
  IN /\ Cardinality(survivors) = Cardinality(job[p].arrived)
     /\ \A r \in survivors : r.restarts = 0

Dwell(p) ==
  /\ pc[p] = "dwell"
  /\ \/ /\ StayedUp(p)
        /\ Continue(p, "old", [job[p] EXCEPT !.todo = job[p].previous])
        /\ UNCHANGED <<shepherd, left>>
     \/ ~StayedUp(p) /\ Continue(p, "undo", job[p]) /\ UNCHANGED <<shepherd, left>>
     \/ ReadErrs /\ Continue(p, "undo", job[p])
  /\ UNCHANGED <<watch, tree>>

(* One delete of a loop over ids, whose failures are remembered and do not *)
(* stop it.                                                                *)
DeleteOne(p) ==
  \E id \in job[p].todo :
    LET rest == [job[p] EXCEPT !.todo = @ \ {id}]
    IN \/ Deletes(id) /\ Recall(p, rest) /\ UNCHANGED left
       \/ DeleteErrs(id) /\ Recall(p, [rest EXCEPT !.clean = FALSE])

DeleteOld(p) ==
  /\ pc[p] = "old"
  /\ \/ DeleteOne(p) /\ UNCHANGED pc
     \/ job[p].todo = {} /\ Goto(p, "record") /\ UNCHANGED <<shepherd, job, left>>
  /\ UNCHANGED <<watch, tree, lock, told>>

(* The record is written either way; an id left behind outranks a write    *)
(* that failed, and keeps `watch` at manual.                               *)
PromotedAnyway(p) == TRUE  \* mutant: leftovers do not keep the dog away
Promoted(p) == job[p].clean

RecordLanded(p) ==
  /\ pc[p] = "record"
  /\ \/ /\ record' = "deployed" /\ UNCHANGED left
        /\ \/ Promoted(p) /\ Continue(p, "auto", job[p])
           \/ ~Promoted(p) /\ Report(p, Say("stranded"))
     \/ /\ record' \in {record, "deployed"} /\ Trouble("fault")
        /\ Report(p, Say(IF Promoted(p) THEN "unrecorded" ELSE "stranded"))
  /\ UNCHANGED <<shepherd, watch, swapped, linked>>

SetAuto(p) ==
  /\ pc[p] = "auto"
  /\ \/ watch' = "auto" /\ UNCHANGED left /\ Report(p, Say("landed"))
     \/ Trouble("refuse") /\ UNCHANGED watch /\ Report(p, Say("unrecorded"))
     \/ Trouble("lost") /\ watch' = "auto" /\ Report(p, Say("unrecorded"))
  /\ UNCHANGED <<shepherd, tree>>

-----------------------------------------------------------------------------
(* undo_start: the newcomers go, and the original config is put back on    *)
(* the roll by starting it and deleting what that spawned.                 *)

ToDrainAll(p) == Ids(Listed)  \* mutant: everything of the name goes
ToDrain(p) == Ids(Listed) \ job[p].previous

Undo(p) ==
  /\ pc[p] = "undo"
  /\ \/ /\ Continue(p, "drain", [job[p] EXCEPT !.todo = ToDrain(p), !.clean = TRUE])
        /\ UNCHANGED <<shepherd, left>>
     \/ ReadErrs /\ Report(p, Undone(FALSE, FALSE))
  /\ UNCHANGED <<watch, tree>>

Drain(p) ==
  /\ pc[p] = "drain"
  /\ \/ DeleteOne(p) /\ UNCHANGED pc
     \/ job[p].todo = {} /\ Goto(p, "repair") /\ UNCHANGED <<shepherd, job, left>>
  /\ UNCHANGED <<watch, tree, lock, told>>

Repair(p) ==
  /\ pc[p] = "repair"
  /\ LET config == job[p].config
     IN \/ /\ Starts(config) /\ UNCHANGED left
           /\ Continue(p, "await", [job[p] EXCEPT !.repair = NewIds(config)])
        \/ Errs(Starts(config)) /\ Report(p, Undone(job[p].clean, FALSE))
  /\ UNCHANGED <<watch, tree>>

(* Waits for every row the repair registered, by the ids it was answered.  *)
ArrivedAny(p) == Ids(Listed) \ job[p].previous # {}  \* mutant: any new row will do
AllPresent(p) == job[p].repair \subseteq Ids(Listed)
NeverOverdue(p) == FALSE  \* mutant: no deadline
Overdue(p) == ~AllPresent(p)

AwaitRepair(p) ==
  /\ pc[p] = "await"
  /\ \/ /\ AllPresent(p)
        /\ Continue(p, "drainRepair", [job[p] EXCEPT !.todo = ToDrain(p)])
        /\ UNCHANGED <<shepherd, left>>
     \/ /\ Overdue(p)
        /\ Continue(p, "drainRepair",
                    [job[p] EXCEPT !.todo = ToDrain(p), !.clean = FALSE])
        /\ UNCHANGED <<shepherd, left>>
     \/ ReadErrs /\ Report(p, Undone(FALSE, TRUE))
  /\ UNCHANGED <<watch, tree>>

DrainRepair(p) ==
  /\ pc[p] = "drainRepair"
  /\ \/ DeleteOne(p) /\ UNCHANGED <<pc, lock, told>>
     \/ /\ job[p].todo = {} /\ UNCHANGED <<shepherd, left>>
        /\ Report(p, Undone(job[p].clean, TRUE))
  /\ UNCHANGED <<watch, tree>>

-----------------------------------------------------------------------------
(* restore::all and put_back, for this sheep.  No lock is taken.           *)

(* paths::targets lists trees with a record, and the roll is read once.    *)
StartRemove(p) ==
  /\ Fresh(p) /\ Command[p] = "remove" /\ record # "absent"
  /\ Patient => Running("init") \cup Running("remove") = {} /\ Listed = flock
  /\ Continue(p, "roll", [NoJob EXCEPT !.cmd = "remove"])
  /\ UNCHANGED <<shepherd, watch, tree, left>>

ReadRoll(p) ==
  /\ pc[p] = "roll"
  /\ \/ /\ Continue(p, "read", [job[p] EXCEPT !.config = roll])
        /\ UNCHANGED <<shepherd, left>>
     \/ ReadErrs /\ Report(p, Say("blocked"))
  /\ UNCHANGED <<watch, tree>>

(* A record that names no deployed release, of a sheep not registered      *)
(* against `current`, was never moved.                                     *)
NeverMovedByRecord(p) == record = "never"  \* mutant: the roll is not asked
NeverMoved(p) == record = "never" /\ job[p].config # "tree"

ReadForRestore(p) ==
  /\ pc[p] = "read"
  /\ \/ /\ NeverMoved(p) /\ UNCHANGED left
        /\ Continue(p, "letGo", [job[p] EXCEPT !.never = TRUE])
     \/ /\ ~NeverMoved(p) /\ UNCHANGED left
        /\ \/ job[p].config = "none" /\ Report(p, Say("untouched"))
           \/ job[p].config # "none" /\ Continue(p, "live", job[p])
     \/ Trouble("fault") /\ Report(p, Say("untouched"))
  /\ UNCHANGED <<shepherd, watch, tree>>

DescribeLive(p) ==
  /\ pc[p] = "live"
  /\ \/ /\ Continue(p, "delete", [job[p] EXCEPT !.previous = Ids(Listed),
                                              !.todo = Ids(Listed)])
        /\ UNCHANGED <<shepherd, left>>
     \/ ReadErrs /\ Report(p, Say("untouched"))
  /\ UNCHANGED <<watch, tree>>

(* The first delete that fails ends it, told by whether one landed before. *)
DeleteLive(p) ==
  /\ pc[p] = "delete"
  /\ \/ \E id \in job[p].todo :
          LET rest == [job[p] EXCEPT !.todo = @ \ {id}, !.deleted = TRUE]
          IN \/ Deletes(id) /\ Continue(p, "delete", rest) /\ UNCHANGED left
             \/ /\ DeleteErrs(id)
                /\ Report(p, Say(IF job[p].deleted THEN "partlyDeleted"
                                                   ELSE "untouched"))
     \/ /\ job[p].todo = {} /\ Continue(p, "putBack", job[p])
        /\ UNCHANGED <<shepherd, left>>
  /\ UNCHANGED <<watch, tree>>

PutBack(p) ==
  /\ pc[p] = "putBack"
  /\ \/ Starts("own") /\ Continue(p, "letGo", job[p]) /\ UNCHANGED left
     \/ Errs(Starts("own")) /\ Continue(p, "fallback", job[p])
  /\ UNCHANGED <<watch, tree>>

(* The config the shepherd had when the roll was read.                     *)
Fallback(p) ==
  /\ pc[p] = "fallback"
  /\ \/ Starts(job[p].config) /\ UNCHANGED left /\ Report(p, Say("reset"))
     \/ Errs(Starts(job[p].config)) /\ Report(p, Say("gone"))
  /\ UNCHANGED <<watch, tree>>

(* retention::release_clone, whose failure is a row of its own.            *)
LetGo(p) ==
  /\ pc[p] = "letGo"
  /\ \/ linked' = FALSE /\ UNCHANGED left
     \/ linked' \in {linked, FALSE} /\ Trouble("fault")
  /\ Report(p, Say(IF job[p].never THEN "neverMoved" ELSE "returned"))
  /\ UNCHANGED <<shepherd, watch, swapped, record>>

-----------------------------------------------------------------------------
(* The shepherd, and a kill.                                               *)

(* Accepted rows are spawned in the order their ids were given.            *)
Spawn ==
  \E r \in flock :
    /\ r.life = "accepted"
    /\ \A other \in flock : other.life = "accepted" => r.id <= other.id
    /\ \/ flock' = (flock \ {r}) \cup {[r EXCEPT !.life = "up"]} /\ UNCHANGED left
       \/ flock' = (flock \ {r}) \cup {[r EXCEPT !.life = "dead"]} /\ Trouble("death")
    /\ UNCHANGED <<nextId, roll, watch, tree, lock, pc, job, told>>

Die ==
  \E r \in flock :
    /\ r.life = "up" /\ Trouble("death")
    /\ flock' = (flock \ {r}) \cup {[r EXCEPT !.life = "dead"]}
    /\ UNCHANGED <<nextId, roll, watch, tree, lock, pc, job, told>>

Respawn ==
  \E r \in flock :
    /\ r.life = "dead"
    /\ flock' = (flock \ {r}) \cup
                {[r EXCEPT !.life = "up", !.restarts = @ + 1]}
    /\ UNCHANGED <<nextId, roll, watch, tree, lock, pc, job, told, left>>

Crash(p) ==
  /\ pc[p] # "idle" /\ Trouble("crash")
  /\ Report(p, Say("killed"))
  /\ UNCHANGED <<shepherd, watch, tree>>

-----------------------------------------------------------------------------
(* The specification.                                                      *)

Init ==
  /\ nextId = Instances["own"]
  /\ flock = {[id |-> i, from |-> "own", life |-> "up", restarts |-> 0] :
              i \in 0 .. (Instances["own"] - 1)}
  /\ roll = "own" /\ watch = "unset"
  /\ swapped = FALSE /\ record = "absent" /\ linked = FALSE
  /\ lock = None
  /\ pc = [p \in Process |-> "idle"]
  /\ job = [p \in Process |-> NoJob]
  /\ told = [p \in Process |-> NothingTold]
  /\ left = Bounds

Prepare(p) ==
  \/ ReadRegistered(p) \/ RepairRecord(p) \/ CheckTree(p) \/ HoldTree(p)
  \/ BuildFirst(p) \/ SetManual(p) \/ SwapFirst(p) \/ WriteFirst(p)
Cutover(p) ==
  \/ DescribeBefore(p) \/ StartBeside(p) \/ Arrive(p) \/ Dwell(p)
  \/ DeleteOld(p) \/ RecordLanded(p) \/ SetAuto(p)
UndoStart(p) ==
  \/ Undo(p) \/ Drain(p) \/ Repair(p) \/ AwaitRepair(p) \/ DrainRepair(p)
Restore(p) ==
  \/ ReadRoll(p) \/ ReadForRestore(p) \/ DescribeLive(p) \/ DeleteLive(p)
  \/ PutBack(p) \/ Fallback(p) \/ LetGo(p)

Proceeds(p) == Prepare(p) \/ Cutover(p) \/ UndoStart(p) \/ Restore(p)
Shepherd == Spawn \/ Die \/ Respawn
Next ==
  \/ \E p \in Process : StartInit(p) \/ StartRemove(p) \/ Proceeds(p) \/ Crash(p)
  \/ Shepherd

Spec == Init /\ [][Next]_vars
(* Every wait of a command has a deadline, and its locks do not block.  The *)
(* shepherd owes nobody a spawn: attempt and undo_start give up on it.     *)
FairSpec == Spec /\ \A p \in Process : WF_vars(Proceeds(p))

-----------------------------------------------------------------------------
(* Properties.                                                             *)

(* Every variable keeps to its type, and whoever is between taking the     *)
(* tree lock and reporting holds it, the cutover after the build included. *)
TypeOK ==
  /\ flock \subseteq Row /\ nextId \in Nat
  /\ roll \in Config \cup {"none"}
  /\ watch \in {"unset", "manual", "auto"}
  /\ swapped \in BOOLEAN /\ linked \in BOOLEAN
  /\ record \in {"absent", "never", "deployed"}
  /\ lock \in Process \cup {None}
  /\ \A p \in Process : pc[p] \in Inside => lock = p
  /\ pc \in [Process -> Places]
  /\ job \in [Process -> Job]
  /\ told \in [Process -> Told]
  /\ left \in BoundsType

Unspent(kinds) == \A k \in kinds : left[k] = Bounds[k]
Idle == \A p \in Process : pc[p] = "idle"

(* The operator's instances outlive every doubt: from the moment a cutover *)
(* lists them until it has watched the newcomers through the dwell, and    *)
(* all through an undo, none of them is deregistered (cut_over, drain).    *)
OriginalsKept ==
  \A p \in Process :
    pc[p] \in Watching \cup Undoing \cup {"start"} => job[p].previous \subseteq Ids(flock)

(* The app is never handed over to fewer instances than it asks for, nor   *)
(* to one that keeps dying: when a first init turns to the originals, as   *)
(* many instances of the release as it asks for are up, each the process   *)
(* that was started, whatever died and came back meanwhile (attempt).      *)
FirstInit ==
  \A p, q \in Process :
    p # q /\ Command[p] = "init" /\ Command[q] = "init" => Fresh(p) \/ Fresh(q)
NoRemoval == \A p \in Process : Command[p] = "remove" => Fresh(p)
HandsOverLiving ==
  [][\A p \in Process :
       FirstInit /\ pc[p] = "dwell" /\ pc'[p] = "old" =>
         Cardinality({r \in Up(flock) : r.from = "tree" /\ r.restarts = 0})
           >= Instances["tree"]]_vars

(* The dog polls only a sheep it took over whole: `watch = auto` means the *)
(* record names a release and no instance is left that a reload would      *)
(* bring back from the operator's checkout (cut_over).                     *)
AutoIsWhole ==
  watch = "auto" /\ FirstInit /\ NoRemoval =>
    record = "deployed" /\ \A r \in flock : r.from = "tree"

(* What a command reports is so, where no answer was lost.  An undo that   *)
(* removed the newcomers and repaired the roll left the originals and      *)
(* nothing else, on their own config; a cutover that landed left none of   *)
(* them; a sheep said to be returned runs from its checkout alone; of one  *)
(* said to be untouched every instance is still there, of one partly       *)
(* deleted some are; one said to be reset is registered, and one said to   *)
(* be gone is not.                                                         *)
ReportIsSo(j, t) ==
  /\ t.kind = "undone" /\ t.repaired => roll' = j.config
  /\ t.kind = "undone" /\ t.repaired /\ t.removed => Ids(flock') = j.previous
  /\ t.kind = "landed" => roll' = "tree" /\ Ids(flock') \cap j.previous = {}
  /\ t.kind = "returned" => roll' = "own" /\ \A r \in flock' : r.from = "own"
  /\ t.kind = "untouched" => j.previous \subseteq Ids(flock')
  /\ t.kind = "partlyDeleted" =>
       flock' # {} /\ ~(j.previous \subseteq Ids(flock'))
  /\ t.kind = "reset" => flock' # {} /\ roll' = j.config
  /\ t.kind = "gone" => flock' = {} /\ roll' = "none"
TellsTheTruth ==
  [][\A p \in Process :
       told'[p] # told[p] /\ Unspent({"lost"})' => ReportIsSo(job[p], told'[p])]_vars

(* A sheep is not lost unnoticed: once every command has ended and none    *)
(* was killed and no answer lost, it is still registered, or a command's   *)
(* report says that it is gone, or may be.                                 *)
StaysRegistered ==
  Idle /\ Unspent({"crash", "lost"}) =>
    flock # {} \/ \E p \in Process : told[p].kind \in {"gone", "partlyDeleted"}

(* A sheep registered against `current` can fetch: no restore, whatever is *)
(* refused it or kills it, lets go of the clone of one that the roll would *)
(* bring back from the tree (restore::all).                                *)
CloneKeptForTree == roll = "tree" => linked

(* Every command comes to its end, whatever the shepherd does: there is a  *)
(* given number of them, so in the end none is left.                       *)
Ends == []<>Idle
=============================================================================
