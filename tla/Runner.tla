------------------------------- MODULE Runner -------------------------------
(***************************************************************************)
(* Commands run in a process group of their own, and the pids they get.    *)
(*                                                                         *)
(* `run_in_group` runs builds and hooks: a holder leads the group, so that *)
(* the group's id stays taken until the group has been killed.             *)
(* `run_git_within` runs git fetch: git leads its own group and the wait   *)
(* for its output is bounded as well.  The kernel gives a free pid to      *)
(* whatever forks next, other programs' processes included, and a signal   *)
(* to a group reaches whoever is in the group of that id by then.          *)
(*                                                                         *)
(* Abstractions.  One command at a time; every other process on the host,  *)
(* this dog's other commands too, is "other".  Budgets have no length: a   *)
(* deadline may pass at any moment.  wait(2) on a child does not fail.     *)
(***************************************************************************)
EXTENDS Naturals, FiniteSets

CONSTANTS
  Pid,     \* process ids the kernel gives out
  None,    \* no process
  Bounds   \* budgets of environment events, see BoundsType

BoundsType ==
  [run: Nat,     \* commands run
   fork: Nat,    \* processes a command, or anyone else, starts
   leave: Nat,   \* processes that call setsid
   fault: Nat,   \* commands that cannot be spawned
   crash: Nat]   \* times the dog is killed

ASSUME PidAssumption == None \notin Pid
ASSUME BoundsAssumption == Bounds \in BoundsType

VARIABLES
  proc,  \* the kernel's process table
  run,   \* the command being run
  pc,    \* where the function that runs it is
  left   \* what remains of Bounds

vars == <<proc, run, pc, left>>

-----------------------------------------------------------------------------
(* The process table.                                                      *)

(* The parts a process plays: the group's holder; the child, the command   *)
(* itself; work, what the child started; a daemon, which left the group;   *)
(* an orphan, of a command that is over; other, nothing to do with any.    *)
Ours == {"holder", "child", "work"}
Role == Ours \cup {"daemon", "orphan", "other"}

(* A zombie is dead and unreaped: the dog's own children leave one.  piped: *)
(* it holds the write end of the output the dog is reading.                *)
Process == [state: {"alive", "zombie"}, role: Role, group: Pid, piped: BOOLEAN]
Gone == [state |-> "free", role |-> "none", group |-> None, piped |-> FALSE]

Living(role, group, piped) ==
  [state |-> "alive", role |-> role, group |-> group, piped |-> piped]

Alive(q) == proc[q].state = "alive"
Taken(q) == proc[q].state # "free"
Members(g) == {q \in Pid : proc[q].group = g}

(* A pid is given out again only when its process is reaped and no group   *)
(* has it as its id.                                                       *)
Available == {q \in Pid : ~Taken(q) /\ Members(q) = {}}

(* What is left of a process that dies: its parent has to reap it, and the *)
(* parent of everything but the dog's own children does so at once.        *)
Dead(x) ==
  IF x.role \in {"holder", "child"} THEN [x EXCEPT !.state = "zombie", !.piped = FALSE]
  ELSE Gone

Killed(Victims) ==
  [q \in Pid |-> IF q \in Victims /\ Alive(q) THEN Dead(proc[q]) ELSE proc[q]]

(* kill_group: SIGKILL to whoever is in the group.                         *)
KillGroup(g) == proc' = Killed(Members(g))

-----------------------------------------------------------------------------
(* Steps of the functions.                                                 *)

NoRun == [kind |-> "none", group |-> None, child |-> None]
Run == [kind: {"none", "build", "git"}, group: Pid \cup {None}, child: Pid \cup {None}]
Places == {"idle", "spawn", "wait", "abandon", "sweep", "reapHolder", "collect"}

Spend(kind) == left[kind] > 0 /\ left' = [left EXCEPT ![kind] = @ - 1]

(* The function has returned: whoever it leaves behind is nobody's, and    *)
(* what they write goes nowhere.                                           *)
Orphaned(x) ==
  IF x = Gone THEN Gone
  ELSE [x EXCEPT !.piped = FALSE,
                 !.role = IF @ \in Ours /\ x.state = "alive" THEN "orphan" ELSE @]

Return(table) ==
  /\ pc' = "idle" /\ run' = NoRun
  /\ proc' = [q \in Pid |-> Orphaned(table[q])]

(* run_in_group spawns the holder, the leader of a new group.  If that     *)
(* fails nothing has begun.                                                *)
SpawnHolder(h) ==
  /\ pc = "idle" /\ h \in Available /\ Spend("run")
  /\ proc' = [proc EXCEPT ![h] = Living("holder", h, FALSE)]
  /\ run' = [NoRun EXCEPT !.kind = "build", !.group = h]
  /\ pc' = "spawn"

(* The command joins the holder's group.  If it cannot be spawned the      *)
(* holder is killed and reaped.                                            *)
SpawnBuildLeading(c) ==  \* mutant: the command leads a group of its own
  /\ pc = "spawn" /\ c \in Available
  /\ proc' = [proc EXCEPT ![c] = Living("child", c, FALSE)]
  /\ run' = [run EXCEPT !.child = c, !.group = c]
  /\ pc' = "wait" /\ UNCHANGED left
SpawnBuild(c) ==
  /\ pc = "spawn" /\ c \in Available
  /\ proc' = [proc EXCEPT ![c] = Living("child", run.group, FALSE)]
  /\ run' = [run EXCEPT !.child = c]
  /\ pc' = "wait" /\ UNCHANGED left

SpawnFails ==
  /\ pc = "spawn"
  /\ Spend("fault") \/ (Available = {} /\ UNCHANGED left)
  /\ KillGroup(run.group)
  /\ pc' = "reapHolder" /\ UNCHANGED run

(* run_git_within: git leads its own group, and its output is read.        *)
SpawnGit(c) ==
  /\ pc = "idle" /\ c \in Available /\ Spend("run")
  /\ proc' = [proc EXCEPT ![c] = Living("child", c, TRUE)]
  /\ run' = [kind |-> "git", group |-> c, child |-> c]
  /\ pc' = "wait"

(* The wait answers: the child is reaped, and its pid free again.          *)
Waited ==
  /\ pc = "wait" /\ proc[run.child].state = "zombie"
  /\ proc' = [proc EXCEPT ![run.child] = Gone]
  /\ pc' = IF run.kind = "build" THEN "sweep" ELSE "collect"
  /\ UNCHANGED <<run, left>>

(* The budget runs out first, whether or not the child has just exited:    *)
(* `abandon` kills the group,                                              *)
TimedOut ==
  /\ pc = "wait"
  /\ KillGroup(run.group)
  /\ pc' = "abandon" /\ UNCHANGED <<run, left>>

(* and kills and reaps the child, in case it had left the group.           *)
KillChild ==
  LET reaped == [proc EXCEPT ![run.child] = Gone] IN
  /\ pc = "abandon" /\ UNCHANGED left
  /\ \/ /\ run.kind = "build"
        /\ proc' = reaped /\ pc' = "reapHolder" /\ UNCHANGED run
     \/ run.kind = "git" /\ Return(reaped)

(* The build has ended: its group is killed, whatever it left running, and *)
(* the holder with it.                                                     *)
SweepNothing ==  \* mutant: a build that ended by itself is not swept
  /\ pc = "sweep" /\ proc' = Killed({run.group}) /\ pc' = "reapHolder"
  /\ UNCHANGED <<run, left>>
Sweep ==
  /\ pc = "sweep"
  /\ KillGroup(run.group)
  /\ pc' = "reapHolder" /\ UNCHANGED <<run, left>>

ReapHolder ==
  /\ pc = "reapHolder" /\ proc[run.group].state = "zombie"
  /\ Return([proc EXCEPT ![run.group] = Gone]) /\ UNCHANGED left

(* git's output is collected to its end, or the rest of the budget runs    *)
(* out with something else still holding the pipe.  Nobody is killed then: *)
(* the child is reaped and its pid may be another's.                       *)
Piped == \E q \in Pid : proc[q].piped
CollectToTheEnd ==  \* mutant: the output is joined unconditionally
  pc = "collect" /\ ~Piped /\ Return(proc) /\ UNCHANGED left
CollectKilling ==  \* mutant: a late orphan is killed by git's old pid
  /\ pc = "collect" /\ UNCHANGED left
  /\ \/ ~Piped /\ Return(proc)
     \/ Piped /\ Return(Killed(Members(run.group)))
     \/ Piped /\ run.group \in Available /\ Return(proc)
Collect == pc = "collect" /\ Return(proc) /\ UNCHANGED left

-----------------------------------------------------------------------------
(* Everyone else.                                                          *)

(* A command starts a process, which inherits its group and its output.    *)
RoleOfForked(x) ==
  IF x.role # "child" THEN x.role
  ELSE IF x.group = run.group THEN "work" ELSE "daemon"

Fork(q, r) ==
  /\ Alive(q) /\ proc[q].role \in {"child", "work", "daemon", "orphan"}
  /\ r \in Available /\ Spend("fork")
  /\ proc' = [proc EXCEPT
       ![r] = Living(RoleOfForked(proc[q]), proc[q].group, proc[q].piped)]
  /\ UNCHANGED <<run, pc>>

(* A process that means to persist calls setsid and leads its own group;   *)
(* a leader cannot.                                                        *)
Setsid(q) ==
  /\ Alive(q) /\ proc[q].role \in {"child", "work"} /\ proc[q].group # q
  /\ Members(q) = {} /\ Spend("leave")
  /\ proc' = [proc EXCEPT ![q].group = q,
                          ![q].role = IF @ = "work" THEN "daemon" ELSE @]
  /\ UNCHANGED <<run, pc>>

(* Another program starts a process with a group of its own.               *)
Foreign(q) ==
  /\ q \in Available /\ Spend("fork")
  /\ proc' = [proc EXCEPT ![q] = Living("other", q, FALSE)]
  /\ UNCHANGED <<run, pc>>

(* A process exits, or is killed by someone else: the holder too, by a     *)
(* command that signals its own group.                                     *)
Exit(q) == Alive(q) /\ proc' = Killed({q}) /\ UNCHANGED <<run, pc, left>>

(* The dog is killed.  Its unreaped children are reaped for it and the     *)
(* living ones are left behind.                                            *)
Crash ==
  /\ pc # "idle" /\ Spend("crash")
  /\ Return([q \in Pid |-> IF proc[q].state = "zombie" THEN Gone ELSE proc[q]])

-----------------------------------------------------------------------------
(* The specification.                                                      *)

Init ==
  /\ proc = [q \in Pid |-> Gone]
  /\ run = NoRun
  /\ pc = "idle"
  /\ left = Bounds

Spawns == \E q \in Pid : SpawnHolder(q) \/ SpawnBuild(q) \/ SpawnGit(q)
Proceeds == Waited \/ TimedOut \/ KillChild \/ Sweep \/ ReapHolder \/ Collect

Host ==
  \/ \E q \in Pid : Setsid(q) \/ Foreign(q) \/ Exit(q)
  \/ \E q, r \in Pid : Fork(q, r)

Next == Spawns \/ SpawnFails \/ Proceeds \/ Host \/ Crash

Spec == Init /\ [][Next]_vars

(* The function goes on, and a deadline passes in the end.  Nothing makes  *)
(* a command, or anything it started, ever exit.                           *)
FairSpec ==
  /\ Spec
  /\ WF_vars(Proceeds)
  /\ WF_vars(SpawnFails \/ \E q \in Pid : SpawnBuild(q))

-----------------------------------------------------------------------------
(* Properties.                                                             *)

(* Every variable keeps to its type; with nothing run no child is left     *)
(* unreaped and nothing leads or belongs to a run.                         *)
TypeOK ==
  /\ proc \in [Pid -> Process \cup {Gone}]
  /\ run \in Run
  /\ pc \in Places
  /\ left \in BoundsType
  /\ pc = "idle" => run = NoRun /\ \A q \in Pid : proc[q].role \notin Ours

(* kill_group, abandon: no step of the dog ends a process that is not its  *)
(* command's: another program's that has taken over a pid, one that left   *)
(* the group to persist, or one an earlier command left behind.            *)
KillsOnlyOurs ==
  [][pc' # pc => \A q \in Pid :
       Alive(q) /\ proc[q].role \notin Ours => proc'[q].state = "alive"]_vars

(* run_in_group, abandon: when a build or a hook is over, however it ended, *)
(* nothing of its group is left to write to the release; nor is anything   *)
(* of a fetch that was abandoned left to write to the clone.               *)
NothingLeft ==
  \A q \in Pid : Alive(q) =>
    /\ pc \in {"abandon", "reapHolder"} => proc[q].role # "work"
    /\ pc = "reapHolder" => proc[q].role # "child"

(* The id of a build's group is never free to be given out while the       *)
(* function may still signal the group.                                    *)
GroupReserved ==
  pc \in {"spawn", "wait", "abandon", "sweep", "reapHolder"} => Taken(run.group)

(* Every run ends, also when what it started never does and whoever holds  *)
(* its output never lets go.                                               *)
Ends == (pc # "idle") ~> (pc = "idle")
=============================================================================
