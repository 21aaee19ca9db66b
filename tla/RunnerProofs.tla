---------------------------- MODULE RunnerProofs ----------------------------
(***************************************************************************)
(* Proofs about Runner, for every number of pids, commands, forks and      *)
(* kills: the dog's signals reach nothing but its own command, the id of   *)
(* the group it signals is reserved as long as it may, and a build leaves  *)
(* nothing of its group behind.                                            *)
(*                                                                         *)
(* The argument is who can be in the group.  Its leader is taken from the  *)
(* moment the group exists until after the last signal, so no one else can *)
(* be given its pid and make a group of that id; and whoever forks inside  *)
(* it is the command's.                                                    *)
(***************************************************************************)
EXTENDS Runner, TLAPS

Entry == Process \cup {Gone}

(* While the function may still signal the group ...                       *)
Signalling == pc \in {"spawn", "wait", "abandon", "sweep", "reapHolder"}

(* ... its leader is a child the dog has not reaped.                       *)
Leader ==
  /\ pc \in {"spawn", "sweep", "reapHolder"} => run.kind = "build"
  /\ pc = "collect" => run.kind = "git"
  /\ pc \in {"wait", "abandon"} => run.kind \in {"build", "git"} /\ run.child \in Pid
  /\ pc # "idle" => run.group \in Pid
  /\ Signalling /\ run.kind = "build" => proc[run.group].role = "holder"
  /\ Signalling => proc[run.group].group = run.group
  /\ pc \in {"wait", "abandon"} => proc[run.child].role = "child"
  /\ pc \in {"wait", "abandon"} /\ run.kind = "git" => run.child = run.group

(* Everyone else who plays a part in the run, and nobody who does not, is  *)
(* in the group, a child that called setsid excepted.  Only the dog's own  *)
(* children leave a zombie.                                                *)
Belong ==
  \A q \in Pid :
    /\ proc[q].state = "zombie" => proc[q].role \in {"holder", "child"}
    /\ proc[q].role = "holder" => q = run.group /\ run.kind = "build" /\ pc # "idle"
    /\ proc[q].role = "child" => q = run.child /\ pc \in {"wait", "abandon"}
    /\ proc[q].role = "work" => proc[q].group = run.group /\ pc # "idle"
    /\ Signalling /\ proc[q].group = run.group => proc[q].role \in Ours

(* After the group was killed a child that lives has left it.              *)
Left ==
  pc = "abandon" /\ Alive(run.child) => proc[run.child].group # run.group

IInv == TypeOK /\ Leader /\ Belong /\ Left /\ NothingLeft

-----------------------------------------------------------------------------
(* The process table.                                                      *)

(* An entry is a process, or the pid is free.                              *)
LEMMA EntryShape ==
  ASSUME NEW x \in Entry
  PROVE  /\ x.state \in {"alive", "zombie", "free"}
         /\ x.state = "free" <=> x = Gone
         /\ x.state = "free" <=> x.role = "none"
         /\ x.state # "free" => x \in Process /\ x.role \in Role /\ x.group \in Pid
         /\ x.piped \in BOOLEAN
<1>1. CASE x \in Process
  <2>1. x.state \in {"alive", "zombie"} /\ x.role \in Role /\ x.group \in Pid
          /\ x.piped \in BOOLEAN
    BY <1>1 DEF Process
  <2>2. "none" \notin Role  BY DEF Role, Ours
  <2>3. x.state # "free" /\ x.role # "none"  BY <2>1, <2>2
  <2>4. x # Gone  BY <2>3 DEF Gone
  <2> QED  BY <1>1, <2>1, <2>3, <2>4
<1>2. CASE x = Gone
  <2>1. x.state = "free" /\ x.role = "none" /\ x.piped = FALSE  BY <1>2 DEF Gone
  <2> QED  BY <1>2, <2>1
<1> QED  BY <1>1, <1>2 DEF Entry

(* What is left of a process plays the part it played, or none.            *)
LEMMA DeadShape ==
  ASSUME NEW x \in Entry, x.state = "alive"
  PROVE  /\ Dead(x) \in Entry
         /\ Dead(x).state # "alive"
         /\ x.role \in {"holder", "child"} =>
              Dead(x).role = x.role /\ Dead(x).group = x.group
         /\ x.role \notin {"holder", "child"} => Dead(x) = Gone
<1>1. x \in Process  BY EntryShape
<1>2. x.role \in {"holder", "child"} => [x EXCEPT !.state = "zombie", !.piped = FALSE] \in Process
  BY <1>1 DEF Process
<1> QED  BY <1>1, <1>2 DEF Dead, Entry, Process, Gone

(* Killing some processes: what it does to each pid.                       *)
LEMMA KilledShape ==
  ASSUME proc \in [Pid -> Entry], NEW V
  PROVE  /\ Killed(V) \in [Pid -> Entry]
         /\ \A q \in Pid :
              LET x == proc[q]  y == Killed(V)[q] IN
              /\ q \notin V \/ x.state # "alive" => y = x
              /\ q \in V => y.state # "alive"
              /\ y.state = "alive" => y = x
              /\ x.role \in {"holder", "child"} => y.role = x.role /\ y.group = x.group
              /\ (y.role = x.role /\ y.group = x.group) \/ y = Gone
<1>1. \A q \in Pid : proc[q] \in Entry  OBVIOUS
<1>2. \A q \in Pid : Alive(q) => Dead(proc[q]) \in Entry
  BY <1>1, DeadShape DEF Alive
<1>3. Killed(V) = [q \in Pid |-> IF q \in V /\ Alive(q) THEN Dead(proc[q]) ELSE proc[q]]
  BY DEF Killed
<1>4. Killed(V) \in [Pid -> Entry]  BY <1>1, <1>2, <1>3
<1>5. ASSUME NEW q \in Pid, q \in V, Alive(q)
      PROVE  Killed(V)[q] = Dead(proc[q])
  BY <1>3, <1>5
<1>6. ASSUME NEW q \in Pid, q \notin V \/ ~Alive(q)
      PROVE  Killed(V)[q] = proc[q]
  BY <1>3, <1>6
<1>7. ASSUME NEW q \in Pid
      PROVE  LET x == proc[q]  y == Killed(V)[q] IN
             /\ q \notin V \/ x.state # "alive" => y = x
             /\ q \in V => y.state # "alive"
             /\ y.state = "alive" => y = x
             /\ x.role \in {"holder", "child"} => y.role = x.role /\ y.group = x.group
             /\ (y.role = x.role /\ y.group = x.group) \/ y = Gone
  <2>1. CASE q \in V /\ Alive(q)
    BY <2>1, <1>5, <1>1, DeadShape DEF Alive
  <2>2. CASE q \notin V \/ ~Alive(q)
    BY <2>2, <1>6 DEF Alive
  <2> QED  BY <2>1, <2>2
<1> QED  BY <1>4, <1>7

(* A budget that is spent from is a budget.                                *)
LEMMA Spending ==
  ASSUME left \in BoundsType, NEW kind \in {"run", "fork", "leave", "fault", "crash"},
         Spend(kind)
  PROVE  left' \in BoundsType
  BY DEF BoundsType, Spend

(* What the invariant says of one pid.                                     *)
LEMMA Entries ==
  ASSUME IInv
  PROVE  /\ proc \in [Pid -> Entry]
         /\ \A q \in Pid :
              /\ proc[q] \in Entry
              /\ ~Taken(q) <=> proc[q] = Gone
              /\ ~Taken(q) <=> proc[q].role = "none"
              /\ Alive(q) => Taken(q)
              /\ Taken(q) => proc[q] \in Process /\ proc[q].group \in Pid
              /\ proc[q].group \in Pid \cup {None}
              /\ proc[q].group = None <=> ~Taken(q)
              /\ proc[q].state = "zombie" <=> Taken(q) /\ ~Alive(q)
<1>1. proc \in [Pid -> Entry]  BY DEF IInv, TypeOK, Entry
<1>2. ASSUME NEW q \in Pid
      PROVE  /\ proc[q] \in Entry
             /\ ~Taken(q) <=> proc[q] = Gone
             /\ ~Taken(q) <=> proc[q].role = "none"
             /\ Alive(q) => Taken(q)
             /\ Taken(q) => proc[q] \in Process /\ proc[q].group \in Pid
             /\ proc[q].state = "zombie" <=> Taken(q) /\ ~Alive(q)
  <2>1. proc[q] \in Entry  BY <1>1
  <2> QED  BY <2>1, EntryShape DEF Taken, Alive
<1>3. ASSUME NEW q \in Pid
      PROVE  /\ proc[q].group \in Pid \cup {None}
             /\ proc[q].group = None <=> ~Taken(q)
  <2>1. Gone.group = None  BY DEF Gone
  <2> QED  BY <2>1, <1>2, PidAssumption
<1> QED  BY <1>1, <1>2, <1>3

(* A pid given out anew: nobody is in a group of its id, and nobody else   *)
(* changes.                                                                *)
LEMMA Spawned ==
  ASSUME IInv, NEW c \in Available, NEW role \in Role, NEW g \in Pid, NEW b \in BOOLEAN,
         proc' = [proc EXCEPT ![c] = Living(role, g, b)]
  PROVE  /\ c \in Pid /\ ~Taken(c) /\ proc[c].role = "none"
         /\ proc' \in [Pid -> Entry]
         /\ proc'[c].state = "alive" /\ proc'[c].role = role /\ proc'[c].group = g
         /\ \A q \in Pid \ {c} : proc'[q] = proc[q]
         /\ \A q \in Pid : proc[q].group # c
<1>1. c \in Pid /\ ~Taken(c) /\ Members(c) = {}  BY DEF Available
<1>2. Living(role, g, b) \in Process  BY DEF Living, Process
<1>3. /\ Living(role, g, b).state = "alive" /\ Living(role, g, b).role = role
      /\ Living(role, g, b).group = g
  BY DEF Living
<1>4. \A q \in Pid : proc[q].group # c  BY <1>1 DEF Members
<1> QED  BY <1>1, <1>2, <1>3, <1>4, Entries DEF Entry

-----------------------------------------------------------------------------
(* The steps of run_in_group and run_git_within.                           *)

LEMMA SpawnHolderKeeps ==
  ASSUME IInv, NEW h \in Pid, SpawnHolder(h)
  PROVE  IInv'
<1>1. /\ h \in Available /\ pc = "idle" /\ pc' = "spawn"
      /\ run' = [kind |-> "build", group |-> h, child |-> None]
      /\ proc' = [proc EXCEPT ![h] = Living("holder", h, FALSE)]
  BY DEF SpawnHolder, NoRun
<1>2. left' \in BoundsType  BY Spending DEF SpawnHolder, IInv, TypeOK
<1>3. "holder" \in Role  BY DEF Role, Ours
<1>4. /\ ~Taken(h) /\ proc' \in [Pid -> Entry]
      /\ proc'[h].state = "alive" /\ proc'[h].role = "holder" /\ proc'[h].group = h
      /\ \A q \in Pid \ {h} : proc'[q] = proc[q]
      /\ \A q \in Pid : proc[q].group # h
  BY <1>1, <1>3, Spawned
<1>5. \A q \in Pid : proc[q].role \notin Ours  BY <1>1 DEF IInv, TypeOK
<1>6. TypeOK'  BY <1>1, <1>2, <1>4 DEF TypeOK, Entry, Run, Places
<1>7. Leader'  BY <1>1, <1>4 DEF Leader, Signalling
<1>8. Belong'  BY <1>1, <1>4, <1>5 DEF IInv, Belong, Signalling, Ours
<1>9. Left' /\ NothingLeft'  BY <1>1 DEF Left, NothingLeft
<1> QED  BY <1>6, <1>7, <1>8, <1>9 DEF IInv

LEMMA SpawnBuildKeeps ==
  ASSUME IInv, NEW c \in Pid, SpawnBuild(c)
  PROVE  IInv'
<1>1. /\ c \in Available /\ pc = "spawn" /\ pc' = "wait" /\ left' = left
      /\ run' = [run EXCEPT !.child = c]
      /\ proc' = [proc EXCEPT ![c] = Living("child", run.group, FALSE)]
  BY DEF SpawnBuild
<1>2. /\ run.kind = "build" /\ run.group \in Pid /\ run \in Run
      /\ proc[run.group].role = "holder" /\ proc[run.group].group = run.group
  BY <1>1 DEF IInv, TypeOK, Leader, Signalling
<1>3. "child" \in Role  BY DEF Role, Ours
<1>4. /\ ~Taken(c) /\ proc[c].role = "none" /\ proc' \in [Pid -> Entry]
      /\ proc'[c].state = "alive" /\ proc'[c].role = "child"
      /\ proc'[c].group = run.group
      /\ \A q \in Pid \ {c} : proc'[q] = proc[q]
  <2> DEFINE g == run.group
  <2>1. g \in Pid /\ c \in Available /\ proc' = [proc EXCEPT ![c] = Living("child", g, FALSE)]
    BY <1>1, <1>2
  <2> HIDE DEF g
  <2>2. /\ ~Taken(c) /\ proc[c].role = "none" /\ proc' \in [Pid -> Entry]
        /\ proc'[c].state = "alive" /\ proc'[c].role = "child" /\ proc'[c].group = g
        /\ \A q \in Pid \ {c} : proc'[q] = proc[q]
    BY <2>1, <1>3, Spawned
  <2> QED  BY <2>2 DEF g
<1>5. c # run.group  BY <1>2, <1>4
<1>6. /\ run' \in Run /\ run'.kind = "build" /\ run'.group = run.group /\ run'.child = c
  BY <1>1, <1>2 DEF Run
<1>7. TypeOK'  BY <1>1, <1>4, <1>6 DEF IInv, TypeOK, Entry, Places
<1>8. Leader'  BY <1>1, <1>2, <1>4, <1>5, <1>6 DEF Leader, Signalling
<1>9. Belong'
  BY <1>1, <1>2, <1>4, <1>6 DEF IInv, Belong, Signalling, Ours
<1>10. Left' /\ NothingLeft'  BY <1>1 DEF Left, NothingLeft
<1> QED  BY <1>7, <1>8, <1>9, <1>10 DEF IInv

LEMMA SpawnGitKeeps ==
  ASSUME IInv, NEW c \in Pid, SpawnGit(c)
  PROVE  IInv'
<1>1. /\ c \in Available /\ pc = "idle" /\ pc' = "wait"
      /\ run' = [kind |-> "git", group |-> c, child |-> c]
      /\ proc' = [proc EXCEPT ![c] = Living("child", c, TRUE)]
  BY DEF SpawnGit
<1>2. left' \in BoundsType  BY Spending DEF SpawnGit, IInv, TypeOK
<1>3. "child" \in Role  BY DEF Role, Ours
<1>4. /\ ~Taken(c) /\ proc' \in [Pid -> Entry]
      /\ proc'[c].state = "alive" /\ proc'[c].role = "child" /\ proc'[c].group = c
      /\ \A q \in Pid \ {c} : proc'[q] = proc[q]
      /\ \A q \in Pid : proc[q].group # c
  BY <1>1, <1>3, Spawned
<1>5. \A q \in Pid : proc[q].role \notin Ours  BY <1>1 DEF IInv, TypeOK
<1>6. TypeOK'  BY <1>1, <1>2, <1>4 DEF TypeOK, Entry, Run, Places
<1>7. Leader'  BY <1>1, <1>4 DEF Leader, Signalling
<1>8. Belong'  BY <1>1, <1>4, <1>5 DEF IInv, Belong, Signalling, Ours
<1>9. Left' /\ NothingLeft'  BY <1>1 DEF Left, NothingLeft
<1> QED  BY <1>6, <1>7, <1>8, <1>9 DEF IInv

(* Killing the group ends whoever is alive in it, and nobody changes parts. *)
LEMMA GroupKilled ==
  ASSUME IInv, Signalling, KillGroup(run.group)
  PROVE  /\ proc' \in [Pid -> Entry]
         /\ run.group \in Pid /\ Taken(run.group) /\ proc[run.group].role \in {"holder", "child"}
         /\ \A q \in Pid :
              /\ proc'[q] = proc[q] \/ proc[q].group = run.group
              /\ proc'[q].state = "alive" => proc'[q] = proc[q] /\ proc[q].group # run.group
              /\ proc[q].role \in {"holder", "child"} =>
                   proc'[q].role = proc[q].role /\ proc'[q].group = proc[q].group
              /\ (proc'[q].role = proc[q].role /\ proc'[q].group = proc[q].group) \/ proc'[q] = Gone
              /\ proc'[q].state = "zombie" => proc'[q].role \in {"holder", "child"}
<1>1. proc' = Killed(Members(run.group))  BY DEF KillGroup
<1>2. run.group \in Pid /\ proc[run.group].role \in {"holder", "child"}
  BY DEF IInv, Leader, Signalling
<1>3. Taken(run.group)  BY <1>2, Entries
<1>4. proc \in [Pid -> Entry]  BY Entries
<1>5. \A q \in Pid : q \in Members(run.group) <=> proc[q].group = run.group
  BY DEF Members
<1>6. proc' \in [Pid -> Entry]  BY <1>1, <1>4, KilledShape
<1>7. ASSUME NEW q \in Pid
      PROVE  /\ proc'[q] = proc[q] \/ proc[q].group = run.group
             /\ proc'[q].state = "alive" => proc'[q] = proc[q] /\ proc[q].group # run.group
             /\ proc[q].role \in {"holder", "child"} =>
                  proc'[q].role = proc[q].role /\ proc'[q].group = proc[q].group
             /\ (proc'[q].role = proc[q].role /\ proc'[q].group = proc[q].group) \/ proc'[q] = Gone
             /\ proc'[q].state = "zombie" => proc'[q].role \in {"holder", "child"}
  <2>1. LET V == Members(run.group)  x == proc[q]  y == proc'[q] IN
        /\ q \notin V \/ x.state # "alive" => y = x
        /\ q \in V => y.state # "alive"
        /\ y.state = "alive" => y = x
        /\ x.role \in {"holder", "child"} => y.role = x.role /\ y.group = x.group
        /\ (y.role = x.role /\ y.group = x.group) \/ y = Gone
    BY <1>1, <1>4, KilledShape
  <2>2. proc'[q].state = "zombie" => proc'[q].role \in {"holder", "child"}
    <3> SUFFICES ASSUME proc'[q].state = "zombie"
                 PROVE  proc'[q].role \in {"holder", "child"}
      OBVIOUS
    <3>1. CASE proc[q].state = "alive" /\ q \in Members(run.group)
      <4>1. proc'[q] = Dead(proc[q])  BY <1>1, <3>1 DEF Killed, Alive
      <4>2. proc[q] \in Entry /\ proc[q].state = "alive"  BY <1>4, <3>1
      <4>3. Gone.state = "free"  BY DEF Gone
      <4>4. proc[q].role \in {"holder", "child"}  BY <4>1, <4>2, <4>3, DeadShape
      <4> QED  BY <4>4, <2>1
    <3>2. CASE proc[q].state # "alive" \/ q \notin Members(run.group)
      BY <3>2, <2>1 DEF IInv, Belong
    <3> QED  BY <3>1, <3>2
  <2> QED  BY <2>1, <2>2, <1>5
<1> QED  BY <1>2, <1>3, <1>6, <1>7

LEMMA SpawnFailsKeeps ==
  ASSUME IInv, SpawnFails
  PROVE  IInv'
<1>1. pc = "spawn" /\ pc' = "reapHolder" /\ run' = run /\ KillGroup(run.group)
  BY DEF SpawnFails
<1>2. left' \in BoundsType  BY Spending DEF SpawnFails, IInv, TypeOK
<1>3. Signalling /\ run.kind = "build" /\ run \in Run
  BY <1>1 DEF Signalling, IInv, Leader, TypeOK
<1>4. \A q \in Pid : proc[q].role # "child"  BY <1>1 DEF IInv, Belong
<1>5. TypeOK'  BY <1>1, <1>2, <1>3, GroupKilled DEF TypeOK, Entry, Places
<1>6. Leader'
  BY <1>1, <1>3, GroupKilled DEF IInv, Leader, Signalling
<1>7. Gone.role = "none" /\ Gone.state = "free" /\ Gone.group = None  BY DEF Gone
<1>8. Belong'
  BY <1>1, <1>3, <1>4, <1>7, GroupKilled, PidAssumption DEF IInv, Belong, Signalling, Ours
<1>9. Left'  BY <1>1 DEF Left
<1>10. NothingLeft'
  BY <1>1, <1>3, <1>4, <1>7, GroupKilled DEF IInv, Belong, NothingLeft, Alive
<1> QED  BY <1>5, <1>6, <1>8, <1>9, <1>10 DEF IInv

LEMMA WaitedKeeps ==
  ASSUME IInv, Waited
  PROVE  IInv'
<1>1. /\ pc = "wait" /\ run' = run /\ left' = left
      /\ proc' = [proc EXCEPT ![run.child] = Gone]
      /\ pc' = IF run.kind = "build" THEN "sweep" ELSE "collect"
  BY DEF Waited
<1>2. /\ run.child \in Pid /\ proc[run.child].role = "child" /\ run.kind \in {"build", "git"}
      /\ run.group \in Pid /\ run \in Run /\ left \in BoundsType
  BY <1>1 DEF IInv, TypeOK, Leader
<1>3. Gone.role = "none" /\ Gone.state = "free" /\ Gone.group = None /\ Gone \in Entry
  BY DEF Gone, Entry
<1>4. /\ proc' \in [Pid -> Entry] /\ proc'[run.child] = Gone
      /\ \A q \in Pid \ {run.child} : proc'[q] = proc[q]
  BY <1>1, <1>2, <1>3, Entries
<1>5. TypeOK'  BY <1>1, <1>2, <1>4 DEF TypeOK, Entry, Places
<1>6. Leader'
  BY <1>1, <1>2, <1>4 DEF IInv, Leader, Signalling
<1>7. Belong'
  BY <1>1, <1>2, <1>3, <1>4, PidAssumption DEF IInv, Belong, Signalling, Ours
<1>8. Left' /\ NothingLeft'  BY <1>1, <1>2 DEF Left, NothingLeft
<1> QED  BY <1>5, <1>6, <1>7, <1>8 DEF IInv

LEMMA TimedOutKeeps ==
  ASSUME IInv, TimedOut
  PROVE  IInv'
<1>1. pc = "wait" /\ pc' = "abandon" /\ run' = run /\ left' = left /\ KillGroup(run.group)
  BY DEF TimedOut
<1>2. Signalling /\ run \in Run /\ left \in BoundsType /\ run.child \in Pid
  BY <1>1 DEF Signalling, IInv, Leader, TypeOK
<1>3. TypeOK'  BY <1>1, <1>2, GroupKilled DEF TypeOK, Entry, Places
<1>4. Leader'
  BY <1>1, <1>2, GroupKilled DEF IInv, Leader, Signalling
<1>5. Gone.role = "none" /\ Gone.state = "free" /\ Gone.group = None  BY DEF Gone
<1>6. Belong'
  BY <1>1, <1>2, <1>5, GroupKilled, PidAssumption DEF IInv, Belong, Signalling, Ours
<1>7. Left'  BY <1>1, <1>2, GroupKilled DEF Left, Alive
<1>8. NothingLeft'
  BY <1>1, <1>2, <1>5, GroupKilled DEF IInv, Belong, NothingLeft, Alive
<1> QED  BY <1>3, <1>4, <1>6, <1>7, <1>8 DEF IInv

LEMMA SweepKeeps ==
  ASSUME IInv, Sweep
  PROVE  IInv'
<1>1. pc = "sweep" /\ pc' = "reapHolder" /\ run' = run /\ left' = left /\ KillGroup(run.group)
  BY DEF Sweep
<1>2. Signalling /\ run.kind = "build" /\ run \in Run /\ left \in BoundsType
  BY <1>1 DEF Signalling, IInv, Leader, TypeOK
<1>3. \A q \in Pid : proc[q].role # "child"  BY <1>1 DEF IInv, Belong
<1>4. TypeOK'  BY <1>1, <1>2, GroupKilled DEF TypeOK, Entry, Places
<1>5. Leader'
  BY <1>1, <1>2, GroupKilled DEF IInv, Leader, Signalling
<1>6. Gone.role = "none" /\ Gone.state = "free" /\ Gone.group = None  BY DEF Gone
<1>7. Belong'
  BY <1>1, <1>2, <1>3, <1>6, GroupKilled, PidAssumption DEF IInv, Belong, Signalling, Ours
<1>8. Left'  BY <1>1 DEF Left
<1>9. NothingLeft'
  BY <1>1, <1>2, <1>3, <1>6, GroupKilled DEF IInv, Belong, NothingLeft, Alive
<1> QED  BY <1>4, <1>5, <1>7, <1>8, <1>9 DEF IInv

(* Returning, with every child reaped: nobody plays a part any more.       *)
LEMMA OrphanedShape ==
  ASSUME NEW x \in Entry, x.state # "zombie"
  PROVE  /\ Orphaned(x) \in Entry
         /\ Orphaned(x).role \notin Ours
         /\ Orphaned(x).state = x.state
         /\ x.role \notin Ours => Orphaned(x).role = x.role
<1>1. CASE x = Gone
  <2>1. Gone.role \notin Ours  BY DEF Gone, Ours
  <2> QED  BY <1>1, <2>1 DEF Orphaned, Entry
<1>2. CASE x \in Process
  <2>1. x # Gone /\ x.state = "alive"
    BY <1>2, EntryShape DEF Process
  <2>2. "orphan" \in Role /\ "orphan" \notin Ours  BY DEF Role, Ours
  <2>3. CASE x.role \in Ours
    <3>1. Orphaned(x) = [x EXCEPT !.piped = FALSE, !.role = "orphan"]
      BY <2>1, <2>3 DEF Orphaned
    <3>2. /\ Orphaned(x) \in Process /\ Orphaned(x).role = "orphan"
          /\ Orphaned(x).state = x.state
      BY <1>2, <2>2, <3>1 DEF Process
    <3> QED  BY <2>2, <2>3, <3>2 DEF Entry
  <2>4. CASE x.role \notin Ours
    <3>1. Orphaned(x) = [x EXCEPT !.piped = FALSE, !.role = x.role]
      BY <2>1, <2>4 DEF Orphaned
    <3>2. /\ Orphaned(x) \in Process /\ Orphaned(x).role = x.role
          /\ Orphaned(x).state = x.state
      BY <1>2, <3>1 DEF Process
    <3> QED  BY <2>4, <3>2 DEF Entry
  <2> QED  BY <2>3, <2>4
<1> QED  BY <1>1, <1>2 DEF Entry

LEMMA Returning ==
  ASSUME NEW table \in [Pid -> Entry], \A q \in Pid : table[q].state # "zombie",
         Return(table), left' \in BoundsType
  PROVE  IInv'
<1>1. pc' = "idle" /\ run' = NoRun /\ proc' = [q \in Pid |-> Orphaned(table[q])]
  BY DEF Return
<1>2. \A q \in Pid : table[q] \in Entry  OBVIOUS
<1>3. \A q \in Pid : /\ Orphaned(table[q]) \in Entry
                     /\ Orphaned(table[q]).role \notin Ours
                     /\ Orphaned(table[q]).state # "zombie"
  BY <1>2, OrphanedShape
<1>4. /\ proc' \in [Pid -> Entry]
      /\ \A q \in Pid : proc'[q].role \notin Ours /\ proc'[q].state # "zombie"
  BY <1>1, <1>3
<1>5. NoRun \in Run  BY DEF NoRun, Run
<1>6. TypeOK'  BY <1>1, <1>4, <1>5 DEF TypeOK, Entry, Places
<1>7. Leader'  BY <1>1 DEF Leader, Signalling
<1>8. Belong'  BY <1>1, <1>4 DEF Belong, Signalling, Ours
<1>9. Left' /\ NothingLeft'  BY <1>1 DEF Left, NothingLeft
<1> QED  BY <1>6, <1>7, <1>8, <1>9 DEF IInv

(* A table in which one pid has been freed.                                *)
LEMMA Reaped ==
  ASSUME proc \in [Pid -> Entry], NEW c \in Pid
  PROVE  LET table == [proc EXCEPT ![c] = Gone] IN
         /\ table \in [Pid -> Entry]
         /\ table[c] = Gone
         /\ \A q \in Pid \ {c} : table[q] = proc[q]
  BY DEF Entry

LEMMA KillChildKeeps ==
  ASSUME IInv, KillChild
  PROVE  IInv'
<1> DEFINE reaped == [proc EXCEPT ![run.child] = Gone]
<1>1. /\ pc = "abandon" /\ left' = left
      /\ \/ /\ run.kind = "build"
            /\ proc' = reaped /\ pc' = "reapHolder" /\ run' = run
         \/ run.kind = "git" /\ Return(reaped)
  BY DEF KillChild
<1>2. /\ run.child \in Pid /\ proc[run.child].role = "child" /\ run.group \in Pid
      /\ run \in Run /\ left \in BoundsType /\ left' \in BoundsType
  BY <1>1 DEF IInv, TypeOK, Leader
<1>3. /\ reaped \in [Pid -> Entry] /\ reaped[run.child] = Gone
      /\ \A q \in Pid \ {run.child} : reaped[q] = proc[q]
  BY <1>2, Entries, Reaped
<1>4. Gone.role = "none" /\ Gone.state = "free" /\ Gone.group = None  BY DEF Gone
<1> HIDE DEF reaped
<1>5. CASE run.kind = "git" /\ Return(reaped)
  <2>1. \A q \in Pid : reaped[q].state # "zombie"
    BY <1>3, <1>4, <1>5 DEF IInv, Belong
  <2> QED  BY <1>2, <1>3, <1>5, <2>1, Returning
<1>6. CASE run.kind = "build" /\ proc' = reaped /\ pc' = "reapHolder" /\ run' = run
  <2>1. TypeOK'  BY <1>2, <1>3, <1>6 DEF TypeOK, Entry, Places
  <2>2. Leader'
    BY <1>1, <1>2, <1>3, <1>6 DEF IInv, Leader, Signalling
  <2>3. Belong'
    BY <1>1, <1>2, <1>3, <1>4, <1>6, PidAssumption DEF IInv, Belong, Signalling, Ours
  <2>4. Left'  BY <1>6 DEF Left
  <2>5. NothingLeft'
    BY <1>1, <1>2, <1>3, <1>4, <1>6 DEF IInv, Belong, NothingLeft, Alive
  <2> QED  BY <2>1, <2>2, <2>3, <2>4, <2>5 DEF IInv
<1> QED  BY <1>1, <1>5, <1>6

LEMMA ReapHolderKeeps ==
  ASSUME IInv, ReapHolder
  PROVE  IInv'
<1> DEFINE table == [proc EXCEPT ![run.group] = Gone]
<1>1. pc = "reapHolder" /\ Return(table) /\ left' = left  BY DEF ReapHolder
<1>2. run.group \in Pid /\ left' \in BoundsType
  BY <1>1 DEF IInv, TypeOK, Leader
<1>3. /\ table \in [Pid -> Entry] /\ table[run.group] = Gone
      /\ \A q \in Pid \ {run.group} : table[q] = proc[q]
  BY <1>2, Entries, Reaped
<1>4. Gone.state = "free"  BY DEF Gone
<1> HIDE DEF table
<1>5. \A q \in Pid : table[q].state # "zombie"
  BY <1>1, <1>3, <1>4 DEF IInv, Belong
<1> QED  BY <1>1, <1>2, <1>3, <1>5, Returning

LEMMA CollectKeeps ==
  ASSUME IInv, Collect
  PROVE  IInv'
<1>1. pc = "collect" /\ Return(proc) /\ left' \in BoundsType
  BY DEF Collect, IInv, TypeOK
<1>2. run.kind = "git"  BY <1>1 DEF IInv, Leader
<1>3. \A q \in Pid : proc[q].state # "zombie"
  BY <1>1, <1>2 DEF IInv, Belong
<1> QED  BY <1>1, <1>3, Entries, Returning

LEMMA CrashKeeps ==
  ASSUME IInv, Crash
  PROVE  IInv'
<1> DEFINE table == [q \in Pid |-> IF proc[q].state = "zombie" THEN Gone ELSE proc[q]]
<1>1. Return(table) /\ left' \in BoundsType
  BY Spending DEF Crash, IInv, TypeOK
<1>2. \A q \in Pid : proc[q] \in Entry  BY Entries
<1>3. Gone \in Entry /\ Gone.state = "free"  BY DEF Gone, Entry
<1>4. table \in [Pid -> Entry]  BY <1>2, <1>3
<1>5. \A q \in Pid : table[q].state # "zombie"  BY <1>3
<1> HIDE DEF table
<1> QED  BY <1>1, <1>4, <1>5, Returning

-----------------------------------------------------------------------------
(* The steps of everyone else.                                             *)

LEMMA ForkKeeps ==
  ASSUME IInv, NEW q \in Pid, NEW r \in Pid, Fork(q, r)
  PROVE  IInv'
<1> DEFINE role == RoleOfForked(proc[q])
           g == proc[q].group
           b == proc[q].piped
<1>1. /\ Alive(q) /\ proc[q].role \in {"child", "work", "daemon", "orphan"}
      /\ r \in Available /\ pc' = pc /\ run' = run
      /\ proc' = [proc EXCEPT ![r] = Living(role, g, b)]
  BY DEF Fork
<1>2. left' \in BoundsType  BY Spending DEF Fork, IInv, TypeOK
<1>3. proc[q] \in Entry /\ Taken(q) /\ proc[q] \in Process /\ g \in Pid
  BY <1>1, Entries
<1>4. b \in BOOLEAN  BY <1>3, EntryShape
<1>5. role \in {"work", "daemon", "orphan"} /\ role \in Role
  BY <1>1 DEF RoleOfForked, Role, Ours
<1>6. /\ role = "work" => proc[q].role = "work" \/ (proc[q].role = "child" /\ g = run.group)
      /\ proc[q].role = "work" => role = "work"
      /\ proc[q].role = "child" /\ g = run.group => role = "work"
  <2>1. CASE proc[q].role = "child"  BY <2>1 DEF RoleOfForked
  <2>2. CASE proc[q].role # "child"
    <3>1. role = proc[q].role  BY <2>2 DEF RoleOfForked
    <3> QED  BY <3>1, <2>2
  <2> QED  BY <2>1, <2>2
<1> HIDE DEF role, g, b
<1>7. /\ ~Taken(r) /\ proc[r].role = "none" /\ proc' \in [Pid -> Entry]
      /\ proc'[r].state = "alive" /\ proc'[r].role = role /\ proc'[r].group = g
      /\ \A p \in Pid \ {r} : proc'[p] = proc[p]
  <2>1. r \in Pid /\ ~Taken(r)  BY <1>1 DEF Available
  <2>2. proc[r].role = "none" /\ proc \in [Pid -> Entry]  BY <2>1, Entries
  <2>3. Living(role, g, b) \in Process
    BY <1>3, <1>4, <1>5 DEF Living, Process
  <2>4. /\ Living(role, g, b).state = "alive" /\ Living(role, g, b).role = role
        /\ Living(role, g, b).group = g
    BY DEF Living
  <2> QED  BY <1>1, <2>1, <2>2, <2>3, <2>4 DEF Entry
<1>8. Signalling => Taken(run.group) /\ run.group \in Pid /\ run.group # r
  <2>1. Signalling => run.group \in Pid /\ proc[run.group].group = run.group
    BY DEF IInv, Leader, Signalling
  <2>2. Signalling => Taken(run.group)  BY <2>1, Entries, PidAssumption
  <2> QED  BY <2>1, <2>2, <1>7
<1>9. pc \in {"wait", "abandon"} => run.child \in Pid /\ run.child # r
  BY <1>7 DEF IInv, Leader
<1>10. TypeOK'
  <2>1. role \notin Ours \/ pc # "idle"
    BY <1>1, <1>3, <1>5, <1>6 DEF IInv, TypeOK, Ours
  <2> QED  BY <1>1, <1>2, <1>7, <2>1 DEF IInv, TypeOK, Entry
<1>11. Leader'
  BY <1>1, <1>7, <1>8, <1>9 DEF IInv, Leader, Signalling
<1>12. Belong'
  <2>1. role = "work" => g = run.group /\ pc # "idle"
    BY <1>3, <1>6 DEF IInv, Belong, g
  <2>2. Signalling /\ g = run.group => role = "work"
    BY <1>3, <1>1, <1>6 DEF IInv, Belong, Ours, g
  <2> QED  BY <1>1, <1>5, <1>7, <2>1, <2>2 DEF IInv, Belong, Signalling, Ours
<1>13. Left'  BY <1>1, <1>7, <1>9 DEF IInv, Left, Alive
<1>14. NothingLeft'
  <2>1. pc \in {"abandon", "reapHolder"} => role # "work"
    BY <1>1, <1>3, <1>6 DEF IInv, NothingLeft, Left, Belong, g
  <2> QED  BY <1>1, <1>5, <1>7, <2>1 DEF IInv, NothingLeft, Alive
<1> QED  BY <1>10, <1>11, <1>12, <1>13, <1>14 DEF IInv

LEMMA SetsidKeeps ==
  ASSUME IInv, NEW q \in Pid, Setsid(q)
  PROVE  IInv'
<1> DEFINE role == IF proc[q].role = "work" THEN "daemon" ELSE proc[q].role
<1>1. /\ Alive(q) /\ proc[q].role \in {"child", "work"} /\ proc[q].group # q
      /\ Members(q) = {} /\ pc' = pc /\ run' = run
      /\ proc' = [proc EXCEPT ![q] = [proc[q] EXCEPT !.group = q, !.role = role]]
  BY DEF Setsid
<1>2. left' \in BoundsType  BY Spending DEF Setsid, IInv, TypeOK
<1>3. proc \in [Pid -> Entry] /\ proc[q] \in Process /\ proc[q].state = "alive"
  BY <1>1, Entries DEF Alive
<1>4. role \in {"child", "daemon"} /\ role \in Role /\ (role = "child" <=> proc[q].role = "child")
  BY <1>1 DEF Role, Ours
<1> HIDE DEF role
<1>5. /\ [proc[q] EXCEPT !.group = q, !.role = role] \in Process
      /\ [proc[q] EXCEPT !.group = q, !.role = role].state = "alive"
      /\ [proc[q] EXCEPT !.group = q, !.role = role].role = role
      /\ [proc[q] EXCEPT !.group = q, !.role = role].group = q
  BY <1>3, <1>4 DEF Process
<1>6. /\ proc' \in [Pid -> Entry]
      /\ proc'[q].state = "alive" /\ proc'[q].role = role /\ proc'[q].group = q
      /\ \A p \in Pid \ {q} : proc'[p] = proc[p]
  BY <1>1, <1>3, <1>5 DEF Entry
<1>7. Signalling => run.group \in Pid /\ run.group # q
  BY <1>1 DEF IInv, Leader, Signalling
<1>8. pc # "idle"  BY <1>1 DEF IInv, TypeOK, Ours
<1>9. TypeOK'  BY <1>1, <1>2, <1>6, <1>8 DEF IInv, TypeOK, Entry
<1>10. Leader'
  BY <1>1, <1>4, <1>6, <1>7 DEF IInv, Leader, Belong, Signalling
<1>11. Belong'
  BY <1>1, <1>4, <1>6, <1>7 DEF IInv, Belong, Signalling, Ours
<1>12. Left'
  <2>1. CASE pc = "abandon"
    <3>1. run.child \in Pid /\ run.group # q  BY <2>1, <1>7 DEF IInv, Leader, Signalling
    <3>2. CASE run.child = q  BY <1>1, <1>6, <3>1, <3>2 DEF Left
    <3>3. CASE run.child # q
      BY <1>1, <1>6, <3>1, <3>3 DEF IInv, Left, Alive
    <3> QED  BY <3>2, <3>3
  <2> QED  BY <2>1, <1>1 DEF Left
<1>13. NothingLeft'
  BY <1>1, <1>4, <1>6 DEF IInv, NothingLeft, Alive
<1> QED  BY <1>9, <1>10, <1>11, <1>12, <1>13 DEF IInv

LEMMA ForeignKeeps ==
  ASSUME IInv, NEW q \in Pid, Foreign(q)
  PROVE  IInv'
<1>1. /\ q \in Available /\ pc' = pc /\ run' = run
      /\ proc' = [proc EXCEPT ![q] = Living("other", q, FALSE)]
  BY DEF Foreign
<1>2. left' \in BoundsType  BY Spending DEF Foreign, IInv, TypeOK
<1>3. "other" \in Role  BY DEF Role, Ours
<1>4. /\ ~Taken(q) /\ proc[q].role = "none" /\ proc' \in [Pid -> Entry]
      /\ proc'[q].state = "alive" /\ proc'[q].role = "other" /\ proc'[q].group = q
      /\ \A p \in Pid \ {q} : proc'[p] = proc[p]
      /\ \A p \in Pid : proc[p].group # q
  BY <1>1, <1>3, Spawned
<1>5. Signalling => run.group \in Pid /\ run.group # q
  BY <1>4 DEF IInv, Leader, Signalling
<1>6. pc \in {"wait", "abandon"} => run.child \in Pid /\ run.child # q
  BY <1>4 DEF IInv, Leader
<1>7. TypeOK'  BY <1>1, <1>2, <1>4 DEF IInv, TypeOK, Entry, Ours
<1>8. Leader'  BY <1>1, <1>4, <1>5, <1>6 DEF IInv, Leader, Signalling
<1>9. Belong'  BY <1>1, <1>4, <1>5 DEF IInv, Belong, Signalling, Ours
<1>10. Left'  BY <1>1, <1>4, <1>6 DEF IInv, Left, Alive
<1>11. NothingLeft'  BY <1>1, <1>4 DEF IInv, NothingLeft, Alive
<1> QED  BY <1>7, <1>8, <1>9, <1>10, <1>11 DEF IInv

LEMMA ExitKeeps ==
  ASSUME IInv, NEW q \in Pid, Exit(q)
  PROVE  IInv'
<1>1. Alive(q) /\ pc' = pc /\ run' = run /\ left' = left /\ proc' = Killed({q})
  BY DEF Exit
<1>2. proc \in [Pid -> Entry] /\ proc[q] \in Entry  BY Entries
<1>3. /\ proc' = [p \in Pid |-> IF p \in {q} /\ Alive(p) THEN Dead(proc[p]) ELSE proc[p]]
      /\ proc' \in [Pid -> Entry]
  BY <1>1, <1>2, KilledShape DEF Killed
<1>4. /\ proc'[q] = Dead(proc[q]) /\ proc'[q].state # "alive"
      /\ \A p \in Pid \ {q} : proc'[p] = proc[p]
  BY <1>1, <1>2, <1>3, DeadShape DEF Alive
<1>5. /\ proc[q].role \in {"holder", "child"} =>
           proc'[q].role = proc[q].role /\ proc'[q].group = proc[q].group
      /\ proc[q].role \notin {"holder", "child"} => proc'[q] = Gone
  BY <1>1, <1>2, <1>4, DeadShape DEF Alive
<1>6. Gone.role = "none" /\ Gone.state = "free" /\ Gone.group = None  BY DEF Gone
<1>7. TypeOK'
  BY <1>1, <1>3, <1>4, <1>5, <1>6 DEF IInv, TypeOK, Entry, Ours
<1>8. Leader'
  BY <1>1, <1>4, <1>5 DEF IInv, Leader, Belong, Signalling, Ours
<1>9. Belong'
  <2>1. Signalling => run.group \in Pid  BY DEF IInv, Leader, Signalling
  <2> QED  BY <1>1, <1>4, <1>5, <1>6, <2>1, PidAssumption DEF IInv, Belong, Signalling, Ours
<1>10. Left'
  BY <1>1, <1>4 DEF IInv, Left, Leader, Alive
<1>11. NothingLeft'
  BY <1>1, <1>4 DEF IInv, NothingLeft, Alive
<1> QED  BY <1>7, <1>8, <1>9, <1>10, <1>11 DEF IInv

-----------------------------------------------------------------------------
(* The invariant is inductive.                                             *)

LEMMA InitHolds == Init => IInv
<1> SUFFICES ASSUME Init PROVE IInv
  OBVIOUS
<1>1. /\ proc = [q \in Pid |-> Gone] /\ run = NoRun /\ pc = "idle" /\ left = Bounds
  BY DEF Init
<1>2. Gone.role = "none" /\ Gone.state = "free"  BY DEF Gone
<1>3. \A q \in Pid : proc[q] = Gone  BY <1>1
<1>4. NoRun \in Run  BY DEF NoRun, Run
<1>5. TypeOK
  BY <1>1, <1>2, <1>3, <1>4, BoundsAssumption DEF TypeOK, Places, Ours
<1>6. Leader  BY <1>1 DEF Leader, Signalling
<1>7. Belong  BY <1>1, <1>2, <1>3 DEF Belong, Signalling
<1>8. Left /\ NothingLeft  BY <1>1 DEF Left, NothingLeft
<1> QED  BY <1>5, <1>6, <1>7, <1>8 DEF IInv

LEMMA StepHolds == IInv /\ [Next]_vars => IInv'
<1> SUFFICES ASSUME IInv, [Next]_vars PROVE IInv'
  OBVIOUS
<1>1. CASE Spawns
  BY <1>1, SpawnHolderKeeps, SpawnBuildKeeps, SpawnGitKeeps DEF Spawns
<1>2. CASE SpawnFails  BY <1>2, SpawnFailsKeeps
<1>3. CASE Proceeds
  BY <1>3, WaitedKeeps, TimedOutKeeps, KillChildKeeps, SweepKeeps, ReapHolderKeeps,
     CollectKeeps DEF Proceeds
<1>4. CASE Host
  BY <1>4, SetsidKeeps, ForeignKeeps, ExitKeeps, ForkKeeps DEF Host
<1>5. CASE Crash  BY <1>5, CrashKeeps
<1>6. CASE UNCHANGED vars
  BY <1>6 DEF vars, IInv, TypeOK, Leader, Belong, Left, NothingLeft, Signalling, Alive
<1> QED  BY <1>1, <1>2, <1>3, <1>4, <1>5, <1>6 DEF Next

LEMMA Always == Spec => []IInv
  BY InitHolds, StepHolds, PTL DEF Spec

(* Every variable keeps to its type, and between two runs nothing the dog  *)
(* started plays a part: no step of run_in_group, run_git_within, the      *)
(* kernel or anyone else breaks it.                                        *)
THEOREM TypeCorrect == Spec => []TypeOK
<1>1. IInv => TypeOK  BY DEF IInv
<1> QED  BY <1>1, Always, PTL

(* The id of a build's group is taken for as long as run_in_group and      *)
(* abandon may still signal it.                                            *)
THEOREM GroupStaysReserved == Spec => []GroupReserved
<1>1. IInv => GroupReserved
  <2> SUFFICES ASSUME IInv, Signalling PROVE Taken(run.group)
    BY DEF GroupReserved, Signalling
  <2>1. run.group \in Pid /\ proc[run.group].group = run.group
    BY DEF IInv, Leader, Signalling
  <2> QED  BY <2>1, Entries, PidAssumption
<1> QED  BY <1>1, Always, PTL

(* run_in_group leaves nothing of its group behind to write to the release *)
(* and an abandoned fetch nothing to write to the clone.                   *)
THEOREM BuildsLeaveNothing == Spec => []NothingLeft
<1>1. IInv => NothingLeft  BY DEF IInv
<1> QED  BY <1>1, Always, PTL

-----------------------------------------------------------------------------
(* Who the dog's own steps can end.                                        *)

(* A process that is not the command's is alive after the step.            *)
Harmless ==
  \A q \in Pid : Alive(q) /\ proc[q].role \notin Ours => proc'[q].state = "alive"

LEMMA KillGroupHarmless ==
  ASSUME IInv, Signalling, KillGroup(run.group)
  PROVE  Harmless
<1> SUFFICES ASSUME NEW q \in Pid, Alive(q), proc[q].role \notin Ours
             PROVE  proc'[q].state = "alive"
  BY DEF Harmless
<1>1. proc[q].group # run.group  BY DEF IInv, Belong
<1>2. proc'[q] = proc[q]  BY <1>1, GroupKilled
<1> QED  BY <1>2 DEF Alive

LEMMA ReturnHarmless ==
  ASSUME IInv, NEW table \in [Pid -> Entry], Return(table),
         \A q \in Pid : Alive(q) /\ proc[q].role \notin Ours => table[q].state = "alive"
  PROVE  Harmless
<1> SUFFICES ASSUME NEW q \in Pid, Alive(q), proc[q].role \notin Ours
             PROVE  proc'[q].state = "alive"
  BY DEF Harmless
<1>1. proc'[q] = Orphaned(table[q])  BY DEF Return
<1>2. table[q] \in Entry /\ table[q].state = "alive"  OBVIOUS
<1> QED  BY <1>1, <1>2, OrphanedShape

LEMMA StepHarmless ==
  ASSUME IInv, [Next]_vars
  PROVE  pc' # pc => Harmless
<1> SUFFICES ASSUME pc' # pc PROVE Harmless
  OBVIOUS
<1>1. ASSUME NEW c \in Available, NEW x, x.state = "alive", proc' = [proc EXCEPT ![c] = x]
      PROVE  Harmless
  <2> SUFFICES ASSUME NEW q \in Pid, Alive(q), proc[q].role \notin Ours
               PROVE  proc'[q].state = "alive"
    BY DEF Harmless
  <2>1. c \in Pid /\ proc \in [Pid -> Entry]  BY <1>1, Entries DEF Available
  <2>2. CASE q = c  BY <1>1, <2>1, <2>2
  <2>3. CASE q # c  BY <1>1, <2>1, <2>3 DEF Alive
  <2> QED  BY <2>2, <2>3
<1>2. ASSUME NEW c \in Pid, proc[c].role \in Ours
      PROVE  /\ [proc EXCEPT ![c] = Gone] \in [Pid -> Entry]
             /\ \A q \in Pid : Alive(q) /\ proc[q].role \notin Ours =>
                  [proc EXCEPT ![c] = Gone][q].state = "alive"
  BY <1>2, Entries, Reaped DEF Alive
<1>3. CASE Spawns
  <2>1. ASSUME NEW role, NEW g, NEW b PROVE Living(role, g, b).state = "alive"
    BY DEF Living
  <2>2. PICK q \in Pid : SpawnHolder(q) \/ SpawnBuild(q) \/ SpawnGit(q)
    BY <1>3 DEF Spawns
  <2>3. CASE SpawnHolder(q)  BY <1>1, <2>1, <2>3 DEF SpawnHolder
  <2>4. CASE SpawnBuild(q)  BY <1>1, <2>1, <2>4 DEF SpawnBuild
  <2>5. CASE SpawnGit(q)  BY <1>1, <2>1, <2>5 DEF SpawnGit
  <2> QED  BY <2>2, <2>3, <2>4, <2>5
<1>4. CASE SpawnFails \/ TimedOut \/ Sweep
  BY <1>4, KillGroupHarmless DEF SpawnFails, TimedOut, Sweep, Signalling
<1>5. CASE Waited
  <2>1. pc = "wait" /\ proc' = [proc EXCEPT ![run.child] = Gone]  BY <1>5 DEF Waited
  <2>2. run.child \in Pid /\ proc[run.child].role \in Ours
    BY <2>1 DEF IInv, Leader, Ours
  <2> QED  BY <1>2, <2>1, <2>2 DEF Harmless
<1>6. CASE KillChild
  <2>1. run.child \in Pid /\ proc[run.child].role \in Ours
    BY <1>6 DEF KillChild, IInv, Leader, Ours
  <2> DEFINE reaped == [proc EXCEPT ![run.child] = Gone]
  <2>2. /\ reaped \in [Pid -> Entry]
        /\ \A q \in Pid : Alive(q) /\ proc[q].role \notin Ours => reaped[q].state = "alive"
    BY <1>2, <2>1
  <2>3. proc' = reaped \/ Return(reaped)  BY <1>6 DEF KillChild
  <2> HIDE DEF reaped
  <2> QED  BY <2>2, <2>3, ReturnHarmless DEF Harmless
<1>7. CASE ReapHolder
  <2>1. pc = "reapHolder" /\ Return([proc EXCEPT ![run.group] = Gone])
    BY <1>7 DEF ReapHolder
  <2>2. run.group \in Pid /\ proc[run.group].role \in Ours
    BY <2>1 DEF IInv, Leader, Signalling, Ours
  <2> QED  BY <1>2, <2>1, <2>2, ReturnHarmless
<1>8. CASE Collect
  BY <1>8, Entries, ReturnHarmless DEF Collect, Alive
<1>9. CASE Crash
  <2> DEFINE table == [q \in Pid |-> IF proc[q].state = "zombie" THEN Gone ELSE proc[q]]
  <2>1. Return(table)  BY <1>9 DEF Crash
  <2>2. \A q \in Pid : proc[q] \in Entry  BY Entries
  <2>3. table \in [Pid -> Entry]  BY <2>2 DEF Entry
  <2>4. \A q \in Pid : Alive(q) => table[q].state = "alive"  BY DEF Alive
  <2> HIDE DEF table
  <2> QED  BY <2>1, <2>3, <2>4, ReturnHarmless
<1>10. CASE Host \/ UNCHANGED vars
  BY <1>10 DEF Host, Setsid, Foreign, Exit, Fork, vars
<1> QED  BY <1>3, <1>4, <1>5, <1>6, <1>7, <1>8, <1>9, <1>10 DEF Next, Proceeds

(* kill_group and abandon signal a pid that still names the dog's command: *)
(* no step of the dog ends another program's process, a daemon that left   *)
(* the group, or what an earlier command left behind.                      *)
THEOREM SignalsReachOnlyOurs == Spec => KillsOnlyOurs
<1>1. IInv /\ [Next]_vars => [pc' # pc => Harmless]_vars
  BY StepHarmless
<1> QED  BY <1>1, Always, PTL DEF Spec, KillsOnlyOurs, Harmless
=============================================================================
