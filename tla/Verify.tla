------------------------------- MODULE Verify -------------------------------
(***************************************************************************)
(* The verdict on one reload (src/verify, and src/deploy/reload.rs that    *)
(* asks for it), over a sheep of several instances.                        *)
(*                                                                         *)
(* The shepherd swaps a reload's instances one after another, restarts the *)
(* ones that die and follows `shep stock`, all between any two of the      *)
(* verifier's looks.  The verifier sees listings only: rows of a pid and a *)
(* status, from which it has to conclude that every instance runs what     *)
(* `current` names and stays up.                                           *)
(*                                                                         *)
(* Abstractions.  One look (a `describe` and the decision on its answer)   *)
(* is one action: the decision touches nothing but the verifier.  Time is  *)
(* a flag, raised when the budget has run out; `window::budget` gives a    *)
(* reload as long as shep's own deadline does, so on a reload that meets   *)
(* no trouble it is raised only once there is nothing left to wait for.    *)
(* Pids are never used again (the verify module's own assumption).         *)
(***************************************************************************)
EXTENDS Naturals, FiniteSets

CONSTANTS
  Places,    \* how many instances `shep stock` can bring the sheep to
  MaxPid,    \* bound on the pids the shepherd hands out
  Earlier,   \* whether a reload asked for before may still be in flight
  Looks,     \* looks that fit into a probed dwell
  Troubles   \* budget of deaths, failed readiness, stocking and lost answers

ASSUME PlacesAssumption == Places \in Nat /\ Places >= 1
ASSUME PidAssumption == MaxPid \in Nat /\ MaxPid >= Places
ASSUME EarlierAssumption == Earlier \in BOOLEAN
ASSUME LooksAssumption == Looks \in Nat /\ Troubles \in Nat

VARIABLES
  mode,      \* state::Verify: "probed" or "alive"
  serial,    \* shep drains an instance before it spawns its replacement
  flock,     \* the rows the shepherd lists
  current,   \* what `current` names, "old" until the swap and then "new"
  queue,     \* slots the reload in flight has still to swap
  swap,      \* the slot it is swapping, or NoSlot
  nextPid,   \* the next pid to be handed out
  before,    \* the generation captured before the reload
  settled,   \* the generation that replaced it
  pc,        \* where the verifier is
  looks,     \* looks of the dwell so far
  late,      \* the time the verifier gives the present phase has run out
  troubles,  \* what has gone wrong, or changed, so far
  found,     \* history: how many instances the capture found
  stale,     \* history: the flock was another when the reload was accepted
  died       \* history: the pids of instances that died

app == <<mode, serial>>
shepherd == <<flock, queue, swap, nextPid, died>>
history == <<found, stale>>
verifier == <<before, settled, pc, looks, history>>
vars == <<app, shepherd, current, verifier, late, troubles>>

Slot == 1 .. Places
NoSlot == 0
NoPid == 0
Pid == 1 .. MaxPid

(* "stuck" is listed as `starting`: a replacement shep gave up on without  *)
(* anything to go back to, or one it demoted.  Nothing moves it any more.  *)
Status == {"starting", "stuck", "online", "stopping", "waiting"}
Row == [slot: Slot, pid: Pid \cup {NoPid}, status: Status, release: {"old", "new"}]

-----------------------------------------------------------------------------
(* Generations.                                                            *)

Generation == [pids: SUBSET Pid, rows: Nat]

(* Every pid listed, and the number of rows that are not going away.       *)
OfInfos(infos) ==
  [pids |-> {r.pid : r \in infos} \ {NoPid},
   rows |-> Cardinality({r \in infos : r.status # "stopping"})]

Nothing == OfInfos({})

IsNewIfRunning(g, r) == r.pid # NoPid  \* mutant: any running instance is new
IsNew(g, r) == r.pid # NoPid /\ r.pid \notin g.pids
Held(g, r) == r.pid \in g.pids

IsOnline(r) == r.status = "online"
IsAlive(r) == r.status \in {"starting", "stuck", "online"}
Accept(r) == IF mode = "probed" THEN IsOnline(r) ELSE IsAlive(r)

(* has_turned_over: as many rows as before, each new and acceptable.  An   *)
(* empty generation has no count to hold to, and an empty listing is never *)
(* a turnover.                                                             *)
CountHolds(g, infos) == g.rows = 0 \/ Cardinality(infos) = g.rows
HasTurnedOverUncounted(g, infos) ==  \* mutant: the rows are not counted
  infos # {} /\ \A r \in infos : IsNew(g, r) /\ Accept(r)
HasTurnedOver(g, infos) ==
  /\ infos # {} /\ CountHolds(g, infos)
  /\ \A r \in infos : IsNew(g, r) /\ Accept(r)

(* Both dwells: the very instances that settled, every one online.         *)
StillAsMany(g, infos) ==  \* mutant: the count and the statuses, but not the pids
  Cardinality(infos) = g.rows /\ \A r \in infos : IsOnline(r)
StillWhole(g, infos) ==
  /\ Cardinality(infos) = g.rows
  /\ \A r \in infos : Held(g, r) /\ IsOnline(r)

-----------------------------------------------------------------------------
(* The verifier.                                                           *)

Goto(l) == pc' = l

(* restore's, or swap_and_land's, point_at.                                *)
PointAt ==
  /\ pc = "swap" /\ Goto("capture") /\ current' = "new"
  /\ UNCHANGED <<app, shepherd, before, settled, looks, history, late, troubles>>

Occupied == {r.slot : r \in flock}

Capture ==
  /\ pc = "capture" /\ Goto("request")
  /\ before' = OfInfos(flock) /\ found' = Cardinality(Occupied)
  /\ UNCHANGED <<app, shepherd, current, settled, looks, stale, late, troubles>>

Trouble == troubles < Troubles /\ troubles' = troubles + 1

(* The shepherd refuses a reload while one is in flight: land gives the    *)
(* release up, reload_until captures again and asks again.  So it does     *)
(* when the request or its answer is lost, which land calls a failure.     *)
InFlight == queue # {} \/ swap # NoSlot
Accepted ==
  ~InFlight /\ queue' = Occupied /\ stale' = (OfInfos(flock) # before)

Request ==
  /\ pc = "request"
  /\ UNCHANGED <<app, flock, swap, nextPid, died, current, before, settled, looks,
                 found, late>>
  /\ \/ Accepted /\ Goto("turnover") /\ UNCHANGED troubles
     \/ /\ Trouble /\ pc' \in {"capture", "failed"}
        /\ Accepted \/ UNCHANGED <<queue, stale>>
     \/ InFlight /\ pc' \in {"capture", "refused"} /\ UNCHANGED <<queue, stale, troubles>>

(* turnover, on one listing.  Past the deadline it gives up; otherwise it  *)
(* looks again.                                                            *)
TurnoverWaits ==  \* mutant: the deadline is not looked at
  /\ pc = "turnover" /\ HasTurnedOver(before, flock)
  /\ settled' = OfInfos(flock) /\ late' = FALSE /\ Goto("dwell")
  /\ UNCHANGED <<app, shepherd, current, before, looks, history, troubles>>
Turnover ==
  /\ pc = "turnover"
  /\ UNCHANGED <<app, shepherd, current, before, looks, history, troubles>>
  /\ \/ /\ HasTurnedOver(before, flock)
        /\ settled' = OfInfos(flock) /\ late' = FALSE /\ Goto("dwell")
     \/ /\ ~HasTurnedOver(before, flock) /\ late
        /\ Goto("failed") /\ UNCHANGED <<settled, late>>

(* dwell::probed: every look until the dwell is over has to find the       *)
(* settled flock whole.                                                    *)
Probed ==
  /\ pc = "dwell" /\ mode = "probed"
  /\ UNCHANGED <<app, shepherd, current, before, settled, history, late, troubles>>
  /\ \/ StillWhole(settled, flock) /\ looks < Looks /\ looks' = looks + 1 /\ UNCHANGED pc
     \/ StillWhole(settled, flock) /\ looks = Looks /\ Goto("passed") /\ UNCHANGED looks
     \/ ~StillWhole(settled, flock) /\ Goto("failed") /\ UNCHANGED looks

(* dwell::alive: looks for the settled flock to be whole and online, until *)
(* one of it is gone or the time is up.                                    *)
LostUnlessOnline(g, infos) ==  \* mutant: a starting instance is given up at once
  infos = {} \/ \E r \in infos : ~Held(g, r) \/ ~IsOnline(r)
Lost(g, infos) == infos = {} \/ \E r \in infos : ~Held(g, r) \/ ~IsAlive(r)

Alive ==
  /\ pc = "dwell" /\ mode = "alive"
  /\ UNCHANGED <<app, shepherd, current, before, settled, looks, history, late, troubles>>
  /\ \/ StillWhole(settled, flock) /\ Goto("passed")
     \/ /\ ~StillWhole(settled, flock)
        /\ Lost(settled, flock) \/ late
        /\ Goto("failed")

-----------------------------------------------------------------------------
(* The shepherd.                                                           *)

Spawned(s, status) ==
  [slot |-> s, pid |-> nextPid, status |-> status, release |-> current]
HandOut == nextPid \in Pid /\ nextPid' = nextPid + 1

Of(s) == {r \in flock : r.slot = s}
Marked(rows, status) == {[r EXCEPT !.status = status] : r \in rows}
Running(s) == {r \in Of(s) : r.pid # NoPid}

(* The next instance's turn: it is marked as stopping, beside its          *)
(* replacement or before it.  One with no process is only replaced.        *)
BeginSwap(s) ==
  /\ s \in queue /\ swap = NoSlot
  /\ queue' = queue \ {s} /\ swap' = s
  /\ \/ /\ serial /\ Running(s) # {}
        /\ flock' = (flock \ Of(s)) \cup Marked(Running(s), "stopping")
        /\ UNCHANGED nextPid
     \/ /\ ~serial \/ Running(s) = {}
        /\ HandOut
        /\ flock' = (flock \ Of(s)) \cup Marked(Running(s), "stopping")
                      \cup {Spawned(s, "starting")}
  /\ UNCHANGED <<app, died, current, verifier, late, troubles>>

Replacements == {r \in Of(swap) : r.status = "starting"}
Drainees == {r \in Of(swap) : r.status = "stopping"}

(* Serial: the old instance has drained, and the replacement is spawned, or *)
(* cannot be and is dropped.                                               *)
SpawnNew ==
  /\ serial /\ swap # NoSlot /\ Replacements = {} /\ Drainees # {}
  /\ UNCHANGED <<app, queue, died, current, verifier, late>>
  /\ \/ /\ HandOut /\ flock' = (flock \ Of(swap)) \cup {Spawned(swap, "starting")}
        /\ UNCHANGED <<swap, troubles>>
     \/ Trouble /\ flock' = flock \ Of(swap) /\ swap' = NoSlot /\ UNCHANGED nextPid

(* The replacement is ready, the old instance reaped, and the swap over.   *)
FinishSwap ==
  /\ swap # NoSlot /\ Replacements # {}
  /\ flock' = (flock \ Of(swap)) \cup Marked(Replacements, "online")
  /\ swap' = NoSlot
  /\ UNCHANGED <<app, queue, nextPid, died, current, verifier, late, troubles>>

(* It does not become ready: the old instance is kept where there is one,  *)
(* and otherwise the replacement is left as it is.  The rest of the flock  *)
(* may or may not have its turn.                                           *)
AbortSwap ==
  /\ swap # NoSlot /\ Replacements # {} /\ Trouble
  /\ flock' = (flock \ Of(swap)) \cup
       IF Drainees # {} THEN Marked(Drainees, "online") ELSE Marked(Replacements, "stuck")
  /\ swap' = NoSlot /\ queue' \in {queue, {}}
  /\ UNCHANGED <<app, nextPid, died, current, verifier, late>>

(* Outside the swap: an instance dies, is spawned again and comes up, or a *)
(* post-drain probe demotes it.                                            *)
Die(r) ==
  /\ r.slot # swap /\ IsAlive(r) /\ Trouble
  /\ flock' = (flock \ {r}) \cup Marked({[r EXCEPT !.pid = NoPid]}, "waiting")
  /\ died' = died \cup {r.pid}
  /\ UNCHANGED <<app, queue, swap, nextPid, current, verifier, late>>

Respawn(r) ==
  /\ r.slot # swap /\ r.status = "waiting" /\ HandOut
  /\ flock' = (flock \ {r}) \cup {Spawned(r.slot, "starting")}
  /\ UNCHANGED <<app, queue, swap, died, current, verifier, late, troubles>>

ComeUp(r) ==
  /\ r.slot # swap /\ r.status = "starting"
  /\ flock' = (flock \ {r}) \cup Marked({r}, "online")
  /\ UNCHANGED <<app, queue, swap, nextPid, died, current, verifier, late, troubles>>

Demote(r) ==
  /\ ~serial /\ r.slot # swap /\ IsOnline(r) /\ Trouble
  /\ flock' = (flock \ {r}) \cup Marked({r}, "stuck")
  /\ UNCHANGED <<app, queue, swap, nextPid, died, current, verifier, late>>

(* `shep stock`: one instance more, or one less.                           *)
StockUp(s) ==
  /\ Of(s) = {} /\ s # swap /\ Trouble /\ HandOut
  /\ flock' = flock \cup {Spawned(s, "starting")}
  /\ UNCHANGED <<app, queue, swap, died, current, verifier, late>>

StockDown(s) ==
  /\ Of(s) # {} /\ s # swap /\ Trouble
  /\ flock' = flock \ Of(s) /\ queue' = queue \ {s}
  /\ UNCHANGED <<app, swap, nextPid, died, current, verifier, late>>

(* `describe` fails for good, or for as long as the budget lasts.          *)
DescribeFails ==
  /\ pc \in {"capture", "turnover", "dwell"} /\ Trouble
  /\ Goto(IF pc = "capture" THEN "refused" ELSE "failed")
  /\ UNCHANGED <<app, shepherd, current, before, settled, looks, history, late>>

TimeUp ==
  /\ pc \in {"turnover", "dwell"} /\ ~late /\ late' = TRUE
  /\ troubles > 0 \/ (~InFlight /\ \A r \in flock : r.status # "starting")
  /\ UNCHANGED <<app, shepherd, current, verifier, troubles>>

-----------------------------------------------------------------------------
(* The specification.                                                      *)

(* A sheep that is up on the old release, with or without an earlier       *)
(* reload under way, and perhaps with room to be stocked.                  *)
Init ==
  /\ \E live \in (SUBSET Slot) \ {{}} :
       /\ flock = {[slot |-> s, pid |-> s, status |-> "online", release |-> "old"] :
                     s \in live}
       /\ queue \in IF Earlier THEN {{}, live} ELSE {{}}
  /\ nextPid = Places + 1 /\ swap = NoSlot
  /\ current = "old"
  /\ before = Nothing /\ settled = Nothing
  /\ pc = "swap" /\ looks = 0 /\ late = FALSE /\ troubles = 0
  /\ found = 0 /\ stale = FALSE /\ died = {}
  /\ mode \in {"probed", "alive"} /\ serial \in BOOLEAN

Verifying == PointAt \/ Capture \/ Request \/ Turnover \/ Probed \/ Alive

Reloading ==
  \/ \E s \in Slot : BeginSwap(s)
  \/ SpawnNew \/ FinishSwap \/ AbortSwap

Tending ==
  \/ \E r \in flock : Die(r) \/ Respawn(r) \/ ComeUp(r) \/ Demote(r)
  \/ \E s \in Slot : StockUp(s) \/ StockDown(s)

Next == Verifying \/ Reloading \/ Tending \/ DescribeFails \/ TimeUp

Spec == Init /\ [][Next]_vars

(* The verifier looks again every POLL, time passes, and the shepherd ends *)
(* every swap and brings back every instance, by deadlines of its own.     *)
Fairness ==
  /\ WF_vars(Verifying) /\ WF_vars(TimeUp)
  /\ WF_vars(\E s \in Slot : BeginSwap(s)) /\ WF_vars(SpawnNew) /\ WF_vars(FinishSwap)
  /\ \A s \in Slot : WF_vars(\E r \in Of(s) : Respawn(r) \/ ComeUp(r))

FairSpec == Spec /\ Fairness

-----------------------------------------------------------------------------
(* Properties.                                                             *)

(* Every variable keeps to its type.                                       *)
TypeOK ==
  /\ flock \subseteq Row
  /\ current \in {"old", "new"}
  /\ queue \subseteq Slot /\ swap \in Slot \cup {NoSlot}
  /\ nextPid \in 1 .. MaxPid + 1
  /\ before \in Generation /\ settled \in Generation
  /\ pc \in {"swap", "capture", "request", "turnover", "dwell",
            "refused", "passed", "failed"}
  /\ looks \in 0 .. Looks /\ late \in BOOLEAN /\ troubles \in 0 .. Troubles
  /\ mode \in {"probed", "alive"} /\ serial \in BOOLEAN
  /\ found \in Nat /\ stale \in BOOLEAN /\ died \subseteq Pid

Passes == pc # "passed" /\ pc' = "passed"

(* verify::wait passes only when every instance that runs, runs the        *)
(* release `current` was pointed at: pids alone tell it so, with instances *)
(* of both releases in the flock, dying and coming back meanwhile.         *)
PassRunsNew == [][Passes => \A r \in flock : IsOnline(r) /\ r.release = "new"]_vars

(* A sheep that came back at less, or more, than the strength it was found *)
(* at is not passed, unless an earlier reload ended, or an instance came or *)
(* went, between the capture and the reload.                               *)
PassFullStrength ==
  [][Passes /\ ~stale /\ found > 0 => Cardinality(flock) = found]_vars

(* An instance that dies after the turnover is noticed, however quickly    *)
(* another takes its place: the flock that passes is the one that settled. *)
PassSurvived == [][Passes => settled.pids \cap died = {}]_vars

(* A reload in which nothing goes wrong, and that was asked of the very     *)
(* flock that was captured, is never rolled back.                          *)
NoFalseAlarm == pc = "failed" => troubles > 0 \/ stale

(* Every reload gets its verdict, or is refused.                           *)
Decides == <>(pc \in {"refused", "passed", "failed"})
=============================================================================
