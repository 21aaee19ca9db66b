------------------------------- MODULE Window -------------------------------
(***************************************************************************)
(* How long a reload, and the watch over what it brought up, is given      *)
(* (src/window.rs), against a clock: shep's swaps, one instance after      *)
(* another, each under shep's own deadline, beside the wait of             *)
(* verify::wait and the patience of a rollback's reload_until.             *)
(*                                                                         *)
(* Verify has the instances and no clock: there the budget is a flag that  *)
(* a reload free of trouble does not see raised.  Here are the clock and   *)
(* the arithmetic, and of the instances only how many are left to swap.    *)
(*                                                                         *)
(* Durations are counted in ticks.  Everything that is constant while a    *)
(* reload lasts is a CONSTANT: two of the app's settings, the rows its     *)
(* generation found and the swaps its shepherd makes of it.                *)
(***************************************************************************)
EXTENDS Naturals

CONSTANTS
  Listen,    \* listen_timeout: bounds a replacement's readiness
  Graceful,  \* graceful_timeout: bounds the drain of the old instance
  Reprobes,  \* probes_again_after_drain: probed, and reuse_port set
  Probed,    \* state::Verify: "probed", or else "alive"
  Rows,      \* Generation::instances, captured before the reload
  Swaps,     \* how many instances the reload has to swap
  Slack,     \* RELOAD_DEADLINE_SLACK
  DWELL,     \* verify::DWELL
  MaxWait,   \* verify::MAX_WAIT
  Longest    \* Duration::MAX, where the arithmetic saturates

(* What the theorems take the constants to be.                             *)
Sizes ==
  /\ {Listen, Graceful, Rows, Swaps, Slack, DWELL, MaxWait, Longest} \subseteq Nat
  /\ Slack > 0 /\ MaxWait <= Longest
  /\ Reprobes \in BOOLEAN /\ Probed \in BOOLEAN

-----------------------------------------------------------------------------
(* The arithmetic.                                                         *)

Least(a, b) == IF a <= b THEN a ELSE b
Most(a, b) == IF a <= b THEN b ELSE a
SaturatingAdd(a, b) == Least(a + b, Longest)
SaturatingMul(a, n) == Least(a * n, Longest)

bounded(d) == Least(d, MaxWait)

per_instance ==
  LET plain == SaturatingAdd(SaturatingAdd(Listen, Graceful), Slack)
  IN  IF Reprobes THEN SaturatingAdd(plain, Listen) ELSE plain

budget == bounded(SaturatingMul(per_instance, Most(Rows, 1)))

dwell_for ==
  IF Reprobes THEN Most(bounded(SaturatingAdd(Listen, Slack)), DWELL) ELSE DWELL

cutover_budget == bounded(SaturatingAdd(Listen, Slack))

-----------------------------------------------------------------------------

VARIABLES
  now,       \* the clock, from the shepherd's acceptance of the reload
  queue,     \* instances still to be swapped
  since,     \* when the swap under way began
  swapping,  \* whether one is under way
  probeAt,   \* when the latest probe after a drain began
  probing,   \* whether it is unanswered
  harmed,    \* a swap was aborted, or its replacement demoted
  pc,        \* where the verifier is
  deadline,  \* when the wait it is in gives up
  give_up    \* when the turnover's wait gives up

clock == <<now, deadline, give_up>>
shepherd == <<queue, since, swapping, probeAt, probing, harmed>>
vars == <<clock, shepherd, pc>>

Init ==
  /\ now = 0 /\ queue = Swaps
  /\ since = 0 /\ swapping = FALSE
  /\ probeAt = 0 /\ probing = FALSE /\ harmed = FALSE
  /\ pc = "accepted" /\ deadline = 0 /\ give_up = 0

Over == {"passed", "reloaded", "split"}

-----------------------------------------------------------------------------
(* The shepherd, from the account window.rs gives of it.                   *)

SwapDeadline == Listen + Graceful + Slack

(* advance_reload pops one instance and arms its deadline.                 *)
BeginSwap ==
  /\ ~swapping /\ queue > 0
  /\ swapping' = TRUE /\ queue' = queue - 1 /\ since' = now
  /\ UNCHANGED <<clock, probeAt, probing, harmed, pc>>

(* The replacement is ready and the old instance gone.                     *)
EndSwap ==
  /\ swapping /\ swapping' = FALSE
  /\ probing' = (Reprobes \/ probing)
  /\ probeAt' = IF Reprobes THEN now ELSE probeAt
  /\ UNCHANGED <<clock, queue, since, harmed, pc>>

(* A replacement is not ready, or the deadline is here: shep ends it all.  *)
AbortSwap ==
  /\ swapping /\ swapping' = FALSE /\ queue' = 0 /\ harmed' = TRUE
  /\ UNCHANGED <<clock, since, probeAt, probing, pc>>

EndProbe ==
  /\ probing /\ probing' = FALSE
  /\ \E passed \in BOOLEAN : harmed' = (harmed \/ ~passed)
  /\ UNCHANGED <<clock, queue, since, swapping, probeAt, pc>>

(* Time passes, but not past what bounds the shepherd, and it dawdles      *)
(* between two swaps only while it probes.                                 *)
Tick ==
  /\ pc \notin Over
  /\ swapping => now + 1 < since + SwapDeadline
  /\ probing => now + 1 <= probeAt + Listen
  /\ queue > 0 => swapping \/ probing
  /\ now' = now + 1
  /\ UNCHANGED <<deadline, give_up, shepherd, pc>>

-----------------------------------------------------------------------------
(* The verifier: verify::wait, and the rollback of a verdict that fails.   *)

Leave(from, to) == pc = from /\ pc' = to

Until(d) == deadline' = now + d /\ UNCHANGED <<now, give_up, shepherd>>
Still == UNCHANGED <<clock, shepherd>>

(* The answer to the reload is here; turnover's clock starts.              *)
StartWait ==
  /\ Leave("accepted", "turnover")
  /\ deadline' = now + budget /\ give_up' = now + budget
  /\ UNCHANGED <<now, shepherd>>

(* has_turned_over: a full set of new instances, whose readiness `alive`   *)
(* does not ask for; it counts the one still being swapped.                *)
TurnedOver ==
  /\ Swaps > 0 /\ queue = 0 /\ ~harmed
  /\ Probed => ~swapping

Turnover ==
  \/ TurnedOver /\ Leave("turnover", "dwell") /\ Until(IF Probed THEN dwell_for ELSE DWELL)
  \/ ~TurnedOver /\ now >= deadline /\ Leave("turnover", "late") /\ Still

(* dwell::probed fails at the first look at a flock that is not online.    *)
ProbedDwell ==
  /\ Probed
  /\ \/ harmed /\ Leave("dwell", "failed") /\ Still
     \/ ~harmed /\ now >= deadline /\ Leave("dwell", "passed") /\ Still

(* dwell::alive sleeps, and then asks until the turnover's time is up, or  *)
(* for one more dwell if that is later.                                    *)
AliveDwell ==
  /\ ~Probed /\ now >= deadline
  /\ Leave("dwell", "alive")
  /\ deadline' = Most(give_up, now + DWELL)
  /\ UNCHANGED <<now, give_up, shepherd>>

Alive ==
  \/ ~swapping /\ ~harmed /\ Leave("alive", "passed") /\ Still
  \/ (swapping \/ harmed) /\ now >= deadline /\ Leave("alive", "late") /\ Still

(* Landed::Failed: the answer to the reload was lost, or the shepherd      *)
(* could not be asked how it stands.                                       *)
Fail ==
  /\ pc \in {"accepted", "turnover", "dwell", "alive"} /\ pc' = "failed"
  /\ Still

(* reload_until: the reload that is in flight is waited out, for as long   *)
(* as the failed one was given.                                            *)
InFlight == queue > 0 \/ swapping \/ probing

RollBack ==
  /\ pc \in {"failed", "late"} /\ pc' = "retry"
  /\ Until(budget)

Retry ==
  \/ ~InFlight /\ Leave("retry", "reloaded") /\ Still
  \/ InFlight /\ now >= deadline /\ Leave("retry", "split") /\ Still

-----------------------------------------------------------------------------

Shepherd == BeginSwap \/ EndSwap \/ AbortSwap \/ EndProbe

Verifier ==
  \/ StartWait \/ Turnover \/ ProbedDwell \/ AliveDwell \/ Alive
  \/ Fail \/ RollBack \/ Retry

Next == Tick \/ Shepherd \/ Verifier

Spec == Init /\ [][Next]_vars

-----------------------------------------------------------------------------
(* Properties.                                                             *)

TypeOK ==
  /\ {now, queue, since, probeAt, deadline, give_up} \subseteq Nat
  /\ {swapping, probing, harmed} \subseteq BOOLEAN
  /\ pc \in Over \cup {"accepted", "turnover", "dwell", "alive", "failed", "late", "retry"}

(* A swap costs at most this much: shep's deadline, which does not include *)
(* the probe after the drain, and that probe.                              *)
Cost == SwapDeadline + IF Reprobes THEN Listen ELSE 0

(* verify::MAX_WAIT cuts the budget short, or the sheep was stocked up     *)
(* after its rows were counted.                                            *)
Short == Cost * Most(Rows, 1) > MaxWait \/ Swaps > Most(Rows, 1)

(* window::budget: a reload that swaps every instance within shep's own    *)
(* deadlines is not failed for taking long, in either mode.                *)
NotFailedForTime == pc = "late" /\ Swaps > 0 => harmed \/ Short

(* rollback.rs, reload_until: the patience outlasts the reload that was    *)
(* given up on, so the one that rolls back is not refused to the end.      *)
NotRefusedToTheEnd == pc = "split" => Short

(* window::dwell_for: a probed release is not called good before shep has  *)
(* given its last word on it, however long the probe after the drain takes.*)
HeardTheLastWord ==
  pc = "passed" /\ Probed /\ Listen + Slack <= MaxWait => ~InFlight
=============================================================================
