---------------------------- MODULE WindowProofs ----------------------------
(***************************************************************************)
(* Proofs about Window, for every setting of an app, every number of       *)
(* instances and however far the arithmetic's ceilings are: the budget is  *)
(* shep's own deadline for the whole reload unless verify::MAX_WAIT cuts   *)
(* it, and hence a reload is not given up on while shep still works on it. *)
(*                                                                         *)
(* The argument counts the swaps that are done.  While one is under way,   *)
(* or the next has still to begin, the clock has not passed what so many   *)
(* swaps may cost; the budget is what all of them may.                     *)
(***************************************************************************)
EXTENDS Window, Integers, TLAPS

(* How many swaps are done with; an aborted reload is done with them all.  *)
Done == Swaps - queue - (IF swapping THEN 1 ELSE 0)

(* What the clock may show, by how far the shepherd is.                    *)
OnTime ==
  /\ Done \in Nat
  /\ queue > 0 /\ ~swapping => now <= Done * Cost
  /\ swapping => since <= Done * Cost /\ now < since + SwapDeadline
  /\ probing => /\ Reprobes
                /\ probeAt <= now /\ now <= probeAt + Listen
                /\ probeAt + Listen < Done * Cost

(* What the verifier waits for at least.                                   *)
Patient ==
  /\ pc \in {"turnover", "alive", "retry"} => deadline >= budget
  /\ pc \in {"turnover", "dwell"} => give_up >= budget
  /\ pc \in {"dwell", "passed"} /\ Probed => queue = 0 /\ ~swapping
  /\ pc = "alive" => ~Probed
  /\ pc = "dwell" /\ Probed /\ probing => deadline >= probeAt + dwell_for

IInv ==
  /\ TypeOK /\ OnTime /\ Patient
  /\ NotFailedForTime /\ NotRefusedToTheEnd /\ HeardTheLastWord

-----------------------------------------------------------------------------
(* The arithmetic.                                                         *)

LEMMA Products ==
  ASSUME NEW a \in Nat, NEW b \in Nat, NEW c \in Nat, a <= b
  PROVE  /\ a * c \in Nat /\ a * c <= b * c
         /\ (a + 1) * c = a * c + c
<1>1. PICK d \in Nat : b = a + d  BY SMT
<1>2. b * c = a * c + d * c  BY <1>1, SMT
<1>3. d * c \in Nat /\ a * c \in Nat  BY SMT
<1> QED  BY <1>2, <1>3, SMT

(* window::budget, dwell_for and the cutover's, each through               *)
(* verify::bounded: no setting of an app makes the dog wait longer than    *)
(* MAX_WAIT, or the plain dwell where that is more.                        *)
THEOREM WaitsAreBounded ==
  ASSUME Sizes
  PROVE  /\ budget \in 0 .. MaxWait /\ cutover_budget \in 0 .. MaxWait
         /\ dwell_for \in 0 .. Most(MaxWait, DWELL)
<1>1. per_instance \in Nat
  BY DEF Sizes, per_instance, SaturatingAdd, Least
<1>2. per_instance * Most(Rows, 1) \in Nat
  <2>1. Most(Rows, 1) \in Nat  BY DEF Sizes, Most
  <2> QED  BY <1>1, <2>1, Products
<1> QED
  BY <1>2 DEF Sizes, budget, cutover_budget, dwell_for, bounded, SaturatingAdd,
     SaturatingMul, Least, Most

(* window::budget is shep's own deadline, and the probe after the drain    *)
(* where there is one, for every row: saturation and cap aside, as the     *)
(* comment on it says.                                                     *)
THEOREM BudgetIsShepsDeadline ==
  ASSUME Sizes, Cost * Most(Rows, 1) <= MaxWait
  PROVE  budget = Cost * Most(Rows, 1)
<1> DEFINE n == Most(Rows, 1)
<1>1. n \in Nat /\ 1 <= n /\ Cost \in Nat
  BY DEF Sizes, Most, Cost, SwapDeadline
<1>2. Cost <= n * Cost /\ n * Cost \in Nat
  BY <1>1, Products
<1>3. n * Cost = Cost * n
  BY <1>1, SMT
<1>4. Cost <= Longest
  BY <1>1, <1>2, <1>3 DEF Sizes
<1>5. per_instance = Cost
  BY <1>4 DEF Sizes, per_instance, Cost, SwapDeadline, SaturatingAdd, Least
<1> QED
  BY <1>1, <1>2, <1>3, <1>5 DEF Sizes, budget, bounded, SaturatingMul, Least

LEMMA Costs ==
  ASSUME Sizes
  PROVE  /\ Cost \in Nat /\ Cost >= SwapDeadline /\ SwapDeadline > 0
         /\ Reprobes => Cost = SwapDeadline + Listen
  BY DEF Sizes, Cost, SwapDeadline

(* While the shepherd is at work, the clock has not reached the budget.    *)
LEMMA BusyIsEarly ==
  ASSUME Sizes, TypeOK, OnTime, InFlight, ~Short
  PROVE  now < budget
<1>1. now < Swaps * Cost
  <2>1. Done \in Nat /\ Swaps \in Nat /\ now \in Nat /\ since \in Nat /\ queue \in Nat
        /\ probeAt \in Nat /\ Listen \in Nat
    BY DEF Sizes, TypeOK, OnTime
  <2>2. CASE swapping
    <3>1. Done + 1 <= Swaps  BY <2>1, <2>2 DEF Done
    <3>2. Done * Cost + Cost <= Swaps * Cost /\ Done * Cost \in Nat
      <4>1. Done * Cost \in Nat /\ (Done + 1) * Cost = Done * Cost + Cost
        BY <2>1, Costs, Products
      <4>2. (Done + 1) * Cost <= Swaps * Cost
        BY <2>1, <3>1, Costs, Products
      <4> QED  BY <4>1, <4>2
    <3>3. now < Done * Cost + SwapDeadline
      BY <2>1, <2>2, <3>2, Costs DEF OnTime, SwapDeadline, Sizes
    <3> QED  BY <2>1, <3>2, <3>3, Costs DEF SwapDeadline, Sizes
  <2>3. CASE queue > 0 /\ ~swapping
    <3>1. Done + 1 <= Swaps  BY <2>1, <2>3 DEF Done
    <3>2. Done * Cost + Cost <= Swaps * Cost /\ Done * Cost \in Nat
      <4>1. Done * Cost \in Nat /\ (Done + 1) * Cost = Done * Cost + Cost
        BY <2>1, Costs, Products
      <4>2. (Done + 1) * Cost <= Swaps * Cost
        BY <2>1, <3>1, Costs, Products
      <4> QED  BY <4>1, <4>2
    <3> QED
      BY <2>1, <2>3, <3>2, Costs DEF OnTime, SwapDeadline, Sizes
  <2>4. CASE probing
    <3>1. Done <= Swaps  BY <2>1 DEF Done
    <3>2. Done * Cost <= Swaps * Cost /\ Done * Cost \in Nat /\ Swaps * Cost \in Nat
      BY <2>1, <3>1, Costs, Products
    <3> QED  BY <2>1, <2>4, <3>2 DEF OnTime
  <2> QED  BY <2>2, <2>3, <2>4 DEF InFlight
<1>2. Most(Rows, 1) \in Nat /\ Swaps \in Nat /\ Swaps <= Most(Rows, 1)
  BY DEF Sizes, Short, Most
<1>3. Swaps * Cost <= Most(Rows, 1) * Cost
  BY <1>2, Costs, Products
<1>4. Most(Rows, 1) * Cost = Cost * Most(Rows, 1)
  BY <1>2, Costs, SMT
<1>5. Cost * Most(Rows, 1) <= MaxWait
  <2>1. Cost * Most(Rows, 1) \in Nat  BY <1>2, <1>4, Costs, Products
  <2> QED  BY <2>1 DEF Short, Sizes
<1>6. budget = Cost * Most(Rows, 1)
  BY <1>5, BudgetIsShepsDeadline
<1>7. Swaps * Cost \in Nat /\ Most(Rows, 1) * Cost \in Nat /\ now \in Nat
  BY <1>2, Costs, Products DEF TypeOK
<1> QED  BY <1>1, <1>3, <1>4, <1>6, <1>7
-----------------------------------------------------------------------------
(* The steps.                                                              *)

LEMMA InitHolds == Sizes /\ Init => IInv
<1> SUFFICES ASSUME Sizes, Init PROVE IInv
  OBVIOUS
<1>1. TypeOK
  <2>1. {now, queue, since, probeAt, deadline, give_up} \subseteq Nat  BY DEF Init, Sizes
  <2>2. {swapping, probing, harmed} \subseteq BOOLEAN /\ pc = "accepted"  BY DEF Init
  <2> QED  BY <2>1, <2>2 DEF TypeOK
<1>2. OnTime
  <2>1. Done = 0
    <3>1. Swaps \in Nat /\ queue = Swaps /\ ~swapping  BY DEF Init, Sizes
    <3>2. Done = Swaps - queue - 0  BY <3>1 DEF Done
    <3> QED  BY <3>1, <3>2
  <2>2. Done * Cost \in Nat  BY <2>1, Costs, Products
  <2> QED  BY <2>1, <2>2 DEF Init, OnTime
<1>3. Patient /\ NotFailedForTime /\ NotRefusedToTheEnd /\ HeardTheLastWord
  BY DEF Init, Patient, NotFailedForTime, NotRefusedToTheEnd, HeardTheLastWord
<1> QED  BY <1>1, <1>2, <1>3 DEF IInv

LEMMA TypeKept == Sizes /\ TypeOK /\ [Next]_vars => TypeOK'
<1> SUFFICES ASSUME Sizes, TypeOK, [Next]_vars PROVE TypeOK'
  OBVIOUS
<1> USE DEF TypeOK, Over
<1>1. budget \in Nat /\ dwell_for \in Nat /\ DWELL \in Nat
  BY WaitsAreBounded DEF Sizes, Most
<1>2. CASE Tick
  BY <1>2 DEF Tick, shepherd
<1>3. CASE Shepherd
  <2>1. UNCHANGED <<clock, pc>> /\ {queue', since', probeAt'} \subseteq Nat
    BY <1>3 DEF Shepherd, BeginSwap, EndSwap, AbortSwap, EndProbe, clock
  <2>2. {swapping', probing', harmed'} \subseteq BOOLEAN
    BY <1>3 DEF Shepherd, BeginSwap, EndSwap, AbortSwap, EndProbe, Sizes
  <2> QED  BY <2>1, <2>2 DEF clock
<1>4. CASE Verifier
  BY <1>1, <1>4
  DEF Verifier, StartWait, Turnover, ProbedDwell, AliveDwell, Alive, Fail, RollBack, Retry,
      Leave, Until, Still, Most, clock, shepherd
<1>5. CASE UNCHANGED vars  BY <1>5 DEF vars, clock, shepherd
<1> QED  BY <1>2, <1>3, <1>4, <1>5 DEF Next

(* A clock that does not move, and swaps that do not: nothing is late.     *)
LEMMA OnTimeAlone ==
  ASSUME OnTime, UNCHANGED <<now, shepherd>>
  PROVE  OnTime'
  BY DEF OnTime, Done, shepherd

LEMMA OnTimeKept ==
  ASSUME Sizes, TypeOK, TypeOK', OnTime, Tick \/ Shepherd
  PROVE  OnTime'
<1>1. /\ {now, queue, since, probeAt, now', queue', since', probeAt'} \subseteq Nat
      /\ {swapping, probing, swapping', probing'} \subseteq BOOLEAN
      /\ Done \in Nat /\ Swaps \in Nat /\ Listen \in Nat
  BY DEF TypeOK, OnTime, Sizes
<1>2. /\ Done * Cost \in Nat
      /\ (Done + 1) * Cost = Done * Cost + Cost
  BY <1>1, Costs, Products
<1>3. CASE Tick
  <2>1. Done' = Done /\ now' = now + 1  BY <1>3 DEF Tick, Done, shepherd
  <2>2. queue > 0 /\ ~swapping => now + 1 <= Done * Cost
    BY <1>1, <1>2, <1>3 DEF Tick, OnTime
  <2> QED  BY <1>1, <1>2, <1>3, <2>1, <2>2 DEF Tick, OnTime, shepherd
<1>4. CASE BeginSwap
  <2>1. Done' = Done  BY <1>1, <1>4 DEF BeginSwap, Done
  <2> QED  BY <1>1, <1>2, <1>4, <2>1, Costs DEF BeginSwap, OnTime, clock, SwapDeadline, Sizes
<1>5. CASE EndSwap
  <2>1. Done' = Done + 1  BY <1>1, <1>5 DEF EndSwap, Done
  <2>2. Done' * Cost = Done * Cost + Cost  BY <1>2, <2>1
  <2>3. now < Done * Cost + SwapDeadline  BY <1>1, <1>2, <1>5, Costs DEF EndSwap, OnTime, SwapDeadline, Sizes
  <2>4. now' = now /\ swapping' = FALSE /\ probing' = (Reprobes \/ probing)
        /\ probeAt' = (IF Reprobes THEN now ELSE probeAt)
    BY <1>5 DEF EndSwap, clock
  <2>5. Reprobes => now + Listen < Done * Cost + Cost
    BY <1>1, <1>2, <2>3, Costs DEF SwapDeadline, Sizes
  <2>6. probing => Reprobes  BY DEF OnTime
  <2> QED
    BY <1>1, <1>2, <2>1, <2>2, <2>3, <2>4, <2>5, <2>6, Costs DEF OnTime, SwapDeadline, Sizes
<1>6. CASE AbortSwap
  <2>1. Done' = Swaps /\ Done <= Swaps  BY <1>1, <1>6 DEF AbortSwap, Done
  <2>2. Done * Cost <= Swaps * Cost /\ Swaps * Cost \in Nat  BY <1>1, <2>1, Costs, Products
  <2> QED  BY <1>1, <1>2, <1>6, <2>1, <2>2 DEF AbortSwap, OnTime, clock
<1>7. CASE EndProbe
  BY <1>7 DEF EndProbe, OnTime, Done, clock
<1> QED  BY <1>3, <1>4, <1>5, <1>6, <1>7 DEF Shepherd

(* What the properties say goes on being so while the shepherd works.      *)
LEMMA ShepherdKeeps ==
  ASSUME Sizes, IInv, TypeOK', OnTime', Tick \/ Shepherd
  PROVE  Patient' /\ NotFailedForTime' /\ NotRefusedToTheEnd' /\ HeardTheLastWord'
<1>1. UNCHANGED <<deadline, give_up, pc>> /\ (harmed => harmed')
      /\ now \in Nat /\ now' \in Nat /\ queue \in Nat /\ deadline \in Nat
      /\ {swapping, probing, harmed} \subseteq BOOLEAN
  BY DEF IInv, TypeOK, Tick, Shepherd, BeginSwap, EndSwap, AbortSwap, EndProbe, clock, shepherd
<1>2. queue = 0 /\ ~swapping =>
        queue' = 0 /\ ~swapping' /\ (probing' => probing) /\ probeAt' = probeAt
  BY <1>1 DEF Tick, Shepherd, BeginSwap, EndSwap, AbortSwap, EndProbe, shepherd
<1>3. Patient'
  BY <1>1, <1>2 DEF IInv, Patient
<1>4. NotFailedForTime' /\ NotRefusedToTheEnd'
  BY <1>1 DEF IInv, NotFailedForTime, NotRefusedToTheEnd, Short
<1>5. HeardTheLastWord'
  BY <1>1, <1>2 DEF IInv, HeardTheLastWord, InFlight, Patient
<1> QED  BY <1>3, <1>4, <1>5

(* The verifier's conclusions.                                             *)
LEMMA VerifierKeeps ==
  ASSUME Sizes, IInv, TypeOK', Verifier
  PROVE  Patient' /\ NotFailedForTime' /\ NotRefusedToTheEnd' /\ HeardTheLastWord'
<1>1. /\ now \in Nat /\ deadline \in Nat /\ give_up \in Nat /\ probeAt \in Nat
      /\ queue \in Nat /\ Listen \in Nat /\ Slack \in Nat /\ Slack > 0
      /\ {swapping, probing, harmed, Probed, Reprobes} \subseteq BOOLEAN
      /\ budget \in Nat /\ dwell_for \in Nat /\ DWELL \in Nat
  BY WaitsAreBounded DEF IInv, TypeOK, Sizes, Most
<1>2. now' = now /\ UNCHANGED shepherd
  BY DEF Verifier, StartWait, Turnover, ProbedDwell, AliveDwell, Alive, Fail, RollBack, Retry,
     Until, Still, clock
<1>3. InFlight /\ ~Short => now < budget
  BY BusyIsEarly DEF IInv
<1> USE DEF Patient, NotFailedForTime, NotRefusedToTheEnd, HeardTheLastWord
<1>4. CASE StartWait
  BY <1>1, <1>2, <1>4 DEF StartWait, Leave
<1>5. CASE Turnover
  <2>1. CASE TurnedOver /\ Leave("turnover", "dwell")
             /\ Until(IF Probed THEN dwell_for ELSE DWELL)
    <3>1. Probed => queue = 0 /\ ~swapping  BY <2>1 DEF TurnedOver
    <3>2. probing => probeAt <= now  BY DEF IInv, OnTime
    <3> QED
      BY <1>1, <1>2, <2>1, <3>1, <3>2 DEF IInv, Leave, Until, shepherd
  <2>2. CASE ~TurnedOver /\ now >= deadline /\ Leave("turnover", "late") /\ Still
    <3>1. Swaps > 0 /\ ~harmed => InFlight  BY <1>1, <2>2 DEF TurnedOver, InFlight, Sizes
    <3>2. now >= budget  BY <1>1, <2>2 DEF IInv, Leave
    <3>3. Swaps > 0 => harmed \/ Short  BY <1>1, <1>3, <3>1, <3>2
    <3> QED  BY <1>2, <2>2, <3>3 DEF Leave, Still, shepherd, clock, Short
  <2> QED  BY <1>5, <2>1, <2>2 DEF Turnover
<1>6. CASE ProbedDwell
  <2>1. CASE Leave("dwell", "failed") /\ Still
    BY <2>1 DEF Leave, Still
  <2>2. CASE Probed /\ now >= deadline /\ Leave("dwell", "passed") /\ Still
    <3>1. queue = 0 /\ ~swapping  BY <2>2 DEF IInv, Leave
    <3>2. Listen + Slack <= MaxWait => ~probing
      <4> SUFFICES ASSUME Listen + Slack <= MaxWait, probing PROVE FALSE
        OBVIOUS
      <4>1. Reprobes /\ now <= probeAt + Listen  BY DEF IInv, OnTime
      <4>2. dwell_for >= Listen + Slack
        <5>1. MaxWait \in Nat /\ Longest \in Nat /\ MaxWait <= Longest  BY DEF Sizes
        <5>2. bounded(SaturatingAdd(Listen, Slack)) = Listen + Slack
          BY <1>1, <5>1 DEF bounded, SaturatingAdd, Least
        <5> QED  BY <1>1, <4>1, <5>2 DEF dwell_for, Most
      <4>3. now >= probeAt + dwell_for  BY <1>1, <2>2 DEF IInv, Leave
      <4> QED  BY <1>1, <4>1, <4>2, <4>3
    <3> QED  BY <1>1, <2>2, <3>1, <3>2 DEF Leave, Still, shepherd, clock, InFlight
  <2> QED  BY <1>6, <2>1, <2>2 DEF ProbedDwell
<1>7. CASE AliveDwell
  BY <1>1, <1>2, <1>7 DEF IInv, AliveDwell, Leave, Most
<1>8. CASE Alive
  <2>1. CASE ~swapping /\ Leave("alive", "passed") /\ Still
    <3>1. ~Probed  BY <2>1 DEF IInv, Leave
    <3> QED  BY <2>1, <3>1 DEF Leave, Still
  <2>2. CASE (swapping \/ harmed) /\ now >= deadline /\ Leave("alive", "late") /\ Still
    <3>1. now >= budget  BY <1>1, <2>2 DEF IInv, Leave
    <3>2. harmed \/ Short  BY <1>1, <1>3, <2>2, <3>1 DEF InFlight
    <3> QED  BY <1>2, <2>2, <3>2 DEF Leave, Still, shepherd, Short
  <2> QED  BY <1>8, <2>1, <2>2 DEF Alive
<1>9. CASE Fail  BY <1>9 DEF Fail, Still
<1>10. CASE RollBack  BY <1>1, <1>10 DEF RollBack, Until
<1>11. CASE Retry
  <2>1. CASE Leave("retry", "reloaded") /\ Still  BY <2>1 DEF Leave, Still
  <2>2. CASE InFlight /\ now >= deadline /\ Leave("retry", "split") /\ Still
    <3>1. now >= budget  BY <1>1, <2>2 DEF IInv, Leave
    <3>2. Short  BY <1>1, <1>3, <2>2, <3>1
    <3> QED  BY <1>2, <2>2, <3>2 DEF Leave, Still, Short
  <2> QED  BY <1>11, <2>1, <2>2 DEF Retry
<1> QED
  BY <1>4, <1>5, <1>6, <1>7, <1>8, <1>9, <1>10, <1>11 DEF Verifier

LEMMA NextHolds == Sizes /\ IInv /\ [Next]_vars => IInv'
<1> SUFFICES ASSUME Sizes, IInv, [Next]_vars PROVE IInv'
  OBVIOUS
<1>1. TypeOK'  BY TypeKept DEF IInv
<1>2. CASE Tick \/ Shepherd
  <2>1. OnTime'  BY <1>1, <1>2, OnTimeKept DEF IInv
  <2> QED  BY <1>1, <1>2, <2>1, ShepherdKeeps DEF IInv
<1>3. CASE Verifier
  <2>1. UNCHANGED <<now, shepherd>>
    BY <1>3 DEF Verifier, StartWait, Turnover, ProbedDwell, AliveDwell, Alive, Fail, RollBack,
       Retry, Until, Still, clock
  <2>2. OnTime'  BY <2>1, OnTimeAlone DEF IInv
  <2> QED  BY <1>1, <1>3, <2>2, VerifierKeeps DEF IInv
<1>4. CASE UNCHANGED vars
  BY <1>1, <1>4 DEF IInv, vars, clock, shepherd, OnTime, Done, Patient, NotFailedForTime,
     NotRefusedToTheEnd, HeardTheLastWord, InFlight, Short
<1> QED  BY <1>2, <1>3, <1>4 DEF Next

LEMMA Always == ASSUME Sizes PROVE Spec => []IInv
<1>1. Init => IInv  BY InitHolds
<1>2. IInv /\ [Next]_vars => IInv'  BY NextHolds
<1> QED  BY <1>1, <1>2, PTL DEF Spec

-----------------------------------------------------------------------------
(* What follows.                                                           *)

(* window::budget and verify::wait: a reload whose swaps shep all ends     *)
(* within its own deadlines is not rolled back for taking its time, unless *)
(* that is more than MAX_WAIT or the sheep was stocked up meanwhile.       *)
THEOREM HealthyIsWaitedFor == ASSUME Sizes PROVE Spec => []NotFailedForTime
<1>1. IInv => NotFailedForTime  BY DEF IInv
<1> QED  BY <1>1, Always, PTL

(* rollback.rs: reload_until, given the failed reload's budget, outlasts   *)
(* that reload, so a rollback ends split for this reason only past         *)
(* MAX_WAIT or after stocking.                                             *)
THEOREM PatienceIsEnough == ASSUME Sizes PROVE Spec => []NotRefusedToTheEnd
<1>1. IInv => NotRefusedToTheEnd  BY DEF IInv
<1> QED  BY <1>1, Always, PTL

(* window::dwell_for: a probed release that passes has had the probe after *)
(* its drain answered, unless that may take more than MAX_WAIT.            *)
THEOREM LastWordIsHeard == ASSUME Sizes PROVE Spec => []HeardTheLastWord
<1>1. IInv => HeardTheLastWord  BY DEF IInv
<1> QED  BY <1>1, Always, PTL
=============================================================================
