---------------------------- MODULE VerifyProofs ----------------------------
(***************************************************************************)
(* Proofs about Verify, for every number of instances, every dwell and     *)
(* every amount of trouble: type correctness, that a reload which passes   *)
(* runs the new release everywhere, at the strength the flock had, on      *)
(* instances none of which has died, and that a reload in which nothing    *)
(* goes wrong is never failed.                                             *)
(*                                                                         *)
(* Every step of the shepherd but a death does the same to the flock: it   *)
(* takes rows out, puts some of them back under another status, and adds   *)
(* at most one row, under a pid that was never handed out.  What that      *)
(* keeps is proved once (Rearranging), and each action is shown to be one. *)
(***************************************************************************)
EXTENDS Verify, FiniteSetTheorems, TLAPS

TypeInv == TypeOK /\ IsFiniteSet(flock)

(* From the capture on, an instance of the old release is one the captured *)
(* generation holds, or it has no process; and what settles is disjoint    *)
(* from what was captured.                                                 *)
OldAreHeld ==
  /\ (current = "new") = (pc # "swap")
  /\ pc \in {"request", "turnover", "dwell"} =>
       \A r \in flock : r.release = "old" => r.pid \in before.pids \cup {NoPid}
  /\ pc = "dwell" => settled.pids \cap before.pids = {}

(* A pid names one instance, living or dead, and was handed out before;    *)
(* only an instance that waits for its restart has none.                   *)
PidsAreNames ==
  /\ \A r \in flock : r.pid = NoPid <=> r.status = "waiting"
  /\ \A r \in flock : r.pid < nextPid /\ r.pid \notin died
  /\ \A r, q \in flock : r.pid = q.pid /\ r.pid # NoPid => r = q
  /\ \A p \in died : p < nextPid

(* What settled had as many instances as pids.                             *)
SettledCounts == pc = "dwell" => settled.rows = Cardinality(settled.pids)

VerdictInv == TypeInv /\ OldAreHeld /\ PidsAreNames /\ SettledCounts

-----------------------------------------------------------------------------
(* Rows and generations.                                                   *)

Rearranges(R, K, st, N) ==
  /\ R \in SUBSET flock /\ K \in SUBSET R /\ st \in Status \ {"waiting"}
  /\ \A r \in K : r.pid # NoPid
  /\ flock' = (flock \ R) \cup Marked(K, st) \cup N
  /\ \/ N = {} /\ nextPid' = nextPid
     \/ HandOut /\ \E s \in Slot, t \in {"starting", "online"} : N = {Spawned(s, t)}

(* Marking rows keeps all but their status, and makes no more of them.     *)
LEMMA MarkedRows ==
  ASSUME NEW K \in SUBSET Row, NEW st \in Status
  PROVE  /\ Marked(K, st) \in SUBSET Row
         /\ \A x \in Marked(K, st) : \E r \in K :
              x.pid = r.pid /\ x.release = r.release /\ x.status = st
                /\ x = [r EXCEPT !.status = st]
         /\ IsFiniteSet(K) => IsFiniteSet(Marked(K, st))
<1>1. \A r \in K : [r EXCEPT !.status = st] \in Row
                     /\ [r EXCEPT !.status = st].pid = r.pid
                     /\ [r EXCEPT !.status = st].release = r.release
                     /\ [r EXCEPT !.status = st].status = st
  BY DEF Row
<1>2. IsFiniteSet(K) => IsFiniteSet(Marked(K, st))
  <2> DEFINE f == [r \in K |-> [r EXCEPT !.status = st]]
  <2>1. f \in Surjection(K, Marked(K, st))
    BY DEF Surjection, Marked
  <2> QED
    BY <2>1, FS_Surjection
<1> QED
  BY <1>1, <1>2 DEF Marked

(* The slots of a finite flock, and the generation it makes, are counted   *)
(* by naturals.                                                            *)
LEMMA CountsAreNatural ==
  ASSUME NEW S \in SUBSET Row, IsFiniteSet(S)
  PROVE  OfInfos(S) \in Generation /\ Cardinality({r.slot : r \in S}) \in Nat
<1>1. Cardinality({r \in S : r.status # "stopping"}) \in Nat
  <2>1. {r \in S : r.status # "stopping"} \in SUBSET S
    OBVIOUS
  <2> QED
    BY <2>1, FS_Subset, FS_CardinalityType
<1>2. {r.pid : r \in S} \ {NoPid} \in SUBSET Pid
  BY DEF Row
<1>3. IsFiniteSet({r.slot : r \in S})
  <2> DEFINE f == [r \in S |-> r.slot]
  <2>1. f \in Surjection(S, {r.slot : r \in S})
    BY DEF Surjection
  <2> QED
    BY <2>1, FS_Surjection
<1> QED
  BY <1>1, <1>2, <1>3, FS_CardinalityType DEF OfInfos, Generation

(* A flock whose rows are all running, under pids of their own, and none   *)
(* of them stopping, has as many pids as its generation has rows.          *)
LEMMA PidsCount ==
  ASSUME NEW S \in SUBSET Row, IsFiniteSet(S),
         \A r, q \in S : r.pid = q.pid /\ r.pid # NoPid => r = q,
         \A r \in S : r.pid # NoPid
  PROVE  /\ Cardinality({r.pid : r \in S}) = Cardinality(S)
         /\ IsFiniteSet({r.pid : r \in S})
<1> DEFINE f == [r \in S |-> r.pid]
<1>1. f \in Surjection(S, {r.pid : r \in S}) /\ f \in Injection(S, {r.pid : r \in S})
  BY DEF Surjection, Injection, IsInjective
<1> QED
  BY <1>1, FS_Surjection

-----------------------------------------------------------------------------
(* The steps of the shepherd.                                              *)

(* A rearrangement of the flock keeps the invariant where the verifier and *)
(* the dead are as they were.                                              *)
LEMMA Rearranging ==
  ASSUME VerdictInv, NEW R, NEW K, NEW st, NEW N, Rearranges(R, K, st, N),
         UNCHANGED <<current, died, before, settled, pc>>
  PROVE  /\ flock' \in SUBSET Row /\ IsFiniteSet(flock') /\ nextPid' \in 1 .. MaxPid + 1
         /\ OldAreHeld' /\ PidsAreNames' /\ SettledCounts'
<1> USE DEF VerdictInv, TypeInv, TypeOK
<1>1. /\ R \in SUBSET Row /\ K \in SUBSET Row /\ st \in Status \ {"waiting"}
      /\ IsFiniteSet(K) /\ IsFiniteSet(flock \ R) /\ IsFiniteSet(N)
  BY FS_Subset, FS_Difference, FS_EmptySet, FS_Singleton DEF Rearranges
<1>2. /\ N \in SUBSET Row /\ nextPid' \in 1 .. MaxPid + 1
      /\ nextPid <= nextPid'
      /\ \A x \in N : x.pid # NoPid /\ x.status # "waiting"
      /\ \A x \in N : x.pid = nextPid /\ nextPid < nextPid' /\ x.release = current
      /\ \A x, y \in N : x = y
  BY PidAssumption DEF Rearranges, HandOut, Spawned, Row, Pid, Status, NoPid
<1>3. flock' \in SUBSET Row /\ IsFiniteSet(flock')
  BY <1>1, <1>2, MarkedRows, FS_Union DEF Rearranges
<1>4. \A x \in flock' :
        \/ x \in flock \ R
        \/ \E r \in K : x.pid = r.pid /\ x.release = r.release
                          /\ x.status = st /\ x = [r EXCEPT !.status = st]
        \/ x \in N
  BY <1>1, MarkedRows DEF Rearranges
<1>5. K \subseteq R /\ R \subseteq flock
  BY DEF Rearranges
<1>6. OldAreHeld'
  BY <1>2, <1>4, <1>5 DEF OldAreHeld
<1>7. PidsAreNames'
  <2>1. \A x \in flock' : x.pid < nextPid' /\ x.pid \notin died'
    BY <1>2, <1>3, <1>4, <1>5 DEF PidsAreNames, Row, Pid, NoPid
  <2>2. \A x, y \in flock' : x.pid = y.pid /\ x.pid # NoPid => x = y
    <3> SUFFICES ASSUME NEW x \in flock', NEW y \in flock', x.pid = y.pid, x.pid # NoPid
                 PROVE  x = y
      OBVIOUS
    <3>1. CASE x \in N \/ y \in N
      BY <1>2, <1>4, <1>5, <3>1 DEF PidsAreNames, Row, Pid, NoPid
    <3>2. CASE x \notin N /\ y \notin N
      BY <1>4, <1>5, <3>2 DEF PidsAreNames
    <3> QED
      BY <3>1, <3>2
  <2>3. \A x \in flock' : x.pid = NoPid <=> x.status = "waiting"
    <3> SUFFICES ASSUME NEW x \in flock'
                 PROVE  x.pid = NoPid <=> x.status = "waiting"
      OBVIOUS
    <3>1. CASE x \in flock \ R
      BY <3>1 DEF PidsAreNames
    <3>2. CASE \E q \in K : x.pid = q.pid /\ x.status = st
      BY <1>1, <3>2 DEF Rearranges
    <3>3. CASE x \in N
      BY <1>2, <3>3
    <3> QED
      BY <1>4, <3>1, <3>2, <3>3
  <2>4. \A p \in died' : p < nextPid'
    BY <1>2 DEF PidsAreNames, Pid
  <2> QED
    BY <2>1, <2>2, <2>3, <2>4 DEF PidsAreNames
<1>8. SettledCounts'
  BY DEF SettledCounts
<1> QED
  BY <1>2, <1>3, <1>6, <1>7, <1>8

(* An instance that dies leaves a row without a process.                   *)
LEMMA Dying ==
  ASSUME VerdictInv, NEW r \in flock, Die(r)
  PROVE  VerdictInv'
<1> USE DEF VerdictInv, TypeInv, TypeOK
<1> DEFINE w == [[r EXCEPT !.pid = NoPid] EXCEPT !.status = "waiting"]
<1>1. flock' = (flock \ {r}) \cup {w}
  BY DEF Die, Marked
<1>2. w \in Row /\ w.pid = NoPid /\ w.status = "waiting" /\ w.release = r.release
  BY DEF Row, Status
<1>3. flock' \in SUBSET Row /\ IsFiniteSet(flock')
  BY <1>1, <1>2, FS_RemoveElement, FS_AddElement
<1> HIDE DEF w
<1>4. r.pid \in Pid \cup {NoPid}
  BY DEF Row
<1>5. /\ UNCHANGED <<mode, serial, queue, swap, nextPid, current, before, settled, pc,
                    looks, found, stale, late>>
      /\ troubles < Troubles /\ troubles' = troubles + 1 /\ died' = died \cup {r.pid}
      /\ r.pid # NoPid
  BY DEF Die, IsAlive, PidsAreNames, Trouble, app, verifier, history
<1>6. TypeInv'
  <2>1. died' \subseteq Pid /\ troubles' \in 0 .. Troubles
    BY <1>4, <1>5, LooksAssumption DEF NoPid
  <2> QED
    BY <1>3, <1>5, <2>1 DEF VerdictInv
<1>7. OldAreHeld'
  BY <1>1, <1>2, <1>5 DEF OldAreHeld
<1>8. PidsAreNames'
  <2>1. \A x \in flock' : x = w \/ (x \in flock /\ x.pid # r.pid)
    <3>1. \A q \in flock : q.pid = r.pid => q = r
      BY <1>5 DEF PidsAreNames
    <3> QED
      BY <1>1, <3>1
  <2>2. w.pid < nextPid' /\ w.pid \notin died'
    BY <1>2, <1>4, <1>5 DEF Pid, NoPid
  <2>3. \A x \in flock' : x.pid < nextPid' /\ x.pid \notin died'
    BY <1>5, <2>1, <2>2 DEF PidsAreNames
  <2>4. \A x \in flock' : x.pid = NoPid <=> x.status = "waiting"
    BY <1>2, <2>1 DEF PidsAreNames
  <2>5. \A x, y \in flock' : x.pid = y.pid /\ x.pid # NoPid => x = y
    BY <1>2, <2>1 DEF PidsAreNames
  <2>6. \A p \in died' : p < nextPid'
    BY <1>5 DEF PidsAreNames
  <2> QED
    BY <2>3, <2>4, <2>5, <2>6 DEF PidsAreNames
<1>9. SettledCounts'
  BY <1>5 DEF SettledCounts
<1> QED
  BY <1>6, <1>7, <1>8, <1>9

(* The verifier's part of the state, where a step leaves it alone.         *)
Aside == <<mode, serial, current, before, settled, pc, looks, found, stale, late>>

(* A rearrangement that keeps to the types of the rest keeps the invariant. *)
LEMMA Rearranged ==
  ASSUME VerdictInv, NEW R, NEW K, NEW st, NEW N, Rearranges(R, K, st, N),
         UNCHANGED <<Aside, died>>, queue' \in SUBSET Slot, swap' \in Slot \cup {NoSlot},
         troubles' \in 0 .. Troubles
  PROVE  VerdictInv'
<1>1. /\ flock' \in SUBSET Row /\ IsFiniteSet(flock') /\ nextPid' \in 1 .. MaxPid + 1
      /\ OldAreHeld' /\ PidsAreNames' /\ SettledCounts'
  BY Rearranging DEF Aside
<1>2. TypeOK'
  BY <1>1 DEF VerdictInv, TypeInv, TypeOK, Aside
<1> QED
  BY <1>1, <1>2 DEF VerdictInv, TypeInv

LEMMA TroubleType ==
  ASSUME TypeOK
  PROVE  /\ troubles \in 0 .. Troubles
         /\ Trouble => troubles' \in 0 .. Troubles
  BY LooksAssumption DEF TypeOK, Trouble

(* Each action of the shepherd, as a rearrangement.                        *)
LEMMA Shepherding ==
  ASSUME VerdictInv, Reloading \/ Tending
  PROVE  VerdictInv'
<1> USE DEF Aside, app, verifier, history
<1>1. TypeOK /\ flock \in SUBSET Row /\ IsFiniteSet(flock) /\ PidsAreNames
      /\ queue \in SUBSET Slot /\ swap \in Slot \cup {NoSlot}
  BY DEF VerdictInv, TypeInv, TypeOK
<1>2. /\ {"starting", "stuck", "online", "stopping"} \subseteq Status \ {"waiting"}
      /\ \A s \in Slot : Of(s) \in SUBSET flock /\ Running(s) \in SUBSET Of(s)
      /\ \A s \in Slot : \A r \in Running(s) : r.pid # NoPid
      /\ \A r \in flock : r.slot \in Slot
  BY <1>1 DEF Status, Of, Running, Row
<1>3. swap # NoSlot => /\ swap \in Slot
                       /\ Replacements \in SUBSET Of(swap)
                       /\ Drainees \in SUBSET Of(swap)
                       /\ \A r \in Replacements \cup Drainees : r.pid # NoPid
  BY <1>1 DEF Replacements, Drainees, Of, PidsAreNames
<1>4. \A st : Marked({}, st) = {}
  BY DEF Marked
<1>5. ASSUME NEW s \in Slot, BeginSwap(s)
      PROVE  VerdictInv'
  <2>1. CASE UNCHANGED nextPid /\ flock' = (flock \ Of(s)) \cup Marked(Running(s), "stopping")
    <3>1. Rearranges(Of(s), Running(s), "stopping", {})
      BY <1>2, <2>1 DEF Rearranges
    <3> QED
      BY <1>1, <1>5, <3>1, Rearranged, TroubleType DEF BeginSwap
  <2>2. CASE HandOut /\ flock' = (flock \ Of(s)) \cup Marked(Running(s), "stopping")
                                  \cup {Spawned(s, "starting")}
    <3>1. Rearranges(Of(s), Running(s), "stopping", {Spawned(s, "starting")})
      BY <1>2, <2>2 DEF Rearranges
    <3> QED
      BY <1>1, <1>5, <3>1, Rearranged, TroubleType DEF BeginSwap
  <2> QED
    BY <1>5, <2>1, <2>2 DEF BeginSwap
<1>6. CASE SpawnNew
  <2>1. swap \in Slot
    BY <1>3, <1>6 DEF SpawnNew
  <2>2. CASE HandOut /\ flock' = (flock \ Of(swap)) \cup {Spawned(swap, "starting")}
             /\ UNCHANGED <<swap, troubles>>
    <3>1. Rearranges(Of(swap), {}, "starting", {Spawned(swap, "starting")})
      BY <1>2, <1>4, <2>1, <2>2 DEF Rearranges
    <3> QED
      BY <1>1, <1>6, <2>2, <3>1, Rearranged, TroubleType DEF SpawnNew
  <2>3. CASE Trouble /\ flock' = flock \ Of(swap) /\ swap' = NoSlot /\ UNCHANGED nextPid
    <3>1. Rearranges(Of(swap), {}, "starting", {})
      BY <1>2, <1>4, <2>1, <2>3 DEF Rearranges
    <3> QED
      BY <1>1, <1>6, <2>3, <3>1, Rearranged, TroubleType DEF SpawnNew
  <2> QED
    BY <1>6, <2>2, <2>3 DEF SpawnNew
<1>7. CASE FinishSwap
  <2>1. Rearranges(Of(swap), Replacements, "online", {})
    BY <1>2, <1>3, <1>7 DEF FinishSwap, Rearranges
  <2> QED
    BY <1>1, <1>7, <2>1, Rearranged, TroubleType DEF FinishSwap
<1>8. CASE AbortSwap
  <2>1. CASE flock' = (flock \ Of(swap)) \cup Marked(Drainees, "online")
    <3>1. Rearranges(Of(swap), Drainees, "online", {})
      BY <1>2, <1>3, <1>8, <2>1 DEF AbortSwap, Rearranges
    <3> QED
      BY <1>1, <1>8, <3>1, Rearranged, TroubleType DEF AbortSwap
  <2>2. CASE flock' = (flock \ Of(swap)) \cup Marked(Replacements, "stuck")
    <3>1. Rearranges(Of(swap), Replacements, "stuck", {})
      BY <1>2, <1>3, <1>8, <2>2 DEF AbortSwap, Rearranges
    <3> QED
      BY <1>1, <1>8, <3>1, Rearranged, TroubleType DEF AbortSwap
  <2> QED
    BY <1>8, <2>1, <2>2 DEF AbortSwap
<1>9. ASSUME NEW r \in flock, Respawn(r)
      PROVE  VerdictInv'
  <2>1. Rearranges({r}, {}, "starting", {Spawned(r.slot, "starting")})
    BY <1>2, <1>4, <1>9 DEF Respawn, Rearranges
  <2> QED
    BY <1>1, <1>9, <2>1, Rearranged, TroubleType DEF Respawn
<1>10. ASSUME NEW r \in flock, ComeUp(r)
       PROVE  VerdictInv'
  <2>1. r.pid # NoPid
    BY <1>1, <1>10 DEF ComeUp, PidsAreNames
  <2>2. Rearranges({r}, {r}, "online", {})
    BY <1>2, <1>10, <2>1 DEF ComeUp, Rearranges
  <2> QED
    BY <1>1, <1>10, <2>2, Rearranged, TroubleType DEF ComeUp
<1>11. ASSUME NEW r \in flock, Demote(r)
       PROVE  VerdictInv'
  <2>1. r.pid # NoPid
    BY <1>1, <1>11 DEF Demote, IsOnline, PidsAreNames
  <2>2. Rearranges({r}, {r}, "stuck", {})
    BY <1>2, <1>11, <2>1 DEF Demote, Rearranges
  <2> QED
    BY <1>1, <1>11, <2>2, Rearranged, TroubleType DEF Demote
<1>12. ASSUME NEW s \in Slot, StockUp(s)
       PROVE  VerdictInv'
  <2>1. Rearranges({}, {}, "starting", {Spawned(s, "starting")})
    BY <1>2, <1>4, <1>12 DEF StockUp, Rearranges
  <2> QED
    BY <1>1, <1>12, <2>1, Rearranged, TroubleType DEF StockUp
<1>13. ASSUME NEW s \in Slot, StockDown(s)
       PROVE  VerdictInv'
  <2>1. Rearranges(Of(s), {}, "starting", {})
    BY <1>2, <1>4, <1>13 DEF StockDown, Rearranges
  <2> QED
    BY <1>1, <1>13, <2>1, Rearranged, TroubleType DEF StockDown
<1> QED
  BY <1>5, <1>6, <1>7, <1>8, <1>9, <1>10, <1>11, <1>12, <1>13, Dying DEF Reloading, Tending

-----------------------------------------------------------------------------
(* The steps of the verifier.                                              *)

(* A flock that has turned over has nothing of the old release in it, none *)
(* of the captured pids, and one pid for each of its rows.                 *)
LEMMA Settling ==
  ASSUME VerdictInv, pc = "turnover", HasTurnedOver(before, flock)
  PROVE  LET g == OfInfos(flock) IN
         /\ g.pids \cap before.pids = {}
         /\ g.rows = Cardinality(g.pids)
<1> USE DEF VerdictInv, TypeInv
<1>1. /\ \A r \in flock : r.pid # NoPid /\ r.pid \notin before.pids
      /\ \A r \in flock : r.status # "stopping"
  BY DEF HasTurnedOver, IsNew, Accept, IsOnline, IsAlive
<1>2. {r \in flock : r.status # "stopping"} = flock
  BY <1>1
<1>3. {r.pid : r \in flock} \ {NoPid} = {r.pid : r \in flock}
  BY <1>1
<1>4. flock \in SUBSET Row
  BY DEF TypeOK
<1>5. Cardinality({r.pid : r \in flock}) = Cardinality(flock)
  BY <1>1, <1>4, PidsCount DEF PidsAreNames
<1>6. /\ OfInfos(flock).pids = {r.pid : r \in flock}
      /\ OfInfos(flock).rows = Cardinality(flock)
  BY <1>2, <1>3 DEF OfInfos
<1> QED
  BY <1>1, <1>5, <1>6

LEMMA VerifyingStep ==
  ASSUME VerdictInv, Verifying \/ DescribeFails \/ TimeUp
  PROVE  VerdictInv'
<1> USE DEF app, shepherd, history, verifier, Goto
<1>1. TypeOK /\ flock \in SUBSET Row /\ IsFiniteSet(flock)
  BY DEF VerdictInv, TypeInv, TypeOK
<1>2. OfInfos(flock) \in Generation /\ Cardinality(Occupied) \in Nat
  BY <1>1, CountsAreNatural DEF Occupied
<1>3. Occupied \in SUBSET Slot
  BY <1>1 DEF Occupied, Row
<1>4. CASE PointAt
  BY <1>4 DEF PointAt, VerdictInv, TypeInv, TypeOK, OldAreHeld, PidsAreNames, SettledCounts
<1>5. CASE Capture
  <2>1. TypeInv'
    BY <1>1, <1>2, <1>5 DEF Capture, TypeInv, TypeOK
  <2>2. \A r \in flock : r.pid \in before'.pids \cup {NoPid}
    BY <1>5 DEF Capture, OfInfos
  <2> QED
    BY <1>5, <2>1, <2>2
       DEF Capture, VerdictInv, TypeInv, TypeOK, OldAreHeld, PidsAreNames, SettledCounts
<1>6. CASE Request
  <2>1. UNCHANGED <<mode, serial, flock, swap, nextPid, died, current, before, settled,
                    looks, found, late>> /\ pc = "request"
    BY <1>6 DEF Request
  <2>2. /\ pc' \in {"turnover", "capture", "failed", "refused"}
        /\ queue' \in SUBSET Slot /\ stale' \in BOOLEAN /\ troubles' \in 0 .. Troubles
    BY <1>1, <1>3, <1>6, TroubleType DEF Request, Accepted, TypeOK
  <2> QED
    BY <2>1, <2>2 DEF VerdictInv, TypeInv, TypeOK, OldAreHeld, PidsAreNames, SettledCounts
<1>7. CASE Turnover
  <2>1. CASE HasTurnedOver(before, flock) /\ settled' = OfInfos(flock) /\ pc' = "dwell"
             /\ late' = FALSE
    BY <1>1, <1>2, <1>7, <2>1, Settling
       DEF Turnover, VerdictInv, TypeInv, TypeOK, OldAreHeld, PidsAreNames, SettledCounts
  <2>2. CASE pc' = "failed" /\ UNCHANGED <<settled, late>>
    BY <1>7, <2>2
       DEF Turnover, VerdictInv, TypeInv, TypeOK, OldAreHeld, PidsAreNames, SettledCounts
  <2> QED
    BY <1>7, <2>1, <2>2 DEF Turnover
<1>8. CASE Probed
  <2>1. looks' \in 0 .. Looks /\ pc' \in {"dwell", "passed", "failed"} /\ pc = "dwell"
    BY <1>1, <1>8, LooksAssumption DEF Probed, TypeOK
  <2> QED
    BY <1>8, <2>1
       DEF Probed, VerdictInv, TypeInv, TypeOK, OldAreHeld, PidsAreNames, SettledCounts
<1>9. CASE Alive
  BY <1>9 DEF Alive, VerdictInv, TypeInv, TypeOK, OldAreHeld, PidsAreNames, SettledCounts
<1>10. CASE DescribeFails
  <2>1. troubles' \in 0 .. Troubles /\ pc' \in {"refused", "failed"} /\ pc # "swap"
    BY <1>1, <1>10, TroubleType DEF DescribeFails
  <2> QED
    BY <1>10, <2>1
       DEF DescribeFails, VerdictInv, TypeInv, TypeOK, OldAreHeld, PidsAreNames, SettledCounts
<1>11. CASE TimeUp
  BY <1>11 DEF TimeUp, VerdictInv, TypeInv, TypeOK, OldAreHeld, PidsAreNames, SettledCounts
<1> QED
  BY <1>4, <1>5, <1>6, <1>7, <1>8, <1>9, <1>10, <1>11 DEF Verifying

-----------------------------------------------------------------------------
(* The invariant, and what it says of a verdict.                           *)

LEMMA VerdictInit == Init => VerdictInv
<1> SUFFICES ASSUME Init PROVE VerdictInv
  OBVIOUS
<1>1. PICK live \in (SUBSET Slot) \ {{}} :
        /\ flock = {[slot |-> s, pid |-> s, status |-> "online", release |-> "old"] :
                      s \in live}
        /\ queue \in IF Earlier THEN {{}, live} ELSE {{}}
  BY DEF Init
<1>2. flock \in SUBSET Row
  BY <1>1, PlacesAssumption, PidAssumption DEF Row, Slot, Pid, Status
<1>3. IsFiniteSet(flock)
  <2> DEFINE f == [s \in live |-> [slot |-> s, pid |-> s, status |-> "online",
                                   release |-> "old"]]
  <2>1. IsFiniteSet(live)
    <3>1. IsFiniteSet(1 .. Places)
      BY PlacesAssumption, FS_Interval
    <3> QED
      BY <3>1, FS_Subset DEF Slot
  <2>2. f \in Surjection(live, flock)
    BY <1>1 DEF Surjection
  <2> QED
    BY <2>1, <2>2, FS_Surjection
<1>4. Nothing \in Generation
  BY CountsAreNatural, FS_EmptySet DEF Nothing
<1>5. TypeInv
  <2>1. queue \subseteq Slot
    BY <1>1
  <2>2. /\ nextPid \in 1 .. MaxPid + 1 /\ looks \in 0 .. Looks /\ troubles \in 0 .. Troubles
        /\ found \in Nat
    BY PlacesAssumption, PidAssumption, LooksAssumption DEF Init
  <2>3. late \in BOOLEAN /\ stale \in BOOLEAN /\ serial \in BOOLEAN
    BY DEF Init
  <2>4. /\ current \in {"old", "new"} /\ swap = NoSlot /\ died = {} /\ pc = "swap"
        /\ mode \in {"probed", "alive"} /\ before = Nothing /\ settled = Nothing
    BY DEF Init
  <2> QED
    BY <1>2, <1>3, <1>4, <2>1, <2>2, <2>3, <2>4 DEF TypeInv, TypeOK
<1>6. PidsAreNames
  BY <1>1, PlacesAssumption DEF Init, PidsAreNames, Slot, NoPid
<1> QED
  BY <1>5, <1>6 DEF Init, VerdictInv, OldAreHeld, SettledCounts

LEMMA VerdictStep == VerdictInv /\ [Next]_vars => VerdictInv'
<1>1. ASSUME VerdictInv, UNCHANGED vars
      PROVE  VerdictInv'
  BY <1>1 DEF vars, app, shepherd, history, verifier, VerdictInv, TypeInv, TypeOK,
              OldAreHeld, PidsAreNames, SettledCounts
<1> QED
  BY <1>1, Shepherding, VerifyingStep DEF Next

LEMMA VerdictAlways == Spec => []VerdictInv
  BY VerdictInit, VerdictStep, PTL DEF Spec

(* Every variable of the verifier and of the shepherd keeps to its type.   *)
THEOREM TypeCorrect == Spec => []TypeOK
<1>1. VerdictInv => TypeOK
  BY DEF VerdictInv, TypeInv
<1> QED
  BY <1>1, VerdictAlways, PTL

(* What passing looks like: the settled flock whole and online.            *)
LEMMA PassIsWhole ==
  ASSUME VerdictInv, [Next]_vars, Passes
  PROVE  pc = "dwell" /\ StillWhole(settled, flock)
<1>1. Probed \/ Alive
  BY DEF Next, vars, Passes, Verifying, PointAt, Capture, Request, Turnover, Goto, Reloading,
         Tending, BeginSwap, SpawnNew, FinishSwap, AbortSwap, Die, Respawn, ComeUp, Demote,
         StockUp, StockDown, DescribeFails, TimeUp, verifier
<1> QED
  BY <1>1 DEF Probed, Alive, Passes, Goto

(* A reload passes only with every instance online on the new release:     *)
(* verify::wait tells the releases apart by pids alone.                    *)
THEOREM PassedRunsNew == Spec => PassRunsNew
<1>1. ASSUME VerdictInv, [Next]_vars, Passes
      PROVE  \A r \in flock : IsOnline(r) /\ r.release = "new"
  <2>1. pc = "dwell" /\ \A r \in flock : r.pid \in settled.pids /\ IsOnline(r)
    BY <1>1, PassIsWhole DEF StillWhole, Held
  <2>2. settled.pids \cap before.pids = {} /\ NoPid \notin settled.pids
    BY <1>1, <2>1 DEF VerdictInv, OldAreHeld, TypeInv, TypeOK, Generation, Pid, NoPid
  <2>3. \A r \in flock : r.release \in {"old", "new"}
    BY <1>1 DEF VerdictInv, TypeInv, TypeOK, Row
  <2> QED
    BY <1>1, <2>1, <2>2, <2>3 DEF VerdictInv, OldAreHeld
<1> QED
  BY <1>1, VerdictAlways, PTL DEF PassRunsNew, Spec

(* A reload passes only if none of the instances that settled has died:    *)
(* their pids and their number together leave no room for another.         *)
THEOREM PassedSurvived == Spec => PassSurvived
<1>1. ASSUME VerdictInv, [Next]_vars, Passes
      PROVE  settled.pids \cap died = {}
  <2> DEFINE pids == {r.pid : r \in flock}
  <2>1. /\ pc = "dwell" /\ pids \subseteq settled.pids
        /\ Cardinality(flock) = settled.rows
    BY <1>1, PassIsWhole DEF StillWhole, Held
  <2>2. settled.rows = Cardinality(settled.pids)
    BY <1>1, <2>1 DEF VerdictInv, SettledCounts
  <2>3. IsFiniteSet(settled.pids) /\ NoPid \notin settled.pids
    <3>1. settled.pids \in SUBSET (1 .. MaxPid)
      BY <1>1 DEF VerdictInv, TypeInv, TypeOK, Generation, Pid
    <3>2. IsFiniteSet(1 .. MaxPid)
      BY PidAssumption, FS_Interval
    <3>3. IsFiniteSet(settled.pids)
      BY <3>1, <3>2, FS_Subset
    <3>4. NoPid \notin settled.pids
      BY <3>1 DEF NoPid
    <3> QED
      BY <3>3, <3>4
  <2>4. \A r \in flock : r.pid # NoPid
    BY <2>1, <2>3
  <2>5. Cardinality(pids) = Cardinality(flock)
    BY <1>1, <2>4, PidsCount DEF VerdictInv, TypeInv, TypeOK, PidsAreNames
  <2>6. pids = settled.pids
    BY <2>1, <2>2, <2>3, <2>5, FS_Subset
  <2> QED
    BY <1>1, <2>6 DEF VerdictInv, PidsAreNames
<1> QED
  BY <1>1, VerdictAlways, PTL DEF PassSurvived, Spec
-----------------------------------------------------------------------------
(* Strength: nothing goes missing between the capture and the verdict.     *)

(* A slot has one row, and during its swap perhaps a draining one beside.  *)
Draining(r) == r.status = "stopping"
Tidy ==
  /\ \A r \in flock : Draining(r) => r.slot = swap
  /\ \A r \in flock : r.slot = swap => r.status \in {"starting", "stopping"}
  /\ \A r, q \in flock : r.slot = q.slot /\ (Draining(r) <=> Draining(q)) => r = q

(* The rows a capture counts are the slots it finds, but for one that is    *)
(* being drained with its replacement still to come; and that one's pid is *)
(* gone before the reload in flight is over.                               *)
Replacing == Replacements = {} /\ \E r \in flock : Draining(r) /\ r.pid \in before.pids
Missed == \E p \in before.pids : \A r \in flock : r.pid # p
Strength ==
  /\ \A p \in before.pids : p < nextPid
  /\ pc = "request" => before.rows = found \/ Replacing \/ Missed
  /\ pc \in {"turnover", "dwell"} /\ ~stale => before.rows = found
  /\ pc = "dwell" /\ before.rows # 0 => settled.rows = before.rows

(* While nothing has gone wrong: who is not in the swap is online, and what *)
(* a reload was asked of is swapped slot by slot.                          *)
Swapped ==
  /\ before.rows = Cardinality(Occupied)
  /\ \A r \in flock : r.slot \in queue => r.pid \in before.pids
  /\ \A r \in flock : r.slot \notin queue /\ ~Draining(r) => r.pid \notin before.pids
  /\ late => ~InFlight
Arrived ==
  /\ queue = {} /\ settled.rows = Cardinality(Occupied)
  /\ \A r \in flock : ~Draining(r) /\ r.pid \in settled.pids
  /\ mode = "probed" => swap = NoSlot
Smooth ==
  /\ flock # {} /\ swap \notin queue
  /\ \A s \in queue : Of(s) # {}
  /\ swap # NoSlot => Of(swap) # {}
  /\ \A r \in flock : r.slot # swap => IsOnline(r)
  /\ pc \in {"swap", "capture", "request"} => ~late
  /\ ~stale => /\ pc # "failed"
               /\ pc \in {"turnover", "dwell"} => Swapped
               /\ pc = "dwell" => Arrived
Untroubled == troubles = 0 => Smooth

LEMMA RowsOfFlock ==
  ASSUME TypeOK
  PROVE  /\ \A r \in flock : /\ r \in Row /\ r.slot \in Slot /\ r.slot # NoSlot
                             /\ r.status \in Status
         /\ swap \in Slot \cup {NoSlot} /\ queue \in SUBSET Slot
         /\ NoSlot \notin Slot
  BY DEF TypeOK, Row, Slot, NoSlot

(* What marking leaves of a row.                                           *)
LEMMA MarkedRow ==
  ASSUME NEW K \in SUBSET Row, NEW st, NEW x \in Marked(K, st)
  PROVE  \E r \in K : /\ x = [r EXCEPT !.status = st]
                      /\ x.slot = r.slot /\ x.pid = r.pid /\ x.status = st
<1>1. PICK r \in K : x = [r EXCEPT !.status = st]
  BY DEF Marked
<1>2. x.slot = r.slot /\ x.pid = r.pid /\ x.status = st
  BY <1>1 DEF Row
<1> QED
  BY <1>1, <1>2

LEMMA TidyShepherd ==
  ASSUME VerdictInv, Tidy, Reloading \/ Tending
  PROVE  Tidy'
<1>1. /\ \A r \in flock : /\ r \in Row /\ r.slot \in Slot /\ r.slot # NoSlot
                          /\ r.status \in Status
      /\ swap \in Slot \cup {NoSlot} /\ NoSlot \notin Slot /\ flock \in SUBSET Row
  BY RowsOfFlock DEF VerdictInv, TypeInv, TypeOK
<1>2. ASSUME NEW s \in Slot, BeginSwap(s)
      PROVE  Tidy'
  <2>1. swap = NoSlot /\ swap' = s /\ Running(s) \in SUBSET Row
    BY <1>1, <1>2 DEF BeginSwap, Running, Of
  <2>2. \A r, q \in flock : r.slot = q.slot => r = q
    BY <1>1, <2>1 DEF Tidy
  <2>3. \A x \in flock' : \/ x \in flock /\ x.slot # s
                          \/ \E r \in flock : r.slot = s /\ x.slot = s /\ Draining(x)
                                /\ x = [r EXCEPT !.status = "stopping"]
                          \/ x = Spawned(s, "starting")
    <3> SUFFICES ASSUME NEW x \in flock', ~(x \in flock /\ x.slot # s),
                        x # Spawned(s, "starting")
                 PROVE  \E r \in flock : /\ r.slot = s /\ x.slot = s /\ Draining(x)
                                         /\ x = [r EXCEPT !.status = "stopping"]
      OBVIOUS
    <3>1. x \in Marked(Running(s), "stopping")
      BY <1>2 DEF BeginSwap, Of
    <3>2. PICK r \in Running(s) : /\ x = [r EXCEPT !.status = "stopping"]
                                  /\ x.slot = r.slot /\ x.status = "stopping"
      BY <2>1, <3>1, MarkedRow
    <3> QED
      BY <3>2 DEF Running, Of, Draining
  <2>4. LET n == Spawned(s, "starting") IN n.slot = s /\ n.status = "starting" /\ ~Draining(n)
    BY DEF Spawned, Draining
  <2>5. \A r \in flock : ~Draining(r)
    BY <1>1, <2>1 DEF Tidy
  <2> QED
    BY <2>1, <2>2, <2>3, <2>4, <2>5 DEF Tidy, Draining
<1>3. CASE SpawnNew
  <2>1. \A x \in flock' : \/ x \in flock /\ x.slot # swap
                          \/ swap' = swap /\ x = Spawned(swap, "starting")
    BY <1>3 DEF SpawnNew, Of
  <2>2. LET n == Spawned(swap, "starting") IN n.slot = swap /\ n.status = "starting" /\ ~Draining(n)
    BY DEF Spawned, Draining
  <2>3. swap' \in {swap, NoSlot}
    BY <1>3 DEF SpawnNew
  <2> QED
    BY <1>1, <2>1, <2>2, <2>3 DEF Tidy
<1>4. CASE FinishSwap \/ AbortSwap
  <2>1. PICK K \in {Replacements, Drainees}, st \in {"online", "stuck"} :
          flock' = (flock \ Of(swap)) \cup Marked(K, st)
    BY <1>4 DEF FinishSwap, AbortSwap
  <2>2. K \in SUBSET Row
    BY <1>1 DEF Replacements, Drainees, Of
  <2>3. \A r, q \in K : r = q
    BY DEF Tidy, Replacements, Drainees, Of, Draining
  <2>4. \A x \in flock' : \/ x \in flock /\ x.slot # swap
                          \/ \E r \in K : x = [r EXCEPT !.status = st]
                                /\ x.slot = swap /\ ~Draining(x)
    BY <2>1, <2>2, MarkedRow DEF Of, Draining, Replacements, Drainees
  <2>5. swap' = NoSlot /\ swap # NoSlot
    BY <1>4 DEF FinishSwap, AbortSwap
  <2> QED
    BY <1>1, <2>3, <2>4, <2>5 DEF Tidy
<1>5. ASSUME NEW r \in flock, Die(r) \/ Respawn(r) \/ ComeUp(r) \/ Demote(r)
      PROVE  Tidy'
  <2>1. /\ swap' = swap /\ r.slot # swap
        /\ \E n : /\ flock' = (flock \ {r}) \cup {n}
                  /\ n.slot = r.slot /\ ~Draining(n)
    <3>1. CASE Die(r)
      <4> DEFINE n == [[r EXCEPT !.pid = NoPid] EXCEPT !.status = "waiting"]
      <4>1. n.slot = r.slot /\ ~Draining(n)
        BY <1>1 DEF Row, Draining
      <4>2. flock' = (flock \ {r}) \cup {n} /\ swap' = swap /\ r.slot # swap
        BY <3>1 DEF Die, Marked
      <4> HIDE DEF n
      <4> QED
        BY <4>1, <4>2
    <3>2. CASE Respawn(r)
      <4>1. LET n == Spawned(r.slot, "starting") IN n.slot = r.slot /\ ~Draining(n)
        BY DEF Spawned, Draining
      <4> QED
        BY <3>2, <4>1 DEF Respawn
    <3>3. CASE ComeUp(r)
      <4> DEFINE n == [r EXCEPT !.status = "online"]
      <4>1. n.slot = r.slot /\ ~Draining(n)
        BY <1>1 DEF Row, Draining
      <4>2. flock' = (flock \ {r}) \cup {n} /\ swap' = swap /\ r.slot # swap
        BY <3>3 DEF ComeUp, Marked
      <4> HIDE DEF n
      <4> QED
        BY <4>1, <4>2
    <3>4. CASE Demote(r)
      <4> DEFINE n == [r EXCEPT !.status = "stuck"]
      <4>1. n.slot = r.slot /\ ~Draining(n)
        BY <1>1 DEF Row, Draining
      <4>2. flock' = (flock \ {r}) \cup {n} /\ swap' = swap /\ r.slot # swap
        BY <3>4 DEF Demote, Marked
      <4> HIDE DEF n
      <4> QED
        BY <4>1, <4>2
    <3> QED
      BY <1>5, <3>1, <3>2, <3>3, <3>4
  <2>2. ~Draining(r)
    BY <2>1 DEF Tidy
  <2> QED
    BY <2>1, <2>2 DEF Tidy
<1>6. ASSUME NEW s \in Slot, StockUp(s)
      PROVE  Tidy'
  <2>1. LET n == Spawned(s, "starting") IN n.slot = s /\ ~Draining(n)
    BY DEF Spawned, Draining
  <2>2. flock' = flock \cup {Spawned(s, "starting")} /\ swap' = swap /\ s # swap
        /\ \A r \in flock : r.slot # s
    BY <1>6 DEF StockUp, Of
  <2> QED
    BY <2>1, <2>2 DEF Tidy
<1>7. ASSUME NEW s \in Slot, StockDown(s)
      PROVE  Tidy'
  BY <1>7 DEF StockDown, Tidy
<1> QED
  BY <1>2, <1>3, <1>4, <1>5, <1>6, <1>7 DEF Reloading, Tending

(* What a step of the shepherd lists is a pid that was listed, or the next. *)
LEMMA ShepherdPids ==
  ASSUME VerdictInv, Reloading \/ Tending
  PROVE  /\ \A x \in flock' : \/ x.pid = NoPid
                              \/ x.pid = nextPid /\ nextPid' = nextPid + 1
                              \/ \E r \in flock : r.pid = x.pid
         /\ nextPid' \in {nextPid, nextPid + 1}
         /\ UNCHANGED <<mode, serial, before, settled, pc, found, stale, late>>
<1> USE DEF app, verifier, history, HandOut
<1>1. flock \in SUBSET Row /\ nextPid \in Nat
  BY DEF VerdictInv, TypeInv, TypeOK
<1>2. \A K \in SUBSET flock : \A st : \A x \in Marked(K, st) : \E r \in flock : r.pid = x.pid
  <2> SUFFICES ASSUME NEW K \in SUBSET flock, NEW st, NEW x \in Marked(K, st)
               PROVE  \E r \in flock : r.pid = x.pid
    OBVIOUS
  <2>1. K \in SUBSET Row
    BY <1>1
  <2> QED
    BY <2>1, MarkedRow
<1>3. \A s, st : Spawned(s, st).pid = nextPid
  BY DEF Spawned
<1>4. ASSUME NEW s \in Slot, BeginSwap(s) \/ StockUp(s) \/ StockDown(s)
      PROVE  /\ \A x \in flock' : \/ x.pid = nextPid /\ nextPid' = nextPid + 1
                                  \/ \E r \in flock : r.pid = x.pid
             /\ nextPid' \in {nextPid, nextPid + 1}
             /\ UNCHANGED <<mode, serial, before, settled, pc, found, stale, late>>
  <2>1. Running(s) \in SUBSET flock
    BY DEF Running, Of
  <2> QED
    BY <1>2, <1>3, <1>4, <2>1 DEF BeginSwap, StockUp, StockDown
<1>5. CASE SpawnNew
  BY <1>3, <1>5 DEF SpawnNew
<1>6. CASE FinishSwap \/ AbortSwap
  <2>1. Replacements \in SUBSET flock /\ Drainees \in SUBSET flock
    BY DEF Replacements, Drainees, Of
  <2>2. PICK K \in {Replacements, Drainees}, st \in {"online", "stuck"} :
          flock' = (flock \ Of(swap)) \cup Marked(K, st)
    BY <1>6 DEF FinishSwap, AbortSwap
  <2> QED
    BY <1>2, <1>6, <2>1, <2>2 DEF FinishSwap, AbortSwap
<1>7. ASSUME NEW r \in flock, Die(r)
      PROVE  \A x \in flock' : x.pid = NoPid \/ x \in flock
  <2> DEFINE n == [[r EXCEPT !.pid = NoPid] EXCEPT !.status = "waiting"]
  <2>1. n.pid = NoPid
    BY <1>1 DEF Row
  <2>2. flock' = (flock \ {r}) \cup {n}
    BY <1>7 DEF Die, Marked
  <2> QED
    BY <2>1, <2>2
<1>8. ASSUME NEW r \in flock, ComeUp(r) \/ Demote(r)
      PROVE  \A x \in flock' : \E q \in flock : q.pid = x.pid
  BY <1>2, <1>8 DEF ComeUp, Demote
<1> QED
  BY <1>3, <1>4, <1>5, <1>6, <1>7, <1>8 DEF Reloading, Tending, Die, Respawn, ComeUp, Demote

(* What shep does outside a swap leaves the slot of the swap alone.        *)
LEMMA TendingAside ==
  ASSUME VerdictInv, Tending
  PROVE  /\ swap' = swap
         /\ \A x : x.slot = swap => (x \in flock' <=> x \in flock)
<1>1. flock \in SUBSET Row
  BY DEF VerdictInv, TypeInv, TypeOK
<1>2. ASSUME NEW r \in flock, Die(r) \/ Respawn(r) \/ ComeUp(r) \/ Demote(r)
      PROVE  /\ swap' = swap /\ r.slot # swap
             /\ \E n : flock' = (flock \ {r}) \cup {n} /\ n.slot = r.slot
  <2> DEFINE d == [[r EXCEPT !.pid = NoPid] EXCEPT !.status = "waiting"]
             u == [r EXCEPT !.status = "online"]
             k == [r EXCEPT !.status = "stuck"]
             w == Spawned(r.slot, "starting")
  <2>1. d.slot = r.slot /\ u.slot = r.slot /\ k.slot = r.slot /\ w.slot = r.slot
    BY <1>1 DEF Row, Spawned
  <2>2. \/ flock' = (flock \ {r}) \cup {d}
        \/ flock' = (flock \ {r}) \cup {w}
        \/ flock' = (flock \ {r}) \cup {u}
        \/ flock' = (flock \ {r}) \cup {k}
    BY <1>2 DEF Die, Respawn, ComeUp, Demote, Marked
  <2>3. swap' = swap /\ r.slot # swap
    BY <1>2 DEF Die, Respawn, ComeUp, Demote
  <2> HIDE DEF d, u, k, w
  <2> QED
    BY <2>1, <2>2, <2>3
<1>3. ASSUME NEW s \in Slot, StockUp(s) \/ StockDown(s)
      PROVE  /\ swap' = swap
             /\ \A x : x.slot = swap => (x \in flock' <=> x \in flock)
  <2>1. Spawned(s, "starting").slot = s
    BY DEF Spawned
  <2> QED
    BY <1>3, <2>1 DEF StockUp, StockDown, Of
<1> QED
  BY <1>2, <1>3 DEF Tending

(* The instance being drained is gone once its replacement is there.       *)
LEMMA ReplacingStep ==
  ASSUME VerdictInv, Tidy, Strength, Replacing, Reloading \/ Tending
  PROVE  (Replacing \/ Missed)'
<1>1. PICK r \in flock : Draining(r) /\ r.pid \in before.pids /\ r.slot = swap
  BY DEF Replacing, Tidy
<1>2. /\ swap # NoSlot /\ Replacements = {} /\ before' = before
      /\ r.pid < nextPid /\ r.pid # NoPid
      /\ \A q \in flock : q.pid = r.pid => q = r
  <2>1. r.slot # NoSlot
    BY RowsOfFlock DEF VerdictInv, TypeInv
  <2>2. r.pid # NoPid
    BY <1>1 DEF VerdictInv, TypeInv, TypeOK, Generation, Pid, NoPid
  <2> QED
    BY <1>1, <2>1, <2>2, ShepherdPids DEF Replacing, VerdictInv, PidsAreNames
<1>3. ~(\E s \in Slot : BeginSwap(s)) /\ ~FinishSwap /\ ~AbortSwap
  BY <1>2 DEF BeginSwap, FinishSwap, AbortSwap
<1>4. CASE SpawnNew
  <2>1. \A x \in flock' : (x \in flock /\ x.slot # swap) \/ x.pid = nextPid
    BY <1>4 DEF SpawnNew, Of, Spawned
  <2>2. \A x \in flock' : x.pid # r.pid
    BY <1>1, <1>2, <2>1 DEF VerdictInv, TypeInv, TypeOK
  <2> QED
    BY <1>1, <1>2, <2>2 DEF Missed
<1>5. CASE Tending
  <2>1. r \in flock' /\ Replacements' = {}
    BY <1>1, <1>2, <1>5, TendingAside DEF Replacements, Of
  <2> QED
    BY <1>1, <1>2, <2>1 DEF Replacing
<1> QED
  BY <1>3, <1>4, <1>5 DEF Reloading

LEMMA StrengthShepherd ==
  ASSUME VerdictInv, Tidy, Strength, Reloading \/ Tending
  PROVE  Strength'
<1>1. nextPid \in Nat /\ before.pids \in SUBSET Pid
  BY DEF VerdictInv, TypeInv, TypeOK, Generation
<1>2. Missed => Missed'
  <2> SUFFICES ASSUME NEW p \in before.pids, \A r \in flock : r.pid # p
               PROVE  \A x \in flock' : x.pid # p
    BY ShepherdPids DEF Missed
  <2>1. p # NoPid /\ p < nextPid /\ p \in Nat
    BY <1>1 DEF Strength, Pid, NoPid
  <2> QED
    BY <1>1, <2>1, ShepherdPids
<1>3. \A p \in before'.pids : p < nextPid'
  BY <1>1, ShepherdPids DEF Strength, Pid
<1> QED
  BY <1>2, <1>3, ShepherdPids, ReplacingStep DEF Strength

(* Rows that have their slots to themselves are as many as the slots.      *)
LEMMA OneEach ==
  ASSUME NEW S \in SUBSET Row, IsFiniteSet(S), \A r, q \in S : r.slot = q.slot => r = q
  PROVE  Cardinality(S) = Cardinality({r.slot : r \in S})
<1> DEFINE f == [r \in S |-> r.slot]
<1>1. f \in Surjection(S, {r.slot : r \in S}) /\ f \in Injection(S, {r.slot : r \in S})
  BY DEF Surjection, Injection, IsInjective
<1> QED
  BY <1>1, FS_Surjection

LEMMA StrengthVerifier ==
  ASSUME VerdictInv, Tidy, Strength, Verifying \/ DescribeFails \/ TimeUp
  PROVE  Strength'
<1> USE DEF app, shepherd, history, verifier, Goto
<1>1. /\ flock \in SUBSET Row /\ IsFiniteSet(flock) /\ PidsAreNames
      /\ \A r \in flock : r.slot # NoSlot
  BY RowsOfFlock DEF VerdictInv, TypeInv, TypeOK
<1>2. CASE Capture
  <2> DEFINE T == {r \in flock : r.status # "stopping"}
  <2>1. /\ before' = [pids |-> {r.pid : r \in flock} \ {NoPid}, rows |-> Cardinality(T)]
        /\ found' = Cardinality(Occupied) /\ UNCHANGED <<flock, swap, nextPid>>
        /\ pc' = "request"
    BY <1>2 DEF Capture, OfInfos
  <2>2. \A p \in before'.pids : p < nextPid'
    BY <1>1, <2>1 DEF PidsAreNames
  <2>3. CASE \E r \in flock : Draining(r) /\ Replacements = {}
    <3>1. PICK r \in flock : Draining(r) /\ Replacements = {}
      BY <2>3
    <3>2. r.pid # NoPid
      BY <1>1, <3>1 DEF PidsAreNames, Draining
    <3>3. r.pid \in before'.pids
      BY <2>1, <3>2
    <3>4. Replacing'
      BY <2>1, <3>1, <3>3 DEF Replacing, Replacements, Of
    <3> QED
      BY <2>1, <2>2, <3>4 DEF Strength
  <2>4. CASE \A r \in flock : Draining(r) => Replacements # {}
    <3>1. \A r, q \in T : r.slot = q.slot => r = q
      BY DEF Tidy, Draining
    <3>2. T \in SUBSET Row /\ IsFiniteSet(T)
      BY <1>1, FS_Subset
    <3>3. {r.slot : r \in T} = Occupied
      <4>1. \A r \in flock : Draining(r) => \E q \in T : q.slot = r.slot
        BY <2>4 DEF Tidy, Replacements, Of
      <4> QED
        BY <4>1 DEF Occupied, Draining
    <3>4. Cardinality(T) = Cardinality(Occupied)
      BY <3>1, <3>2, <3>3, OneEach
    <3> QED
      BY <2>1, <2>2, <3>4 DEF Strength
  <2> QED
    BY <2>3, <2>4
<1>3. CASE Request
  <2>1. UNCHANGED <<flock, swap, nextPid, before, settled, found>> /\ pc = "request"
    BY <1>3 DEF Request
  <2>2. CASE pc' # "turnover"
    <3>1. pc' \in {"capture", "failed", "refused"}
      BY <1>3, <2>2 DEF Request
    <3> QED
      BY <2>1, <3>1 DEF Strength
  <2>3. CASE pc' = "turnover"
    <3>1. Accepted
      BY <1>3, <2>3 DEF Request
    <3>2. ASSUME ~stale'
          PROVE  before.rows = found
      <4>1. OfInfos(flock) = before /\ swap = NoSlot
        BY <3>1, <3>2 DEF Accepted, InFlight
      <4>2. ~Replacing
        BY <1>1, <4>1 DEF Replacing, Tidy
      <4>3. before.pids = {r.pid : r \in flock} \ {NoPid}
        BY <4>1 DEF OfInfos
      <4>4. ~Missed
        BY <4>3 DEF Missed
      <4> QED
        BY <2>1, <4>2, <4>4 DEF Strength
    <3> QED
      BY <2>1, <2>3, <3>2 DEF Strength
  <2> QED
    BY <2>2, <2>3
<1>4. CASE Turnover
  <2>1. UNCHANGED <<nextPid, before, found, stale>> /\ pc = "turnover"
    BY <1>4 DEF Turnover
  <2>2. CASE HasTurnedOver(before, flock) /\ settled' = OfInfos(flock) /\ pc' = "dwell"
    <3>1. \A r \in flock : r.status # "stopping"
      BY <2>2 DEF HasTurnedOver, Accept, IsOnline, IsAlive
    <3>2. {r \in flock : r.status # "stopping"} = flock
      BY <3>1
    <3>3. settled'.rows = Cardinality(flock)
      BY <2>2, <3>2 DEF OfInfos
    <3>4. before.rows # 0 => settled'.rows = before.rows
      BY <2>2, <3>3 DEF HasTurnedOver, CountHolds
    <3> QED
      BY <2>1, <2>2, <3>4 DEF Strength
  <2>3. CASE pc' = "failed"
    BY <2>1, <2>3 DEF Strength
  <2> QED
    BY <1>4, <2>2, <2>3 DEF Turnover
<1>5. CASE PointAt \/ Probed \/ Alive \/ DescribeFails \/ TimeUp
  <2>1. /\ UNCHANGED <<nextPid, before, settled, found, stale>>
        /\ pc' \in {pc, "capture", "failed", "passed", "refused"}
        /\ pc # "request"
    BY <1>5 DEF PointAt, Probed, Alive, DescribeFails, TimeUp
  <2> QED
    BY <2>1 DEF Strength
<1> QED
  BY <1>2, <1>3, <1>4, <1>5 DEF Verifying

StrengthInv == VerdictInv /\ Tidy /\ Strength

LEMMA StrengthInit == Init => Tidy /\ Strength
<1> SUFFICES ASSUME Init PROVE Tidy /\ Strength
  OBVIOUS
<1>1. PICK live \in (SUBSET Slot) \ {{}} :
        flock = {[slot |-> s, pid |-> s, status |-> "online", release |-> "old"] : s \in live}
  BY DEF Init
<1>2. /\ \A r \in flock : r.status = "online" /\ r.slot # NoSlot
      /\ \A r, q \in flock : r.slot = q.slot => r = q
  BY <1>1 DEF Slot, NoSlot
<1>3. before.pids = {} /\ pc = "swap" /\ swap = NoSlot
  BY DEF Init, Nothing, OfInfos
<1> QED
  BY <1>2, <1>3 DEF Tidy, Strength, Draining

LEMMA StrengthStep == StrengthInv /\ [Next]_vars => StrengthInv'
<1>1. ASSUME StrengthInv, UNCHANGED vars
      PROVE  (Tidy /\ Strength)'
  BY <1>1 DEF vars, app, shepherd, history, verifier, StrengthInv, Tidy, Strength,
              Replacing, Missed, Replacements, Of
<1>2. ASSUME StrengthInv, Reloading \/ Tending
      PROVE  (Tidy /\ Strength)'
  BY <1>2, TidyShepherd, StrengthShepherd DEF StrengthInv
<1>3. ASSUME StrengthInv, Verifying \/ DescribeFails \/ TimeUp
      PROVE  (Tidy /\ Strength)'
  <2>1. UNCHANGED <<flock, swap>>
    BY <1>3 DEF Verifying, PointAt, Capture, Request, Turnover, Probed, Alive,
                DescribeFails, TimeUp, shepherd
  <2> QED
    BY <1>3, <2>1, StrengthVerifier DEF StrengthInv, Tidy
<1> QED
  BY <1>1, <1>2, <1>3, VerdictStep DEF StrengthInv, Next

LEMMA StrengthAlways == Spec => []StrengthInv
  BY VerdictInit, StrengthInit, StrengthStep, PTL DEF Spec, StrengthInv

(* A sheep that came back at another strength than it was found at is not  *)
(* passed (Generation::of, has_turned_over, still_whole), unless the flock *)
(* changed between the capture and the reload.                             *)
THEOREM PassedAtStrength == Spec => PassFullStrength
<1>1. ASSUME StrengthInv, [Next]_vars, Passes, ~stale, found > 0
      PROVE  Cardinality(flock) = found
  <2>1. pc = "dwell" /\ Cardinality(flock) = settled.rows
    BY <1>1, PassIsWhole DEF StillWhole, StrengthInv
  <2>2. before.rows = found /\ settled.rows = before.rows
    BY <1>1, <2>1 DEF StrengthInv, Strength
  <2> QED
    BY <2>1, <2>2
<1> QED
  BY <1>1, StrengthAlways, PTL DEF PassFullStrength, Spec

-----------------------------------------------------------------------------
(* No false alarm.                                                         *)

(* Rows that are all up, and none of them in a swap.                       *)
LEMMA AllUp ==
  ASSUME VerdictInv, Tidy, Smooth
  PROVE  /\ \A r \in flock : /\ r \in Row /\ r.slot \in Slot /\ r.pid # NoPid
                             /\ r.status \in {"starting", "stopping", "online"}
                             /\ Draining(r) => r.slot = swap
         /\ swap = NoSlot => \A r \in flock : IsOnline(r)
         /\ (\A r \in flock : ~Draining(r)) =>
              /\ Cardinality(flock) = Cardinality(Occupied)
              /\ OfInfos(flock).rows = Cardinality(flock)
<1>1. /\ flock \in SUBSET Row /\ IsFiniteSet(flock)
      /\ \A r \in flock : r.slot \in Slot /\ r.slot # NoSlot
  BY RowsOfFlock DEF VerdictInv, TypeInv, TypeOK
<1>2. \A r \in flock : r.status \in {"starting", "stopping", "online"}
  BY DEF Tidy, Smooth, IsOnline
<1>3. \A r \in flock : r.pid # NoPid
  BY <1>2 DEF VerdictInv, PidsAreNames
<1>4. ASSUME \A r \in flock : ~Draining(r)
      PROVE  /\ Cardinality(flock) = Cardinality(Occupied)
             /\ OfInfos(flock).rows = Cardinality(flock)
  <2>1. \A r, q \in flock : r.slot = q.slot => r = q
    BY <1>4 DEF Tidy
  <2>2. {r \in flock : r.status # "stopping"} = flock
    BY <1>4 DEF Draining
  <2> QED
    BY <1>1, <2>1, <2>2, OneEach DEF Occupied, OfInfos
<1> QED
  BY <1>1, <1>2, <1>3, <1>4 DEF Tidy, Smooth

LEMMA SmoothShepherd ==
  ASSUME VerdictInv, Tidy, Strength, Smooth, troubles = 0, Reloading \/ Tending,
         troubles' = 0
  PROVE  Smooth'
<1> USE DEF app, verifier, history
<1>1. /\ \A r \in flock : /\ r \in Row /\ r.slot \in Slot /\ r.pid # NoPid
                          /\ r.status \in {"starting", "stopping", "online"}
                          /\ Draining(r) => r.slot = swap
      /\ swap \in Slot \cup {NoSlot} /\ NoSlot \notin Slot /\ queue \in SUBSET Slot
  BY AllUp, RowsOfFlock DEF VerdictInv, TypeInv
<1>2. UNCHANGED <<mode, before, settled, pc, stale, late>>
  BY ShepherdPids
<1>3. nextPid \notin before.pids
  BY DEF Strength, VerdictInv, TypeInv, TypeOK
<1>4. ~Trouble
  BY LooksAssumption DEF Trouble
<1>5. ASSUME NEW s \in Slot, BeginSwap(s)
      PROVE  Smooth'
  <2>1. /\ swap = NoSlot /\ swap' = s /\ queue' = queue \ {s} /\ s \in queue
    BY <1>5 DEF BeginSwap
  <2>2. PICK o \in flock : o.slot = s /\ Running(s) = Of(s)
    BY <1>1, <2>1 DEF Smooth, Of, Running
  <2> DEFINE d == [o EXCEPT !.status = "stopping"]
  <2>3. d \in flock' /\ d.slot = s
    BY <1>1, <1>5, <2>2 DEF BeginSwap, Of, Marked, Row
  <2> HIDE DEF d
  <2>4. \A x \in flock : x.slot # s => x \in flock'
    BY <1>5 DEF BeginSwap, Of
  <2>5. \A x \in flock' : \/ x \in flock /\ x.slot # s
                          \/ x.slot = s /\ Draining(x)
                          \/ x.slot = s /\ x.pid = nextPid
    <3> SUFFICES ASSUME NEW x \in flock', ~(x \in flock /\ x.slot # s),
                        x # Spawned(s, "starting")
                 PROVE  x.slot = s /\ Draining(x)
      BY DEF Spawned
    <3>1. x \in Marked(Of(s), "stopping") /\ Of(s) \in SUBSET Row
      BY <1>1, <1>5, <2>2 DEF BeginSwap, Of
    <3>2. PICK r \in Of(s) : x.slot = r.slot /\ x.status = "stopping"
      BY <3>1, MarkedRow
    <3> QED
      BY <3>2 DEF Of, Draining
  <2>6. Occupied' = Occupied
    BY <2>2, <2>3, <2>4, <2>5 DEF Occupied
  <2>7. flock' # {} /\ swap' \notin queue' /\ Of(swap)' # {}
    BY <2>1, <2>3 DEF Of
  <2>8. \A t \in queue' : Of(t)' # {}
    BY <2>1, <2>4 DEF Smooth, Of
  <2>9. \A x \in flock' : x.slot # swap' => IsOnline(x)
    BY <1>1, <2>1, <2>5 DEF Smooth
  <2>10. ASSUME ~stale, pc \in {"turnover", "dwell"}
         PROVE  Swapped' /\ pc # "dwell"
    <3>1. Swapped /\ pc # "dwell" /\ ~late
      BY <2>1, <2>10 DEF Smooth, Arrived, Swapped, InFlight
    <3>2. \A x \in flock' : x.slot \in queue' => x.pid \in before.pids
      BY <2>1, <2>5, <3>1 DEF Swapped
    <3>3. \A x \in flock' : x.slot \notin queue' /\ ~Draining(x) => x.pid \notin before.pids
      BY <1>3, <2>1, <2>5, <3>1 DEF Swapped
    <3> QED
      BY <1>2, <2>6, <3>1, <3>2, <3>3 DEF Swapped
  <2> QED
    BY <1>2, <2>7, <2>8, <2>9, <2>10 DEF Smooth
<1>6. CASE SpawnNew
  <2> DEFINE n == Spawned(swap, "starting")
  <2>1. /\ swap # NoSlot /\ swap' = swap /\ queue' = queue
        /\ flock' = (flock \ Of(swap)) \cup {n}
    BY <1>4, <1>6 DEF SpawnNew
  <2>2. n.slot = swap /\ n.pid = nextPid
    BY DEF Spawned
  <2> HIDE DEF n
  <2>3. \E r \in flock : Draining(r) /\ r.slot = swap
    BY <1>6 DEF SpawnNew, Drainees, Of, Draining
  <2>4. Occupied' = Occupied
    BY <2>1, <2>2, <2>3 DEF Occupied, Of
  <2>5. ASSUME ~stale, pc \in {"turnover", "dwell"}
        PROVE  Swapped' /\ pc # "dwell"
    <3>1. Swapped /\ pc # "dwell" /\ ~late
      BY <2>1, <2>3, <2>5 DEF Smooth, Arrived, Swapped, InFlight
    <3> QED
      BY <1>2, <1>3, <2>1, <2>2, <2>4, <3>1 DEF Smooth, Swapped, Of
  <2>6. \A t \in queue' : Of(t)' # {}
    BY <2>1 DEF Smooth, Of
  <2>7. flock' # {} /\ Of(swap)' # {} /\ swap' \notin queue'
    BY <2>1, <2>2 DEF Of, Smooth
  <2> QED
    BY <1>2, <2>1, <2>2, <2>5, <2>6, <2>7 DEF Smooth, Of
<1>7. CASE FinishSwap
  <2>1. /\ swap # NoSlot /\ swap' = NoSlot /\ queue' = queue
        /\ flock' = (flock \ Of(swap)) \cup Marked(Replacements, "online")
    BY <1>7 DEF FinishSwap
  <2>2. PICK o \in flock : o.slot = swap /\ o \in Replacements
    BY <1>7 DEF FinishSwap, Replacements, Of
  <2> DEFINE u == [o EXCEPT !.status = "online"]
  <2>3. u \in flock' /\ u.slot = swap
    BY <1>1, <2>1, <2>2 DEF Marked, Row
  <2> HIDE DEF u
  <2>4. \A x \in flock' : \/ x \in flock /\ x.slot # swap
                          \/ \E r \in flock : /\ x.slot = swap /\ IsOnline(x)
                                              /\ r.slot = swap /\ ~Draining(r) /\ r.pid = x.pid
    <3>1. Replacements \in SUBSET Row
      BY <1>1 DEF Replacements, Of
    <3>2. \A x \in Marked(Replacements, "online") :
            \E r \in flock : /\ x.slot = swap /\ IsOnline(x)
                             /\ r.slot = swap /\ ~Draining(r) /\ r.pid = x.pid
      <4> SUFFICES ASSUME NEW x \in Marked(Replacements, "online")
                   PROVE  \E r \in flock : /\ x.slot = swap /\ IsOnline(x)
                                           /\ r.slot = swap /\ ~Draining(r) /\ r.pid = x.pid
        OBVIOUS
      <4>1. PICK r \in Replacements :
              x.slot = r.slot /\ x.pid = r.pid /\ x.status = "online"
        BY <3>1, MarkedRow
      <4> QED
        BY <4>1 DEF Replacements, Of, IsOnline, Draining
    <3> QED
      BY <2>1, <3>2 DEF Of
  <2>5. Occupied' = Occupied
    BY <2>1, <2>2, <2>3, <2>4 DEF Occupied, Of
  <2>6. ASSUME ~stale, pc \in {"turnover", "dwell"}
        PROVE  Swapped'
    <3>1. Swapped /\ ~late
      BY <2>1, <2>6 DEF Smooth, Swapped, InFlight
    <3>2. \A x \in flock' : x.slot \in queue => x.pid \in before.pids
      BY <2>4, <3>1 DEF Swapped, Smooth
    <3>3. \A x \in flock' : x.slot \notin queue /\ ~Draining(x) => x.pid \notin before.pids
      BY <2>4, <3>1 DEF Swapped, Smooth
    <3> QED
      BY <1>2, <2>1, <2>5, <3>1, <3>2, <3>3 DEF Swapped
  <2>7. ASSUME ~stale, pc = "dwell"
        PROVE  Arrived'
    <3>1. Arrived
      BY <2>7 DEF Smooth
    <3>2. \A x \in flock' : ~Draining(x) /\ x.pid \in settled.pids
      BY <2>4, <3>1 DEF Arrived, IsOnline, Draining
    <3> QED
      BY <1>2, <2>1, <2>5, <3>1, <3>2 DEF Arrived
  <2>8. \A x \in flock' : IsOnline(x)
    BY <2>4 DEF Smooth
  <2>9. \A t \in queue' : Of(t)' # {}
    BY <2>1 DEF Smooth, Of
  <2>10. flock' # {} /\ swap' \notin queue'
    BY <1>1, <2>1, <2>3
  <2> QED
    BY <1>2, <2>1, <2>6, <2>7, <2>8, <2>9, <2>10 DEF Smooth
<1>8. ~AbortSwap /\ ~Tending
  <2>1. \A r \in flock : r.slot # swap => r.status = "online"
    BY DEF Smooth, IsOnline
  <2> QED
    BY <1>4, <2>1 DEF AbortSwap, Tending, Die, Respawn, ComeUp, Demote, StockUp, StockDown
<1> QED
  BY <1>5, <1>6, <1>7, <1>8 DEF Reloading

LEMMA SmoothVerifier ==
  ASSUME VerdictInv, Tidy, Smooth, troubles = 0, Verifying \/ DescribeFails \/ TimeUp,
         troubles' = 0
  PROVE  Smooth'
<1> USE DEF app, shepherd, history, verifier, Goto
<1>1. /\ \A r \in flock : /\ r \in Row /\ r.slot \in Slot /\ r.pid # NoPid
                          /\ r.status \in {"starting", "stopping", "online"}
                          /\ Draining(r) => r.slot = swap
      /\ swap \in Slot \cup {NoSlot} /\ NoSlot \notin Slot /\ queue \in SUBSET Slot
      /\ swap = NoSlot => \A r \in flock : IsOnline(r) /\ ~Draining(r)
  BY AllUp, RowsOfFlock DEF VerdictInv, TypeInv, IsOnline, Draining
<1>2. ~Trouble
  BY LooksAssumption DEF Trouble
<1>3. CASE PointAt \/ Capture
  <2>1. /\ UNCHANGED <<flock, queue, swap, late, stale>>
        /\ pc \in {"swap", "capture"} /\ pc' \in {"capture", "request"}
    BY <1>3 DEF PointAt, Capture
  <2> QED
    BY <2>1 DEF Smooth, Of
<1>4. CASE Request
  <2>1. UNCHANGED <<flock, swap, before, late>> /\ pc = "request" /\ ~late
    BY <1>4 DEF Request, Smooth
  <2>2. CASE Accepted /\ pc' = "turnover"
    <3>1. queue' = Occupied /\ swap = NoSlot
      BY <2>2 DEF Accepted, InFlight
    <3>2. \A t \in queue' : Of(t) # {}
      BY <3>1 DEF Occupied, Of
    <3>3. swap' \notin queue'
      BY <1>1, <2>1, <3>1 DEF Occupied
    <3>4. ASSUME ~stale' PROVE Swapped'
      <4>1. OfInfos(flock) = before
        BY <2>2, <3>4 DEF Accepted
      <4>2. before.rows = Cardinality(Occupied)
        BY <1>1, <3>1, <4>1, AllUp
      <4>3. \A r \in flock : r.pid \in before.pids
        BY <1>1, <4>1 DEF OfInfos
      <4>4. Occupied' = Occupied /\ \A r \in flock : r.slot \in Occupied
        BY <2>1 DEF Occupied
      <4> QED
        BY <2>1, <3>1, <4>2, <4>3, <4>4 DEF Swapped
    <3> QED
      BY <2>1, <2>2, <3>1, <3>2, <3>3, <3>4 DEF Smooth, Of
  <2>3. CASE pc' \in {"capture", "refused"} /\ UNCHANGED <<queue, stale>>
    BY <2>1, <2>3 DEF Smooth, Of
  <2> QED
    BY <1>2, <1>4, <2>2, <2>3 DEF Request
<1>5. CASE Turnover
  <2>1. UNCHANGED <<flock, queue, swap, mode, before, stale>> /\ pc = "turnover"
    BY <1>5 DEF Turnover
  <2>2. CASE HasTurnedOver(before, flock) /\ settled' = OfInfos(flock) /\ late' = FALSE
             /\ pc' = "dwell"
    <3>1. \A r \in flock : r.pid \notin before.pids /\ Accept(r) /\ ~Draining(r)
      BY <2>2 DEF HasTurnedOver, IsNew, Accept, IsOnline, IsAlive, Draining
    <3>2. ASSUME ~stale
          PROVE  Swapped' /\ Arrived'
      <4>1. Swapped
        BY <2>1, <3>2 DEF Smooth
      <4>2. queue = {}
        BY <3>1, <4>1 DEF Smooth, Swapped, Of
      <4>3. settled'.rows = Cardinality(Occupied)
        BY <2>2, <3>1, AllUp
      <4>4. \A r \in flock : r.pid \in settled'.pids
        BY <1>1, <2>2 DEF OfInfos
      <4>5. mode = "probed" => swap = NoSlot
        BY <3>1 DEF Smooth, Accept, IsOnline, Tidy, Of
      <4>6. Occupied' = Occupied
        BY <2>1 DEF Occupied
      <4> QED
        BY <2>1, <2>2, <3>1, <4>1, <4>2, <4>3, <4>4, <4>5, <4>6 DEF Swapped, Arrived
    <3> QED
      BY <2>1, <2>2, <3>2 DEF Smooth, Of
  <2>3. CASE ~HasTurnedOver(before, flock) /\ late /\ pc' = "failed" /\ UNCHANGED late
    <3>1. ASSUME ~stale PROVE FALSE
      <4>1. Swapped /\ queue = {} /\ swap = NoSlot
        BY <2>1, <2>3, <3>1 DEF Smooth, Swapped, InFlight
      <4>2. Cardinality(flock) = before.rows
        BY <1>1, <4>1, AllUp DEF Swapped
      <4>3. \A r \in flock : IsNew(before, r) /\ Accept(r)
        BY <1>1, <4>1 DEF Swapped, IsNew, Accept, IsOnline, IsAlive
      <4> QED
        BY <2>3, <4>2, <4>3 DEF Smooth, HasTurnedOver, CountHolds
    <3> QED
      BY <2>1, <2>3, <3>1 DEF Smooth, Of
  <2> QED
    BY <1>5, <2>2, <2>3 DEF Turnover
<1>6. CASE Probed \/ Alive
  <2>1. /\ UNCHANGED <<flock, queue, swap, mode, before, settled, stale, late>>
        /\ pc = "dwell" /\ pc' \in {"dwell", "passed", "failed"}
    BY <1>6 DEF Probed, Alive
  <2>2. ASSUME ~stale, pc' = "failed"
        PROVE  FALSE
    <3>1. Arrived /\ Swapped
      BY <2>1, <2>2 DEF Smooth
    <3>2. Cardinality(flock) = settled.rows
      BY <3>1, AllUp DEF Arrived
    <3>3. swap = NoSlot => StillWhole(settled, flock)
      BY <1>1, <3>1, <3>2 DEF StillWhole, Arrived, Held
    <3>4. ~Lost(settled, flock)
      BY <1>1, <3>1 DEF Lost, Smooth, Arrived, Held, IsAlive, Draining
    <3>5. ~late \/ swap = NoSlot
      BY <3>1 DEF Swapped, InFlight
    <3> QED
      BY <1>6, <2>2, <3>1, <3>3, <3>4, <3>5 DEF Probed, Alive, Arrived
  <2> QED
    BY <2>1, <2>2 DEF Smooth, Of, Swapped, Arrived, Occupied, InFlight
<1>7. CASE TimeUp
  <2>1. /\ UNCHANGED <<flock, queue, swap, mode, before, settled, pc, stale>>
        /\ pc \in {"turnover", "dwell"} /\ ~InFlight
    BY <1>7 DEF TimeUp
  <2> QED
    BY <2>1 DEF Smooth, Of, Swapped, Arrived, Occupied, InFlight
<1>8. ~DescribeFails
  BY <1>2 DEF DescribeFails
<1> QED
  BY <1>3, <1>4, <1>5, <1>6, <1>7, <1>8 DEF Verifying

LEMMA TroublesGrow ==
  ASSUME TypeOK, [Next]_vars, troubles' = 0
  PROVE  troubles = 0
<1>1. troubles' \in {troubles, troubles + 1}
  BY DEF Next, Verifying, Reloading, Tending, PointAt, Capture, Request, Turnover, Probed,
         Alive, BeginSwap, SpawnNew, FinishSwap, AbortSwap, Die, Respawn, ComeUp, Demote,
         StockUp, StockDown, DescribeFails, TimeUp, Trouble, vars
<1> QED
  BY <1>1, LooksAssumption DEF TypeOK

AlarmInv == StrengthInv /\ Untroubled

LEMMA AlarmInit == Init => Untroubled
<1> SUFFICES ASSUME Init PROVE Smooth
  BY DEF Untroubled
<1>1. PICK live \in (SUBSET Slot) \ {{}} :
        /\ flock = {[slot |-> s, pid |-> s, status |-> "online", release |-> "old"] :
                      s \in live}
        /\ queue \in IF Earlier THEN {{}, live} ELSE {{}}
  BY DEF Init
<1>2. /\ flock # {} /\ \A s \in live : Of(s) # {}
      /\ \A r \in flock : IsOnline(r)
  <2> DEFINE Row1(s) == [slot |-> s, pid |-> s, status |-> "online", release |-> "old"]
  <2>1. \A s \in live : Row1(s) \in flock /\ Row1(s).slot = s
    BY <1>1
  <2>2. \A r \in flock : IsOnline(r)
    BY <1>1 DEF IsOnline
  <2> HIDE DEF Row1
  <2>3. \A s \in live : Row1(s) \in Of(s)
    BY <2>1 DEF Of
  <2> QED
    BY <1>1, <2>1, <2>2, <2>3
<1>3. queue \subseteq live /\ NoSlot \notin queue
  BY <1>1 DEF Slot, NoSlot
<1> QED
  BY <1>2, <1>3 DEF Init, Smooth

LEMMA AlarmStep == AlarmInv /\ [Next]_vars => AlarmInv'
<1> SUFFICES ASSUME AlarmInv, [Next]_vars, troubles' = 0
             PROVE  Smooth'
  BY StrengthStep DEF AlarmInv, Untroubled
<1>1. StrengthInv /\ troubles = 0 /\ Smooth
  BY TroublesGrow DEF AlarmInv, Untroubled, StrengthInv, VerdictInv, TypeInv
<1>2. CASE UNCHANGED vars
  BY <1>1, <1>2 DEF vars, app, shepherd, history, verifier, Smooth, Of, Swapped, Arrived,
                    Occupied, InFlight
<1> QED
  BY <1>1, <1>2, SmoothShepherd, SmoothVerifier DEF StrengthInv, Next

(* A reload in which nothing goes wrong, and that was asked of the very     *)
(* flock that was captured, is never failed and so never rolled back: it   *)
(* is waited for until it has turned over, and its instances are the ones  *)
(* the dwell looks for (turnover, dwell).                                  *)
THEOREM NeverAlarmedFalsely == Spec => []NoFalseAlarm
<1>1. AlarmInv => NoFalseAlarm
  BY LooksAssumption DEF AlarmInv, Untroubled, Smooth, NoFalseAlarm, StrengthInv, VerdictInv,
                         TypeInv, TypeOK
<1>2. Spec => []AlarmInv
  BY VerdictInit, StrengthInit, AlarmInit, AlarmStep, PTL DEF Spec, AlarmInv, StrengthInv
<1> QED
  BY <1>1, <1>2, PTL
=============================================================================
