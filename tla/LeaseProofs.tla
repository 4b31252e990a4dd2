---------------------------- MODULE LeaseProofs ----------------------------
(***************************************************************************)
(* What is on a clock: the lease of the daemon, and a wait with its        *)
(* deadline.                                                               *)
(*                                                                         *)
(* For any number of processes, any TTL and any lateness of the timers:    *)
(* a process whose heartbeats, refused MaxSkips times in a row, still      *)
(* arrive within the TTL keeps the lease to itself, however late the       *)
(* timers of the others are.  The invariant bounds how far the heartbeat   *)
(* in the row lags behind such a holder's next timer.                      *)
(*                                                                         *)
(* For any number of dependencies: a wait resolves as its mode, its policy *)
(* and its deadline promise.  Most of it is about the two sequences a      *)
(* decision is read from, the settled and the successful dependencies in   *)
(* the order they settled; a step then either leaves a decision alone or   *)
(* is one of the two ways to take it.                                      *)
(***************************************************************************)
EXTENDS Lease, WaitRegime, FiniteSetTheorems, TLAPS

(* The age a heartbeat of i can reach when the next m are refused.         *)
Reach(i, m) == (m + 1) * (beatMs + Late[i])

InTime(i) ==
    /\ row.id = i
    /\ row.beat <= now
    /\ now <= next[i] + Late[i]
    /\ next[i] + Late[i] <= row.beat + Reach(i, skipped[i])

IInv == TypeOK /\ \A i \in Drivers : Timely(i) => InTime(i)

(* A beat is a positive number of milliseconds.                            *)
LEMMA BeatType == beatMs \in Nat \ {0}
  BY LeaseAssumption, SMT DEF LeaseAssumption, beatMs

(* Reach is a natural number, grows by a beat and its lateness with every  *)
(* refused heartbeat, and is monotone.                                     *)
LEMMA ReachGrows ==
  ASSUME NEW i \in Instances, NEW m \in Nat
  PROVE  /\ Reach(i, m) \in Nat
         /\ Reach(i, 0) = beatMs + Late[i]
         /\ Reach(i, m + 1) = Reach(i, m) + beatMs + Late[i]
<1> DEFINE b == beatMs + Late[i]
<1>1. beatMs \in Nat /\ Late[i] \in Nat /\ b \in Nat
  BY BeatType, LeaseAssumption DEF LeaseAssumption
<1>2. (m + 1) * b \in Nat /\ (m + 2) * b = (m + 1) * b + b /\ 1 * b = b
  <2> HIDE DEF b
  <2> QED BY <1>1, SMT
<1>3. Reach(i, m) = (m + 1) * b /\ Reach(i, 0) = (0 + 1) * b /\ Reach(i, m + 1) = (m + 1 + 1) * b
  BY DEF Reach
<1>4. m + 1 + 1 = m + 2 /\ 0 + 1 = 1
  OBVIOUS
<1>5. Reach(i, m) \in Nat /\ Reach(i, 0) = b /\ Reach(i, m + 1) = Reach(i, m) + b
  <2> HIDE DEF b
  <2> QED BY <1>1, <1>2, <1>3, <1>4
<1> QED BY <1>1, <1>5

LEMMA ReachMonotone ==
  ASSUME NEW i \in Instances, NEW m \in Nat, NEW k \in Nat, m <= k
  PROVE  Reach(i, m) <= Reach(i, k)
<1> DEFINE b == beatMs + Late[i]
<1>1. b \in Nat
  BY BeatType, LeaseAssumption DEF LeaseAssumption
<1>2. (m + 1) * b <= (k + 1) * b
  <2> HIDE DEF b
  <2> QED BY <1>1, SMT
<1> QED BY <1>2 DEF Reach

(* A driver whose lease is in time keeps everyone else out.                *)
LEMMA InTimeIsHeld ==
  ASSUME TypeOK, NEW i \in Instances, NEW j \in Drivers, Timely(j), InTime(j), i # j
  PROVE  Held(i)
<1>1. j \in Instances /\ skipped[j] \in 0 .. MaxSkips /\ MaxSkips \in Nat
      /\ now \in Nat /\ row.beat \in Nat /\ next[j] \in Nat /\ Late[j] \in Nat /\ TtlMs \in Nat
  BY LeaseAssumption DEF TypeOK, Drivers, LeaseAssumption
<1>2. Reach(j, skipped[j]) <= Reach(j, MaxSkips)
  BY <1>1, ReachMonotone
<1>3. Reach(j, skipped[j]) \in Nat /\ Reach(j, MaxSkips) \in Nat
  BY <1>1, ReachGrows
<1>4. Reach(j, MaxSkips) < TtlMs
  BY DEF Reach, Timely
<1>5. now - row.beat < TtlMs
  BY <1>1, <1>2, <1>3, <1>4 DEF InTime
<1>6. row.id \notin {None, i}
  BY <1>1, LeaseAssumption DEF InTime, LeaseAssumption
<1> QED BY <1>5, <1>6 DEF Held

-----------------------------------------------------------------------------
LEMMA InitInv == Init => IInv
<1> SUFFICES ASSUME Init PROVE IInv
  OBVIOUS
<1>1. TypeOK
  BY LeaseAssumption DEF Init, TypeOK, LeaseAssumption
<1>2. Drivers = {}
  BY DEF Init, Drivers
<1> QED BY <1>1, <1>2 DEF IInv

(* A claim makes its process the only driver.                              *)
LEMMA ClaimInv ==
  ASSUME IInv, NEW i \in Instances, pc[i] # "holding", Claim(i)
  PROVE  IInv'
<1> USE DEF IInv
<1>1. /\ now \in 0 .. MaxTime /\ MaxTime \in Nat /\ beatMs \in Nat /\ Late \in [Instances -> Nat]
      /\ MaxSkips \in Nat
  BY BeatType, LeaseAssumption DEF TypeOK, LeaseAssumption
<1>2. TypeOK'
  BY <1>1 DEF TypeOK, Claim
<1>3. ASSUME NEW j \in Drivers', Timely(j)'
      PROVE  InTime(j)'
  <2>1. Timely(j)
    BY <1>3 DEF Timely
  <2>2. CASE j = i
    <3>1. row'.id = i /\ row'.beat = now /\ now' = now
      BY DEF Claim
    <3>2. next'[i] = now + beatMs /\ skipped'[i] = 0
      BY DEF Claim, TypeOK
    <3>3. Reach(i, 0) = beatMs + Late[i]
      BY ReachGrows
    <3>4. Reach(i, skipped[i])' = Reach(i, 0)
      BY <3>2 DEF Reach, beatMs
    <3> QED BY <2>2, <3>1, <3>2, <3>3, <3>4, <1>1 DEF InTime
  <2>3. CASE j # i
    <3>1. j \in Drivers
      BY <2>3 DEF Drivers, Claim, TypeOK
    <3>2. InTime(j)
      BY <2>1, <3>1
    <3>3. Held(i)
      BY <2>1, <2>3, <3>1, <3>2, InTimeIsHeld
    <3> QED BY <3>3 DEF Claim
  <2> QED BY <2>2, <2>3
<1> QED BY <1>2, <1>3

(* A step that leaves the clock and the row alone, adds no driver, and     *)
(* leaves the timers of the drivers that stay alone keeps them in time.    *)
LEMMA QuietInv ==
  ASSUME IInv, TypeOK', now' = now, row' = row, Drivers' \subseteq Drivers,
         \A j \in Drivers' : next'[j] = next[j] /\ skipped'[j] = skipped[j]
  PROVE  IInv'
<1>1. ASSUME NEW j \in Drivers', Timely(j)'
      PROVE  InTime(j)'
  <2>1. Timely(j) /\ j \in Drivers
    BY <1>1 DEF Timely
  <2>2. InTime(j)
    BY <2>1 DEF IInv
  <2> QED BY <2>2, <1>1 DEF InTime, Reach, beatMs
<1> QED BY <1>1 DEF IInv

LEMMA SleepInv ==
  ASSUME IInv, NEW i \in Instances, Sleep(i), waitUntil' \in [Instances -> Nat]
  PROVE  IInv'
<1>0. TypeOK
  BY DEF IInv
<1>1. now + beatMs \in Nat
  BY <1>0, BeatType DEF TypeOK
<1>2. TypeOK'
  <2>1. next' \in [Instances -> Nat]
    BY <1>0, <1>1 DEF TypeOK, Sleep
  <2>2. pc' \in [Instances -> {"off", "waiting", "holding", "refused", "gone"}]
    BY <1>0 DEF TypeOK, Sleep
  <2>3. UNCHANGED <<now, row, skipped>>
    BY DEF Sleep
  <2> QED BY <1>0, <2>1, <2>2, <2>3 DEF TypeOK
<1>3. /\ Drivers' \subseteq Drivers
      /\ \A j \in Drivers' : next'[j] = next[j] /\ skipped'[j] = skipped[j]
  BY <1>0 DEF TypeOK, Drivers, Sleep
<1> QED BY <1>2, <1>3, QuietInv DEF Sleep

-----------------------------------------------------------------------------
LEMMA StepInv == IInv /\ [Next]_vars => IInv'
<1> SUFFICES ASSUME IInv, [Next]_vars PROVE IInv'
  OBVIOUS
<1>0. TypeOK
  BY DEF IInv
<1>a. /\ now \in 0 .. MaxTime /\ MaxTime \in Nat /\ beatMs \in Nat /\ Late \in [Instances -> Nat]
      /\ TtlMs \in Nat /\ MaxSkips \in Nat /\ row.beat \in Nat
  BY <1>0, BeatType, LeaseAssumption DEF TypeOK, LeaseAssumption
<1>1. ASSUME NEW i \in Instances, Boot(i) PROVE IInv'
  <2>1. CASE Claim(i)
    BY <1>1, <2>1, ClaimInv DEF Boot
  <2>2. CASE Sleep(i) /\ waitUntil' = [waitUntil EXCEPT ![i] = now + TtlMs + beatMs]
    <3>1. waitUntil' \in [Instances -> Nat]
      BY <1>0, <1>a, <2>2 DEF TypeOK
    <3> QED BY <2>2, <3>1, SleepInv
  <2> QED BY <1>1, <2>1, <2>2 DEF Boot
<1>2. ASSUME NEW i \in Instances, Retry(i) PROVE IInv'
  <2>1. CASE Claim(i)
    BY <1>2, <2>1, ClaimInv DEF Retry
  <2>2. CASE Sleep(i) /\ now < waitUntil[i] /\ UNCHANGED waitUntil
    BY <1>0, <2>2, SleepInv DEF TypeOK
  <2>3. CASE /\ Held(i) /\ now >= waitUntil[i]
             /\ pc' = [pc EXCEPT ![i] = "refused"]
             /\ UNCHANGED <<now, row, next, waitUntil, skipped>>
    <3>1. TypeOK'
      BY <1>0, <2>3 DEF TypeOK
    <3>2. Drivers' \subseteq Drivers
      BY <1>0, <2>3 DEF TypeOK, Drivers
    <3> QED BY <2>3, <3>1, <3>2, QuietInv
  <2> QED BY <1>2, <2>1, <2>2, <2>3 DEF Retry
<1>3. ASSUME NEW i \in Instances, Beat(i) PROVE IInv'
  <2>1. CASE row.id = i
    <3>1. /\ row' = [row EXCEPT !.beat = now] /\ skipped' = [skipped EXCEPT ![i] = 0]
          /\ next' = [next EXCEPT ![i] = now + beatMs] /\ pc' = pc
          /\ UNCHANGED <<now, waitUntil>>
      BY <1>3, <2>1 DEF Beat
    <3>2. TypeOK'
      BY <1>0, <1>a, <3>1 DEF TypeOK
    <3>3. ASSUME NEW j \in Drivers', Timely(j)' PROVE InTime(j)'
      <4>1. Timely(j) /\ j \in Drivers
        BY <3>1, <3>3 DEF Timely, Drivers
      <4>2. j = i
        BY <4>1, <2>1 DEF IInv, InTime
      <4>3. row'.id = i /\ row'.beat = now /\ now' = now
        BY <3>1, <2>1, <1>0 DEF TypeOK
      <4>4. next'[i] = now + beatMs /\ skipped'[i] = 0
        BY <3>1, <1>0 DEF TypeOK
      <4>5. Reach(i, skipped[i])' = beatMs + Late[i]
        BY <4>4, ReachGrows DEF Reach, beatMs
      <4> QED BY <4>2, <4>3, <4>4, <4>5, <1>a DEF InTime
    <3> QED BY <3>2, <3>3 DEF IInv
  <2>2. CASE row.id # i
    <3>1. pc' = [pc EXCEPT ![i] = "gone"] /\ UNCHANGED <<now, row, next, waitUntil, skipped>>
      BY <1>3, <2>2 DEF Beat
    <3>2. TypeOK' /\ Drivers' \subseteq Drivers
      BY <1>0, <3>1 DEF TypeOK, Drivers
    <3> QED BY <3>1, <3>2, QuietInv
  <2> QED BY <2>1, <2>2
<1>4. ASSUME NEW i \in Instances, SkipBeat(i) PROVE IInv'
  <2>1. TypeOK'
    BY <1>0, <1>a, <1>4 DEF TypeOK, SkipBeat
  <2>2. ASSUME NEW j \in Drivers', Timely(j)' PROVE InTime(j)'
    <3>1. Timely(j) /\ j \in Drivers
      BY <1>4, <2>2 DEF Timely, Drivers, SkipBeat
    <3>2. InTime(j)
      BY <3>1 DEF IInv
    <3>3. CASE j = i
      <4>1. next'[i] = now + beatMs /\ skipped'[i] = skipped[i] + 1 /\ UNCHANGED <<now, row>>
        BY <1>0, <1>4 DEF TypeOK, SkipBeat
      <4>2. skipped[i] \in Nat /\ next[i] \in Nat
        BY <1>0 DEF TypeOK
      <4>3. Reach(i, skipped[i]) \in Nat
            /\ Reach(i, skipped[i] + 1) = Reach(i, skipped[i]) + beatMs + Late[i]
        BY <4>2, ReachGrows
      <4>4. Reach(i, skipped[i])' = Reach(i, skipped[i] + 1)
        BY <4>1 DEF Reach, beatMs
      <4> QED BY <3>2, <3>3, <4>1, <4>2, <4>3, <4>4, <1>a DEF InTime
    <3>4. CASE j # i
      <4>1. next'[j] = next[j] /\ skipped'[j] = skipped[j] /\ UNCHANGED <<now, row>>
        BY <1>0, <1>4, <3>1, <3>4 DEF TypeOK, SkipBeat, Drivers
      <4> QED BY <3>2, <4>1 DEF InTime, Reach, beatMs
    <3> QED BY <3>3, <3>4
  <2> QED BY <2>1, <2>2 DEF IInv
<1>5. ASSUME NEW i \in Instances, Release(i) PROVE IInv'
  <2>1. TypeOK'
    BY <1>0, <1>5 DEF TypeOK, Release
  <2>2. ASSUME NEW j \in Drivers', Timely(j)' PROVE InTime(j)'
    <3>1. Timely(j) /\ j \in Drivers /\ j # i
      BY <1>0, <1>5, <2>2 DEF Timely, Drivers, Release, TypeOK
    <3>2. InTime(j)
      BY <3>1 DEF IInv
    <3>3. UNCHANGED <<now, row, next, skipped>>
      BY <1>5, <3>1, <3>2 DEF Release, InTime
    <3> QED BY <3>2, <3>3 DEF InTime, Reach, beatMs
  <2> QED BY <2>1, <2>2 DEF IInv
<1>6. ASSUME NEW i \in Instances, Die(i) PROVE IInv'
  <2>1. TypeOK' /\ Drivers' \subseteq Drivers
    BY <1>0, <1>6 DEF TypeOK, Drivers, Die
  <2> QED BY <1>6, <2>1, QuietInv DEF Die
<1>7. CASE Tick
  <2>1. TypeOK'
    BY <1>0, <1>a, <1>7 DEF TypeOK, Tick
  <2>2. ASSUME NEW j \in Drivers', Timely(j)' PROVE InTime(j)'
    <3>1. Timely(j) /\ j \in Drivers /\ j \in Instances
      BY <1>7, <2>2 DEF Timely, Drivers, Tick
    <3>2. InTime(j) /\ now < next[j] + Late[j]
      BY <1>7, <3>1 DEF IInv, Tick, Drivers
    <3>3. now' = now + 1 /\ UNCHANGED <<row, next, skipped>>
      BY <1>7 DEF Tick
    <3>4. next[j] \in Nat /\ Late[j] \in Nat
      BY <1>0, <1>a, <3>1 DEF TypeOK
    <3>5. Reach(j, skipped[j])' = Reach(j, skipped[j])
      BY <3>3 DEF Reach, beatMs
    <3> QED BY <3>2, <3>3, <3>4, <3>5, <1>a DEF InTime
  <2> QED BY <2>1, <2>2 DEF IInv
<1>8. CASE UNCHANGED vars
  <2>1. TypeOK' /\ Drivers' \subseteq Drivers
    BY <1>0, <1>8 DEF TypeOK, Drivers, vars
  <2> QED BY <1>8, <2>1, QuietInv DEF vars
<1> QED BY <1>1, <1>2, <1>3, <1>4, <1>5, <1>6, <1>7, <1>8 DEF Next

(* Whatever the number of processes, the TTL, the lateness of each one's   *)
(* timers and the number of heartbeats SQLite refuses in a row: a driving  *)
(* process whose heartbeats are Timely owns the row, so that of two such   *)
(* processes one at most drives.                                           *)
THEOREM LeaseIsExclusive == Spec => [](OneDriver /\ DriverOwnsRow)
<1>1. IInv => OneDriver /\ DriverOwnsRow
  BY DEF IInv, InTime, OneDriver, DriverOwnsRow
<1> QED BY <1>1, InitInv, StepInv, PTL DEF Spec

(* Every variable keeps its type.                                          *)
THEOREM LeaseTyped == Spec => []TypeOK
<1>1. IInv => TypeOK
  BY DEF IInv
<1> QED BY <1>1, InitInv, StepInv, PTL DEF Spec

(* A claim writes its own id, so it never hands the row to another.        *)
LEMMA ClaimIsOnesOwn ==
  ASSUME NEW k \in Instances, Claim(k)
  PROVE  row'.id = k /\ pc'= [pc EXCEPT ![k] = "holding"]
BY DEF Claim

(* However late its timers are, a driver that lost the row to another      *)
(* process neither takes it back nor touches it when it stops.             *)
THEOREM DisplacedStaysOff == Spec => DisplacedKeepsOff
<1>1. ASSUME TypeOK, [Next]_vars, NEW i \in Drivers, row.id \notin {i, None}
      PROVE  row' = row \/ (pc'[i] = pc[i] /\ row'.id # i)
  <2>0. i \in Instances /\ pc[i] = "holding" /\ None # i
    BY LeaseAssumption DEF Drivers, LeaseAssumption
  <2>1. ASSUME NEW k \in Instances, k # i, Claim(k)
        PROVE  pc'[i] = pc[i] /\ row'.id # i
    BY <1>1, <2>0, <2>1, ClaimIsOnesOwn DEF TypeOK
  <2>2. ASSUME NEW k \in Instances, Boot(k) PROVE row' = row \/ (pc'[i] = pc[i] /\ row'.id # i)
    <3>1. k # i
      BY <2>0, <2>2 DEF Boot
    <3> QED BY <2>1, <2>2, <3>1 DEF Boot, Sleep
  <2>3. ASSUME NEW k \in Instances, Retry(k) PROVE row' = row \/ (pc'[i] = pc[i] /\ row'.id # i)
    <3>1. k # i
      BY <2>0, <2>3 DEF Retry
    <3> QED BY <2>1, <2>3, <3>1 DEF Retry, Sleep
  <2>4. ASSUME NEW k \in Instances, Beat(k) PROVE row' = row \/ (pc'[i] = pc[i] /\ row'.id # i)
    <3>1. CASE row.id = k
      BY <1>1, <2>0, <2>4, <3>1 DEF Beat, TypeOK
    <3>2. CASE row.id # k
      BY <2>4, <3>2 DEF Beat
    <3> QED BY <3>1, <3>2
  <2>5. ASSUME NEW k \in Instances, SkipBeat(k) \/ Die(k) PROVE row' = row
    BY <2>5 DEF SkipBeat, Die
  <2>6. ASSUME NEW k \in Instances, Release(k) PROVE row' = row \/ (pc'[i] = pc[i] /\ row'.id # i)
    <3>1. CASE k = i
      BY <1>1, <2>6, <3>1 DEF Release
    <3>2. CASE k # i
      <4>1. pc'[i] = pc[i]
        BY <1>1, <2>0, <2>6, <3>2 DEF Release, TypeOK
      <4>2. row'.id # i
        BY <1>1, <2>0, <2>6 DEF Release, TypeOK
      <4> QED BY <4>1, <4>2
    <3> QED BY <3>1, <3>2
  <2>7. CASE Tick \/ UNCHANGED vars
    BY <2>7 DEF Tick, vars
  <2> QED BY <1>1, <2>2, <2>3, <2>4, <2>5, <2>6, <2>7 DEF Next
<1>2. TypeOK /\ [Next]_vars => [KeepsOff]_vars
  BY <1>1 DEF KeepsOff
<1> QED BY <1>2, LeaseTyped, PTL DEF Spec, DisplacedKeepsOff

---------------------------------------------------------------------------
(* The wait of a spawn.                                                    *)

(* What the handles of the dependencies can say.                             *)
Handles == [Deps -> [outcome : {"pending", "success", "failed"}, at : 0 .. MaxTurns]]

(* What goes on to the fork was decided, and only a deadline that was asked  *)
(* for passes.                                                               *)
DecidedFirst == (waitPc \in {"resolved", "forked"} => result # Undecided) /\ (due => wait.deadline)

WaitInv == WaitKeepsItsWord /\ DecidedFirst

(* The dependencies are totally ordered by when they settled.                *)
LEMMA OrderIsTotal ==
    ASSUME NEW h \in Handles, NEW a \in Deps, NEW b \in Deps, NEW c \in Deps
    PROVE  /\ ~Before(h, a, a)
           /\ a # b => Before(h, a, b) \/ Before(h, b, a)
           /\ Before(h, a, b) => ~Before(h, b, a)
           /\ Before(h, a, b) /\ Before(h, b, c) => Before(h, a, c)
<1>1. \A d \in Deps : d \in Nat /\ h[d].at \in Nat
  BY WaitAssumption DEF Handles, Deps
<1> QED
  BY <1>1 DEF Before

(* The dependencies are N, and any of them can be counted.                   *)
LEMMA DepsFinite ==
    ASSUME NEW S, S \subseteq Deps
    PROVE  IsFiniteSet(S) /\ Cardinality(S) \in Nat /\ Cardinality(S) <= N /\ Cardinality(Deps) = N
<1>1. IsFiniteSet(Deps) /\ Cardinality(Deps) = N
  BY WaitAssumption, FS_Interval DEF Deps
<1> QED
  BY <1>1, FS_Subset, FS_CardinalityType

(* Whoever settled later has a higher rank, and all ranks are below the      *)
(* number of those that are ranked.                                          *)
LEMMA RankGrows ==
    ASSUME NEW h \in Handles, NEW S, S \subseteq Deps, NEW a \in S
    PROVE  /\ Rank(S, h, a) \in 0 .. (Cardinality(S) - 1)
           /\ \A b \in S : Before(h, a, b) => Rank(S, h, a) < Rank(S, h, b)
<1> DEFINE below(d) == {e \in S : Before(h, e, d)}
<1>1. \A d : below(d) \subseteq S /\ IsFiniteSet(below(d)) /\ Cardinality(below(d)) \in Nat
  BY DepsFinite
<1>2. a \notin below(a) /\ Cardinality(below(a) \cup {a}) = Cardinality(below(a)) + 1
  <2>1. a \notin below(a)
    BY OrderIsTotal
  <2> QED
    BY <1>1, <2>1, FS_AddElement
<1>3. Cardinality(below(a)) + 1 <= Cardinality(S)
  BY <1>2, DepsFinite, FS_Subset
<1>4. ASSUME NEW b \in S, Before(h, a, b) PROVE Cardinality(below(a)) < Cardinality(below(b))
  <2>1. below(a) \cup {a} \subseteq below(b)
    BY <1>4, OrderIsTotal
  <2>2. Cardinality(below(a) \cup {a}) <= Cardinality(below(b))
    BY <1>1, <2>1, FS_Subset
  <2> QED
    BY <1>1, <1>2, <2>2
<1>5. Cardinality(S) \in Nat
  BY DepsFinite
<1> QED
  BY <1>1, <1>3, <1>4, <1>5 DEF Rank

(* So that the sequence holds each of them, in their order.                  *)
LEMMA InOrderSorts ==
    ASSUME NEW h \in Handles, NEW S, S \subseteq Deps
    PROVE  /\ InOrder(S, h) \in Seq(S) /\ Len(InOrder(S, h)) = Cardinality(S)
           /\ DOMAIN InOrder(S, h) = 1 .. Cardinality(S) /\ Cardinality(S) \in Nat
           /\ Members(InOrder(S, h)) = S
           /\ \A m, n \in 1 .. Cardinality(S) :
                 m < n <=> Before(h, InOrder(S, h)[m], InOrder(S, h)[n])
<1> DEFINE c == Cardinality(S)
           f == [d \in S |-> Rank(S, h, d)]
           T == 0 .. (c - 1)
<1>1. IsFiniteSet(S) /\ c \in Nat
  BY DepsFinite
<1>2. f \in Injection(S, T)
  <2>1. f \in [S -> T]
    BY RankGrows
  <2>2. ASSUME NEW a \in S, NEW b \in S, f[a] = f[b] PROVE a = b
    <3>1. Rank(S, h, a) \in Int /\ Rank(S, h, b) \in Int
      BY <1>1, RankGrows
    <3>2. ~Before(h, a, b) /\ ~Before(h, b, a)
      BY <2>2, <3>1, RankGrows
    <3> QED
      BY <3>2, OrderIsTotal
  <2> QED
    BY <2>1, <2>2 DEF Injection, IsInjective
<1>3. IsFiniteSet(T) /\ Cardinality(T) = c
  BY <1>1, FS_Interval
<1>4. f \in Surjection(S, T)
  BY <1>1, <1>2, <1>3, FS_Injection
<1>5. \A n \in 1 .. c : \E d \in S : Rank(S, h, d) = n - 1
  <2> SUFFICES ASSUME NEW n \in 1 .. c PROVE \E d \in S : Rank(S, h, d) = n - 1
    OBVIOUS
  <2>1. n - 1 \in T
    BY <1>1
  <2>2. \E d \in S : f[d] = n - 1
    BY <1>4, <2>1 DEF Surjection
  <2> QED
    BY <2>2
<1> DEFINE s == InOrder(S, h)
<1>6. \A n \in 1 .. c : s[n] \in S /\ Rank(S, h, s[n]) = n - 1
  BY <1>5 DEF InOrder
<1>7. s \in Seq(S) /\ Len(s) = c /\ DOMAIN s = 1 .. c
  <2>1. s \in [1 .. c -> S]
    BY <1>6 DEF InOrder
  <2> QED
    BY <1>1, <2>1
<1>8. \A d \in S : \E n \in 1 .. c : s[n] = d
  <2> SUFFICES ASSUME NEW d \in S PROVE \E n \in 1 .. c : s[n] = d
    OBVIOUS
  <2>1. Rank(S, h, d) + 1 \in 1 .. c
    BY <1>1, RankGrows
  <2> DEFINE e == s[Rank(S, h, d) + 1]
  <2>2. e \in S /\ Rank(S, h, e) = Rank(S, h, d)
    <3>1. Rank(S, h, d) \in Int
      BY <1>1, RankGrows
    <3> QED
      BY <1>6, <2>1, <3>1
  <2>3. e = d
    BY <1>2, <2>2 DEF Injection, IsInjective
  <2> QED
    BY <2>1, <2>3
<1>9. ASSUME NEW m \in 1 .. c, NEW n \in 1 .. c PROVE m < n <=> Before(h, s[m], s[n])
  <2>1. s[m] \in S /\ s[n] \in S /\ Rank(S, h, s[m]) = m - 1 /\ Rank(S, h, s[n]) = n - 1
    BY <1>6
  <2>2. Before(h, s[m], s[n]) => m < n
    BY <2>1, RankGrows
  <2>3. m < n => Before(h, s[m], s[n])
    <3>1. Before(h, s[n], s[m]) => n < m
      BY <2>1, RankGrows
    <3>2. s[m] = s[n] => m = n
      BY <2>1
    <3> QED
      BY <2>1, <3>1, <3>2, OrderIsTotal
  <2> QED
    BY <2>2, <2>3
<1> QED
  BY <1>1, <1>6, <1>7, <1>8, <1>9 DEF Members

(* Who has settled, who has not, and how they are counted.                   *)
LEMMA SnapshotCounts ==
    ASSUME NEW h \in Handles
    PROVE  /\ Pending(h) \subseteq Deps /\ Failed(h) \subseteq Deps /\ Successful(h) \subseteq Deps
           /\ Successful(h) = (Deps \ Pending(h)) \ Failed(h)
           /\ Cardinality(Pending(h)) \in Nat /\ Cardinality(Failed(h)) \in Nat
           /\ Cardinality(Successful(h)) \in Nat
           /\ Cardinality(Successful(h)) + Cardinality(Pending(h)) + Cardinality(Failed(h)) = N
<1>1. /\ Pending(h) \subseteq Deps /\ Failed(h) \subseteq Deps /\ Successful(h) \subseteq Deps
      /\ Successful(h) = (Deps \ Pending(h)) \ Failed(h) /\ Failed(h) \subseteq Deps \ Pending(h)
  BY DEF Pending, Failed, Successful, Handles
<1>2. IsFiniteSet(Deps) /\ IsFiniteSet(Deps \ Pending(h)) /\ Cardinality(Deps) = N
  BY DepsFinite
<1>3. Cardinality(Deps \ Pending(h)) = N - Cardinality(Pending(h))
  <2>1. Deps \cap Pending(h) = Pending(h)
    BY <1>1
  <2> QED
    BY <1>2, <2>1, FS_Difference
<1>4. Cardinality(Successful(h)) = Cardinality(Deps \ Pending(h)) - Cardinality(Failed(h))
  <2>1. (Deps \ Pending(h)) \cap Failed(h) = Failed(h)
    BY <1>1
  <2> QED
    BY <1>1, <1>2, <2>1, FS_Difference
<1>5. Cardinality(Pending(h)) \in Nat /\ Cardinality(Failed(h)) \in Nat /\ Cardinality(Successful(h)) \in Nat
  BY <1>1, DepsFinite
<1>6. N \in Nat
  BY WaitAssumption
<1> QED
  BY <1>1, <1>3, <1>4, <1>5, <1>6

(* The first k successes are the first of the settled that succeeded.        *)
LEMMA QuorumComesFirst ==
    ASSUME NEW h \in Handles, NEW k \in Nat, k <= Len(Successes(h))
    PROVE  /\ Len(SubSeq(Successes(h), 1, k)) = k /\ SubSeq(Successes(h), 1, k) \in Seq(Deps)
           /\ FirstOf(SubSeq(Successes(h), 1, k), Successful(h), Settled(h))
<1> DEFINE S == Successful(h)
           T == Deps \ Pending(h)
           s == Successes(h)
           t == Settled(h)
           q == SubSeq(s, 1, k)
<1>1. S \subseteq T /\ S \subseteq Deps /\ T \subseteq Deps
  BY DEF Successful, Pending
<1>2. /\ s \in Seq(S) /\ Len(s) = Cardinality(S) /\ Cardinality(S) \in Nat /\ Members(s) = S
      /\ DOMAIN s = 1 .. Cardinality(S)
      /\ \A m, n \in 1 .. Cardinality(S) : m < n <=> Before(h, s[m], s[n])
  BY <1>1, InOrderSorts DEF Successes
<1>3. /\ t \in Seq(T) /\ DOMAIN t = 1 .. Cardinality(T) /\ Cardinality(T) \in Nat /\ Members(t) = T
      /\ \A m, n \in 1 .. Cardinality(T) : m < n <=> Before(h, t[m], t[n])
  BY <1>1, InOrderSorts DEF Settled
<1> HIDE DEF s, t, S, T
<1>4. Len(q) = k /\ q \in Seq(S) /\ DOMAIN q = 1 .. k /\ \A n \in 1 .. k : q[n] = s[n]
  BY <1>2 DEF s
<1>5. q \in Seq(Deps)
  BY <1>1, <1>4
<1> HIDE DEF q
<1>6. k \in Nat /\ k <= Cardinality(S)
  BY <1>2 DEF s
<1>7. ASSUME NEW m \in 1 .. k, NEW n \in 1 .. k, q[m] = q[n] PROVE m = n
  <2>1. s[m] = s[n] /\ s[m] \in Deps /\ m \in 1 .. Cardinality(S) /\ n \in 1 .. Cardinality(S)
    BY <1>1, <1>2, <1>4, <1>6, <1>7
  <2>2. ~Before(h, s[m], s[n]) /\ ~Before(h, s[n], s[m])
    BY <2>1, OrderIsTotal
  <2> QED
    BY <1>2, <2>1, <2>2
<1>8. ASSUME NEW n \in 1 .. k PROVE q[n] \in S /\ \E j \in DOMAIN t : t[j] = q[n]
  <2>1. q[n] \in S
    BY <1>4
  <2>2. q[n] \in Members(t)
    BY <1>1, <1>3, <2>1
  <2> QED
    BY <2>1, <2>2 DEF Members
<1>9. ASSUME NEW i \in DOMAIN t, NEW j \in DOMAIN t, NEW n \in 1 .. k, i < j, t[i] \in S, t[j] = q[n]
      PROVE  \E m \in 1 .. k : m < n /\ q[m] = t[i]
  <2>1. Before(h, t[i], s[n])
    BY <1>3, <1>4, <1>9
  <2>2. PICK m \in 1 .. Cardinality(S) : s[m] = t[i]
    BY <1>2, <1>9 DEF Members
  <2>3. n \in 1 .. Cardinality(S)
    BY <1>2, <1>6
  <2>4. m < n
    BY <1>2, <2>1, <2>2, <2>3
  <2>5. m \in 1 .. k
    BY <1>2, <1>6, <2>4
  <2> QED
    BY <1>4, <2>2, <2>4, <2>5
<1>10. FirstOf(q, S, t)
  BY <1>4, <1>7, <1>8, <1>9 DEF FirstOf
<1> QED
  BY <1>4, <1>5, <1>10 DEF q, s, S, t

ResultTyped(r) ==
    /\ r.outcome \in Outcomes
    /\ r # Undecided => /\ r.selected \in Seq(Deps) /\ r.settled \in Seq(Deps)
                        /\ r.pending \subseteq Deps /\ r.failed \subseteq Deps

(* What is reported next to the decision.                                    *)
LEMMA ReportFits ==
    ASSUME NEW h \in Handles
    PROVE  /\ Settled(h) \in Seq(Deps) /\ Members(Settled(h)) = Deps \ Pending(h)
           /\ Members(Settled(h)) \ Failed(h) = Successful(h)
           /\ Len(Successes(h)) = Cardinality(Successful(h)) /\ Successes(h) \in Seq(Deps)
           /\ Members(Successes(h)) = Successful(h)
           /\ (Settled(h) = <<>> <=> Pending(h) = Deps)
           /\ (Settled(h) # <<>> => Head(Settled(h)) \in Deps /\ Settled(h)[1] = Head(Settled(h)))
<1> DEFINE T == Deps \ Pending(h)
<1>1. T \subseteq Deps /\ Successful(h) \subseteq Deps /\ Pending(h) \subseteq Deps
  BY DEF Pending, Successful
<1>2. /\ Settled(h) \in Seq(T) /\ Len(Settled(h)) = Cardinality(T) /\ Cardinality(T) \in Nat
      /\ Members(Settled(h)) = T
  BY <1>1, InOrderSorts DEF Settled
<1>3. /\ Successes(h) \in Seq(Successful(h)) /\ Len(Successes(h)) = Cardinality(Successful(h))
      /\ Members(Successes(h)) = Successful(h)
  BY <1>1, InOrderSorts DEF Successes
<1>4. Members(Settled(h)) \ Failed(h) = Successful(h)
  BY <1>2, SnapshotCounts
<1>5. Settled(h) \in Seq(Deps) /\ Successes(h) \in Seq(Deps)
  BY <1>1, <1>2, <1>3
<1>6. Settled(h) = <<>> <=> Pending(h) = Deps
  <2>1. Cardinality(T) = 0 <=> T = {}
    BY <1>1, DepsFinite, FS_EmptySet
  <2>2. Settled(h) = <<>> <=> Len(Settled(h)) = 0
    BY <1>5
  <2> QED
    BY <1>1, <1>2, <2>1, <2>2
<1>7. Settled(h) # <<>> => Head(Settled(h)) \in Deps /\ Settled(h)[1] = Head(Settled(h))
  BY <1>5
<1> QED
  BY <1>2, <1>3, <1>4, <1>5, <1>6, <1>7

(* The ways a check ends, and what leaves it open.                           *)
Open(w, h) ==
    /\ w.mode = "any" => Settled(h) = <<>>
    /\ w.mode = "all" => (Failed(h) = {} \/ w.onDepFailure = "proceed") /\ Pending(h) # {}
    /\ w.mode = "settled" => Pending(h) # {}
    /\ w.mode = "quorum" => /\ Len(Successes(h)) < w.k
                            /\ Len(Successes(h)) + Cardinality(Pending(h)) >= w.k

(* Each decision of a check comes with the condition it is taken on.         *)
LEMMA CheckCases ==
    ASSUME NEW w \in Waits, NEW h \in Handles, NEW r, r = evaluateWait(w, h)
    PROVE  \/ w.mode = "any" /\ Settled(h) # <<>> /\ r = Done(h, "satisfied", <<Head(Settled(h))>>)
           \/ w.mode = "all" /\ Failed(h) # {} /\ w.onDepFailure = "fail" /\ r = Done(h, "depfail", <<>>)
           \/ /\ w.mode = "all" /\ (Failed(h) = {} \/ w.onDepFailure = "proceed") /\ Pending(h) = {}
              /\ r = Done(h, "satisfied", EveryDep)
           \/ w.mode = "settled" /\ Pending(h) = {} /\ r = Done(h, "satisfied", EveryDep)
           \/ /\ w.mode = "quorum" /\ Len(Successes(h)) >= w.k
              /\ r = Done(h, "satisfied", SubSeq(Successes(h), 1, w.k))
           \/ /\ w.mode = "quorum" /\ Len(Successes(h)) + Cardinality(Pending(h)) < w.k
              /\ w.onDepFailure = "fail" /\ r = Done(h, "depfail", <<>>)
           \/ w.mode = "quorum" /\ r = Done(h, "partial", Successes(h))
           \/ r = Undecided /\ Open(w, h)
<1>1. w.mode \in {"settled", "all", "any", "quorum"} /\ w.onDepFailure \in {"fail", "proceed"}
      /\ w.k \in Nat
  BY WaitAssumption DEF Waits
<1>2. Len(Successes(h)) \in Nat /\ Cardinality(Pending(h)) \in Nat
  BY ReportFits, SnapshotCounts
<1>3. CASE w.mode = "any"
  BY <1>3 DEF evaluateWait, Open
<1>4. CASE w.mode = "all"
  BY <1>1, <1>4 DEF evaluateWait, Open
<1>5. CASE w.mode = "settled"
  BY <1>5 DEF evaluateWait, Open
<1>6. CASE w.mode = "quorum"
  <2>1. r = DecideQuorum(w, h)
    BY <1>6 DEF evaluateWait
  <2> QED
    BY <1>1, <1>2, <1>6, <2>1 DEF DecideQuorum, Open
<1> QED
  BY <1>1, <1>3, <1>4, <1>5, <1>6

(* EveryDep lists each dependency.                                           *)
LEMMA EveryDepFits == EveryDep \in Seq(Deps) /\ Members(EveryDep) = Deps
<1>1. N \in Nat /\ EveryDep \in [1 .. N -> Deps] /\ DOMAIN EveryDep = Deps
  BY WaitAssumption DEF EveryDep, Deps
<1>2. EveryDep \in Seq(Deps)
  BY <1>1
<1>3. Members(EveryDep) = Deps
  BY <1>1 DEF Members, EveryDep
<1> QED
  BY <1>2, <1>3

(* The fields of a decision.                                                 *)
LEMMA DoneFields ==
    ASSUME NEW h \in Handles, NEW o \in {"satisfied", "partial", "deadline", "depfail"}, NEW s
    PROVE  LET r == Done(h, o, s)
           IN  /\ r.outcome = o /\ r.selected = s /\ r.settled = Settled(h)
               /\ r.pending = Pending(h) /\ r.failed = Failed(h) /\ r # Undecided
  BY DEF Done, Undecided

(* What a check decides is what the mode and the policy promise, and it is   *)
(* decided when nobody is pending any more.                                  *)
LEMMA CheckFits ==
    ASSUME wait \in Waits, wait' = wait, NEW h \in Handles, result' = evaluateWait(wait, h)
    PROVE  /\ ResultTyped(result') /\ ResolvesAsPromised'
           /\ (result' = Undecided => Pending(h) # {})
<1> DEFINE w == wait
<1>1. w.mode \in {"settled", "all", "any", "quorum"} /\ w.k \in Nat
      /\ (w.mode = "quorum" => w.k \in 1 .. N) /\ (w.mode # "quorum" => w.k = N)
  BY WaitAssumption DEF Waits, validateWait
<1>2. N \in Nat /\ N > 0 /\ Cardinality(Deps) = N /\ Deps # {}
  BY WaitAssumption, DepsFinite DEF Deps
<1> USE DEF ResolvesAsPromised, SelectionFitsMode, FailureIsHeeded, DeadlineIsLast, ResultTyped, Outcomes
<1>3. CASE w.mode = "any" /\ Settled(h) # <<>> /\ result' = Done(h, "satisfied", <<Head(Settled(h))>>)
  <2>1. /\ result'.outcome = "satisfied" /\ result'.selected = <<Head(Settled(h))>>
        /\ result'.settled = Settled(h) /\ result'.pending = Pending(h)
        /\ result'.failed = Failed(h) /\ result' # Undecided
    BY <1>3, DoneFields
  <2>2. <<Head(Settled(h))>> \in Seq(Deps)
    BY <1>3, ReportFits
  <2> QED
    BY <1>3, <2>1, <2>2, ReportFits, SnapshotCounts
<1>4. CASE /\ w.mode \in {"all", "settled"} /\ Pending(h) = {}
           /\ w.mode = "all" => Failed(h) = {} \/ w.onDepFailure = "proceed"
           /\ result' = Done(h, "satisfied", EveryDep)
  <2>1. /\ result'.outcome = "satisfied" /\ result'.selected = EveryDep
        /\ result'.settled = Settled(h) /\ result'.pending = Pending(h)
        /\ result'.failed = Failed(h) /\ result' # Undecided
    BY <1>4, DoneFields
  <2> QED
    BY <1>4, <2>1, EveryDepFits, ReportFits, SnapshotCounts
<1>5. CASE w.mode = "quorum" /\ Len(Successes(h)) >= w.k
           /\ result' = Done(h, "satisfied", SubSeq(Successes(h), 1, w.k))
  <2>0. PICK q : q = SubSeq(Successes(h), 1, w.k) /\ result' = Done(h, "satisfied", q)
    BY <1>5, Zenon
  <2>9. result' = Done(h, "satisfied", q)
    BY <2>0
  <2>1. /\ result'.outcome = "satisfied" /\ result'.selected = q
        /\ result'.settled = Settled(h) /\ result'.pending = Pending(h)
        /\ result'.failed = Failed(h) /\ result' # Undecided
    BY <2>9, DoneFields
  <2>2. Len(Successes(h)) \in Nat
    BY ReportFits, SnapshotCounts
  <2>3. /\ Len(result'.selected) = w.k /\ result'.selected \in Seq(Deps)
        /\ FirstOf(result'.selected, Successful(h), Settled(h))
    BY <1>1, <1>5, <2>0, <2>1, <2>2, QuorumComesFirst
  <2>4. Succeeded' = Successful(h)
    BY <2>1, ReportFits DEF Succeeded, Members
  <2>5. FirstOf(result.selected, Succeeded, result.settled)'
    BY <2>1, <2>3, <2>4 DEF FirstOf
  <2>6. ResultTyped(result')
    BY <2>1, <2>3, ReportFits, SnapshotCounts
  <2> QED
    BY <1>5, <2>1, <2>3, <2>5, <2>6
<1>6. CASE w.onDepFailure = "fail" /\ result' = Done(h, "depfail", <<>>)
           /\ \/ w.mode = "all" /\ Failed(h) # {}
              \/ w.mode = "quorum" /\ Len(Successes(h)) + Cardinality(Pending(h)) < w.k
  <2>1. /\ result'.outcome = "depfail" /\ result'.selected = <<>>
        /\ result'.settled = Settled(h) /\ result'.pending = Pending(h)
        /\ result'.failed = Failed(h) /\ result' # Undecided
    BY <1>6, DoneFields
  <2>2. Cardinality(Failed(h)) > N - w.k
    <3>1. CASE w.mode = "all" /\ Failed(h) # {}
      <4>1. Cardinality(Failed(h)) # 0 /\ Cardinality(Failed(h)) \in Nat
        BY <3>1, SnapshotCounts, DepsFinite, FS_EmptySet
      <4> QED
        BY <1>1, <1>2, <3>1, <4>1
    <3>2. CASE w.mode = "quorum" /\ Len(Successes(h)) + Cardinality(Pending(h)) < w.k
      BY <1>1, <1>2, <3>2, SnapshotCounts, ReportFits
    <3> QED
      BY <1>6, <3>1, <3>2
  <2>3. <<>> \in Seq(Deps)
    OBVIOUS
  <2> QED
    BY <1>6, <2>1, <2>2, <2>3, ReportFits, SnapshotCounts
<1>7. CASE w.mode = "quorum" /\ result' = Done(h, "partial", Successes(h))
  <2>1. /\ result'.outcome = "partial" /\ result'.selected = Successes(h)
        /\ result'.settled = Settled(h) /\ result'.pending = Pending(h)
        /\ result'.failed = Failed(h) /\ result' # Undecided
    BY <1>7, DoneFields
  <2>2. Members(result'.selected) \subseteq Members(result'.settled)
    BY <2>1, ReportFits, SnapshotCounts
  <2>3. ResultTyped(result')
    BY <2>1, ReportFits, SnapshotCounts
  <2> QED
    BY <1>7, <2>1, <2>2, <2>3 DEF Members
<1>8. CASE result' = Undecided /\ Open(w, h)
  <2>1. result'.outcome = "none"
    BY <1>8 DEF Undecided
  <2>2. Pending(h) # {}
    <3>1. CASE Pending(h) = {}
      <4>1. Settled(h) # <<>> /\ Cardinality(Pending(h)) = 0
        BY <1>2, <3>1, ReportFits, FS_EmptySet
      <4>2. Len(Successes(h)) \in Nat
        BY ReportFits, SnapshotCounts
      <4> QED
        BY <1>1, <1>8, <3>1, <4>1, <4>2 DEF Open
    <3> QED
      BY <3>1
  <2> QED
    BY <1>8, <2>1, <2>2
<1> QED
  BY <1>3, <1>4, <1>5, <1>6, <1>7, <1>8, CheckCases

(* A check that only looks: its result is of its type.                       *)
LEMMA CheckTyped ==
    ASSUME NEW w \in Waits, NEW h \in Handles
    PROVE  ResultTyped(evaluateWait(w, h))
<1>1. w.k \in Nat
  BY WaitAssumption DEF Waits
<1>2. PICK r : r = evaluateWait(w, h)
  OBVIOUS
<1>3. CASE r = Undecided
  <2>1. r.outcome = "none"
    BY <1>3 DEF Undecided
  <2>2. ~(r # Undecided)
    BY <1>3
  <2>3. r.outcome \in Outcomes
    BY <2>1 DEF Outcomes
  <2> QED
    BY <1>2, <2>2, <2>3 DEF ResultTyped
<1>4. ASSUME NEW o \in {"satisfied", "partial", "depfail"}, NEW s \in Seq(Deps), r = Done(h, o, s)
      PROVE  ResultTyped(r)
  <2>1. /\ r.outcome = o /\ r.selected = s /\ r.settled = Settled(h)
        /\ r.pending = Pending(h) /\ r.failed = Failed(h)
    BY <1>4, DoneFields
  <2> QED
    BY <2>1, ReportFits, SnapshotCounts DEF ResultTyped, Outcomes
<1>5. /\ Settled(h) # <<>> => <<Head(Settled(h))>> \in Seq(Deps)
      /\ <<>> \in Seq(Deps) /\ EveryDep \in Seq(Deps) /\ Successes(h) \in Seq(Deps)
  BY ReportFits, EveryDepFits
<1>6. PICK q : q = SubSeq(Successes(h), 1, w.k)
  OBVIOUS
<1>7. Len(Successes(h)) >= w.k => q \in Seq(Deps)
  <2>1. Len(Successes(h)) \in Nat
    BY ReportFits, SnapshotCounts
  <2> QED
    BY <1>1, <1>6, <2>1, QuorumComesFirst
<1> QED
  BY <1>2, <1>3, <1>4, <1>5, <1>6, <1>7, CheckCases

(* A deadline decides what a check leaves open, on what there is.            *)
LEMMA DeadlineFits ==
    ASSUME wait \in Waits, wait' = wait, wait.deadline, due, due' = due, NEW h \in Handles,
           evaluateWait(wait, h) = Undecided, result' = atDeadline(wait, h)
    PROVE  ResultTyped(result') /\ result' # Undecided /\ ResolvesAsPromised'
<1>1. wait.mode \in {"settled", "all", "any", "quorum"} /\ wait.k \in Nat
  BY WaitAssumption DEF Waits
<1>2. Open(wait, h)
  <2>1. PICK r : r = evaluateWait(wait, h) /\ r = Undecided
    OBVIOUS
  <2>2. r.outcome = "none"
    BY <2>1 DEF Undecided
  <2>3. ASSUME NEW o \in {"satisfied", "partial", "depfail"}, NEW s PROVE r # Done(h, o, s)
    BY <2>2 DEF Done
  <2> QED
    BY <2>1, <2>3, CheckCases
<1>3. PICK o \in {"deadline", "partial"}, s \in Seq(Deps) :
          /\ result' = Done(h, o, s)
          /\ o = "deadline" => s = <<>>
          /\ o = "partial" => s = Settled(h)
  <2>1. <<>> \in Seq(Deps) /\ Settled(h) \in Seq(Deps)
    BY ReportFits
  <2> QED
    BY <2>1 DEF atDeadline
<1>4. /\ result'.outcome = o /\ result'.selected = s /\ result'.settled = Settled(h)
      /\ result'.pending = Pending(h) /\ result'.failed = Failed(h) /\ result' # Undecided
  BY <1>3, DoneFields
<1>5. ResultTyped(result')
  BY <1>4, ReportFits, SnapshotCounts DEF ResultTyped, Outcomes
<1>6. SelectionFitsMode'
  BY <1>3, <1>4 DEF SelectionFitsMode, Members
<1>7. FailureIsHeeded'
  BY <1>3, <1>4 DEF FailureIsHeeded
<1>8. DeadlineIsLast'
  <2>1. Succeeded' = Successful(h)
    BY <1>4, ReportFits DEF Succeeded, Members
  <2>2. wait.mode = "quorum" => Cardinality(Successful(h)) < wait.k
    BY <1>2, ReportFits DEF Open
  <2> QED
    BY <1>1, <1>2, <1>4, <2>1, <2>2 DEF DeadlineIsLast, Open
<1> QED
  BY <1>4, <1>5, <1>6, <1>7, <1>8 DEF ResolvesAsPromised

(* A step that leaves the decision alone leaves what was promised alone.     *)
LEMMA PromiseStays ==
    ASSUME ResolvesAsPromised, UNCHANGED <<wait, result>>, due => due'
    PROVE  ResolvesAsPromised'
  BY DEF ResolvesAsPromised, SelectionFitsMode, FailureIsHeeded, DeadlineIsLast, Succeeded, Members, FirstOf

(* And one that checks decides by the handles that it finds.                 *)
LEMMA CheckKeeps ==
    ASSUME WaitInv, wait' = wait, handle' \in Handles, clock' \in 1 .. MaxTurns, due' = due,
           restarts' \in 0 .. MaxRestarts, inputs' = inputs, Check(evaluateWait(wait, handle'))
    PROVE  WaitInv'
<1> USE DEF WaitInv, WaitKeepsItsWord
<1>1. result' = evaluateWait(wait, handle')
  BY DEF Check
<1>2. wait \in Waits /\ wait' \in Waits
  BY DEF WaitTypeOK
<1>3. PICK h \in Handles : h = handle'
  OBVIOUS
<1>4. ResultTyped(result') /\ ResolvesAsPromised' /\ (result' = Undecided => Pending(h) # {})
  BY <1>1, <1>2, <1>3, CheckFits
<1>5. waitPc' \in {"waiting", "failed", "resolved"} /\ (waitPc' = "waiting" <=> result' = Undecided)
  BY DEF Check
<1>6. WaitTypeOK'
  BY <1>2, <1>4, <1>5 DEF WaitTypeOK, ResultTyped, Handles
<1>7. HoldsOnlyWhileOpen'
  BY <1>1, <1>3, <1>4, <1>5 DEF HoldsOnlyWhileOpen
<1>8. DecidedFirst'
  BY <1>5 DEF DecidedFirst
<1> QED
  BY <1>4, <1>6, <1>7, <1>8

(* At first nobody has settled, and nothing is decided.                      *)
LEMMA InitWaits == WaitInit => WaitInv
<1> SUFFICES ASSUME WaitInit PROVE WaitInv
  OBVIOUS
<1>1. handle \in Handles /\ Pending(handle) = Deps /\ Failed(handle) = {} /\ Successful(handle) = {}
  BY WaitAssumption DEF WaitInit, Handles, Pending, Failed, Successful
<1>2. result = Undecided /\ result.outcome = "none" /\ wait \in Waits
  BY DEF WaitInit, Undecided
<1>3. wait.mode \in {"settled", "all", "any", "quorum"} /\ wait.k \in Nat /\ (wait.mode = "quorum" => wait.k \in 1 .. N)
  BY <1>2, WaitAssumption DEF Waits, validateWait
<1>4. N \in Nat /\ Deps # {} /\ Cardinality(Deps) = N
  BY WaitAssumption, DepsFinite DEF Deps
<1>5. Settled(handle) = <<>> /\ Len(Successes(handle)) = 0
  BY <1>1, ReportFits, FS_EmptySet
<1>6. evaluateWait(wait, handle) = Undecided
  BY <1>1, <1>3, <1>4, <1>5 DEF evaluateWait, DecideQuorum
<1>7. WaitTypeOK
  <2>1. handle \in [Deps -> [outcome : {"pending", "success", "failed"}, at : 0 .. MaxTurns]]
    BY <1>1 DEF Handles
  <2>2. DOMAIN inputs \subseteq Deps
    BY DEF WaitInit, NoInputs
  <2>3. clock \in 1 .. MaxTurns /\ restarts \in 0 .. MaxRestarts
    BY WaitAssumption DEF WaitInit
  <2>4. due \in BOOLEAN /\ waitPc = "waiting"
    BY DEF WaitInit
  <2> QED
    BY <1>2, <2>1, <2>2, <2>3, <2>4 DEF WaitTypeOK, Outcomes
<1>8. ResolvesAsPromised
  BY <1>2 DEF ResolvesAsPromised, SelectionFitsMode, FailureIsHeeded, DeadlineIsLast
<1>9. DecidedFirst
  BY DEF WaitInit, DecidedFirst
<1> QED
  BY <1>1, <1>4, <1>6, <1>7, <1>8, <1>9 DEF WaitInv, WaitKeepsItsWord, HoldsOnlyWhileOpen

(* The manifest of a decision names dependencies.                            *)
LEMMA ManifestFits ==
    ASSUME NEW r, ResultTyped(r), r # Undecided
    PROVE  DOMAIN Manifest(r) \subseteq Deps
<1>1. r.selected \in Seq(Deps)
  BY DEF ResultTyped
<1> QED
  BY <1>1 DEF Manifest, Members

(* Every step keeps the invariant.                                           *)
LEMMA StepWaits == WaitInv /\ [WaitNext]_waitVars => WaitInv'
<1> SUFFICES ASSUME WaitInv, [WaitNext]_waitVars PROVE WaitInv'
  OBVIOUS
<1> USE DEF WaitInv, WaitKeepsItsWord
<1>1. handle \in Handles /\ wait \in Waits /\ ResultTyped(result) /\ MaxRestarts \in Nat /\ MaxTurns \in Nat
  BY WaitAssumption DEF WaitTypeOK, Handles, ResultTyped
<1>2. ASSUME NEW d \in Deps, Settle(d) PROVE WaitInv'
  <2>1. handle' \in Handles /\ clock' \in 1 .. MaxTurns
    <3>1. PICK o \in {"success", "failed"}, t \in {clock, clock + 1} :
              t <= MaxTurns /\ clock' = t /\ handle' = [handle EXCEPT ![d] = [outcome |-> o, at |-> t]]
      BY <1>2 DEF Settle
    <3>2. t \in 1 .. MaxTurns
      BY <1>1, <3>1 DEF WaitTypeOK
    <3> QED
      BY <1>1, <3>1, <3>2 DEF Handles
  <2>2. UNCHANGED <<wait, due, inputs, restarts>>
    BY <1>2 DEF Settle
  <2>3. CASE waitPc = "waiting"
    BY <1>2, <2>1, <2>2, <2>3, CheckKeeps DEF Settle, WaitTypeOK
  <2>4. CASE waitPc # "waiting"
    <3>1. UNCHANGED <<waitPc, result>>
      BY <1>2, <2>4 DEF Settle
    <3>2. ResolvesAsPromised'
      BY <2>2, <3>1, PromiseStays
    <3> QED
      BY <2>1, <2>2, <2>4, <3>1, <3>2 DEF WaitTypeOK, HoldsOnlyWhileOpen, DecidedFirst, Handles
  <2> QED
    BY <2>3, <2>4
<1>3. CASE DeadlinePasses
  <2>1. ResolvesAsPromised'
    BY <1>3, PromiseStays DEF DeadlinePasses
  <2> QED
    BY <1>3, <2>1 DEF DeadlinePasses, WaitTypeOK, HoldsOnlyWhileOpen, DecidedFirst
<1>4. CASE TimerFires
  <2>1. UNCHANGED <<wait, handle, clock, due, inputs, restarts>>
    BY <1>4 DEF TimerFires
  <2>2. CASE evaluateWait(wait, handle) # Undecided
    BY <1>1, <1>4, <2>1, <2>2, CheckKeeps DEF TimerFires, WaitTypeOK
  <2>3. CASE evaluateWait(wait, handle) = Undecided
    <3>1. Check(atDeadline(wait, handle))
      BY <1>4, <2>3 DEF TimerFires
    <3>2. ResultTyped(result') /\ result' # Undecided /\ ResolvesAsPromised'
      BY <1>1, <1>4, <2>1, <2>3, <3>1, DeadlineFits DEF Check, TimerFires, DecidedFirst
    <3>3. waitPc' \in {"failed", "resolved"}
      BY <3>1, <3>2 DEF Check
    <3> QED
      BY <2>1, <3>2, <3>3 DEF WaitTypeOK, HoldsOnlyWhileOpen, DecidedFirst, ResultTyped
  <2> QED
    BY <2>2, <2>3
<1>5. CASE Fork \/ InjectInputs
  <2>1. UNCHANGED <<wait, handle, clock, due, result, restarts>> /\ waitPc' \in {"forked", "failed", "started"}
    BY <1>5 DEF Fork, InjectInputs
  <2>2. ResolvesAsPromised'
    BY <2>1, PromiseStays
  <2>3. waitPc' = "forked" => result # Undecided
    BY <1>5 DEF Fork, InjectInputs, DecidedFirst
  <2>4. DOMAIN inputs' \subseteq Deps
    <3>1. CASE inputs' = inputs
      BY <3>1 DEF WaitTypeOK
    <3>2. CASE InjectInputs
      BY <1>1, <3>2, ManifestFits DEF InjectInputs, DecidedFirst
    <3> QED
      BY <1>5, <3>1, <3>2 DEF Fork
  <2> QED
    BY <2>1, <2>2, <2>3, <2>4 DEF WaitTypeOK, HoldsOnlyWhileOpen, DecidedFirst
<1>6. CASE RestartUnforked
  <2>1. restarts' \in 0 .. MaxRestarts
    BY <1>1, <1>6 DEF RestartUnforked, WaitTypeOK
  <2> QED
    BY <1>1, <1>6, <2>1, CheckKeeps DEF RestartUnforked, WaitTypeOK
<1>7. CASE RestartForked
  <2>1. restarts' \in 0 .. MaxRestarts /\ UNCHANGED <<wait, handle, clock, due, result>>
    BY <1>1, <1>7 DEF RestartForked, WaitTypeOK
  <2>2. waitPc' \in {"stranded", "started"}
    BY <1>7 DEF RestartForked
  <2>3. ResolvesAsPromised'
    BY <2>1, PromiseStays
  <2>4. DOMAIN inputs' \subseteq Deps
    <3>1. CASE inputs' = inputs
      BY <3>1 DEF WaitTypeOK
    <3>2. CASE inputs' = NoInputs
      BY <3>2 DEF NoInputs
    <3>3. ASSUME evaluateWait(wait, handle) # Undecided, inputs' = Manifest(evaluateWait(wait, handle))
          PROVE  DOMAIN inputs' \subseteq Deps
      <4>1. ResultTyped(evaluateWait(wait, handle))
        BY <1>1, CheckTyped
      <4> QED
        BY <3>3, <4>1, ManifestFits
    <3> QED
      BY <1>7, <3>1, <3>2, <3>3 DEF RestartForked
  <2> QED
    BY <2>1, <2>2, <2>3, <2>4 DEF WaitTypeOK, HoldsOnlyWhileOpen, DecidedFirst
<1>8. CASE UNCHANGED waitVars
  <2>1. ResolvesAsPromised'
    BY <1>8, PromiseStays DEF waitVars
  <2> QED
    BY <1>8, <2>1 DEF waitVars, WaitTypeOK, HoldsOnlyWhileOpen, DecidedFirst
<1> QED
  BY <1>2, <1>3, <1>4, <1>5, <1>6, <1>7, <1>8 DEF WaitNext

(* In every behaviour, however often the dependencies settle and whenever    *)
(* the deadline passes or the daemon restarts, a wait resolves as its mode,  *)
(* its policy and its deadline promise, and one that still holds is open     *)
(* (waitfor.ts:108-215, rehydrate.ts:322-378).                               *)
THEOREM WaitsResolve == WaitSpec => []WaitKeepsItsWord
<1>1. WaitInit => WaitInv
  BY InitWaits
<1>2. WaitInv /\ [WaitNext]_waitVars => WaitInv'
  BY StepWaits
<1>3. WaitInv => WaitKeepsItsWord
  BY DEF WaitInv
<1> QED
  BY <1>1, <1>2, <1>3, PTL DEF WaitSpec
=============================================================================
