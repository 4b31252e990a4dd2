-------------------------- MODULE AdmissionProofs --------------------------
(***************************************************************************)
(* For any finite set of callers and any positive cap: the slot accounting *)
(* of admission.ts is exact, and the queue with its timer and its race     *)
(* implements the abstract slot pool AdmissionSlots. For any run and any   *)
(* clients: the close of a run leaves nobody open, and the run that closes *)
(* itself is quiet. And for any tree and any sweeps: a sweep that is over  *)
(* has reached its subtree, and a stop is orderly and final.               *)
(***************************************************************************)
EXTENDS Admission, RunClose, Subtree, FiniteSetTheorems, SequenceTheorems, WellFoundedInduction, TLAPS

(* A queue with no caller in it twice.                                     *)
Distinct(s) == \A i, j \in 1 .. Len(s) : s[i] = s[j] => i = j

-----------------------------------------------------------------------------
(* What the three queue operations do to the members of the queue.         *)

(* Membership of a queue, by position.                                     *)
LEMMA ToSetByIndex ==
    ASSUME NEW S, NEW s \in Seq(S), NEW x
    PROVE  x \in ToSet(s) <=> \E i \in 1 .. Len(s) : s[i] = x
  BY DEF ToSet

(* waiters.push adds exactly the caller.                                   *)
LEMMA PushFacts ==
    ASSUME NEW S, NEW s \in Seq(S), NEW e \in S, e \notin ToSet(s), Distinct(s)
    PROVE  /\ Append(s, e) \in Seq(S)
           /\ ToSet(Append(s, e)) = ToSet(s) \cup {e}
           /\ Distinct(Append(s, e))
  BY DEF ToSet, Distinct

(* waiters.shift takes exactly the head.                                   *)
LEMMA ShiftFacts ==
    ASSUME NEW S, NEW s \in Seq(S), s # <<>>, Distinct(s)
    PROVE  /\ Head(s) \in S
           /\ Head(s) \in ToSet(s)
           /\ Tail(s) \in Seq(S)
           /\ ToSet(Tail(s)) = ToSet(s) \ {Head(s)}
           /\ Distinct(Tail(s))
  <1>1. /\ Len(s) \in Nat \ {0}  /\ Head(s) = s[1]  /\ Head(s) \in S
        /\ Tail(s) \in Seq(S)  /\ Len(Tail(s)) = Len(s) - 1
        /\ \A i \in 1 .. Len(s) - 1 : Tail(s)[i] = s[i + 1]
    OBVIOUS
  <1>2. ToSet(Tail(s)) \subseteq ToSet(s) \ {Head(s)}
    BY <1>1 DEF ToSet, Distinct
  <1>3. ASSUME NEW x \in ToSet(s) \ {Head(s)} PROVE x \in ToSet(Tail(s))
    <2>1. PICK i \in 1 .. Len(s) : x = s[i]
      BY DEF ToSet
    <2>2. i - 1 \in 1 .. Len(s) - 1 /\ Tail(s)[i - 1] = x
      BY <2>1, <1>1
    <2> QED BY <2>2, <1>1, ToSetByIndex
  <1>4. Distinct(Tail(s))
    BY <1>1 DEF Distinct
  <1>5. Head(s) \in ToSet(s)
    BY <1>1, ToSetByIndex
  <1> QED BY <1>1, <1>2, <1>3, <1>4, <1>5

(* waiters.splice(i, 1) takes exactly the i-th.                            *)
LEMMA SpliceFacts ==
    ASSUME NEW S, NEW s \in Seq(S), NEW i \in 1 .. Len(s), Distinct(s)
    PROVE  /\ RemoveAt(s, i) \in Seq(S)
           /\ ToSet(RemoveAt(s, i)) = ToSet(s) \ {s[i]}
           /\ Distinct(RemoveAt(s, i))
  <1> DEFINE r == RemoveAt(s, i)
  <1>1. /\ r \in Seq(S)  /\ Len(r) = Len(s) - 1
        /\ \A j \in 1 .. Len(s) - 1 : r[j] = IF j < i THEN s[j] ELSE s[j + 1]
    <2> DEFINE p == SubSeq(s, 1, i - 1)
               q == SubSeq(s, i + 1, Len(s))
    <2>1. /\ p \in Seq(S)  /\ Len(p) = i - 1
          /\ \A j \in 1 .. i - 1 : p[j] = s[j]
      OBVIOUS
    <2>2. /\ q \in Seq(S)  /\ Len(q) = Len(s) - i
          /\ \A j \in 1 .. Len(s) - i : q[j] = s[j + i]
      OBVIOUS
    <2> HIDE DEF p, q
    <2>3. /\ p \o q \in Seq(S)  /\ Len(p \o q) = Len(s) - 1
          /\ \A j \in 1 .. Len(s) - 1 :
                (p \o q)[j] = IF j < i THEN s[j] ELSE s[j + 1]
      <3>1. /\ p \o q \in Seq(S)  /\ Len(p \o q) = Len(s) - 1
            /\ \A j \in 1 .. Len(s) - 1 :
                  (p \o q)[j] = IF j <= Len(p) THEN p[j] ELSE q[j - Len(p)]
        <4>1. Len(p) + Len(q) = Len(s) - 1
          BY <2>1, <2>2
        <4>2. /\ p \o q \in Seq(S)
              /\ Len(p \o q) = Len(p) + Len(q)
              /\ \A j \in 1 .. Len(p) + Len(q) :
                    (p \o q)[j] = IF j <= Len(p) THEN p[j] ELSE q[j - Len(p)]
          BY <2>1, <2>2, ConcatProperties, Zenon
        <4> QED BY <4>1, <4>2, Zenon
      <3>2. ASSUME NEW j \in 1 .. Len(s) - 1
            PROVE  (p \o q)[j] = IF j < i THEN s[j] ELSE s[j + 1]
        <4>1. CASE j < i
          BY <4>1, <3>1, <2>1
        <4>2. CASE ~(j < i)
          <5>1. j - (i - 1) \in 1 .. Len(s) - i /\ j - (i - 1) + i = j + 1
            BY <4>2
          <5> QED BY <5>1, <4>2, <3>1, <2>1, <2>2
        <4> QED BY <4>1, <4>2
      <3> QED BY <3>1, <3>2
    <2> QED BY <2>3 DEF RemoveAt, p, q
  <1> HIDE DEF r
  <1>2. ToSet(r) \subseteq ToSet(s) \ {s[i]}
    BY <1>1 DEF ToSet, Distinct
  <1>3. ASSUME NEW x \in ToSet(s) \ {s[i]} PROVE x \in ToSet(r)
    <2>1. PICK j \in 1 .. Len(s) : x = s[j] /\ j # i
      BY DEF ToSet
    <2>2. CASE j < i
      BY <2>1, <2>2, <1>1, ToSetByIndex
    <2>3. CASE j > i
      <3>1. j - 1 \in 1 .. Len(s) - 1 /\ r[j - 1] = x
        BY <2>1, <2>3, <1>1
      <3> QED BY <3>1, <1>1, ToSetByIndex
    <2> QED BY <2>1, <2>2, <2>3
  <1>4. Distinct(r)
    BY <1>1 DEF Distinct
  <1> QED BY <1>1, <1>2, <1>3, <1>4 DEF r
-----------------------------------------------------------------------------
(* The inductive invariant: the accounting needs to know that nobody       *)
(* queues twice, that only waiting callers queue, and that a caller who    *)
(* has not asked yet has no settled race.                                  *)
IdleUnsettled == \A a \in Agents : pc[a] = "idle" => race[a] = "none"

AdmissionInv == /\ TypeOK
                /\ QueueMatchesCallers
                /\ IdleUnsettled
                /\ SlotsConserved
                /\ NoIdleSlotWhileQueued

(* Slot owners are callers, so they are finitely many and counted in Nat.  *)
LEMMA OwnersFinite ==
    ASSUME NEW T, T \subseteq Agents
    PROVE  IsFiniteSet(T) /\ Cardinality(T) \in Nat
  BY AgentsAssumption, FS_Subset, FS_CardinalityType

(* The empty pool of the freshly loaded module.                            *)
LEMMA InitInv == Init => AdmissionInv
  <1> SUFFICES ASSUME Init PROVE AdmissionInv
    OBVIOUS
  <1>1. TypeOK /\ QueueMatchesCallers /\ IdleUnsettled /\ NoIdleSlotWhileQueued
    BY DEF Init, TypeOK, QueueMatchesCallers, IdleUnsettled, NoIdleSlotWhileQueued
  <1>2. SlotOwners = {}
    BY DEF Init, SlotOwners, Granted
  <1>3. SlotsConserved
    BY <1>2, FS_EmptySet, CapAssumption DEF SlotsConserved, Init
  <1> QED BY <1>1, <1>3 DEF AdmissionInv

(* A new owner is one more slot.                                           *)
LEMMA OneMore ==
    ASSUME NEW T, T \subseteq Agents, NEW a \in Agents, a \notin T
    PROVE  Cardinality(T \cup {a}) = Cardinality(T) + 1
  BY OwnersFinite, FS_AddElement

(* An owner that leaves is one slot less.                                  *)
LEMMA OneLess ==
    ASSUME NEW T, T \subseteq Agents, NEW a \in T
    PROVE  Cardinality(T \ {a}) = Cardinality(T) - 1
  BY OwnersFinite, FS_RemoveElement

(* Replacing one owner by another keeps the count.                         *)
LEMMA Swap ==
    ASSUME NEW T, T \subseteq Agents, NEW a \in T, NEW b \in Agents, b \notin T
    PROVE  Cardinality((T \ {a}) \cup {b}) = Cardinality(T)
  <1>1. Cardinality((T \ {a}) \cup {b}) = Cardinality(T \ {a}) + 1
    BY OneMore
  <1>2. Cardinality(T \ {a}) = Cardinality(T) - 1
    BY OneLess
  <1> QED BY <1>1, <1>2, OwnersFinite

(* Every step of the daemon keeps the invariant.                           *)
LEMMA StepInv == AdmissionInv /\ [Next]_vars => AdmissionInv'
  <1> SUFFICES ASSUME AdmissionInv, [Next]_vars PROVE AdmissionInv'
    OBVIOUS
  <1> USE DEF AdmissionInv
  <1>0. Distinct(waiters)
    BY DEF QueueMatchesCallers, Distinct
  <1>q. \A x \in Agents : x \in ToSet(waiters) =>
            pc[x] = "waiting" /\ race[x] # "grant"
    BY ToSetByIndex DEF TypeOK, QueueMatchesCallers
  <1>f. SlotOwners \subseteq Agents
    BY DEF SlotOwners
  <1>1. ASSUME NEW a \in Agents, AcquireNow(a) PROVE AdmissionInv'
    <2>1. SlotOwners' = SlotOwners \cup {a} /\ a \notin SlotOwners
      BY <1>1 DEF AcquireNow, SlotOwners, Granted, TypeOK
    <2>2. SlotsConserved'
      BY <1>1, <2>1, <1>f, OneMore, CapAssumption
      DEF AcquireNow, SlotsConserved, TypeOK
    <2>3. (TypeOK /\ IdleUnsettled /\ NoIdleSlotWhileQueued)'
      BY <1>1 DEF AcquireNow, TypeOK, IdleUnsettled, NoIdleSlotWhileQueued
    <2>4. QueueMatchesCallers'
      BY <1>1, <1>q DEF AcquireNow, TypeOK, QueueMatchesCallers
    <2> QED BY <2>2, <2>3, <2>4
  <1>2. ASSUME NEW a \in Agents, Enqueue(a) PROVE AdmissionInv'
    <2>1. a \notin ToSet(waiters)
      BY <1>2, <1>q DEF Enqueue
    <2>2. /\ waiters' \in Seq(Agents)
          /\ ToSet(waiters') = ToSet(waiters) \cup {a}
          /\ Distinct(waiters')
      BY <1>2, <1>0, <2>1, PushFacts DEF Enqueue, TypeOK
    <2>3. SlotOwners' = SlotOwners
      BY <1>2, <2>1, <2>2 DEF Enqueue, SlotOwners, Granted, TypeOK
    <2>4. (TypeOK /\ IdleUnsettled)'
      BY <1>2, <2>2 DEF Enqueue, TypeOK, IdleUnsettled
    <2>5. (SlotsConserved /\ NoIdleSlotWhileQueued)'
      BY <1>2, <2>3, CapAssumption
      DEF Enqueue, SlotsConserved, NoIdleSlotWhileQueued, TypeOK
    <2>6. QueueMatchesCallers'
      <3>1. \A x \in Agents : x \in ToSet(waiters') =>
                pc'[x] = "waiting" /\ race'[x] # "grant"
        BY <1>2, <1>q, <2>2 DEF Enqueue, TypeOK, IdleUnsettled
      <3>2. \A i \in 1 .. Len(waiters') : /\ waiters'[i] \in Agents
                                          /\ waiters'[i] \in ToSet(waiters')
        BY <2>2, ToSetByIndex
      <3>3. \A x \in Agents : pc'[x] = "waiting" /\ race'[x] = "none"
                                => x \in ToSet(waiters')
        BY <1>2, <2>2 DEF Enqueue, TypeOK, QueueMatchesCallers
      <3> QED BY <2>2, <3>1, <3>2, <3>3 DEF QueueMatchesCallers, Distinct
    <2> QED BY <2>4, <2>5, <2>6
  <1>3. ASSUME NEW a \in Agents, TimerFires(a) PROVE AdmissionInv'
    <2>1. SlotOwners' = SlotOwners
      BY <1>3 DEF TimerFires, SlotOwners, Granted
    <2>2. (TypeOK /\ IdleUnsettled)'
      BY <1>3 DEF TimerFires, TypeOK, IdleUnsettled
    <2>3. (SlotsConserved /\ NoIdleSlotWhileQueued)'
      BY <1>3, <2>1 DEF TimerFires, SlotsConserved, NoIdleSlotWhileQueued
    <2>4. QueueMatchesCallers'
      BY <1>3 DEF TimerFires, TypeOK, QueueMatchesCallers
    <2> QED BY <2>2, <2>3, <2>4
  <1>4. ASSUME NEW a \in Agents, ResumeTimedOut(a) PROVE AdmissionInv'
    <2>1. PICK i \in 1 .. Len(waiters) : waiters[i] = a /\ waiters' = RemoveAt(waiters, i)
      BY <1>4 DEF ResumeTimedOut
    <2>2. /\ waiters' \in Seq(Agents)
          /\ ToSet(waiters') = ToSet(waiters) \ {a}
          /\ Distinct(waiters')
      BY <2>1, <1>0, SpliceFacts DEF TypeOK
    <2>3. a \in ToSet(waiters)
      BY <2>1, ToSetByIndex DEF TypeOK
    <2>4. SlotOwners' = SlotOwners
      BY <1>4, <2>2, <2>3 DEF ResumeTimedOut, SlotOwners, Granted, TypeOK
    <2>5. (TypeOK /\ IdleUnsettled)'
      BY <1>4, <2>2 DEF ResumeTimedOut, TypeOK, IdleUnsettled
    <2>6. waiters # <<>>
      BY <2>1 DEF TypeOK
    <2>7. (SlotsConserved /\ NoIdleSlotWhileQueued)'
      BY <1>4, <2>4, <2>6 DEF ResumeTimedOut, SlotsConserved, NoIdleSlotWhileQueued
    <2>8. QueueMatchesCallers'
      <3>1. \A x \in Agents : x \in ToSet(waiters') =>
                pc'[x] = "waiting" /\ race'[x] # "grant"
        BY <1>4, <1>q, <2>2 DEF ResumeTimedOut, TypeOK
      <3>2. \A j \in 1 .. Len(waiters') : /\ waiters'[j] \in Agents
                                          /\ waiters'[j] \in ToSet(waiters')
        BY <2>2, ToSetByIndex
      <3>3. \A x \in Agents : pc'[x] = "waiting" /\ race'[x] = "none"
                                => x \in ToSet(waiters')
        BY <1>4, <2>2 DEF ResumeTimedOut, TypeOK, QueueMatchesCallers
      <3> QED BY <2>2, <3>1, <3>2, <3>3 DEF QueueMatchesCallers, Distinct
    <2> QED BY <2>5, <2>7, <2>8
  <1>5. ASSUME NEW a \in Agents, ResumeGranted(a) PROVE AdmissionInv'
    <2>1. a \notin ToSet(waiters)
      BY <1>5, <1>q DEF ResumeGranted, TypeOK
    <2>2. SlotOwners' = SlotOwners
      BY <1>5, <2>1 DEF ResumeGranted, SlotOwners, Granted, TypeOK
    <2>3. (TypeOK /\ IdleUnsettled)'
      BY <1>5 DEF ResumeGranted, TypeOK, IdleUnsettled
    <2>4. (SlotsConserved /\ NoIdleSlotWhileQueued)'
      BY <1>5, <2>2 DEF ResumeGranted, SlotsConserved, NoIdleSlotWhileQueued
    <2>5. \A i \in 1 .. Len(waiters) : waiters[i] # a /\ waiters[i] \in Agents
      BY <2>1, ToSetByIndex DEF TypeOK
    <2>6. QueueMatchesCallers'
      BY <1>5, <2>5 DEF ResumeGranted, TypeOK, QueueMatchesCallers
    <2> QED BY <2>3, <2>4, <2>6
  <1>6. ASSUME NEW a \in Agents, HandOver(a) PROVE AdmissionInv'
    <2> DEFINE b == Head(waiters)
    <2>1. /\ b \in Agents /\ b \in ToSet(waiters)
          /\ waiters' \in Seq(Agents)
          /\ ToSet(waiters') = ToSet(waiters) \ {b}
          /\ Distinct(waiters')
      BY <1>6, <1>0, ShiftFacts DEF HandOver, TypeOK
    <2>2. pc[b] = "waiting" /\ race[b] # "grant" /\ b # a
      BY <2>1, <1>q, <1>6 DEF HandOver
    <2>3. /\ pc' = [pc EXCEPT ![a] = "released"]
          /\ race' = [race EXCEPT ![b] = IF race[b] = "none" THEN "grant" ELSE race[b]]
          /\ inUse' = inUse /\ pc[a] = "holding"
      BY <1>6 DEF HandOver
    <2> HIDE DEF b
    <2>4. /\ SlotOwners' = (SlotOwners \ {a}) \cup {b}
          /\ a \in SlotOwners /\ b \notin SlotOwners
      BY <2>1, <2>2, <2>3 DEF SlotOwners, Granted, TypeOK
    <2>5. (TypeOK /\ IdleUnsettled)'
      BY <2>1, <2>2, <2>3 DEF TypeOK, IdleUnsettled
    <2>6. (SlotsConserved /\ NoIdleSlotWhileQueued)'
      BY <1>6, <2>1, <2>3, <2>4, <1>f, Swap
      DEF HandOver, SlotsConserved, NoIdleSlotWhileQueued
    <2>7. QueueMatchesCallers'
      <3>1. \A x \in Agents : x \in ToSet(waiters') =>
                pc'[x] = "waiting" /\ race'[x] # "grant"
        BY <1>q, <2>1, <2>2, <2>3 DEF TypeOK
      <3>2. \A j \in 1 .. Len(waiters') : /\ waiters'[j] \in Agents
                                          /\ waiters'[j] \in ToSet(waiters')
        BY <2>1, ToSetByIndex
      <3>3. \A x \in Agents : pc'[x] = "waiting" /\ race'[x] = "none"
                                => x \in ToSet(waiters')
        BY <2>1, <2>2, <2>3 DEF TypeOK, QueueMatchesCallers
      <3> QED BY <2>1, <3>1, <3>2, <3>3 DEF QueueMatchesCallers, Distinct
    <2> QED BY <2>5, <2>6, <2>7
  <1>7. ASSUME NEW a \in Agents, Free(a) PROVE AdmissionInv'
    <2>1. SlotOwners' = SlotOwners \ {a} /\ a \in SlotOwners
      BY <1>7, <1>q DEF Free, SlotOwners, Granted, TypeOK
    <2>2. Cardinality(SlotOwners') = inUse - 1 /\ inUse - 1 \in Nat
      BY <2>1, <1>f, OneLess, OwnersFinite DEF SlotsConserved
    <2>3. (TypeOK /\ IdleUnsettled /\ SlotsConserved /\ NoIdleSlotWhileQueued)'
      BY <1>7, <2>2, CapAssumption
      DEF Free, TypeOK, IdleUnsettled, SlotsConserved, NoIdleSlotWhileQueued
    <2>4. QueueMatchesCallers'
      BY <1>7 DEF Free, TypeOK, QueueMatchesCallers
    <2> QED BY <2>3, <2>4
  <1>8. CASE Done \/ UNCHANGED vars
    <2>1. UNCHANGED <<inUse, waiters, race, pc>>
      BY <1>8 DEF Done, vars
    <2>2. SlotOwners' = SlotOwners
      BY <2>1 DEF SlotOwners, Granted
    <2>3. QueueMatchesCallers'
      BY <2>1 DEF QueueMatchesCallers
    <2> QED BY <2>1, <2>2, <2>3 DEF TypeOK, IdleUnsettled, SlotsConserved, NoIdleSlotWhileQueued
  <1> QED BY <1>1, <1>2, <1>3, <1>4, <1>5, <1>6, <1>7, <1>8 DEF Next

(* The accounting of the slots is exact in every reachable state.          *)
THEOREM AdmissionSafe ==
    Spec => [](TypeOK /\ SlotsConserved /\ NoIdleSlotWhileQueued /\ QueueMatchesCallers)
  <1>1. AdmissionInv => TypeOK /\ SlotsConserved /\ NoIdleSlotWhileQueued /\ QueueMatchesCallers
    BY DEF AdmissionInv
  <1> QED BY <1>1, InitInv, StepInv, PTL DEF Spec

-----------------------------------------------------------------------------
(* The abstract owners are the slot owners, the abstract queue the members *)
(* of waiters.                                                             *)
LEMMA AbstractSets ==
    ASSUME TypeOK, QueueMatchesCallers
    PROVE  /\ Slots!Owners = SlotOwners
           /\ Slots!Queued = ToSet(waiters)
  <1>1. \A x \in ToSet(waiters) : x \in Agents /\ pc[x] = "waiting"
    BY ToSetByIndex DEF TypeOK, QueueMatchesCallers
  <1>2. Slots!Owners = SlotOwners
    BY DEF Slots!Owners, SlotOwners, Granted, Standing, TypeOK
  <1>3. Slots!Queued = ToSet(waiters)
    BY <1>1 DEF Slots!Queued, Standing, TypeOK
  <1> QED BY <1>2, <1>3

(* The instance counts with the same Cardinality.                          *)
LEMMA SameCardinality == \A T : Slots!Cardinality(T) = Cardinality(T)
  BY DEF Slots!Cardinality, Cardinality

(* Each step of the code is a step of the pool or leaves it unchanged.     *)
LEMMA StepRefines ==
    ASSUME AdmissionInv, AdmissionInv', [Next]_vars
    PROVE  [Slots!Next]_([a \in Agents |-> Standing(a)])
  <1> DEFINE st == [a \in Agents |-> Standing(a)]
  <1> USE DEF AdmissionInv
  <1>0. Distinct(waiters)
    BY DEF QueueMatchesCallers, Distinct
  <1>s. Slots!Owners = SlotOwners /\ Slots!Queued = ToSet(waiters)
    BY AbstractSets
  <1>q. \A x \in ToSet(waiters) : x \in Agents /\ pc[x] = "waiting" /\ race[x] # "grant"
    BY ToSetByIndex DEF TypeOK, QueueMatchesCallers
  <1>1. ASSUME NEW a \in Agents, AcquireNow(a) PROVE Slots!Next
    <2>1. st' = [st EXCEPT ![a] = "owner"]
      BY <1>1 DEF AcquireNow, Standing, TypeOK
    <2>2. Slots!Enter(a)
      BY <1>1, <2>1, <1>s, SameCardinality DEF AcquireNow, Slots!Enter, Standing, SlotsConserved
    <2> QED BY <2>2 DEF Slots!Next
  <1>2. ASSUME NEW a \in Agents, Enqueue(a) PROVE Slots!Next
    <2>1. ToSet(waiters') = ToSet(waiters) \cup {a}
      BY <1>2, <1>0, <1>q, PushFacts DEF Enqueue, TypeOK
    <2>2. st' = [st EXCEPT ![a] = "queued"]
      BY <1>2, <2>1 DEF Enqueue, Standing, TypeOK
    <2>3. Cardinality(SlotOwners) = ADMISSION_CONCURRENCY
      BY <1>2, CapAssumption DEF Enqueue, SlotsConserved, TypeOK
    <2>4. st[a] = "outside"
      BY <1>2 DEF Enqueue, Standing
    <2>5. Slots!Queue(a)
      BY <2>2, <2>3, <2>4, <1>s, SameCardinality DEF Slots!Queue
    <2> QED BY <2>5 DEF Slots!Next
  <1>3. ASSUME NEW a \in Agents, TimerFires(a) PROVE st' = st
    BY <1>3 DEF TimerFires, Standing
  <1>4. ASSUME NEW a \in Agents, ResumeTimedOut(a) PROVE Slots!Next
    <2>1. ToSet(waiters') = ToSet(waiters) \ {a} /\ a \in ToSet(waiters)
      BY <1>4, <1>0, SpliceFacts, ToSetByIndex DEF ResumeTimedOut, TypeOK
    <2>2. st' = [st EXCEPT ![a] = "refused"]
      BY <1>4, <2>1 DEF ResumeTimedOut, Standing, TypeOK
    <2>3. Slots!Refuse(a)
      BY <1>4, <2>1, <2>2 DEF ResumeTimedOut, Slots!Refuse, Standing
    <2> QED BY <2>3 DEF Slots!Next
  <1>5. ASSUME NEW a \in Agents, ResumeGranted(a) PROVE st' = st
    <2>1. a \notin ToSet(waiters)
      BY <1>5, <1>q DEF ResumeGranted, TypeOK
    <2> QED BY <1>5, <2>1 DEF ResumeGranted, Standing, TypeOK
  <1>6. ASSUME NEW a \in Agents, HandOver(a) PROVE Slots!Next
    <2> DEFINE b == Head(waiters)
    <2>1. b \in ToSet(waiters) /\ ToSet(waiters') = ToSet(waiters) \ {b}
      BY <1>6, <1>0, ShiftFacts DEF HandOver, TypeOK
    <2>2. /\ b \in Agents /\ pc[b] = "waiting" /\ b # a /\ pc[a] = "holding"
          /\ pc' = [pc EXCEPT ![a] = "released"]
      BY <2>1, <1>q, <1>6 DEF HandOver
    <2> HIDE DEF b
    <2>3. st' = [st EXCEPT ![a] = "left", ![b] = "owner"]
      BY <2>1, <2>2 DEF Standing, TypeOK
    <2>4. Slots!Leave(a)
      BY <2>1, <2>2, <2>3, <1>s DEF Slots!Leave, Standing
    <2> QED BY <2>4 DEF Slots!Next
  <1>7. ASSUME NEW a \in Agents, Free(a) PROVE Slots!Next
    <2>1. st' = [st EXCEPT ![a] = "left"]
      BY <1>7 DEF Free, Standing, TypeOK
    <2>2. ToSet(waiters) = {}
      BY <1>7 DEF Free, ToSet
    <2>3. Slots!Leave(a)
      BY <1>7, <2>1, <2>2, <1>s DEF Free, Slots!Leave, Standing
    <2> QED BY <2>3 DEF Slots!Next
  <1>8. ASSUME Done \/ UNCHANGED vars PROVE st' = st
    <2>1. UNCHANGED <<waiters, pc>>
      BY <1>8 DEF Done, vars
    <2> QED BY <2>1 DEF Standing
  <1> QED BY <1>1, <1>2, <1>3, <1>4, <1>5, <1>6, <1>7, <1>8 DEF Next

(* admission.ts implements the slot pool: at most the cap of owners, and a *)
(* freed slot goes to a queued caller in the step that frees it.           *)
THEOREM AdmissionRefines == Spec => ImplementsSlots
  <1>1. Init => Slots!Init
    BY DEF Init, Slots!Init, Standing
  <1> QED BY <1>1, InitInv, StepInv, StepRefines, PTL DEF Spec, ImplementsSlots, Slots!Spec

-----------------------------------------------------------------------------
(* The close of a run.                                                       *)

Outcomes == {"success", "failed", "aborted"}

Bounded ==
    /\ mix \in RunMixes
    /\ prompts \in 0 .. mix.prompts /\ stops \in 0 .. mix.stops /\ restarts \in 0 .. mix.restarts

(* An agent that was released is out of the registry and is not forked any   *)
(* more; one that ended without a sandbox is not started again.              *)
Rows ==
    /\ n \in All /\ boxed \in SUBSET Members /\ reg \in SUBSET boxed /\ forking \in SUBSET Members
    /\ state \in [All -> TERMINAL \cup LIVE] /\ outcome \in [All -> Outcomes \cup {"none"}]
    /\ handle \in [All -> Outcomes \cup {"pending"}] /\ released \in [All -> Nat]
    /\ inbox \in SUBSET All /\ deliver \in SUBSET All
    /\ forking \cap boxed = {}
    /\ \A a \in All : /\ ended(a) => a \in Members
                      /\ released[a] > 0 => ended(a) /\ a \notin reg \cup forking
                      /\ ended(a) /\ a \notin boxed => state[a] \in TERMINAL

(* The loop of the finalizer holds the claim, and a run is closed once while *)
(* the daemon lives. What it has still to close has ended, and the agent it  *)
(* closes has a sandbox.                                                     *)
Loop ==
    /\ run \in [closing : BOOLEAN, closed : BOOLEAN, events : Nat] /\ fin \in SUBSET Members
    /\ ClosedOnce
    /\ fin # {} => run.closing /\ (restarts = 0 => ~run.closed)
    /\ (\A a \in fin : ended(a)) /\ (fin # {} => Min(fin) \in boxed)

Stopping ==
    /\ stopping \in [All -> {"no", "releasing", "aborting"}]
    /\ \A a \in All : /\ stopping[a] # "no" => a \in boxed
                      /\ stopping[a] = "releasing" => ended(a)

Deleting ==
    /\ del \in [Deletes -> [pc : {"unsent", "loop", "aborting", "done"}, todo : SUBSET Members]]
    /\ busy \in Deletes \cup {Nobody}
    /\ \A d \in Deletes : /\ busy = d => del[d].pc = "loop"
                          /\ del[d].pc = "aborting" => del[d].todo # {}

(* A turn is followed of an agent that has had a sandbox.                    *)
Followed ==
    /\ turns \in [All -> Nat]
    /\ \A a \in All : turns[a] > 0 => a \in boxed

CloseInv == Bounded /\ Rows /\ Followed /\ Loop /\ Stopping /\ Deleting

(* What a step must do: a claim lists whoever is open, and nobody leaves the *)
(* list who is still open.                                                   *)
LeavesNothing ==
    /\ ~run.closing /\ run'.closing => {a \in reg' : outcome'[a] # "none"} \subseteq fin'
    /\ \A a \in fin \ fin' : a \notin reg'

StepIsGood == restarts' = restarts => LeavesNothing

(* The claim as finalizeRun() leaves it, whoever calls it.                   *)
Claims ==
    /\ ~run.closing
    /\ fin' = NextOpen({a \in Members' : outcome'[a] # "none"}, reg')
    /\ run' \in [closing : BOOLEAN, closed : BOOLEAN, events : Nat] /\ run'.closing
    /\ IF fin' = {} THEN run'.closed /\ run'.events = run.events + 1
                    ELSE run'.closed = run.closed /\ run'.events = run.events

-----------------------------------------------------------------------------
LEMMA Smallest ==
    ASSUME NEW S \in SUBSET Nat, S # {}
    PROVE  Min(S) \in S /\ \A x \in S : Min(S) <= x
<1>1. PICK m \in S : \A x \in S : m <= x
  <2>1. PICK T : T = S
    OBVIOUS
  <2>2. T # {} /\ T \subseteq Nat
    BY <2>1
  <2>3. PICK m \in T : \A x \in T : <<x, m>> \notin OpToRel(<, Nat)
    BY <2>2, WFMin, NatLessThanWellFounded
  <2>4. \A x \in T : ~(x < m)
    BY <2>2, <2>3 DEF OpToRel
  <2>5. \A x \in T : m <= x
    BY <2>2, <2>4
  <2> QED
    BY <2>1, <2>5
<1> QED
  BY <1>1 DEF Min

(* What the finalizer has left begins with an open member, and misses none.  *)
LEMMA OpenFacts ==
    ASSUME NEW todo \in SUBSET Nat, NEW r, NEW rest, rest = NextOpen(todo, r)
    PROVE  /\ rest \subseteq todo /\ todo \cap r \subseteq rest
           /\ rest # {} => Min(rest) \in r
           /\ \A a \in todo \ rest : a \notin r
<1>1. rest = {a \in todo : \E b \in todo \cap r : b <= a}
  BY DEF NextOpen
<1>2. \A a \in todo \cap r : a <= a
  OBVIOUS
<1>3. rest \subseteq todo /\ todo \cap r \subseteq rest
  BY <1>1, <1>2
<1>4. ASSUME rest # {} PROVE Min(rest) \in r
  <2>1. rest \in SUBSET Nat
    BY <1>3
  <2>2. PICK m : m = Min(rest) /\ m \in rest /\ \A x \in rest : m <= x
    BY <1>4, <2>1, Smallest
  <2>3. PICK b \in todo \cap r : b <= m
    BY <1>1, <2>2
  <2>4. b \in rest /\ m <= b
    BY <1>3, <2>2, <2>3
  <2>5. b = m
    BY <2>1, <2>2, <2>3, <2>4
  <2> QED
    BY <2>2, <2>3, <2>5
<1> QED
  BY <1>3, <1>4

LEMMA MembersAreAll ==
    ASSUME Rows PROVE n \in Nat /\ N \in Nat /\ n <= N /\ Members \subseteq All
<1>1. N \in Nat /\ n \in 1 .. N
  BY RunAssumption DEF Rows, All
<1>2. n \in Nat /\ n <= N /\ 1 .. n \subseteq 1 .. N
  BY <1>1
<1> QED
  BY <1>1, <1>2 DEF All, Members

LEMMA MoreMembers ==
    ASSUME Rows, n' \in All, n <= n' PROVE Members \subseteq Members' /\ Members' \subseteq All
<1>1. N \in Nat /\ n \in 1 .. N /\ n' \in 1 .. N
  BY RunAssumption DEF Rows, All
<1>2. 1 .. n \subseteq 1 .. n' /\ 1 .. n' \subseteq 1 .. N
  BY <1>1
<1> QED
  BY <1>2 DEF All, Members

(* The loop, when a step claims the run or leaves the loop alone.            *)
LEMMA LoopFacts ==
    ASSUME CloseInv, UNCHANGED <<run, fin>> \/ Claims, restarts' = restarts,
           n' \in All, n <= n', boxed \subseteq boxed', reg' \subseteq boxed', boxed' \subseteq Members',
           \A a \in All : ended(a) => outcome'[a] # "none"
    PROVE  Loop' /\ LeavesNothing
<1>1. Loop /\ Rows /\ Bounded
  BY DEF CloseInv
<1>2. Members \subseteq Members' /\ Members' \subseteq All
  BY <1>1, MoreMembers
<1>3. CASE UNCHANGED <<run, fin>>
  <2>1. fin' \in SUBSET Members' /\ \A a \in fin' : outcome'[a] # "none"
    BY <1>1, <1>2, <1>3 DEF Loop
  <2>2. ClosedOnce'
    BY <1>1, <1>3 DEF Loop, ClosedOnce
  <2>3. LeavesNothing
    BY <1>3 DEF LeavesNothing
  <2>4. fin' # {} => run'.closing /\ (restarts' = 0 => ~run'.closed) /\ Min(fin') \in boxed'
    BY <1>1, <1>3 DEF Loop
  <2> QED
    BY <1>1, <1>3, <2>1, <2>2, <2>3, <2>4 DEF Loop, ended
<1>4. CASE Claims
  <2>1. PICK todo : todo = {a \in Members' : outcome'[a] # "none"}
    OBVIOUS
  <2>2. todo \in SUBSET Nat
    BY <2>1 DEF Members
  <2>3. PICK r : r = reg'
    OBVIOUS
  <2>4. PICK rest : rest = fin'
    OBVIOUS
  <2>5. rest = NextOpen(todo, r)
    BY <1>4, <2>1, <2>3, <2>4 DEF Claims
  <2>6. /\ rest \subseteq todo /\ todo \cap r \subseteq rest
        /\ rest # {} => Min(rest) \in r
    BY <2>2, <2>5, OpenFacts
  <2>7. fin = {}
    BY <1>1, <1>4 DEF Claims, Loop
  <2>8. LeavesNothing
    BY <2>1, <2>3, <2>4, <2>6, <2>7 DEF LeavesNothing
  <2>9. /\ run' \in [closing : BOOLEAN, closed : BOOLEAN, events : Nat]
        /\ run'.closing
        /\ fin' = {} => run'.closed /\ run'.events = run.events + 1
        /\ fin' # {} => run'.closed = run.closed /\ run'.events = run.events
    BY <1>4 DEF Claims
  <2>10. run.events \in Nat /\ (run.closed <=> run.events > 0) /\ (restarts = 0 => run.events = 0 /\ ~run.closed)
    BY <1>1, <1>4 DEF Claims, Loop, ClosedOnce
  <2>11. ClosedOnce'
    <3>1. run'.closed <=> run'.events > 0
      BY <2>9, <2>10
    <3>2. restarts = 0 => run'.events <= 1
      BY <2>9, <2>10
    <3> QED
      BY <2>9, <3>1, <3>2 DEF ClosedOnce
  <2>12. fin' # {} => run'.closing /\ (restarts' = 0 => ~run'.closed) /\ Min(fin') \in boxed'
    BY <2>3, <2>4, <2>6, <2>9, <2>10
  <2>13. fin' \in SUBSET Members' /\ \A a \in fin' : outcome'[a] # "none"
    BY <2>1, <2>4, <2>6
  <2>14. Loop'
    BY <2>9, <2>11, <2>12, <2>13 DEF Loop, ended
  <2> QED
    BY <2>8, <2>14
<1> QED
  BY <1>3, <1>4

LEMMA BoundedStays == ASSUME CloseInv, UNCHANGED budget PROVE Bounded'
  BY DEF CloseInv, Bounded, budget

LEMMA FollowedStays == ASSUME CloseInv, turns' = turns, boxed \subseteq boxed' PROVE Followed'
  BY DEF CloseInv, Followed

LEMMA OneMoreTurn ==
    ASSUME CloseInv, NEW a \in All, Follows(a), a \in boxed', boxed \subseteq boxed' PROVE Followed'
<1>1. turns \in [All -> Nat] /\ turns' = [turns EXCEPT ![a] = turns[a] + 1]
  BY DEF CloseInv, Followed, Follows
<1>2. turns' \in [All -> Nat] /\ \A b \in All : b # a => turns'[b] = turns[b]
  BY <1>1
<1> QED
  BY <1>2 DEF CloseInv, Followed

LEMMA OneTurnLess ==
    ASSUME CloseInv, NEW a \in All, turns[a] > 0, turns' = [turns EXCEPT ![a] = @ - 1], boxed' = boxed
    PROVE  Followed' /\ a \in boxed /\ a \in Members
<1>1. turns \in [All -> Nat] /\ a \in boxed
  BY DEF CloseInv, Followed
<1>2. turns[a] - 1 \in Nat
  BY <1>1
<1>3. turns' \in [All -> Nat] /\ \A b \in All : b # a => turns'[b] = turns[b]
  BY <1>1, <1>2
<1>4. Followed'
  BY <1>1, <1>3 DEF CloseInv, Followed
<1> QED
  BY <1>1, <1>4 DEF CloseInv, Rows

LEMMA StoppingStays ==
    ASSUME CloseInv, stopping' = stopping, boxed \subseteq boxed', \A a \in All : ended(a) => outcome'[a] # "none"
    PROVE  Stopping'
  BY DEF CloseInv, Stopping, ended

LEMMA DeletingStays == ASSUME CloseInv, UNCHANGED <<del, busy>>, Members \subseteq Members' PROVE Deleting'
<1>1. Deleting
  BY DEF CloseInv
<1>2. \A d \in Deletes : del[d] \in [pc : {"unsent", "loop", "aborting", "done"}, todo : SUBSET Members']
  BY <1>1 DEF Deleting
<1> QED
  BY <1>1, <1>2 DEF Deleting

(* agent.ended: the row, the notifications, and whoever watches.             *)
LEMMA EndFacts ==
    ASSUME CloseInv, NEW a \in Members, NEW st \in TERMINAL, NEW o \in Outcomes, NEW h \in Outcomes,
           state' = [state EXCEPT ![a] = st], outcome' = [outcome EXCEPT ![a] = o],
           handle' = [handle EXCEPT ![a] = h],
           inbox' = inbox \cup Subscribers(a), deliver' = deliver \cup Subscribers(a),
           UNCHANGED <<n, released, boxed>>, reg' \subseteq reg, forking' \subseteq forking
    PROVE  Rows' /\ Members' = Members /\ \A b \in All : ended(b) => outcome'[b] # "none"
<1>1. Rows
  BY DEF CloseInv
<1>2. Members \subseteq All /\ Members' = Members
  BY <1>1, MembersAreAll DEF Members
<1>3. Subscribers(a) \subseteq All
  BY <1>2 DEF Subscribers
<1>4. /\ state' \in [All -> TERMINAL \cup LIVE] /\ outcome' \in [All -> Outcomes \cup {"none"}]
      /\ handle' \in [All -> Outcomes \cup {"pending"}]
      /\ inbox' \in SUBSET All /\ deliver' \in SUBSET All
  BY <1>1, <1>2, <1>3 DEF Rows
<1>5. /\ \A b \in All : ended(b) => outcome'[b] # "none"
      /\ \A b \in All : b # a => outcome'[b] = outcome[b] /\ state'[b] = state[b]
      /\ state'[a] \in TERMINAL
  BY <1>1, <1>2 DEF Rows, ended, Outcomes
<1>6. ASSUME NEW b \in All
      PROVE  /\ outcome'[b] # "none" => b \in Members'
             /\ released'[b] > 0 => outcome'[b] # "none" /\ b \notin reg' \cup forking'
             /\ outcome'[b] # "none" /\ b \notin boxed' => state'[b] \in TERMINAL
  BY <1>1, <1>2, <1>5 DEF Rows, ended
<1>7. /\ n' \in All /\ boxed' \in SUBSET Members' /\ reg' \in SUBSET boxed' /\ forking' \in SUBSET Members'
      /\ released' \in [All -> Nat] /\ forking' \cap boxed' = {}
  BY <1>1, <1>2 DEF Rows
<1> QED
  BY <1>2, <1>4, <1>5, <1>6, <1>7 DEF Rows, ended

(* What an agent that ends does to the run.                                  *)
Ends == UNCHANGED <<run, fin>> \/ Claims

LEMMA EndsAreGood ==
    ASSUME CloseInv, Ends, restarts' = restarts, Rows', n <= n', boxed \subseteq boxed',
           \A a \in All : ended(a) => outcome'[a] # "none"
    PROVE  Loop' /\ StepIsGood
<1>1. n' \in All /\ reg' \subseteq boxed' /\ boxed' \subseteq Members'
  BY DEF Rows
<1>2. Loop' /\ LeavesNothing
  BY <1>1, LoopFacts DEF Ends
<1> QED
  BY <1>2 DEF StepIsGood

-----------------------------------------------------------------------------
(* The actions of a run: each keeps the invariant and is good.               *)

LEMMA SameEnded == ASSUME CloseInv, outcome' = outcome PROVE \A a \in All : ended(a) => outcome'[a] # "none"
  BY DEF ended

LEMMA RunClosedFacts ==
    ASSUME NEW claim \in [closing : BOOLEAN, closed : BOOLEAN, events : Nat]
    PROVE  /\ RunClosed(claim) \in [closing : BOOLEAN, closed : BOOLEAN, events : Nat]
           /\ RunClosed(claim).closing = claim.closing /\ RunClosed(claim).closed
           /\ RunClosed(claim).events = claim.events + 1
<1>1. claim.events + 1 \in Nat
  OBVIOUS
<1> QED
  BY <1>1 DEF RunClosed

LEMMA ClaimedRun ==
    ASSUME CloseInv, NEW claim, claim = [run EXCEPT !.closing = TRUE]
    PROVE  /\ claim \in [closing : BOOLEAN, closed : BOOLEAN, events : Nat]
           /\ claim.closing /\ claim.closed = run.closed /\ claim.events = run.events
  BY DEF CloseInv, Loop

LEMMA FinalizeNextIsGood == ASSUME CloseInv, FinalizeNext PROVE CloseInv' /\ StepIsGood
<1>1. /\ fin # {} /\ reg' = reg \ {Min(fin)} /\ fin' = NextOpen(fin \ {Min(fin)}, reg')
      /\ run' = (IF fin' = {} THEN RunClosed(run) ELSE run)
      /\ released' = [released EXCEPT ![Min(fin)] = released[Min(fin)] + 1]
      /\ UNCHANGED <<n, state, turns, outcome, handle, boxed, inbox, forking, deliver, stopping, del, busy>>
      /\ UNCHANGED budget
  BY DEF FinalizeNext
<1>2. Rows /\ Loop
  BY DEF CloseInv
<1>3. n \in Nat /\ Members \subseteq All /\ Members' = Members
  BY <1>1, <1>2, MembersAreAll DEF Members
<1>4. fin \in SUBSET Nat
  BY <1>2 DEF Loop, Members
<1>5. PICK a : a = Min(fin) /\ a \in fin /\ a \in Members /\ a \in boxed /\ ended(a)
  BY <1>1, <1>2, <1>4, Smallest DEF Loop
<1>6. Rows'
  <2>1. released' \in [All -> Nat] /\ \A b \in All : released'[b] > 0 => b = a \/ released[b] > 0
    BY <1>1, <1>2, <1>3, <1>5 DEF Rows
  <2>2. ASSUME NEW b \in All
        PROVE  /\ ended(b)' => b \in Members'
               /\ released'[b] > 0 => ended(b)' /\ b \notin reg' \cup forking'
               /\ ended(b)' /\ b \notin boxed' => state'[b] \in TERMINAL
    BY <1>1, <1>2, <1>3, <1>5, <2>1 DEF Rows, ended
  <2> QED
    BY <1>1, <1>2, <1>3, <2>1, <2>2 DEF Rows
<1>7. Loop' /\ \A b \in fin \ fin' : b \notin reg'
  <2>1. PICK todo : todo = fin \ {a}
    OBVIOUS
  <2>2. PICK r : r = reg'
    OBVIOUS
  <2>3. PICK rest : rest = fin'
    OBVIOUS
  <2>4. rest = NextOpen(todo, r) /\ todo \in SUBSET Nat
    BY <1>1, <1>4, <1>5, <2>1, <2>2, <2>3
  <2>5. /\ rest \subseteq todo /\ (rest # {} => Min(rest) \in r)
        /\ \A b \in todo \ rest : b \notin r
    BY <2>4, OpenFacts
  <2>6. \A b \in fin \ fin' : b \notin reg'
    BY <1>1, <1>5, <2>1, <2>2, <2>3, <2>5
  <2>7. /\ fin' \in SUBSET Members' /\ \A b \in fin' : ended(b)'
        /\ fin' # {} => Min(fin') \in boxed'
    <3>1. reg' \subseteq boxed'
      BY <1>6 DEF Rows
    <3>2. fin' \subseteq fin
      BY <2>1, <2>3, <2>5
    <3>3. fin' # {} => Min(fin') \in boxed'
      BY <2>2, <2>3, <2>5, <3>1
    <3>4. \A b \in fin' : ended(b)'
      BY <1>1, <1>2, <3>2 DEF Loop, ended
    <3> QED
      BY <1>2, <1>3, <3>2, <3>3, <3>4 DEF Loop
  <2>8. /\ run \in [closing : BOOLEAN, closed : BOOLEAN, events : Nat] /\ run.closing
        /\ (run.closed <=> run.events > 0) /\ (restarts = 0 => ~run.closed)
    BY <1>1, <1>2 DEF Loop, ClosedOnce
  <2>9. restarts' = restarts
    BY <1>1 DEF budget
  <2>10. CASE fin' = {}
    <3>1. /\ run' \in [closing : BOOLEAN, closed : BOOLEAN, events : Nat]
          /\ run'.closing /\ run'.closed /\ run'.events = run.events + 1
      BY <1>1, <2>8, <2>10, RunClosedFacts
    <3>2. ClosedOnce'
      BY <2>8, <2>9, <3>1 DEF ClosedOnce
    <3> QED
      BY <2>6, <2>7, <2>10, <3>1, <3>2 DEF Loop
  <2>11. CASE fin' # {}
    <3>1. run' = run
      BY <1>1, <2>11
    <3>2. ClosedOnce'
      BY <1>2, <2>9, <3>1 DEF Loop, ClosedOnce
    <3> QED
      BY <2>6, <2>7, <2>8, <2>9, <3>1, <3>2 DEF Loop
  <2> QED
    BY <2>10, <2>11
<1>8. run.closing
  BY <1>1, <1>2 DEF Loop
<1>9. Stopping' /\ Deleting' /\ Bounded' /\ Followed'
  BY <1>1, <1>3, SameEnded, StoppingStays, DeletingStays, BoundedStays, FollowedStays
<1> QED
  BY <1>6, <1>7, <1>8, <1>9 DEF CloseInv, StepIsGood, LeavesNothing

LEMMA DeleteBeginIsGood == ASSUME CloseInv, NEW d \in Deletes, DeleteBegin(d) PROVE CloseInv' /\ StepIsGood
<1>1. /\ busy = Nobody /\ busy' = d
      /\ del' = [del EXCEPT ![d] = [pc |-> "loop", todo |-> {a \in Members : ~ended(a)}]]
      /\ UNCHANGED <<rows, turns, inbox, run, reg, forking, deliver, stopping, fin>> /\ UNCHANGED budget
  BY DEF DeleteBegin
<1>2. UNCHANGED <<n, state, turns, outcome, handle, released, boxed, inbox, run, reg, forking, deliver, stopping, fin>>
      /\ restarts' = restarts
  BY <1>1 DEF rows, budget
<1>3. Rows' /\ Members' = Members /\ n <= n' /\ boxed \subseteq boxed'
  BY <1>2, MembersAreAll DEF CloseInv, Rows, Members, ended
<1>4. Loop' /\ StepIsGood
  BY <1>2, <1>3, SameEnded, EndsAreGood DEF Ends
<1>5. Deleting'
  <2>1. PICK todo : todo = {a \in Members : ~ended(a)}
    OBVIOUS
  <2>2. todo \in SUBSET Members /\ del' = [del EXCEPT ![d] = [pc |-> "loop", todo |-> todo]]
    BY <1>1, <2>1
  <2> QED
    BY <1>1, <1>3, <2>2 DEF CloseInv, Deleting
<1>6. Stopping' /\ Bounded' /\ Followed'
  BY <1>1, <1>2, SameEnded, StoppingStays, BoundedStays, FollowedStays
<1> QED
  BY <1>3, <1>4, <1>5, <1>6 DEF CloseInv

LEMMA DeleteAbortIsGood == ASSUME CloseInv, NEW d \in Deletes, DeleteAbort(d) PROVE CloseInv' /\ StepIsGood
<1>1. /\ busy = d /\ busy' = Nobody
      /\ del' = [del EXCEPT ![d].pc = "aborting"]
      /\ UNCHANGED <<rows, turns, inbox, run, reg, forking, deliver, stopping, fin>> /\ UNCHANGED budget
  BY DEF DeleteAbort
<1>2. UNCHANGED <<n, state, turns, outcome, handle, released, boxed, inbox, run, reg, forking, deliver, stopping, fin>>
      /\ restarts' = restarts
  BY <1>1 DEF rows, budget
<1>3. Rows' /\ Members' = Members /\ n <= n' /\ boxed \subseteq boxed'
  BY <1>2, MembersAreAll DEF CloseInv, Rows, Members, ended
<1>4. Loop' /\ StepIsGood
  BY <1>2, <1>3, SameEnded, EndsAreGood DEF Ends
<1>5. Deleting'
  <2>1. Nobody \notin Deletes
    BY RunAssumption
  <2>2. del[d].todo # {}
    BY DEF DeleteAbort
  <2>3. /\ del' \in [Deletes -> [pc : {"unsent", "loop", "aborting", "done"}, todo : SUBSET Members]]
        /\ del'[d].todo = del[d].todo /\ \A c \in Deletes \ {d} : del'[c] = del[c]
    BY <1>1 DEF CloseInv, Deleting
  <2> QED
    BY <1>1, <1>3, <2>1, <2>2, <2>3 DEF CloseInv, Deleting
<1>6. Stopping' /\ Bounded' /\ Followed'
  BY <1>1, <1>2, SameEnded, StoppingStays, BoundedStays, FollowedStays
<1> QED
  BY <1>3, <1>4, <1>5, <1>6 DEF CloseInv

(* A run that reacts to what a step did.                                     *)
Reacted ==
    \/ UNCHANGED <<run, fin>>
    \/ /\ ~run.closing /\ fin' = NextOpen({b \in 1 .. n : outcome'[b] # "none"}, reg')
       /\ run' = IF fin' = {} THEN RunClosed([run EXCEPT !.closing = TRUE]) ELSE [run EXCEPT !.closing = TRUE]

LEMMA ReactedEnds == ASSUME CloseInv, Reacted, n' = n PROVE Ends
<1>1. Members' = 1 .. n
  BY DEF Members
<1>3. CASE ~(UNCHANGED <<run, fin>>)
  <2>1. ~run.closing
    BY <1>3 DEF Reacted
  <2>2. fin' = NextOpen({b \in Members' : outcome'[b] # "none"}, reg')
    BY <1>1, <1>3 DEF Reacted
  <2>3. PICK claim : claim = [run EXCEPT !.closing = TRUE]
    OBVIOUS
  <2>4. run' = IF fin' = {} THEN RunClosed(claim) ELSE claim
    BY <1>3, <2>3 DEF Reacted
  <2> QED
    BY <2>1, <2>2, <2>3, <2>4, ClaimedRun, RunClosedFacts DEF Ends, Claims
<1> QED
  BY <1>3 DEF Ends

(* A step that ends an agent.                                                *)
Ending(a, st, o, h) ==
    /\ state' = [state EXCEPT ![a] = st] /\ outcome' = [outcome EXCEPT ![a] = o]
    /\ handle' = [handle EXCEPT ![a] = h]
    /\ inbox' = inbox \cup Subscribers(a) /\ deliver' = deliver \cup Subscribers(a)

LEMMA Settles ==
    ASSUME CloseInv, NEW a \in Members, NEW o \in Outcomes PROVE SettleIfPending(a, o) \in Outcomes
  BY MembersAreAll DEF CloseInv, Rows, SettleIfPending

LEMMA EndingIsGood ==
    ASSUME CloseInv, NEW a \in Members, NEW st \in TERMINAL, NEW o \in Outcomes, NEW h \in Outcomes,
           Ending(a, st, o, h), Reacted, restarts' = restarts,
           UNCHANGED <<n, released, boxed>>, reg' \subseteq reg, forking' \subseteq forking
    PROVE  /\ Rows' /\ Loop' /\ StepIsGood /\ Members' = Members
           /\ boxed \subseteq boxed' /\ \A b \in All : ended(b) => outcome'[b] # "none"
<1>1. Rows' /\ Members' = Members /\ \A b \in All : ended(b) => outcome'[b] # "none"
  BY EndFacts DEF Ending
<1>2. Ends
  BY ReactedEnds
<1>3. n <= n' /\ boxed \subseteq boxed'
  BY MembersAreAll DEF CloseInv
<1> QED
  BY <1>1, <1>2, <1>3, EndsAreGood

LEMMA DeleteEndsIsGood == ASSUME CloseInv, NEW d \in Deletes, DeleteEnds(d) PROVE CloseInv' /\ StepIsGood
<1>1. PICK a : a = Min(del[d].todo)
  OBVIOUS
<1>2. PICK h : h = SettleIfPending(a, "aborted")
  OBVIOUS
<1>3. /\ busy' = d
      /\ del' = [del EXCEPT ![d] = [pc |-> "loop", todo |-> del[d].todo \ {a}]]
      /\ Ending(a, "aborted", "aborted", h)
      /\ UNCHANGED <<n, turns, released, boxed, reg, forking, stopping>> /\ UNCHANGED budget
  BY <1>1, <1>2 DEF DeleteEnds, EndAgent, Ending
<1>4. Reacted
  <2>1. React(state', outcome', inbox', reg, n)
    BY DEF DeleteEnds, EndAgent
  <2> QED
    BY <1>3, <2>1 DEF React, finalizeRun, Claimable, Reacted
<1>5. a \in Members
  <2>1. del[d].todo \in SUBSET Members /\ del[d].todo # {}
    BY DEF DeleteEnds, CloseInv, Deleting
  <2>2. PICK todo : todo = del[d].todo
    OBVIOUS
  <2>3. todo \in SUBSET Nat /\ todo # {}
    BY <2>1, <2>2 DEF Members
  <2> QED
    BY <1>1, <2>1, <2>2, <2>3, Smallest
<1>6. h \in Outcomes /\ "aborted" \in Outcomes /\ "aborted" \in TERMINAL
  BY <1>2, <1>5, Settles DEF Outcomes, TERMINAL
<1>7. /\ Rows' /\ Loop' /\ StepIsGood /\ Members' = Members
      /\ boxed \subseteq boxed' /\ \A b \in All : ended(b) => outcome'[b] # "none"
  BY <1>3, <1>4, <1>5, <1>6, EndingIsGood DEF budget
<1>8. Deleting'
  <2>1. del[d].todo \ {a} \in SUBSET Members
    BY DEF CloseInv, Deleting
  <2>2. PICK todo \in SUBSET Members : todo = del[d].todo \ {a}
    BY <2>1
  <2>3. del' = [del EXCEPT ![d] = [pc |-> "loop", todo |-> todo]]
    BY <1>3, <2>2
  <2> QED
    BY <1>3, <1>7, <2>3 DEF CloseInv, Deleting
<1>9. Stopping' /\ Bounded' /\ Followed'
  BY <1>3, <1>7, StoppingStays, BoundedStays, FollowedStays
<1> QED
  BY <1>7, <1>8, <1>9 DEF CloseInv

(* A claim that is not made by a listener.                                   *)
LEMMA FinalizeClaims ==
    ASSUME CloseInv, finalizeRun(outcome, reg, n), UNCHANGED <<outcome, reg, n>>
    PROVE  UNCHANGED <<run, fin>> \/ Claims
<1>1. Members' = 1 .. n
  BY DEF Members
<1>2. CASE ~(UNCHANGED <<run, fin>>)
  <2>1. PICK claim : claim = [run EXCEPT !.closing = TRUE]
    OBVIOUS
  <2>2. /\ ~run.closing /\ fin' = NextOpen({b \in 1 .. n : outcome[b] # "none"}, reg)
        /\ run' = IF fin' = {} THEN RunClosed(claim) ELSE claim
    BY <1>2, <2>1 DEF finalizeRun, Claimable
  <2>3. fin' = NextOpen({b \in Members' : outcome'[b] # "none"}, reg')
    BY <1>1, <2>2
  <2> QED
    BY <2>1, <2>2, <2>3, ClaimedRun, RunClosedFacts DEF Claims
<1> QED
  BY <1>2

LEMMA DeleteFinalizeIsGood == ASSUME CloseInv, NEW d \in Deletes, DeleteFinalize(d) PROVE CloseInv' /\ StepIsGood
<1>1. /\ busy = d /\ busy' = Nobody /\ del' = [del EXCEPT ![d].pc = "done"]
      /\ finalizeRun(outcome, reg, n)
      /\ UNCHANGED <<n, state, turns, outcome, handle, released, boxed, inbox, reg, forking, deliver, stopping>>
      /\ UNCHANGED budget
  BY DEF DeleteFinalize, rows
<1>2. Rows' /\ Members' = Members /\ n <= n' /\ boxed \subseteq boxed'
  BY <1>1, MembersAreAll DEF CloseInv, Rows, Members, ended
<1>3. UNCHANGED <<run, fin>> \/ Claims
  BY <1>1, FinalizeClaims
<1>4. Loop' /\ LeavesNothing
  <2>1. n' \in All /\ reg' \subseteq boxed' /\ boxed' \subseteq Members'
    BY <1>2 DEF Rows
  <2> QED
    BY <1>1, <1>2, <1>3, <2>1, SameEnded, LoopFacts DEF budget
<1>5. del[d].pc = "loop" /\ del'[d].pc = "done"
  BY <1>1 DEF CloseInv, Deleting
<1>7. Deleting'
  <2>1. Nobody \notin Deletes
    BY RunAssumption
  <2>2. /\ del' \in [Deletes -> [pc : {"unsent", "loop", "aborting", "done"}, todo : SUBSET Members]]
        /\ \A c \in Deletes \ {d} : del'[c] = del[c]
    BY <1>1 DEF CloseInv, Deleting
  <2> QED
    BY <1>1, <1>2, <1>5, <2>1, <2>2 DEF CloseInv, Deleting
<1>8. Stopping' /\ Bounded' /\ Followed'
  BY <1>1, <1>2, SameEnded, StoppingStays, BoundedStays, FollowedStays
<1> QED
  BY <1>2, <1>4, <1>7, <1>8 DEF CloseInv, StepIsGood

LEMMA TurnEndsIsGood == ASSUME CloseInv, NEW a \in All, TurnEnds(a) PROVE CloseInv' /\ StepIsGood
<1>1. PICK st \in {"done", "failed"}, o \in {"success", "failed"} : EndAgent(a, st, o, o, reg)
  BY DEF TurnEnds
<1>2. /\ Ending(a, st, o, o)
      /\ UNCHANGED <<n, released, boxed, reg, forking, stopping, del, busy>> /\ UNCHANGED budget
  BY <1>1 DEF TurnEnds, EndAgent, Ending
<1>3. Followed' /\ a \in Members
  BY <1>2, OneTurnLess DEF TurnEnds
<1>4. Reacted
  <2>1. React(state', outcome', inbox', reg, n)
    BY <1>1 DEF EndAgent
  <2> QED
    BY <1>2, <2>1 DEF React, finalizeRun, Claimable, Reacted
<1>5. st \in TERMINAL /\ o \in Outcomes
  BY DEF TERMINAL, Outcomes
<1>6. /\ Rows' /\ Loop' /\ StepIsGood /\ Members' = Members
      /\ boxed \subseteq boxed' /\ \A b \in All : ended(b) => outcome'[b] # "none"
  BY <1>2, <1>4, <1>5, <1>3, EndingIsGood DEF budget
<1>7. Stopping' /\ Bounded' /\ Deleting'
  BY <1>2, <1>6, StoppingStays, BoundedStays, DeletingStays
<1> QED
  BY <1>6, <1>7, <1>3 DEF CloseInv

LEMMA FollowerYieldsIsGood == ASSUME CloseInv, NEW a \in All, FollowerYields(a) PROVE CloseInv' /\ StepIsGood
<1>1. /\ UNCHANGED <<n, state, outcome, handle, released, boxed, inbox, run, reg, forking, deliver, stopping, fin, del, busy>>
      /\ restarts' = restarts /\ UNCHANGED budget
  BY DEF FollowerYields, rows, budget
<1>2. Rows' /\ Members' = Members /\ n <= n' /\ boxed \subseteq boxed'
  BY <1>1, MembersAreAll DEF CloseInv, Rows, Members, ended
<1>3. Loop' /\ StepIsGood
  BY <1>1, <1>2, SameEnded, EndsAreGood DEF Ends
<1>4. Followed'
  BY <1>1, OneTurnLess DEF FollowerYields
<1>5. Stopping' /\ Bounded' /\ Deleting'
  BY <1>1, <1>2, SameEnded, StoppingStays, BoundedStays, DeletingStays
<1> QED
  BY <1>2, <1>3, <1>4, <1>5 DEF CloseInv

LEMMA PromptIsGood == ASSUME CloseInv, NEW a \in All, Prompt(a) PROVE CloseInv' /\ StepIsGood
<1>1. /\ a \in reg /\ prompts < mix.prompts /\ prompts' = prompts + 1
      /\ state' = [state EXCEPT ![a] = "running"] /\ inbox' = inbox \ {a}
      /\ UNCHANGED <<n, outcome, handle, released, boxed, run, reg, forking, deliver, stopping,
                     fin, del, busy, mix, stops, restarts>>
  BY DEF Prompt
<1>2. Rows' /\ Members' = Members /\ n <= n' /\ boxed \subseteq boxed'
  <2>1. n <= n' /\ Members' = Members
    BY <1>1, MembersAreAll DEF CloseInv, Members
  <2>2. a \in boxed
    BY <1>1 DEF CloseInv, Rows
  <2> QED
    BY <1>1, <2>1, <2>2 DEF CloseInv, Rows, ended, LIVE
<1>3. Loop' /\ StepIsGood
  BY <1>1, <1>2, SameEnded, EndsAreGood DEF Ends
<1>4. Bounded'
  <2>1. mix.prompts \in Nat
    BY RunAssumption DEF CloseInv, Bounded
  <2>2. prompts' \in 0 .. mix.prompts
    BY <1>1, <2>1 DEF CloseInv, Bounded
  <2> QED
    BY <1>1, <2>2 DEF CloseInv, Bounded
<1>5. Stopping' /\ Deleting'
  BY <1>1, <1>2, SameEnded, StoppingStays, DeletingStays
<1>6. Followed'
  <2>1. a \in boxed'
    BY <1>1 DEF CloseInv, Rows
  <2> QED
    BY <1>2, <2>1, OneMoreTurn DEF Prompt
<1> QED
  BY <1>2, <1>3, <1>4, <1>5, <1>6 DEF CloseInv

LEMMA SpawnIsGood == ASSUME CloseInv, NEW p \in All, Spawn(p) PROVE CloseInv' /\ StepIsGood
<1>1. /\ n < mix.members /\ n' = n + 1 /\ forking' = forking \cup {n + 1}
      /\ UNCHANGED <<state, turns, outcome, handle, released, boxed, inbox, run, reg, deliver,
                     stopping, fin, del, busy>> /\ UNCHANGED budget
  BY DEF Spawn
<1>2. /\ n \in Nat /\ N \in Nat /\ mix.members \in Nat /\ mix.members <= N /\ n \in 1 .. N
      /\ n' \in All /\ n <= n' /\ n + 1 \in Members' /\ n + 1 \notin Members
  <2>1. n \in Nat /\ N \in Nat /\ n \in 1 .. N
    BY MembersAreAll DEF CloseInv, Rows, All
  <2>2. mix.members \in 1 .. N
    BY RunAssumption DEF CloseInv, Bounded
  <2>3. n' = n + 1 /\ n < mix.members
    BY <1>1
  <2> QED
    BY <2>1, <2>2, <2>3 DEF All, Members
<1>3. Members \subseteq Members'
  BY <1>2, MoreMembers DEF CloseInv
<1>4. Rows'
  <2>1. ASSUME NEW b \in All
        PROVE  /\ ended(b) => b \in Members'
               /\ released[b] > 0 => ended(b) /\ b \notin reg \cup forking'
               /\ ended(b) /\ b \notin boxed => state[b] \in TERMINAL
    BY <1>1, <1>2, <1>3 DEF CloseInv, Rows
  <2>2. boxed' \in SUBSET Members' /\ forking' \in SUBSET Members' /\ forking' \cap boxed' = {}
    BY <1>1, <1>2, <1>3 DEF CloseInv, Rows
  <2> QED
    BY <1>1, <1>2, <2>1, <2>2 DEF CloseInv, Rows, ended
<1>5. Loop' /\ StepIsGood
  BY <1>1, <1>2, <1>4, SameEnded, EndsAreGood DEF Ends, budget
<1>6. Stopping' /\ Deleting' /\ Bounded' /\ Followed'
  BY <1>1, <1>3, SameEnded, StoppingStays, DeletingStays, BoundedStays, FollowedStays
<1> QED
  BY <1>4, <1>5, <1>6 DEF CloseInv

LEMMA RootStartsIsGood == ASSUME CloseInv, RootStarts PROVE CloseInv' /\ StepIsGood
<1>1. /\ 1 \in forking /\ forking' = forking \ {1} /\ reg' = reg \cup {1} /\ boxed' = boxed \cup {1}
      /\ state' = [state EXCEPT ![1] = "running"]
      /\ UNCHANGED <<n, outcome, handle, released, inbox, run, deliver, stopping, fin, del, busy>>
      /\ UNCHANGED budget
  BY DEF RootStarts
<1>2. 1 \in Members /\ Members' = Members /\ n <= n' /\ Members \subseteq All
  BY <1>1, MembersAreAll DEF CloseInv, Rows, Members
<1>3. Rows'
  <2>1. \A b \in All \ {1} : state'[b] = state[b]
    BY <1>1, <1>2 DEF CloseInv, Rows
  <2>2. ASSUME NEW b \in All
        PROVE  /\ ended(b) => b \in Members'
               /\ released[b] > 0 => ended(b) /\ b \notin reg' \cup forking'
               /\ ended(b) /\ b \notin boxed' => state'[b] \in TERMINAL
    BY <1>1, <1>2, <2>1 DEF CloseInv, Rows
  <2>3. state' \in [All -> TERMINAL \cup LIVE] /\ boxed' \in SUBSET Members' /\ reg' \in SUBSET boxed'
        /\ forking' \in SUBSET Members' /\ forking' \cap boxed' = {}
    BY <1>1, <1>2 DEF CloseInv, Rows, LIVE
  <2> QED
    BY <1>1, <2>2, <2>3 DEF CloseInv, Rows, ended
<1>4. Loop' /\ StepIsGood
  BY <1>1, <1>2, <1>3, SameEnded, EndsAreGood DEF Ends, budget
<1>5. Stopping' /\ Deleting' /\ Bounded'
  BY <1>1, <1>2, SameEnded, StoppingStays, DeletingStays, BoundedStays
<1>6. Followed'
  BY <1>1, <1>2, OneMoreTurn DEF RootStarts
<1> QED
  BY <1>3, <1>4, <1>5, <1>6 DEF CloseInv

LEMMA ForkDoneIsGood == ASSUME CloseInv, NEW c \in All, ForkDone(c) PROVE CloseInv' /\ StepIsGood
<1>1. /\ c \in forking /\ forking' = forking \ {c}
      /\ UNCHANGED <<n, outcome, handle, inbox, deliver, stopping, del, busy>> /\ UNCHANGED budget
  BY DEF ForkDone
<1>2. c \in Members /\ Members' = Members /\ n <= n' /\ Members \subseteq All
  BY <1>1, MembersAreAll DEF CloseInv, Rows, Members
<1>3. c \notin boxed
  BY <1>1 DEF CloseInv, Rows
<1>4. Rows' /\ boxed \subseteq boxed' /\ Ends
  <2>1. CASE ended(c)
    <3>1. /\ released' = [released EXCEPT ![c] = released[c] + 1] /\ UNCHANGED <<state, reg, boxed>>
          /\ React(state, outcome, inbox, reg, n)
      BY <2>1 DEF ForkDone
    <3>2. Reacted
      BY <1>1, <3>1 DEF React, finalizeRun, Claimable, Reacted
    <3>3. Ends
      BY <1>1, <3>2, ReactedEnds
    <3>4. released' \in [All -> Nat] /\ \A b \in All : released'[b] > 0 => b = c \/ released[b] > 0
      BY <1>2, <3>1 DEF CloseInv, Rows
    <3>5. c \notin reg'
      BY <1>3, <3>1 DEF CloseInv, Rows
    <3>6. ASSUME NEW b \in All
          PROVE  /\ ended(b) => b \in Members'
                 /\ released'[b] > 0 => ended(b) /\ b \notin reg' \cup forking'
                 /\ ended(b) /\ b \notin boxed' => state'[b] \in TERMINAL
      BY <1>1, <1>2, <2>1, <3>1, <3>4, <3>5 DEF CloseInv, Rows
    <3> QED
      BY <1>1, <1>2, <3>1, <3>3, <3>4, <3>6 DEF CloseInv, Rows, ended
  <2>2. CASE ~ended(c)
    <3>1. /\ state' = [state EXCEPT ![c] = "running"] /\ reg' = reg \cup {c} /\ boxed' = boxed \cup {c}
          /\ UNCHANGED <<released, run, fin>>
      BY <2>2 DEF ForkDone
    <3>2. \A b \in All \ {c} : state'[b] = state[b]
      BY <1>2, <3>1 DEF CloseInv, Rows
    <3>3. ASSUME NEW b \in All
          PROVE  /\ ended(b) => b \in Members'
                 /\ released[b] > 0 => ended(b) /\ b \notin reg' \cup forking'
                 /\ ended(b) /\ b \notin boxed' => state'[b] \in TERMINAL
      BY <1>1, <1>2, <2>2, <3>1, <3>2 DEF CloseInv, Rows
    <3>4. state' \in [All -> TERMINAL \cup LIVE] /\ boxed' \in SUBSET Members' /\ reg' \in SUBSET boxed'
          /\ forking' \in SUBSET Members' /\ forking' \cap boxed' = {}
      BY <1>1, <1>2, <3>1 DEF CloseInv, Rows, LIVE
    <3> QED
      BY <1>1, <1>2, <3>1, <3>3, <3>4 DEF CloseInv, Rows, ended, Ends
  <2> QED
    BY <2>1, <2>2
<1>5. Loop' /\ StepIsGood
  BY <1>1, <1>2, <1>4, SameEnded, EndsAreGood DEF budget
<1>6. Stopping' /\ Deleting' /\ Bounded'
  BY <1>1, <1>2, <1>4, SameEnded, StoppingStays, DeletingStays, BoundedStays
<1>7. Followed'
  <2>1. CASE ended(c)
    BY <1>4, <2>1, FollowedStays DEF ForkDone
  <2>2. CASE ~ended(c)
    BY <1>4, <2>2, OneMoreTurn DEF ForkDone
  <2> QED
    BY <2>1, <2>2
<1> QED
  BY <1>4, <1>5, <1>6, <1>7 DEF CloseInv

LEMMA ForkFailsIsGood == ASSUME CloseInv, NEW c \in All, ForkFails(c) PROVE CloseInv' /\ StepIsGood
<1>1. /\ c \in forking /\ forking' = forking \ {c}
      /\ UNCHANGED <<n, turns, released, boxed, reg, stopping, del, busy>> /\ UNCHANGED budget
  BY DEF ForkFails
<1>2. c \in Members /\ Members' = Members /\ n <= n' /\ Members \subseteq All
  BY <1>1, MembersAreAll DEF CloseInv, Rows, Members
<1>3. /\ Rows' /\ Loop' /\ StepIsGood
      /\ boxed \subseteq boxed' /\ \A b \in All : ended(b) => outcome'[b] # "none"
  <2>1. CASE c # 1 /\ ended(c)
    <3>1. UNCHANGED <<state, outcome, handle, inbox, deliver, run, fin>>
      BY <2>1 DEF ForkFails
    <3>2. Rows' /\ boxed \subseteq boxed'
      BY <1>1, <1>2, <3>1 DEF CloseInv, Rows, ended
    <3> QED
      BY <1>1, <1>2, <3>1, <3>2, SameEnded, EndsAreGood DEF Ends, budget
  <2>2. CASE ~(c # 1 /\ ended(c))
    <3>1. PICK h : h = SettleIfPending(c, "failed")
      OBVIOUS
    <3>2. EndAgent(c, "failed", "failed", h, reg)
      BY <2>2, <3>1 DEF ForkFails
    <3>3. Ending(c, "failed", "failed", h)
      BY <3>2 DEF EndAgent, Ending
    <3>4. Reacted
      <4>1. React(state', outcome', inbox', reg, n)
        BY <3>2 DEF EndAgent
      <4> QED
        BY <1>1, <4>1 DEF React, finalizeRun, Claimable, Reacted
    <3>5. h \in Outcomes /\ "failed" \in Outcomes /\ "failed" \in TERMINAL
      BY <1>2, <3>1, Settles DEF Outcomes, TERMINAL
    <3>6. reg' \subseteq reg /\ forking' \subseteq forking
      BY <1>1
    <3> QED
      BY <1>1, <1>2, <3>3, <3>4, <3>5, <3>6, EndingIsGood DEF budget
  <2> QED
    BY <2>1, <2>2
<1>4. Stopping' /\ Deleting' /\ Bounded' /\ Followed'
  BY <1>1, <1>2, <1>3, StoppingStays, DeletingStays, BoundedStays, FollowedStays
<1> QED
  BY <1>3, <1>4 DEF CloseInv

LEMMA DeliverIsGood == ASSUME CloseInv, NEW s \in All, Deliver(s) PROVE CloseInv' /\ StepIsGood
<1>1. /\ deliver' = deliver \ {s}
      /\ UNCHANGED <<n, outcome, handle, released, boxed, reg, forking, stopping, del, busy>>
      /\ UNCHANGED budget
  BY DEF Deliver
<1>2. Members' = Members /\ n <= n' /\ Members \subseteq All /\ boxed \subseteq boxed'
  BY <1>1, MembersAreAll DEF CloseInv, Members
<1>3. /\ inbox' \in {inbox, inbox \ {s}}
      /\ state' = state \/ (s \in reg /\ state' = [state EXCEPT ![s] = "running"])
      /\ UNCHANGED <<run, fin>> \/ React(state', outcome, inbox', reg, n)
  <2>1. CASE s \notin inbox \/ (s \notin reg /\ ~ended(s))
    BY <2>1 DEF Deliver
  <2>2. CASE ~(s \notin inbox \/ (s \notin reg /\ ~ended(s)))
    <3>1. CASE state[s] = "aborted" \/ s \notin reg
      BY <2>2, <3>1 DEF Deliver
    <3>2. CASE ~(state[s] = "aborted" \/ s \notin reg)
      <4>1. /\ s \in reg /\ UNCHANGED <<run, fin>>
            /\ \/ inbox' = inbox \ {s} /\ UNCHANGED state
               \/ UNCHANGED <<inbox, state>>
               \/ inbox' = inbox \ {s} /\ state' = [state EXCEPT ![s] = "running"]
        BY <2>2, <3>2 DEF Deliver
      <4> QED
        BY <4>1
    <3> QED
      BY <3>1, <3>2
  <2> QED
    BY <2>1, <2>2
<1>4. Rows'
  <2>1. inbox' \in SUBSET All /\ deliver' \in SUBSET All
    BY <1>1, <1>3 DEF CloseInv, Rows
  <2>2. /\ state' \in [All -> TERMINAL \cup LIVE]
        /\ \A b \in All : b \notin boxed => state'[b] = state[b]
    BY <1>2, <1>3 DEF CloseInv, Rows, LIVE
  <2>3. ASSUME NEW b \in All PROVE ended(b) /\ b \notin boxed => state'[b] \in TERMINAL
    BY <2>2 DEF CloseInv, Rows
  <2> QED
    BY <1>1, <1>2, <2>1, <2>2, <2>3 DEF CloseInv, Rows, ended
<1>5. Ends
  <2>1. CASE UNCHANGED <<run, fin>>
    BY <2>1 DEF Ends
  <2>2. CASE React(state', outcome, inbox', reg, n)
    <3>1. Reacted
      BY <1>1, <2>2 DEF React, finalizeRun, Claimable, Reacted
    <3> QED
      BY <1>1, <3>1, ReactedEnds
  <2> QED
    BY <1>3, <2>1, <2>2
<1>6. Loop' /\ StepIsGood
  BY <1>1, <1>2, <1>4, <1>5, SameEnded, EndsAreGood DEF budget
<1>7. Stopping' /\ Deleting' /\ Bounded'
  BY <1>1, <1>2, SameEnded, StoppingStays, DeletingStays, BoundedStays
<1>8. Followed'
  <2>1. turns' = turns \/ (s \in reg /\ Follows(s))
    BY DEF Deliver
  <2>2. s \in reg => s \in boxed'
    BY <1>1 DEF CloseInv, Rows
  <2> QED
    BY <1>2, <2>1, <2>2, FollowedStays, OneMoreTurn
<1> QED
  BY <1>4, <1>6, <1>7, <1>8 DEF CloseInv

LEMMA StopBeginIsGood == ASSUME CloseInv, NEW a \in All, StopBegin(a) PROVE CloseInv' /\ StepIsGood
<1>1. /\ a \in Members /\ stops < mix.stops /\ stops' = stops + 1
      /\ UNCHANGED <<n, turns, released, boxed, reg, forking, del, busy, mix, prompts, restarts>>
  BY DEF StopBegin
<1>2. Members' = Members /\ n <= n' /\ Members \subseteq All /\ boxed \subseteq boxed' /\ reg \subseteq boxed
  BY <1>1, MembersAreAll DEF CloseInv, Rows, Members
<1>3. Bounded'
  <2>1. mix.stops \in Nat
    BY RunAssumption DEF CloseInv, Bounded
  <2>2. stops' \in 0 .. mix.stops
    BY <1>1, <2>1 DEF CloseInv, Bounded
  <2> QED
    BY <1>1, <2>2 DEF CloseInv, Bounded
<1>4. Deleting' /\ Followed'
  BY <1>1, <1>2, DeletingStays, FollowedStays
<1>5. Rows' /\ Loop' /\ StepIsGood /\ Stopping'
  <2>1. CASE /\ ended(a) /\ a \in reg
             /\ stopping' = [stopping EXCEPT ![a] = "releasing"]
             /\ UNCHANGED <<state, outcome, handle, inbox, deliver, run, fin>>
    <3>1. Rows'
      BY <1>1, <1>2, <2>1 DEF CloseInv, Rows, ended
    <3>2. Loop' /\ StepIsGood
      BY <1>1, <1>2, <2>1, <3>1, SameEnded, EndsAreGood DEF Ends
    <3>3. Stopping'
      BY <1>1, <1>2, <2>1 DEF CloseInv, Stopping, ended
    <3> QED
      BY <3>1, <3>2, <3>3
  <2>2. CASE /\ ~ended(a) /\ a \in reg
             /\ stopping' = [stopping EXCEPT ![a] = "aborting"]
             /\ state' = [state EXCEPT ![a] = "aborted"]
             /\ UNCHANGED <<outcome, handle, inbox, deliver, run, fin>>
    <3>1. /\ state' \in [All -> TERMINAL \cup LIVE]
          /\ \A b \in All : b \notin boxed => state'[b] = state[b]
      BY <1>2, <2>2 DEF CloseInv, Rows, TERMINAL
    <3>2. ASSUME NEW b \in All PROVE ended(b) /\ b \notin boxed => state'[b] \in TERMINAL
      BY <3>1 DEF CloseInv, Rows
    <3>3. Rows'
      BY <1>1, <1>2, <2>2, <3>1, <3>2 DEF CloseInv, Rows, ended
    <3>4. Loop' /\ StepIsGood
      BY <1>1, <1>2, <2>2, <3>3, SameEnded, EndsAreGood DEF Ends
    <3>5. Stopping'
      BY <1>1, <1>2, <2>2 DEF CloseInv, Stopping, ended
    <3> QED
      BY <3>3, <3>4, <3>5
  <2>3. CASE /\ ~ended(a) /\ a \notin reg
             /\ EndAgent(a, "aborted", "aborted", SettleIfPending(a, "aborted"), reg)
             /\ UNCHANGED stopping
    <3>1. PICK h : h = SettleIfPending(a, "aborted")
      OBVIOUS
    <3>2. Ending(a, "aborted", "aborted", h)
      BY <2>3, <3>1 DEF EndAgent, Ending
    <3>3. Reacted
      <4>1. React(state', outcome', inbox', reg, n)
        BY <2>3 DEF EndAgent
      <4> QED
        BY <1>1, <4>1 DEF React, finalizeRun, Claimable, Reacted
    <3>4. h \in Outcomes /\ "aborted" \in Outcomes /\ "aborted" \in TERMINAL
      BY <1>1, <3>1, Settles DEF Outcomes, TERMINAL
    <3>5. /\ Rows' /\ Loop' /\ StepIsGood
          /\ boxed \subseteq boxed' /\ \A b \in All : ended(b) => outcome'[b] # "none"
      BY <1>1, <3>2, <3>3, <3>4, EndingIsGood
    <3>6. Stopping'
      BY <2>3, <3>5, StoppingStays
    <3> QED
      BY <3>5, <3>6
  <2> QED
    BY <2>1, <2>2, <2>3 DEF StopBegin
<1> QED
  BY <1>3, <1>4, <1>5 DEF CloseInv

LEMMA StopEndIsGood == ASSUME CloseInv, NEW a \in All, StopEnd(a) PROVE CloseInv' /\ StepIsGood
<1>1. /\ stopping[a] # "no" /\ stopping' = [stopping EXCEPT ![a] = "no"] /\ reg' = reg \ {a}
      /\ UNCHANGED <<n, turns, boxed, forking, del, busy>> /\ UNCHANGED budget
  BY DEF StopEnd
<1>2. /\ Members' = Members /\ n <= n' /\ Members \subseteq All /\ boxed \subseteq boxed'
      /\ a \in boxed /\ a \in Members /\ a \notin forking
  <2>1. Members' = Members /\ n <= n' /\ Members \subseteq All /\ boxed \subseteq boxed'
    BY <1>1, MembersAreAll DEF CloseInv, Members
  <2>2. a \in boxed
    BY <1>1 DEF CloseInv, Stopping
  <2>3. a \in Members /\ a \notin forking
    BY <2>2 DEF CloseInv, Rows
  <2> QED
    BY <2>1, <2>2, <2>3
<1>3. Rows' /\ Loop' /\ StepIsGood /\ \A b \in All : ended(b) => outcome'[b] # "none"
  <2>1. CASE /\ stopping[a] = "releasing"
             /\ released' = [released EXCEPT ![a] = @ + 1]
             /\ React(state, outcome, inbox, reg', n)
             /\ UNCHANGED <<state, outcome, handle, inbox, deliver>>
    <3>1. Reacted
      BY <1>1, <2>1 DEF React, finalizeRun, Claimable, Reacted
    <3>2. Ends
      BY <1>1, <3>1, ReactedEnds
    <3>3. ended(a)
      BY <2>1 DEF CloseInv, Stopping
    <3>4. released' \in [All -> Nat] /\ \A b \in All : released'[b] > 0 => b = a \/ released[b] > 0
      BY <1>2, <2>1 DEF CloseInv, Rows
    <3>5. ASSUME NEW b \in All
          PROVE  /\ ended(b) => b \in Members'
                 /\ released'[b] > 0 => ended(b) /\ b \notin reg' \cup forking'
                 /\ ended(b) /\ b \notin boxed' => state'[b] \in TERMINAL
      BY <1>1, <1>2, <2>1, <3>3, <3>4 DEF CloseInv, Rows
    <3>6. Rows'
      BY <1>1, <1>2, <2>1, <3>4, <3>5 DEF CloseInv, Rows, ended
    <3> QED
      BY <1>1, <1>2, <2>1, <3>2, <3>6, SameEnded, EndsAreGood DEF budget
  <2>2. CASE /\ stopping[a] = "aborting"
             /\ EndAgent(a, "aborted", "aborted", SettleIfPending(a, "aborted"), reg')
             /\ UNCHANGED released
    <3>1. PICK h : h = SettleIfPending(a, "aborted")
      OBVIOUS
    <3>2. Ending(a, "aborted", "aborted", h)
      BY <2>2, <3>1 DEF EndAgent, Ending
    <3>3. Reacted
      <4>1. React(state', outcome', inbox', reg', n)
        BY <2>2 DEF EndAgent
      <4> QED
        BY <1>1, <4>1 DEF React, finalizeRun, Claimable, Reacted
    <3>4. h \in Outcomes /\ "aborted" \in Outcomes /\ "aborted" \in TERMINAL
      BY <1>2, <3>1, Settles DEF Outcomes, TERMINAL
    <3>5. reg' \subseteq reg /\ forking' \subseteq forking
      BY <1>1
    <3> QED
      BY <1>1, <1>2, <2>2, <3>2, <3>3, <3>4, <3>5, EndingIsGood DEF budget
  <2> QED
    BY <2>1, <2>2 DEF StopEnd
<1>4. Stopping'
  BY <1>1, <1>2, <1>3 DEF CloseInv, Stopping, ended
<1>5. Deleting' /\ Bounded' /\ Followed'
  BY <1>1, <1>2, DeletingStays, BoundedStays, FollowedStays
<1> QED
  BY <1>3, <1>4, <1>5 DEF CloseInv

LEMMA RestartIsGood == ASSUME CloseInv, Restart PROVE CloseInv' /\ StepIsGood
<1>1. /\ busy = Nobody /\ restarts < mix.restarts /\ restarts' = restarts + 1
      /\ run' = [run EXCEPT !.closing = FALSE] /\ fin' = {}
      /\ \E back \in SUBSET (boxed \ reg) : reg' = {a \in reg \cup back : Reconnects(a)}
      /\ turns' = [a \in All |-> IF a \in reg' /\ state[a] = "running" /\ handle[a] = "pending" THEN 1 ELSE 0]
      /\ forking' = {a \in Members \ boxed : state[a] \in LIVE}
      /\ deliver' = inbox /\ stopping' = [a \in All |-> "no"]
      /\ del' = [d \in Deletes |-> [pc |-> IF del[d].pc = "unsent" THEN "unsent" ELSE "done", todo |-> {}]]
      /\ UNCHANGED <<n, state, outcome, handle, released, boxed, inbox, busy, mix, prompts, stops>>
  BY DEF Restart, rows
<1>2. restarts \in Nat /\ mix.restarts \in Nat
  BY RunAssumption DEF CloseInv, Bounded
<1>3. Bounded' /\ restarts' # restarts /\ restarts' # 0
  <2>1. restarts' \in 0 .. mix.restarts /\ restarts' # restarts /\ restarts' # 0
    BY <1>1, <1>2
  <2> QED
    BY <1>1, <2>1 DEF CloseInv, Bounded
<1>4. Members' = Members /\ Members \subseteq All
  BY <1>1, MembersAreAll DEF CloseInv, Members
<1>5. reg' \in SUBSET boxed /\ \A b \in reg' : released[b] = 0
  BY <1>1 DEF CloseInv, Rows, Reconnects
<1>6. Followed'
  BY <1>1, <1>5 DEF Followed
<1>7. Rows'
  <2>1. ASSUME NEW b \in All
        PROVE  /\ ended(b) => b \in Members'
               /\ released[b] > 0 => ended(b) /\ b \notin reg' \cup forking'
               /\ ended(b) /\ b \notin boxed => state[b] \in TERMINAL
    <3>1. released[b] > 0 => b \notin forking'
      BY <1>1 DEF CloseInv, Rows, TERMINAL, LIVE
    <3>2. released[b] > 0 => b \notin reg'
      BY <1>5 DEF CloseInv, Rows
    <3> QED
      BY <1>4, <3>1, <3>2 DEF CloseInv, Rows
  <2>2. reg' \in SUBSET boxed /\ forking' \in SUBSET Members /\ forking' \cap boxed = {} /\ deliver' \in SUBSET All
    BY <1>1, <1>5 DEF CloseInv, Rows
  <2> QED
    BY <1>1, <1>4, <2>1, <2>2 DEF CloseInv, Rows, ended
<1>8. Loop' /\ ~run'.closing
  <2>1. /\ run' \in [closing : BOOLEAN, closed : BOOLEAN, events : Nat]
        /\ run'.closed = run.closed /\ run'.events = run.events /\ ~run'.closing
    BY <1>1 DEF CloseInv, Loop
  <2>2. ClosedOnce'
    BY <1>3, <2>1 DEF CloseInv, Loop, ClosedOnce
  <2> QED
    BY <1>1, <2>1, <2>2 DEF Loop
<1>9. Stopping'
  BY <1>1 DEF Stopping
<1>10. Deleting'
  <2>1. Nobody \notin Deletes
    BY RunAssumption
  <2>2. ASSUME NEW d \in Deletes
        PROVE  del'[d] \in [pc : {"unsent", "loop", "aborting", "done"}, todo : SUBSET Members']
               /\ del'[d].pc \in {"unsent", "done"}
    BY <1>1
  <2> QED
    BY <1>1, <2>1, <2>2 DEF Deleting
<1> QED
  BY <1>3, <1>7, <1>8, <1>9, <1>10, <1>6 DEF CloseInv, StepIsGood

LEMMA InitClose == CloseInit => CloseInv
<1> SUFFICES ASSUME CloseInit PROVE CloseInv
  OBVIOUS
<1> USE DEF CloseInit
<1>1. N \in Nat /\ 1 \in All /\ Members = {1}
  BY RunAssumption DEF All, Members
<1>2. Bounded
  BY RunAssumption DEF Bounded
<1>3. Rows
  BY <1>1 DEF Rows, LIVE, ended
<1>4. Loop
  BY DEF Loop, ClosedOnce
<1>5. Stopping
  BY DEF Stopping
<1>6. Deleting
  BY RunAssumption DEF Deleting
<1>7. Followed
  BY DEF Followed
<1> QED
  BY <1>2, <1>3, <1>4, <1>5, <1>6, <1>7 DEF CloseInv

LEMMA StepClose == ASSUME CloseInv, CloseNext PROVE CloseInv' /\ StepIsGood
<1>1. CASE FinalizeNext
  BY <1>1, FinalizeNextIsGood
<1>2. CASE \E d \in Deletes : DeleteBegin(d) \/ DeleteAbort(d) \/ DeleteEnds(d) \/ DeleteFinalize(d)
  BY <1>2, DeleteBeginIsGood, DeleteAbortIsGood, DeleteEndsIsGood, DeleteFinalizeIsGood
<1>3. CASE RootStarts \/ Restart
  BY <1>3, RootStartsIsGood, RestartIsGood
<1>4. CASE \E a \in All : ForkDone(a) \/ ForkFails(a) \/ TurnEnds(a) \/ FollowerYields(a) \/ StopEnd(a)
  BY <1>4, ForkDoneIsGood, ForkFailsIsGood, TurnEndsIsGood, FollowerYieldsIsGood, StopEndIsGood
<1>5. CASE \E a \in All : Deliver(a) \/ Prompt(a) \/ Spawn(a) \/ StopBegin(a)
  BY <1>5, DeliverIsGood, PromptIsGood, SpawnIsGood, StopBeginIsGood
<1> QED
  BY <1>1, <1>2, <1>3, <1>4, <1>5 DEF CloseNext, DeleteStep, Settle, Ask

LEMMA StutterClose == ASSUME CloseInv, UNCHANGED closeVars PROVE CloseInv'
<1>1. Members' = Members
  BY DEF closeVars, Members
<1>2. Bounded' /\ Rows'
  BY <1>1 DEF CloseInv, closeVars, Bounded, Rows, ended
<1>3. Loop' /\ Stopping' /\ Deleting' /\ Followed'
  BY <1>1 DEF CloseInv, closeVars, Loop, ClosedOnce, Stopping, Deleting, Followed, ended
<1> QED
  BY <1>2, <1>3 DEF CloseInv

LEMMA CloseAlways == CloseSpec => [](CloseInv) /\ [][CloseNext /\ CloseInv /\ CloseInv']_closeVars
<1>1. CloseInv /\ [CloseNext]_closeVars => CloseInv'
  BY StepClose, StutterClose
<1> QED
  BY <1>1, InitClose, PTL DEF CloseSpec

(* What closes a run closes whoever was open, and once while the daemon      *)
(* lives; what was released stays out of the registry, also across a restart.*)
THEOREM ClosesLeaveNothing == CloseSpec => CloseLeavesNothing
<1>1. CloseInv => ClosedOnce
  BY DEF CloseInv, Loop
<1>2. ASSUME CloseNext, CloseInv, CloseInv'
      PROVE  /\ restarts' = restarts =>
                   /\ ~run.closing /\ run'.closing => {a \in reg' : outcome'[a] # "none"} \subseteq fin'
                   /\ \A a \in fin \ fin' : a \notin reg'
             /\ ReleasedIsGone'
  <2>1. StepIsGood
    BY <1>2, StepClose
  <2>2. ReleasedIsGone'
    <3>1. Rows'
      BY <1>2 DEF CloseInv
    <3>2. Members' \subseteq All
      <4>1. CloseInv => Members \subseteq All
        BY MembersAreAll DEF CloseInv
      <4>2. n' \in 1 .. N
        BY <3>1 DEF Rows, All
      <4>3. 1 .. n' \subseteq 1 .. N
        BY <4>2, RunAssumption
      <4> QED
        BY <4>3 DEF Members, All
    <3> QED
      BY <3>1, <3>2 DEF Rows, ReleasedIsGone
  <2> QED
    BY <2>1, <2>2 DEF StepIsGood, LeavesNothing
<1> QED
  BY <1>1, <1>2, CloseAlways, PTL DEF CloseLeavesNothing

THEOREM ClosesTyped == CloseSpec => []CloseTypeOK
<1>1. CloseInv => CloseTypeOK
  <2> SUFFICES ASSUME CloseInv PROVE CloseTypeOK
    OBVIOUS
  <2>1. Members \subseteq All
    BY MembersAreAll DEF CloseInv
  <2> QED
    BY <2>1 DEF CloseInv, Bounded, Rows, Followed, Loop, Stopping, Deleting, CloseTypeOK, Outcomes, LIVE, TERMINAL
<1> QED
  BY <1>1, CloseAlways, PTL

-----------------------------------------------------------------------------
(* A command on a subtree: the types of its state, and what holds of a       *)
(* member, of its lock and of each sweep.                                    *)
AgentStates == {"none", "provisioning", "running", "paused", "done", "failed", "aborted", "lost"}
SpawnStates == {"off", "asked", "forking", "inject", "joining", "joined", "unpaused"}
SweepRow == [state : AgentStates, from : AgentStates, ended : BOOLEAN, sandbox : BOOLEAN]
LockEntry == [by : Sweeps \cup {None}, op : Ops]
StepAt == [at : {"pausing", "resuming", "checking", "aborting", "releasing"}, from : AgentStates]
Answers == {"none", "pending", "skipped", "applied", "failed"}
SweepRecord ==
    [phase : {"new", "first", "second", "done"}, todo : SUBSET TreeAgents, level : SUBSET TreeAgents,
     late : SUBSET TreeAgents, res : [TreeAgents -> Answers], alone : BOOLEAN, last : BOOLEAN]

(* The types of a sweep's state.                                             *)
SweepTypes ==
    /\ sweepMix \in MixOfSweeps /\ 1 \notin sweepMix.born
    /\ row \in [TreeAgents -> SweepRow]
    /\ sweepReg \subseteq TreeAgents /\ turn \subseteq TreeAgents /\ frozen \subseteq TreeAgents
    /\ spawn \in [TreeAgents -> SpawnStates]
    /\ sweepPrompts \in [TreeAgents -> Nat]
    /\ lock \in [TreeAgents -> Seq(LockEntry)]
    /\ step \in [TreeAgents -> {NoStep} \cup StepAt]
    /\ sweep \in [Sweeps -> SweepRecord]

(* The entry of a child that joins a pause (provisionChild()).               *)
Joins == [by |-> None, op |-> "pause"]

(* Some sweep reports the agent as failed, or gave up on it.                 *)
HasFailed(a) == \E o \in Sweeps : sweep[o].res[a] = "failed"

(* The command that an await belongs to.                                     *)
AwaitedOp(at) == IF at = "pausing" THEN "pause" ELSE IF at \in {"resuming", "checking"} THEN "resume" ELSE "stop"

(* Who has a turn, a handle, a sandbox or a command in progress has what     *)
(* comes before it.                                                          *)
MemberHeld(a) ==
    /\ a \in turn \cup sweepReg => row[a].sandbox
    /\ ~Exists(a) => ~row[a].sandbox /\ ~row[a].ended /\ spawn[a] = "off"
    /\ spawn[a] \in {"asked", "forking"} => ~row[a].sandbox
    /\ step[a] # NoStep => a \in sweepReg /\ lock[a] # <<>> /\ Head(lock[a]).op = AwaitedOp(step[a].at)

(* The row of an agent and the command in progress agree.                    *)
MemberRow(a) ==
    /\ step[a].at = "pausing" =>
          a \in frozen /\ row[a].state # "paused" /\ step[a].from \notin {"none", "paused", "aborted"}
    /\ step[a].at = "releasing" => row[a].ended
    /\ step[a].at = "checking" => row[a].state # "paused"
    /\ row[a].from \notin {"paused", "aborted"}
    /\ row[a].state = "paused" \/ step[a].at = "resuming" => row[a].from # "none"
    /\ row[a].state = "paused" /\ a \in turn \cap sweepReg => a \in frozen
    /\ row[a].state = "aborted" => step[a].at = "aborting" \/ (row[a].ended /\ a \notin sweepReg)

(* Only a command that failed loses an agent.                                *)
MemberLost(a) == "lost" \in {row[a].state, row[a].from, step[a].from} => HasFailed(a)

(* Who waits in a lock: a sweep that still asks for this member, or has      *)
(* given up on it, or the child that joins a pause.                          *)
EntryOf(a, e) ==
    /\ Exists(a)
    /\ e.by = None => e.op = "pause" /\ spawn[a] = "joining"
    /\ e.by # None => /\ e.op = sweepMix.op[e.by] /\ sweep[e.by].phase # "new"
                      /\ a \in sweep[e.by].level \/ sweep[e.by].res[a] = "failed"
                      /\ e.op = "pause" => row[a].sandbox

(* Nobody waits twice in a lock.                                             *)
OnceEach(q) == \A i, j \in 1 .. Len(q) : q[i].by = q[j].by => i = j
MemberQueue(a) == (\A e \in ToSet(lock[a]) : EntryOf(a, e)) /\ OnceEach(lock[a])

MemberInv(a) == MemberHeld(a) /\ MemberRow(a) /\ MemberLost(a) /\ MemberQueue(a)

(* Where a sweep is: whom it has yet to ask has not answered, and is in its  *)
(* subtree.                                                                  *)
Progress(s) ==
    /\ sweep[s].phase \in {"new", "first"} => sweep[s].late = {}
    /\ sweep[s].phase = "new" => /\ sweep[s].todo = {} /\ sweep[s].level = {}
                                 /\ \A a \in TreeAgents : sweep[s].res[a] = "none"
    /\ sweep[s].phase # "new" => sweepMix.op[s] # None /\ Exists(sweepMix.root[s])
    /\ sweep[s].phase = "done" => sweep[s].todo = {} /\ sweep[s].level = {}
    /\ \A a \in sweep[s].todo \cup sweep[s].level :
          sweep[s].res[a] = "none" /\ a \in Below(sweepMix.root[s]) /\ Exists(a)
    /\ sweep[s].todo \cap sweep[s].level = {}

(* A sweep that has had the tree to itself so far.                           *)
Uncrossed(s) == sweep[s].alone /\ sweep[s].last /\ sweep[s].phase # "new"
OthersRest(s) == Uncrossed(s) => \A o \in Sweeps \ {s} : sweep[o].phase \in {"new", "done"}

(* A stop is through only with agents that are closed.                       *)
StopAnswers(s) ==
    sweepMix.op[s] = "stop" => \A a \in TreeAgents :
        /\ sweep[s].res[a] # "pending"
        /\ sweep[s].res[a] \in {"applied", "skipped"} => row[a].ended /\ a \notin sweepReg

(* Who waits for a stop in a lock is deeper than all that are still to be    *)
(* asked.                                                                    *)
StopDescends(s) ==
    sweepMix.op[s] = "stop" /\ sweep[s].phase = "first" =>
        \A a \in TreeAgents : (\E e \in ToSet(lock[a]) : e.by = s) =>
            \A x \in sweep[s].todo : Depth(x) < Depth(a)

(* A stop that has looked for late members misses only those under one.      *)
StopLate(s) ==
    sweepMix.op[s] = "stop" /\ sweep[s].phase \in {"second", "done"} =>
        /\ sweep[s].todo \cup sweep[s].level \subseteq sweep[s].late
        /\ \A a \in sweep[s].late : a \in sweep[s].todo \cup sweep[s].level \/ sweep[s].res[a] # "none"
        /\ \A a \in resolveSubtree(sweepMix.root[s]) :
              sweep[s].res[a] = "none" /\ a \notin sweep[s].late =>
                  \E b \in Above[a] : sweep[s].res[b] = "failed" \/ b \in sweep[s].late

(* The members whose answer the sweep still waits for.                       *)
Waits(s) == sweep[s].todo \cup sweep[s].level

(* Behind a resume nobody is paused but who failed or joins a pause.         *)
ResumeGoes(s) ==
    sweepMix.op[s] = "resume" /\ Uncrossed(s) =>
        \A a \in Below(sweepMix.root[s]) \ Waits(s) :
            row[a].state = "paused" => HasFailed(a) \/ spawn[a] \in {"joining", "joined"}

(* A pause asks its root alone and before all others: who spawns meanwhile   *)
(* sees it.                                                                  *)
RootFirst(s) ==
    sweepMix.op[s] = "pause" /\ sweep[s].phase # "new" /\ sweep[s].res[sweepMix.root[s]] = "none" =>
        /\ sweep[s].phase = "first"
        /\ sweepMix.root[s] \in Waits(s)
        /\ sweep[s].level \subseteq {sweepMix.root[s]}
        /\ \A a \in TreeAgents : sweep[s].res[a] = "none"

(* Behind the sweep in a lock are joins only.                                *)
JoinsBehind(q, s) == \A i, j \in 1 .. Len(q) : i < j /\ q[i].by = s => q[j].by = None

(* A queue of joins.                                                         *)
OnlyJoins(q) == \A e \in ToSet(q) : e.by = None

(* A root that a pause has reached stays paused or is gone, or never was     *)
(* injected.                                                                 *)
RootStays(a) ==
    /\ row[a].sandbox
    /\ OnlyJoins(lock[a])
    /\ \/ row[a].state = "paused" \/ (row[a].ended /\ a \notin sweepReg)
       \/ lock[a] = <<>> /\ spawn[a] \notin {"inject", "joining"}

(* At the root of a pause that has the tree to itself.                       *)
RootQueue(s) ==
    sweepMix.op[s] = "pause" /\ Uncrossed(s) =>
        /\ JoinsBehind(lock[sweepMix.root[s]], s)
        /\ sweep[s].res[sweepMix.root[s]] = "applied" => RootStays(sweepMix.root[s])

(* An agent that does not work: or it could not be paused.                   *)
Rests(a) == a \in turn \cap sweepReg => a \in frozen \/ spawn[a] = "unpaused" \/ HasFailed(a)

(* Behind a pause, while its root is paused, nobody works.                   *)
PauseGoes(s) ==
    /\ sweepMix.op[s] = "pause" /\ Uncrossed(s)
    /\ sweep[s].res[sweepMix.root[s]] = "applied" /\ row[sweepMix.root[s]].state = "paused"
    => \A a \in Below(sweepMix.root[s]) \ Waits(s) :
           sweep[s].res[a] # "none" \/ sweep[s].phase # "first" => Rests(a)

(* The sweeps' invariant.                                                    *)
StopInv(s) == StopAnswers(s) /\ StopDescends(s) /\ StopLate(s)
PauseInv(s) == RootFirst(s) /\ RootQueue(s) /\ PauseGoes(s)
SweepInv ==
    /\ SweepTypes
    /\ \A a \in TreeAgents : MemberInv(a)
    /\ \A s \in Sweeps : Progress(s) /\ OthersRest(s) /\ StopInv(s) /\ ResumeGoes(s) /\ PauseInv(s)

-----------------------------------------------------------------------------
(* What a step at one member does to the others and to the sweeps.           *)
Elsewhere(a) ==
    \A b \in TreeAgents \ {a} :
        /\ row'[b] = row[b] /\ lock'[b] = lock[b] /\ step'[b] = step[b] /\ spawn'[b] = spawn[b]
        /\ (b \in sweepReg') = (b \in sweepReg) /\ (b \in turn') = (b \in turn)
        /\ (b \in frozen') = (b \in frozen)

(* A sweep that stays where it is, its answers aside.                        *)
SameSweep(o) ==
    /\ sweep'[o].phase = sweep[o].phase /\ sweep'[o].todo = sweep[o].todo
    /\ sweep'[o].late = sweep[o].late /\ sweep'[o].alone = sweep[o].alone
    /\ sweep'[o].last = sweep[o].last

(* No answer but this member's.                                              *)
SeesOnly(a) ==
    \A o \in Sweeps : /\ SameSweep(o)
                      /\ \A b \in TreeAgents \ {a} :
                            /\ sweep'[o].res[b] = sweep[o].res[b]
                            /\ (b \in sweep'[o].level) = (b \in sweep[o].level)

(* The answer goes to one that waits for it.                                 *)
SeesAnswer(a, how) ==
    \A o \in Sweeps :
        \/ sweep'[o].res[a] = sweep[o].res[a] /\ (a \in sweep'[o].level) = (a \in sweep[o].level)
        \/ /\ a \in sweep[o].level /\ a \notin sweep'[o].level /\ sweep'[o].res[a] = how
           /\ how = "applied" => lock[a] # <<>> /\ Head(lock[a]).by = o /\ lock'[a] = Tail(lock[a])

(* The command in progress at an agent.                                      *)
HeadOp(a, op) == lock[a] # <<>> /\ Head(lock[a]).op = op
Joining == {"joining", "joined"}

(* What a step may do at its own member: to its lock,                        *)
QueueMoves(a) ==
    \/ lock'[a] = lock[a]
    \/ lock[a] # <<>> /\ lock'[a] = Tail(lock[a])
    \/ lock'[a] = Append(lock[a], Joins) /\ spawn[a] = "inject"

(* to its row,                                                               *)
RowMoves(a) ==
    /\ Exists(a) => Exists(a)'
    /\ row[a].sandbox => row'[a].sandbox
    /\ row[a].ended /\ a \notin sweepReg => row'[a].ended /\ a \notin sweepReg'
    /\ ~Exists(a) /\ Exists(a)' => a # 1 /\ Parent[a] \in sweepReg
    /\ lock[a] = <<>> /\ Exists(a) /\ spawn[a] \notin {"inject", "asked", "forking"}
          => lock'[a] = <<>> /\ spawn'[a] = spawn[a]

(* with an answer,                                                           *)
AnswerMoves(a, how) ==
    how = "applied" =>
        /\ HeadOp(a, "stop") => row'[a].ended /\ a \notin sweepReg'
        /\ HeadOp(a, "resume") => row'[a].state # "paused"
        /\ HeadOp(a, "pause") => row'[a].state = "paused" /\ (a \in turn' \cap sweepReg' => a \in frozen')

(* to its pause,                                                             *)
PauseMoves(a) ==
    /\ row'[a].state = "paused" =>
          \/ row[a].state = "paused" /\ (spawn[a] \in Joining => spawn'[a] \in Joining)
          \/ HeadOp(a, "pause") /\ a \in sweepReg /\ (Head(lock[a]).by = None => spawn'[a] \in Joining)
    /\ row[a].state = "paused" /\ row'[a].state # "paused" =>
          \/ HeadOp(a, "resume") \/ HeadOp(a, "stop")
          \/ spawn[a] = "inject" /\ spawn'[a] = "off" /\ lock'[a] = lock[a]
          \/ spawn[a] \in {"asked", "forking"} \/ (row'[a].ended /\ a \notin sweepReg')

(* to its turn.                                                              *)
TurnMoves(a) ==
    /\ spawn[a] = "unpaused" => spawn'[a] = "unpaused"
    /\ a \in turn' \cap sweepReg' =>
          \/ a \in turn \cap sweepReg /\ (a \in frozen => a \in frozen')
          \/ a \in frozen' \/ spawn'[a] = "unpaused" \/ HasFailed(a)'
          \/ HeadOp(a, "resume")
          \/ ~hasPausedAncestor(a) /\ row'[a].state = "running"
Moves(a, how) ==
    /\ QueueMoves(a) /\ RowMoves(a) /\ AnswerMoves(a, how) /\ PauseMoves(a) /\ TurnMoves(a)

(* A step at one member.                                                     *)
MemberStep(a, how) ==
    /\ how \in {"applied", "failed"} /\ sweepMix'.op = sweepMix.op /\ sweepMix'.root = sweepMix.root
    /\ Elsewhere(a) /\ SeesOnly(a) /\ SeesAnswer(a, how) /\ Moves(a, how)

-----------------------------------------------------------------------------
(* The ancestors of an agent come before it, are its parent and the parent's *)
(* ancestors, and are fewer the higher it is.                                *)
LEMMA AboveIsLess == \A a \in TreeAgents : \A b \in Above[a] : b \in TreeAgents /\ b < a
<1> SUFFICES ASSUME NEW a \in TreeAgents, NEW b \in Above[a] PROVE b \in TreeAgents /\ b < a
  OBVIOUS
<1>1. PICK S : S = {x \in TreeAgents : x <= a}
  OBVIOUS
<1>2. S \in SUBSET TreeAgents /\ a \in S
  BY <1>1, SubtreeConstants
<1>3. ASSUME NEW c \in S \ {1} PROVE Parent[c] \in S
  <2>1. c \in TreeAgents \ {1} /\ c <= a
    BY <1>1, <1>3
  <2>2. Parent[c] \in TreeAgents /\ Parent[c] < c
    BY <2>1, SubtreeConstants
  <2>3. c \in Nat /\ a \in Nat /\ Parent[c] \in Nat
    BY <2>1, <2>2, SubtreeConstants
  <2>4. Parent[c] <= a
    BY <2>1, <2>2, <2>3
  <2> QED
    BY <2>2, <2>4, <1>1
<1>4. b \in TreeAgents \ {a} /\ b \in S
  BY <1>2, <1>3 DEF Above
<1>5. b \in Nat /\ a \in Nat /\ b <= a /\ b # a
  BY <1>1, <1>4, SubtreeConstants
<1> QED
  BY <1>4, <1>5

(* Who is above an ancestor is above the agent, and not the ancestor itself. *)
LEMMA AboveRises == \A a \in TreeAgents : \A b \in Above[a] : Above[b] \subseteq Above[a] \ {b}
<1> SUFFICES ASSUME NEW a \in TreeAgents, NEW b \in Above[a], NEW x \in Above[b]
             PROVE  x \in Above[a] /\ x # b
  OBVIOUS
<1>1. b \in TreeAgents /\ b < a
  BY AboveIsLess
<1>2. x \in TreeAgents /\ x < b
  BY <1>1, AboveIsLess
<1>3. x \in Nat /\ a \in Nat /\ b \in Nat
  BY <1>1, <1>2, SubtreeConstants
<1>4. x # a /\ x # b
  BY <1>1, <1>2, <1>3
<1>5. ASSUME NEW S \in SUBSET TreeAgents, a \in S, \A c \in S \ {1} : Parent[c] \in S
      PROVE  x \in S
  <2>1. b \in S
    BY <1>5 DEF Above
  <2> QED
    BY <1>5, <2>1, <1>1 DEF Above
<1> QED
  BY <1>2, <1>4, <1>5 DEF Above

(* Above an agent are its parent and who is above that one.                  *)
LEMMA ParentFirst ==
    \A a \in TreeAgents \ {1} : /\ Parent[a] \in Above[a]
                                /\ Above[a] \subseteq {Parent[a]} \cup Above[Parent[a]]
<1> SUFFICES ASSUME NEW a \in TreeAgents \ {1}
             PROVE  /\ Parent[a] \in Above[a]
                    /\ \A b \in Above[a] : b \in {Parent[a]} \cup Above[Parent[a]]
  OBVIOUS
<1>1. PICK p : p = Parent[a]
  OBVIOUS
<1>2. p \in TreeAgents /\ p < a /\ p \in Nat /\ a \in Nat
  BY <1>1, SubtreeConstants
<1>3. p \in Above[a]
  BY <1>1, <1>2 DEF Above
<1>4. PICK S : S = {a, p} \cup Above[p]
  OBVIOUS
<1>5. S \in SUBSET TreeAgents /\ a \in S
  BY <1>2, <1>4, AboveIsLess
<1>6. ASSUME NEW c \in S \ {1} PROVE Parent[c] \in S
  <2>1. c \in TreeAgents \ {1}
    BY <1>5, <1>6
  <2>2. Parent[c] \in TreeAgents /\ Parent[c] < c /\ c \in Nat /\ Parent[c] \in Nat
    BY <2>1, SubtreeConstants
  <2>3. CASE c = a
    BY <2>3, <1>1, <1>4
  <2>4. CASE c = p
    <3>1. Parent[c] \in Above[c]
      BY <2>1, <2>2 DEF Above
    <3> QED
      BY <3>1, <2>4, <1>4
  <2>5. CASE c \in Above[p]
    <3>1. c < p
      BY <2>5, <1>2, AboveIsLess
    <3>2. Parent[c] # p
      BY <3>1, <2>2, <1>2
    <3>3. ASSUME NEW T \in SUBSET TreeAgents, p \in T, \A d \in T \ {1} : Parent[d] \in T
          PROVE  Parent[c] \in T
      <4>1. c \in T
        BY <2>5, <3>3, <1>2 DEF Above
      <4> QED
        BY <4>1, <3>3, <2>1
    <3>4. Parent[c] \in Above[p]
      BY <3>2, <3>3, <2>2, <1>2 DEF Above
    <3> QED
      BY <3>4, <1>4
  <2> QED
    BY <1>4, <1>6, <2>3, <2>4, <2>5
<1>7. ASSUME NEW b \in Above[a] PROVE b \in S /\ b # a
  BY <1>5, <1>6 DEF Above
<1> QED
  BY <1>1, <1>3, <1>4, <1>7

(* An ancestor is less deep (subtree.ts sweeps by depth).                    *)
LEMMA DepthRises ==
    \A a \in TreeAgents : Depth(a) \in Nat /\ \A b \in Above[a] : Depth(b) < Depth(a)
<1> SUFFICES ASSUME NEW a \in TreeAgents
             PROVE  Depth(a) \in Nat /\ \A b \in Above[a] : Depth(b) < Depth(a)
  OBVIOUS
<1>1. ASSUME NEW b \in TreeAgents PROVE IsFiniteSet(Above[b]) /\ Cardinality(Above[b]) \in Nat
  <2>1. Above[b] \subseteq TreeAgents
    BY AboveIsLess
  <2>2. IsFiniteSet(Above[b])
    BY <2>1, FS_Subset, SubtreeConstants
  <2> QED
    BY <2>2, FS_CardinalityType
<1>2. ASSUME NEW b \in Above[a] PROVE Depth(b) < Depth(a)
  <2>1. b \in TreeAgents
    BY AboveIsLess
  <2>2. Above[b] \subseteq Above[a] /\ Above[b] # Above[a]
    BY AboveRises
  <2>3. Cardinality(Above[b]) <= Cardinality(Above[a]) /\ Cardinality(Above[b]) # Cardinality(Above[a])
    BY <1>1, <2>2, FS_Subset
  <2>4. Cardinality(Above[a]) \in Nat /\ Cardinality(Above[b]) \in Nat
    BY <1>1, <2>1
  <2> QED
    BY <2>3, <2>4 DEF Depth
<1> QED
  BY <1>1, <1>2 DEF Depth

(* The greatest of a bounded set of depths.                                  *)
LEMMA GreatestDepth ==
    ASSUME NEW b \in Nat, NEW T \in SUBSET Nat, \A t \in T : t <= b, T # {}
    PROVE  Max(T) \in T /\ \A t \in T : Max(T) >= t
<1>1. PICK U : U = {b - t : t \in T}
  OBVIOUS
<1>2. U \in SUBSET Nat /\ U # {}
  <2>1. \A t \in T : b - t \in Nat
    OBVIOUS
  <2> QED
    BY <1>1, <2>1
<1>3. PICK u \in U : \A w \in U : u <= w
  BY <1>2, Smallest
<1>4. PICK m \in T : u = b - m
  BY <1>1
<1>5. ASSUME NEW t \in T PROVE m >= t
  <2>1. b - t \in U
    BY <1>1
  <2>2. b - m <= b - t
    BY <1>3, <1>4, <2>1
  <2> QED
    BY <2>2
<1>6. \E x \in T : \A y \in T : x >= y
  BY <1>5
<1> QED
  BY <1>6 DEF Max

(* The level that is next: the highest members of a pause, the deepest of    *)
(* the others.                                                               *)
LEMMA NextLevelFacts ==
    ASSUME SweepTypes, NEW s \in Sweeps, sweep[s].todo # {}
    PROVE  /\ NextLevel(s) \subseteq sweep[s].todo /\ NextLevel(s) # {}
           /\ FromTheTop(s) => \A m \in NextLevel(s), t \in sweep[s].todo : Depth(m) <= Depth(t)
           /\ ~FromTheTop(s) => \A m \in NextLevel(s), t \in sweep[s].todo \ NextLevel(s) : Depth(t) < Depth(m)
<1>1. PICK T : T = sweep[s].todo
  OBVIOUS
<1>2. T \subseteq TreeAgents /\ T # {}
  BY <1>1 DEF SweepTypes, SweepRecord
<1>3. PICK D : D = {Depth(a) : a \in T}
  OBVIOUS
<1>4. \A a \in TreeAgents : Depth(a) \in Nat /\ Depth(a) <= Cardinality(TreeAgents)
  <2> SUFFICES ASSUME NEW a \in TreeAgents
               PROVE  Depth(a) \in Nat /\ Depth(a) <= Cardinality(TreeAgents)
    OBVIOUS
  <2>1. Above[a] \subseteq TreeAgents
    BY AboveIsLess
  <2> QED
    BY <2>1, FS_Subset, SubtreeConstants, DepthRises DEF Depth
<1>5. D \in SUBSET Nat /\ D # {} /\ \A t \in D : t <= Cardinality(TreeAgents)
  BY <1>2, <1>3, <1>4
<1>6. Cardinality(TreeAgents) \in Nat
  BY FS_CardinalityType, SubtreeConstants
<1>7. Min(D) \in D /\ \A x \in D : Min(D) <= x
  BY <1>5, Smallest
<1>8. Max(D) \in D /\ \A x \in D : Max(D) >= x
  BY <1>5, <1>6, GreatestDepth
<1>9. PICK d \in D : /\ FromTheTop(s) => \A x \in D : d <= x
                     /\ ~FromTheTop(s) => \A x \in D : d >= x
                     /\ NextLevel(s) = {a \in T : Depth(a) = d}
  <2>1. NextLevel(s) = {a \in T : Depth(a) = IF FromTheTop(s) THEN Min(D) ELSE Max(D)}
    BY <1>1, <1>3 DEF NextLevel
  <2> QED
    BY <2>1, <1>7, <1>8
<1>10. \E a \in T : Depth(a) = d
  BY <1>3
<1>11. NextLevel(s) \subseteq T /\ NextLevel(s) # {}
  BY <1>9, <1>10
<1>12. ASSUME FromTheTop(s), NEW m \in NextLevel(s), NEW t \in T PROVE Depth(m) <= Depth(t)
  BY <1>9, <1>12, <1>3
<1>13. ASSUME ~FromTheTop(s), NEW m \in NextLevel(s), NEW t \in T \ NextLevel(s) PROVE Depth(t) < Depth(m)
  <2>1. Depth(t) # d /\ Depth(m) = d /\ Depth(t) \in D
    BY <1>9, <1>3, <1>13
  <2>2. d \in Nat /\ Depth(t) \in Nat /\ d >= Depth(t)
    BY <1>9, <2>1, <1>5, <1>13
  <2> QED
    BY <2>1, <2>2
<1> QED
  BY <1>1, <1>11, <1>12, <1>13

(* A queue of commands: its entries, the one in progress and those behind.   *)
LEMMA QueuePush ==
    ASSUME NEW q \in Seq(LockEntry), NEW e \in LockEntry
    PROVE  /\ Append(q, e) \in Seq(LockEntry) /\ Append(q, e) # <<>>
           /\ ToSet(Append(q, e)) = ToSet(q) \cup {e}
           /\ OnceEach(q) /\ (\A x \in ToSet(q) : x.by # e.by) => OnceEach(Append(q, e))
           /\ \A s : JoinsBehind(q, s) /\ (e.by = None \/ \A x \in ToSet(q) : x.by # s)
                     => JoinsBehind(Append(q, e), s)
<1>1. /\ Append(q, e) \in Seq(LockEntry) /\ Len(Append(q, e)) = Len(q) + 1 /\ Len(q) \in Nat
      /\ Append(q, e)[Len(q) + 1] = e /\ \A i \in 1 .. Len(q) : Append(q, e)[i] = q[i]
  OBVIOUS
<1>2. Append(q, e) # <<>>
  BY <1>1
<1>3. PICK p : p = Append(q, e)
  OBVIOUS
<1>4. \A i \in 1 .. Len(p) : i \in 1 .. Len(q) \/ i = Len(q) + 1
  BY <1>1, <1>3
<1>5. \A i \in 1 .. Len(q) : q[i] \in ToSet(q) /\ i \in 1 .. Len(p) /\ i # Len(q) + 1
  BY <1>1, <1>3 DEF ToSet
<1>6. ToSet(p) = ToSet(q) \cup {e}
  BY <1>1, <1>3 DEF ToSet
<1>7. OnceEach(q) /\ (\A x \in ToSet(q) : x.by # e.by) => OnceEach(p)
  <2> SUFFICES ASSUME OnceEach(q), \A x \in ToSet(q) : x.by # e.by,
                      NEW i \in 1 .. Len(p), NEW j \in 1 .. Len(p), p[i].by = p[j].by
               PROVE  i = j
    BY DEF OnceEach
  <2>1. CASE i \in 1 .. Len(q) /\ j \in 1 .. Len(q)
    BY <2>1, <1>1, <1>3 DEF OnceEach
  <2>2. CASE i \in 1 .. Len(q) /\ j = Len(q) + 1
    <3>1. p[i] = q[i] /\ p[j] = e
      BY <2>2, <1>1, <1>3
    <3> QED
      BY <3>1, <2>2, <1>5
  <2>3. CASE j \in 1 .. Len(q) /\ i = Len(q) + 1
    <3>1. p[j] = q[j] /\ p[i] = e
      BY <2>3, <1>1, <1>3
    <3> QED
      BY <3>1, <2>3, <1>5
  <2> QED
    BY <2>1, <2>2, <2>3, <1>4
<1>8. ASSUME NEW s, JoinsBehind(q, s), e.by = None \/ \A x \in ToSet(q) : x.by # s
      PROVE  JoinsBehind(p, s)
  <2> SUFFICES ASSUME NEW i \in 1 .. Len(p), NEW j \in 1 .. Len(p), i < j, p[i].by = s
               PROVE  p[j].by = None
    BY DEF JoinsBehind
  <2>1. i \in 1 .. Len(q)
    BY <1>1, <1>3
  <2>2. CASE j \in 1 .. Len(q)
    BY <2>1, <2>2, <1>8, <1>1, <1>3 DEF JoinsBehind
  <2>3. CASE j = Len(q) + 1
    <3>1. p[j] = e /\ p[i] = q[i] /\ q[i] \in ToSet(q)
      BY <2>1, <2>3, <1>1, <1>3, <1>5
    <3> QED
      BY <3>1, <1>8
  <2> QED
    BY <2>2, <2>3, <1>4
<1> QED
  BY <1>1, <1>2, <1>3, <1>6, <1>7, <1>8

(* The head of a queue goes, the others stay in their order.                 *)
LEMMA QueuePop ==
    ASSUME NEW q \in Seq(LockEntry), q # <<>>, OnceEach(q)
    PROVE  /\ Head(q) \in LockEntry /\ Head(q) \in ToSet(q)
           /\ Tail(q) \in Seq(LockEntry)
           /\ ToSet(Tail(q)) \subseteq ToSet(q)
           /\ \A e \in ToSet(Tail(q)) : e.by # Head(q).by
           /\ OnceEach(Tail(q))
           /\ \A s : JoinsBehind(q, s) => JoinsBehind(Tail(q), s) /\ (Head(q).by = s => OnlyJoins(Tail(q)))
<1>1. /\ Tail(q) \in Seq(LockEntry) /\ Len(Tail(q)) = Len(q) - 1 /\ Len(q) \in Nat \ {0}
      /\ Head(q) = q[1] /\ Head(q) \in LockEntry /\ \A i \in 1 .. Len(q) - 1 : Tail(q)[i] = q[i + 1]
  OBVIOUS
<1>2. PICK p : p = Tail(q)
  OBVIOUS
<1>3. \A i \in 1 .. Len(p) : i + 1 \in 1 .. Len(q) /\ p[i] = q[i + 1] /\ i + 1 # 1 /\ 1 < i + 1
  BY <1>1, <1>2
<1>4. Head(q) \in ToSet(q) /\ 1 \in 1 .. Len(q)
  BY <1>1 DEF ToSet
<1>5. ToSet(p) \subseteq ToSet(q)
  BY <1>3 DEF ToSet
<1>6. ASSUME NEW e \in ToSet(p) PROVE e.by # Head(q).by
  <2>1. PICK i \in 1 .. Len(p) : e = p[i]
    BY DEF ToSet
  <2> QED
    BY <2>1, <1>3, <1>4, <1>1 DEF OnceEach
<1>7. OnceEach(p)
  <2> SUFFICES ASSUME NEW i \in 1 .. Len(p), NEW j \in 1 .. Len(p), p[i].by = p[j].by PROVE i = j
    BY DEF OnceEach
  <2>1. i + 1 = j + 1
    BY <1>3 DEF OnceEach
  <2> QED
    BY <2>1
<1>8. ASSUME NEW s, JoinsBehind(q, s) PROVE JoinsBehind(p, s) /\ (Head(q).by = s => OnlyJoins(p))
  <2>1. ASSUME NEW i \in 1 .. Len(p), NEW j \in 1 .. Len(p), i < j, p[i].by = s PROVE p[j].by = None
    <3>1. i + 1 < j + 1
      BY <2>1
    <3> QED
      BY <2>1, <3>1, <1>3, <1>8 DEF JoinsBehind
  <2>2. ASSUME Head(q).by = s, NEW e \in ToSet(p) PROVE e.by = None
    <3>1. PICK i \in 1 .. Len(p) : e = p[i]
      BY <2>2 DEF ToSet
    <3> QED
      BY <2>2, <3>1, <1>1, <1>3, <1>4, <1>8 DEF JoinsBehind
  <2> QED
    BY <2>1, <2>2 DEF JoinsBehind, OnlyJoins
<1> QED
  BY <1>1, <1>2, <1>4, <1>5, <1>6, <1>7, <1>8

(* A step at one member, as a sweep sees it.                                 *)
LEMMA Seen ==
    ASSUME SweepInv, SweepTypes', NEW a \in TreeAgents, NEW how, MemberStep(a, how), NEW s \in Sweeps
    PROVE  /\ SameSweep(s) /\ sweepMix'.op[s] = sweepMix.op[s] /\ sweepMix'.root[s] = sweepMix.root[s]
           /\ sweep[s].level \subseteq TreeAgents /\ sweep'[s].level \subseteq sweep[s].level
           /\ \A b \in TreeAgents :
                 \/ sweep'[s].res[b] = sweep[s].res[b] /\ (b \in sweep'[s].level) = (b \in sweep[s].level)
                 \/ /\ b = a /\ b \in sweep[s].level /\ b \notin sweep'[s].level /\ sweep'[s].res[b] = how
                    /\ how = "applied" => lock[a] # <<>> /\ Head(lock[a]).by = s /\ lock'[a] = Tail(lock[a])
           /\ \A b \in TreeAgents : sweep[s].res[b] = "failed" => sweep'[s].res[b] = "failed"
<1>1. SameSweep(s) /\ sweepMix'.op = sweepMix.op /\ sweepMix'.root = sweepMix.root
  BY DEF MemberStep, SeesOnly
<1>2. sweep[s].level \subseteq TreeAgents /\ sweep'[s].level \subseteq TreeAgents
  BY DEF SweepInv, SweepTypes, SweepRecord
<1>3. ASSUME NEW b \in TreeAgents
      PROVE  \/ sweep'[s].res[b] = sweep[s].res[b] /\ (b \in sweep'[s].level) = (b \in sweep[s].level)
             \/ /\ b = a /\ b \in sweep[s].level /\ b \notin sweep'[s].level /\ sweep'[s].res[b] = how
                /\ how = "applied" => lock[a] # <<>> /\ Head(lock[a]).by = s /\ lock'[a] = Tail(lock[a])
  BY <1>3 DEF MemberStep, SeesOnly, SeesAnswer
<1>4. sweep'[s].level \subseteq sweep[s].level
  BY <1>2, <1>3
<1>5. \A b \in TreeAgents : sweep[s].res[b] = "failed" => sweep'[s].res[b] = "failed"
  <2>1. \A b \in sweep[s].level : sweep[s].res[b] = "none"
    BY DEF SweepInv, Progress
  <2> QED
    BY <2>1, <1>3
<1> QED
  BY <1>1, <1>2, <1>3, <1>4, <1>5, Zenon

(* A failure that a sweep was told of stays.                                 *)
LEMMA FailuresStay ==
    ASSUME SweepInv, SweepTypes', NEW a \in TreeAgents, NEW how, MemberStep(a, how),
           NEW b \in TreeAgents, HasFailed(b)
    PROVE  HasFailed(b)'
BY Seen DEF HasFailed

(* An agent that is there stays in the table.                                *)
LEMMA ExistsStays ==
    ASSUME NEW a \in TreeAgents, NEW how, MemberStep(a, how), NEW b \in TreeAgents, Exists(b)
    PROVE  Exists(b)'
BY DEF MemberStep, Moves, RowMoves, Elsewhere, Exists

(* A step at a member moves no sweep to another phase or level.              *)
LEMMA ProgressStays ==
    ASSUME SweepInv, SweepTypes', NEW a \in TreeAgents, NEW how, MemberStep(a, how), NEW s \in Sweeps
    PROVE  Progress(s)' /\ OthersRest(s)'
<1>0. Progress(s) /\ OthersRest(s) /\ sweepMix.root[s] \in TreeAgents
  BY DEF SweepInv, SweepTypes, MixOfSweeps
<1>7. sweep'[s].phase \in {"new", "first"} => sweep'[s].late = {}
  BY <1>0, Seen DEF Progress, SameSweep
<1>1. ASSUME sweep'[s].phase = "new" PROVE sweep'[s].todo = {} /\ sweep'[s].level = {}
                                 /\ \A b \in TreeAgents : sweep'[s].res[b] = "none"
  BY <1>0, <1>1, Seen DEF Progress, SameSweep
<1>2. ASSUME sweep'[s].phase # "new" PROVE sweepMix'.op[s] # None /\ row'[sweepMix'.root[s]].state # "none"
  <2>1. Exists(sweepMix.root[s]) /\ sweepMix.op[s] # None
    BY <1>0, <1>2, Seen DEF Progress, SameSweep
  <2> QED
    BY <2>1, <1>0, Seen, ExistsStays DEF Exists
<1>3. ASSUME sweep'[s].phase = "done" PROVE sweep'[s].todo = {} /\ sweep'[s].level = {}
  BY <1>0, <1>3, Seen DEF Progress, SameSweep
<1>4. ASSUME NEW b \in sweep'[s].todo \cup sweep'[s].level
      PROVE  sweep'[s].res[b] = "none" /\ b \in Below(sweepMix'.root[s]) /\ row'[b].state # "none"
  <2>1. sweep'[s].todo = sweep[s].todo /\ sweep'[s].level \subseteq sweep[s].level
    BY Seen DEF SameSweep
  <2>2. b \in sweep[s].todo \cup sweep[s].level
    BY <1>4, <2>1
  <2>3. b \in TreeAgents /\ sweep[s].res[b] = "none" /\ b \in Below(sweepMix.root[s]) /\ Exists(b)
    BY <2>2, <1>0 DEF Progress, SweepInv, SweepTypes, SweepRecord
  <2>4. b \in sweep[s].level => b \notin sweep[s].todo
    BY <1>0 DEF Progress
  <2>5. row'[b].state # "none"
    BY <2>3, ExistsStays DEF Exists
  <2> QED
    BY <2>1, <2>2, <2>3, <2>4, <2>5, <1>4, Seen
<1>5. sweep'[s].todo \cap sweep'[s].level = {}
  BY <1>0, Seen DEF Progress, SameSweep
<1>6. OthersRest(s)'
  BY <1>0, Seen DEF OthersRest, Uncrossed, SameSweep
<1> QED
  BY <1>1, <1>2, <1>3, <1>4, <1>5, <1>6, <1>7 DEF Progress, Exists

(* An agent that a stop is through with stays closed.                        *)
LEMMA StopAnswersStay ==
    ASSUME SweepInv, SweepTypes', NEW a \in TreeAgents, NEW how, MemberStep(a, how), NEW s \in Sweeps
    PROVE  StopAnswers(s)'
<1> SUFFICES ASSUME sweepMix.op[s] = "stop", NEW b \in TreeAgents
             PROVE  /\ sweep'[s].res[b] # "pending"
                    /\ sweep'[s].res[b] \in {"applied", "skipped"} => row'[b].ended /\ b \notin sweepReg'
  BY Seen DEF StopAnswers
<1>1. /\ sweep[s].res[b] # "pending"
      /\ sweep[s].res[b] \in {"applied", "skipped"} => row[b].ended /\ b \notin sweepReg
  BY DEF SweepInv, StopInv, StopAnswers
<1>2. row[b].ended /\ b \notin sweepReg => row'[b].ended /\ b \notin sweepReg'
  BY DEF MemberStep, Elsewhere, Moves, RowMoves
<1>3. CASE sweep'[s].res[b] = sweep[s].res[b]
  BY <1>1, <1>2, <1>3
<1>4. CASE b = a /\ sweep'[s].res[b] = how /\ (how = "applied" => lock[a] # <<>> /\ Head(lock[a]).by = s)
  <2>1. how \in {"applied", "failed"}
    BY DEF MemberStep
  <2>2. ASSUME how = "applied" PROVE row'[a].ended /\ a \notin sweepReg'
    <3>1. lock[a] # <<>> /\ Head(lock[a]).by = s
      BY <1>4, <2>2
    <3>2. lock[a] \in Seq(LockEntry) /\ OnceEach(lock[a]) /\ \A e \in ToSet(lock[a]) : EntryOf(a, e)
      BY DEF SweepInv, SweepTypes, MemberInv, MemberQueue
    <3>3. EntryOf(a, Head(lock[a]))
      BY <3>1, <3>2, QueuePop
    <3>4. Head(lock[a]).op = "stop"
      BY <3>1, <3>3, SubtreeConstants DEF EntryOf
    <3> QED
      BY <2>2, <3>1, <3>4 DEF MemberStep, Moves, AnswerMoves, HeadOp
  <2> QED
    BY <2>1, <2>2, <1>4
<1> QED
  BY <1>3, <1>4, Seen

(* Nobody comes to wait for a sweep in a lock through a step at a member.    *)
LEMMA StopDescendsStays ==
    ASSUME SweepInv, SweepTypes', NEW a \in TreeAgents, NEW how, MemberStep(a, how), NEW s \in Sweeps
    PROVE  StopDescends(s)'
<1> SUFFICES ASSUME sweepMix.op[s] = "stop", sweep[s].phase = "first", NEW b \in TreeAgents,
                    NEW e \in ToSet(lock'[b]), e.by = s, NEW x \in sweep[s].todo
             PROVE  Depth(x) < Depth(b)
  BY Seen DEF StopDescends, SameSweep
<1>1. lock[b] \in Seq(LockEntry) /\ OnceEach(lock[b])
  BY DEF SweepInv, SweepTypes, MemberInv, MemberQueue
<1>2. Joins \in LockEntry /\ Joins.by # s
  BY SubtreeConstants DEF Joins, LockEntry, Ops
<1>3. e \in ToSet(lock[b])
  <2>1. CASE lock'[b] = lock[b]
    BY <2>1
  <2>2. CASE lock[b] # <<>> /\ lock'[b] = Tail(lock[b])
    BY <2>2, <1>1, QueuePop
  <2>3. CASE lock'[b] = Append(lock[b], Joins)
    BY <2>3, <1>1, <1>2, QueuePush
  <2> QED
    BY <2>1, <2>2, <2>3 DEF MemberStep, Elsewhere, Moves, QueueMoves
<1> QED
  BY <1>3 DEF SweepInv, StopInv, StopDescends

(* A step at a member adds to the subtree of a stop only what a live parent  *)
(* spawns.                                                                   *)
LEMMA StopLateStays ==
    ASSUME SweepInv, SweepTypes', NEW a \in TreeAgents, NEW how, MemberStep(a, how), NEW s \in Sweeps
    PROVE  StopLate(s)'
<1> SUFFICES ASSUME sweepMix.op[s] = "stop", sweep[s].phase \in {"second", "done"} PROVE StopLate(s)'
  BY Seen DEF StopLate, SameSweep
<1>1. /\ StopLate(s) /\ Progress(s) /\ sweepMix.root[s] \in TreeAgents /\ sweep[s].late \subseteq TreeAgents
      /\ StopAnswers(s) /\ \A b \in TreeAgents : sweep[s].res[b] \in Answers
  BY DEF SweepInv, SweepTypes, SweepRecord, StopInv, MixOfSweeps
<1>2. sweep'[s].todo \cup sweep'[s].level \subseteq sweep'[s].late
  BY <1>1, Seen DEF StopLate, SameSweep
<1>3. ASSUME NEW b \in sweep'[s].late
      PROVE  b \in sweep'[s].todo \cup sweep'[s].level \/ sweep'[s].res[b] # "none"
  <2>1. b \in sweep[s].late /\ sweep'[s].todo = sweep[s].todo /\ b \in TreeAgents
    BY <1>1, <1>3, Seen DEF SameSweep
  <2>2. how # "none"
    BY DEF MemberStep
  <2> QED
    BY <2>1, <2>2, <1>1, Seen DEF StopLate
<1>4. ASSUME NEW b \in resolveSubtree(sweepMix.root[s])', sweep'[s].res[b] = "none", b \notin sweep'[s].late
      PROVE  \E c \in Above[b] : sweep'[s].res[c] = "failed" \/ c \in sweep'[s].late
  <2>1. b \in Below(sweepMix.root[s]) /\ b \in TreeAgents /\ Exists(b)'
    BY <1>4, Seen DEF resolveSubtree, Below
  <2>2. sweep'[s].late = sweep[s].late /\ how # "none"
    BY Seen DEF MemberStep, SameSweep
  <2>3. sweep[s].res[b] = "none"
    BY <1>4, <2>1, <2>2, Seen
  <2>4. \A d \in resolveSubtree(sweepMix.root[s]) : sweep[s].res[d] = "none" /\ d \notin sweep[s].late =>
                  \E c \in Above[d] : sweep[s].res[c] = "failed" \/ c \in sweep[s].late
    BY <1>1 DEF StopLate
  <2>5. \E c \in Above[b] : sweep[s].res[c] = "failed" \/ c \in sweep[s].late
    <3>1. CASE Exists(b)
      BY <3>1, <2>1, <2>2, <2>3, <2>4, <1>4 DEF resolveSubtree
    <3>2. CASE ~Exists(b)
      <4>1. b = a /\ a # 1 /\ Parent[a] \in sweepReg
        BY <3>2, <2>1 DEF MemberStep, Moves, RowMoves, Elsewhere, Exists
      <4>2. PICK p : p = Parent[a]
        OBVIOUS
      <4>3. p \in Above[a] /\ Above[a] \subseteq {p} \cup Above[p] /\ p \in sweepReg
        BY <4>1, <4>2, ParentFirst
      <4>4. p \in TreeAgents
        BY <4>3, AboveIsLess
      <4>5. a # sweepMix.root[s]
        BY <3>2, <4>1, <1>1 DEF Progress
      <4>6. sweepMix.root[s] \in Above[a]
        BY <4>1, <4>5, <2>1 DEF Below
      <4>7. p \in Below(sweepMix.root[s])
        BY <4>3, <4>4, <4>6 DEF Below
      <4>8. Exists(p)
        BY <4>3, <4>4 DEF SweepInv, MemberInv, MemberHeld
      <4>9. sweep[s].res[p] \in {"none", "failed"}
        BY <4>3, <4>4, <1>1 DEF StopAnswers, Answers
      <4>10. CASE sweep[s].res[p] = "failed" \/ p \in sweep[s].late
        BY <4>10, <4>3, <4>1
      <4>11. CASE sweep[s].res[p] = "none" /\ p \notin sweep[s].late
        <5>1. PICK c \in Above[p] : sweep[s].res[c] = "failed" \/ c \in sweep[s].late
          BY <4>11, <4>7, <4>8, <2>4 DEF resolveSubtree, Below
        <5>2. c \in Above[a]
          BY <4>3, AboveRises
        <5> QED
          BY <5>1, <5>2, <4>1
      <4> QED
        BY <4>9, <4>10, <4>11
    <3> QED
      BY <3>1, <3>2
  <2>6. PICK c \in Above[b] : sweep[s].res[c] = "failed" \/ c \in sweep[s].late
    BY <2>5
  <2>7. c \in TreeAgents
    BY <2>1, <2>6, AboveIsLess
  <2> QED
    BY <2>2, <2>6, <2>7, Seen
<1> QED
  BY <1>2, <1>3, <1>4 DEF StopLate

(* Who commands a member while a sweep has the tree to itself: that sweep,   *)
(* the child that joins a pause, or one that gave up waiting.                *)
LEMMA HeadFacts ==
    ASSUME SweepInv, NEW a \in TreeAgents, lock[a] # <<>>
    PROVE  /\ EntryOf(a, Head(lock[a])) /\ Head(lock[a]) \in LockEntry
           /\ \A s \in Sweeps : Uncrossed(s) /\ Head(lock[a]).by \notin {None, s} => HasFailed(a)
<1>1. lock[a] \in Seq(LockEntry) /\ OnceEach(lock[a]) /\ \A e \in ToSet(lock[a]) : EntryOf(a, e)
  BY DEF SweepInv, SweepTypes, MemberInv, MemberQueue
<1>2. EntryOf(a, Head(lock[a])) /\ Head(lock[a]) \in LockEntry
  BY <1>1, QueuePop
<1>3. ASSUME NEW s \in Sweeps, Uncrossed(s), Head(lock[a]).by \notin {None, s} PROVE HasFailed(a)
  <2>1. PICK o \in Sweeps : o = Head(lock[a]).by /\ o # s
    BY <1>2, <1>3 DEF LockEntry
  <2>2. sweep[o].phase # "new" /\ (a \in sweep[o].level \/ sweep[o].res[a] = "failed")
    BY <1>2, <1>3, <2>1 DEF EntryOf
  <2>3. sweep[o].phase \in {"new", "done"} /\ Progress(o)
    BY <1>3, <2>1 DEF SweepInv, OthersRest
  <2> QED
    BY <2>2, <2>3 DEF Progress, HasFailed
<1> QED
  BY <1>2, <1>3

(* A step at a member pauses nobody behind a resume that has the tree to     *)
(* itself.                                                                   *)
LEMMA ResumeGoesStays ==
    ASSUME SweepInv, SweepTypes', NEW a \in TreeAgents, NEW how, MemberStep(a, how), NEW s \in Sweeps
    PROVE  ResumeGoes(s)'
<1> SUFFICES ASSUME sweepMix.op[s] = "resume", Uncrossed(s), NEW b \in Below(sweepMix.root[s]),
                    b \notin Waits(s)', row'[b].state = "paused"
             PROVE  HasFailed(b)' \/ spawn'[b] \in Joining
  BY Seen DEF ResumeGoes, Uncrossed, SameSweep, Joining
<1>0. b \in TreeAgents /\ how \in {"applied", "failed"}
  BY DEF Below, MemberStep
<1>1. CASE b \in Waits(s)
  <2>1. /\ b = a /\ sweep'[s].res[b] = how /\ (how = "applied" => lock[a] # <<>> /\ Head(lock[a]).by = s)
    BY <1>0, <1>1, Seen DEF Waits, SameSweep
  <2>2. ASSUME how = "applied" PROVE FALSE
    <3>1. Head(lock[a]).op = "resume" /\ lock[a] # <<>>
      BY <2>1, <2>2, HeadFacts, SubtreeConstants DEF EntryOf
    <3> QED
      BY <2>1, <2>2, <3>1 DEF MemberStep, Moves, AnswerMoves, HeadOp
  <2> QED
    BY <1>0, <2>1, <2>2 DEF HasFailed
<1>2. CASE b \notin Waits(s)
  <2>1. row[b].state = "paused" => HasFailed(b) \/ spawn[b] \in Joining
    BY <1>2 DEF SweepInv, ResumeGoes, Joining
  <2>2. CASE row[b].state = "paused" /\ (spawn[b] \in Joining => spawn'[b] \in Joining)
    BY <1>0, <2>1, <2>2, FailuresStay
  <2>3. CASE b = a /\ HeadOp(a, "pause") /\ (Head(lock[a]).by = None => spawn'[a] \in Joining)
    <3>1. lock[a] # <<>> /\ Head(lock[a]).op = "pause"
      BY <2>3 DEF HeadOp
    <3>2. Head(lock[a]).by # s
      BY <3>1, HeadFacts, SubtreeConstants DEF EntryOf
    <3>3. Head(lock[a]).by # None => HasFailed(a)
      BY <3>1, <3>2, HeadFacts
    <3> QED
      BY <2>3, <3>3, <1>0, FailuresStay
  <2> QED
    BY <1>0, <2>2, <2>3 DEF MemberStep, Elsewhere, Moves, PauseMoves
<1> QED
  BY <1>1, <1>2

(* The members of a pause wait for its root.                                 *)
LEMMA RootFirstStays ==
    ASSUME SweepInv, SweepTypes', NEW a \in TreeAgents, NEW how, MemberStep(a, how), NEW s \in Sweeps
    PROVE  RootFirst(s)'
<1> SUFFICES ASSUME sweepMix.op[s] = "pause", sweep[s].phase # "new", sweep'[s].res[sweepMix.root[s]] = "none"
             PROVE  /\ sweep[s].phase = "first"
                    /\ sweepMix.root[s] \in Waits(s)'
                    /\ sweep'[s].level \subseteq {sweepMix.root[s]}
                    /\ \A b \in TreeAgents : sweep'[s].res[b] = "none"
  BY Seen DEF RootFirst, SameSweep
<1>1. how \in {"applied", "failed"} /\ sweepMix.root[s] \in TreeAgents
  BY DEF MemberStep, SweepInv, SweepTypes, MixOfSweeps
<1>2. sweep[s].res[sweepMix.root[s]] = "none" /\ (sweepMix.root[s] \in sweep'[s].level) = (sweepMix.root[s] \in sweep[s].level)
  BY <1>1, Seen
<1>3. /\ sweep[s].phase = "first"
      /\ sweepMix.root[s] \in Waits(s)
      /\ sweep[s].level \subseteq {sweepMix.root[s]}
      /\ \A b \in TreeAgents : sweep[s].res[b] = "none"
  BY <1>2 DEF SweepInv, PauseInv, RootFirst
<1>4. sweepMix.root[s] \in Waits(s)' /\ sweep'[s].level \subseteq {sweepMix.root[s]}
  BY <1>2, <1>3, Seen DEF Waits, SameSweep
<1>5. \A b \in TreeAgents : sweep'[s].res[b] = "none"
  BY <1>2, <1>3, Seen
<1> QED
  BY <1>3, <1>4, <1>5

(* What is queued behind a pause at its root are joins only: the root stays  *)
(* paused.                                                                   *)
LEMMA RootQueueStays ==
    ASSUME SweepInv, SweepTypes', NEW a \in TreeAgents, NEW how, MemberStep(a, how), NEW s \in Sweeps
    PROVE  RootQueue(s)'
<1>0. PICK r \in TreeAgents : r = sweepMix.root[s]
  BY DEF SweepInv, SweepTypes, MixOfSweeps
<1> SUFFICES ASSUME sweepMix.op[s] = "pause", Uncrossed(s)
             PROVE  /\ JoinsBehind(lock'[r], s)
                    /\ sweep'[s].res[r] = "applied" => RootStays(r)'
  <2>1. sweepMix'.root[s] = r /\ sweepMix'.op[s] = sweepMix.op[s] /\ (Uncrossed(s)' => Uncrossed(s))
    BY <1>0, Seen DEF Uncrossed, SameSweep
  <2> QED
    BY <2>1 DEF RootQueue, RootStays
<1>1. /\ JoinsBehind(lock[r], s) /\ (sweep[s].res[r] = "applied" => RootStays(r))
      /\ lock[r] \in Seq(LockEntry) /\ OnceEach(lock[r]) /\ MemberHeld(r)
      /\ \A e \in ToSet(lock[r]) : EntryOf(r, e)
  BY <1>0 DEF SweepInv, SweepTypes, PauseInv, RootQueue, MemberInv, MemberQueue
<1>2. Joins \in LockEntry /\ Joins.by = None
  BY DEF Joins, LockEntry, Ops
<1>3. JoinsBehind(lock'[r], s)
  <2>1. CASE lock'[r] = lock[r]
    BY <2>1, <1>1
  <2>2. CASE lock[r] # <<>> /\ lock'[r] = Tail(lock[r])
    BY <2>2, <1>1, QueuePop
  <2>3. CASE lock'[r] = Append(lock[r], Joins)
    BY <2>3, <1>1, <1>2, QueuePush
  <2> QED
    BY <2>1, <2>2, <2>3 DEF MemberStep, Elsewhere, Moves, QueueMoves
<1>4. ASSUME sweep'[s].res[r] = "applied" PROVE RootStays(r)'
  <2>1. CASE sweep[s].res[r] = "applied" /\ r # a
    BY <2>1, <1>1 DEF RootStays, MemberStep, Elsewhere
  <2>2. CASE sweep[s].res[r] = "applied" /\ r = a
    <3>1. /\ RowMoves(r) /\ QueueMoves(r) /\ PauseMoves(r) /\ RootStays(r)
      BY <2>2, <1>1 DEF MemberStep, Moves
    <3>2. row[r].sandbox /\ row'[r].sandbox /\ Exists(r) /\ spawn[r] \notin {"asked", "forking"}
      BY <3>1, <1>1 DEF RootStays, RowMoves, MemberHeld
    <3>3. ASSUME lock[r] # <<>> PROVE ~HeadOp(r, "resume") /\ ~HeadOp(r, "stop") /\ spawn[r] = "joining"
      <4>1. Head(lock[r]) \in ToSet(lock[r])
        BY <3>3, <1>1, QueuePop
      <4>2. Head(lock[r]).by = None /\ EntryOf(r, Head(lock[r]))
        BY <4>1, <3>1, <1>1 DEF RootStays, OnlyJoins
      <4> QED
        BY <4>2 DEF EntryOf, HeadOp
    <3>4. OnlyJoins(lock'[r])
      <4>1. CASE lock'[r] = lock[r]
        BY <4>1, <3>1 DEF RootStays
      <4>2. CASE lock[r] # <<>> /\ lock'[r] = Tail(lock[r])
        <5>1. ToSet(Tail(lock[r])) \subseteq ToSet(lock[r])
          BY <4>2, <1>1, QueuePop
        <5> QED
          BY <4>2, <5>1, <3>1 DEF RootStays, OnlyJoins
      <4>3. CASE lock'[r] = Append(lock[r], Joins)
        <5>1. ToSet(Append(lock[r], Joins)) = ToSet(lock[r]) \cup {Joins}
          BY <1>1, <1>2, QueuePush
        <5> QED
          BY <4>3, <5>1, <1>2, <3>1 DEF RootStays, OnlyJoins
      <4> QED
        BY <3>1, <4>1, <4>2, <4>3 DEF QueueMoves
    <3>5. \/ row'[r].state = "paused" \/ (row'[r].ended /\ r \notin sweepReg')
          \/ lock'[r] = <<>> /\ spawn'[r] \notin {"inject", "joining"}
      <4>1. CASE row[r].state = "paused"
        <5> SUFFICES ASSUME row'[r].state # "paused", ~(row'[r].ended /\ r \notin sweepReg')
                     PROVE  lock'[r] = <<>> /\ spawn'[r] \notin {"inject", "joining"}
          OBVIOUS
        <5>1. spawn[r] = "inject" /\ spawn'[r] = "off" /\ lock'[r] = lock[r]
          BY <4>1, <3>1, <3>2, <3>3 DEF PauseMoves, HeadOp
        <5> QED
          BY <5>1, <3>3
      <4>2. CASE lock[r] = <<>> /\ spawn[r] \notin {"inject", "joining"}
        <5>1. lock'[r] = <<>> /\ spawn'[r] = spawn[r]
          BY <4>2, <3>1, <3>2 DEF RowMoves
        <5> QED
          BY <4>2, <5>1
      <4>3. CASE row[r].ended /\ r \notin sweepReg
        BY <4>3, <3>1 DEF RowMoves
      <4> QED
        BY <4>1, <4>2, <4>3, <3>1 DEF RootStays
    <3> QED
      BY <3>2, <3>4, <3>5 DEF RootStays
  <2>3. CASE sweep[s].res[r] # "applied"
    <3>1. r = a /\ how = "applied" /\ lock[a] # <<>> /\ Head(lock[a]).by = s /\ lock'[a] = Tail(lock[a])
      BY <2>3, <1>4, Seen
    <3>2. Head(lock[a]).op = "pause" /\ row[a].sandbox
      BY <3>1, HeadFacts, SubtreeConstants DEF EntryOf
    <3>3. row'[a].state = "paused" /\ row'[a].sandbox
      BY <3>1, <3>2 DEF MemberStep, Moves, AnswerMoves, RowMoves, HeadOp
    <3>4. OnlyJoins(lock'[a])
      BY <3>1, <1>1, QueuePop
    <3> QED
      BY <3>1, <3>3, <3>4 DEF RootStays
  <2> QED
    BY <2>1, <2>2, <2>3
<1> QED
  BY <1>3, <1>4

(* A step at a member lets nobody work whom the pause has passed.            *)
LEMMA PauseGoesStays ==
    ASSUME SweepInv, SweepTypes', NEW a \in TreeAgents, NEW how, MemberStep(a, how), NEW s \in Sweeps
    PROVE  PauseGoes(s)'
<1>0. PICK r \in TreeAgents : r = sweepMix.root[s]
  BY DEF SweepInv, SweepTypes, MixOfSweeps
<1> SUFFICES ASSUME sweepMix.op[s] = "pause", Uncrossed(s), sweep'[s].res[r] = "applied", row'[r].state = "paused",
                    NEW b \in Below(r), b \notin Waits(s)', sweep'[s].res[b] # "none" \/ sweep[s].phase # "first"
             PROVE  Rests(b)'
  BY <1>0, Seen DEF PauseGoes, Uncrossed, SameSweep
<1>1. b \in TreeAgents /\ (b = r \/ r \in Above[b]) /\ how \in {"applied", "failed"}
  BY DEF Below, MemberStep
<1>2. /\ RootFirst(s) /\ RootQueue(s) /\ PauseGoes(s) /\ Progress(s)
  BY DEF SweepInv, PauseInv
(* What the sweep has just been told.                                        *)
<1>3. ASSUME b \in sweep[s].level, b \notin sweep'[s].level PROVE Rests(b)'
  <2>1. /\ b = a /\ sweep'[s].res[b] = how /\ (how = "applied" => lock[a] # <<>> /\ Head(lock[a]).by = s)
    BY <1>1, <1>3, Seen
  <2>2. ASSUME how = "applied", a \in turn' \cap sweepReg' PROVE a \in frozen'
    <3>1. Head(lock[a]).op = "pause" /\ lock[a] # <<>>
      BY <2>1, <2>2, HeadFacts, SubtreeConstants DEF EntryOf
    <3> QED
      BY <2>1, <2>2, <3>1 DEF MemberStep, Moves, AnswerMoves, HeadOp
  <2> QED
    BY <1>1, <2>1, <2>2 DEF Rests, HasFailed
<1>4. CASE sweep[s].res[r] # "applied"
  <2>1. r = a /\ r \in sweep[s].level /\ r \notin sweep'[s].level /\ sweep[s].res[r] = "none"
    BY <1>4, <1>2, Seen DEF Progress
  <2>2. sweep[s].phase = "first" /\ sweep[s].res[b] = "none"
    BY <2>1, <1>0, <1>1, <1>2, Seen DEF RootFirst, SameSweep, Progress
  <2>3. b \in sweep[s].level /\ b \notin sweep'[s].level
    BY <2>2, <1>1, Seen
  <2> QED
    BY <2>3, <1>3
<1>5. CASE sweep[s].res[r] = "applied"
  <2>1. row[r].state = "paused"
    <3> SUFFICES ASSUME row[r].state # "paused" PROVE FALSE
      OBVIOUS
    <3>1. r = a /\ lock[a] # <<>> /\ a \in sweepReg
      BY DEF MemberStep, Elsewhere, Moves, PauseMoves, HeadOp
    <3> QED
      BY <3>1, <1>0, <1>2, <1>5 DEF RootQueue, RootStays
  <2>2. CASE b \in Waits(s)
    <3>1. b \in sweep[s].level /\ b \notin sweep'[s].level
      BY <2>2, Seen DEF Waits, SameSweep
    <3> QED
      BY <3>1, <1>3
  <2>3. CASE b \notin Waits(s)
    <3>1. sweep'[s].res[b] = sweep[s].res[b]
      BY <2>3, <1>1, Seen DEF Waits
    <3>2. Rests(b)
      BY <2>1, <2>3, <3>1, <1>0, <1>2, <1>5 DEF PauseGoes
    <3>3. HasFailed(b) => HasFailed(b)'
      BY <1>1, FailuresStay
    <3>4. CASE b # a
      BY <3>2, <3>3, <3>4, <1>1 DEF Rests, MemberStep, Elsewhere
    <3>5. CASE b = a
      <4> SUFFICES ASSUME a \in turn' \cap sweepReg' PROVE a \in frozen' \/ spawn'[a] = "unpaused" \/ HasFailed(a)'
        BY <3>5 DEF Rests
      <4>1. TurnMoves(a)
        BY DEF MemberStep, Moves
      <4>2. CASE a \in turn \cap sweepReg /\ (a \in frozen => a \in frozen')
        BY <4>1, <4>2, <3>2, <3>3, <3>5 DEF TurnMoves, Rests
      <4>3. CASE HeadOp(a, "resume")
        <5>1. lock[a] # <<>> /\ Head(lock[a]).by \notin {None, s}
          BY <4>3, HeadFacts DEF HeadOp, EntryOf
        <5> QED
          BY <5>1, <3>3, <3>5, HeadFacts
      <4>4. CASE ~hasPausedAncestor(a) /\ row'[a].state = "running"
        <5>1. a # r
          BY <4>4
        <5> QED
          BY <4>4, <5>1, <3>5, <1>1, <2>1 DEF hasPausedAncestor
      <4> QED
        BY <4>1, <4>2, <4>3, <4>4 DEF TurnMoves
    <3> QED
      BY <3>4, <3>5
  <2> QED
    BY <2>2, <2>3
<1> QED
  BY <1>4, <1>5

(* A step at one member leaves the others as they are.                       *)
LEMMA OtherMembersStay ==
    ASSUME SweepInv, SweepTypes', NEW a \in TreeAgents, NEW how, MemberStep(a, how),
           NEW b \in TreeAgents \ {a}
    PROVE  MemberInv(b)'
<1>1. /\ MemberHeld(b) /\ MemberRow(b) /\ MemberLost(b) /\ MemberQueue(b)
      /\ row'[b] = row[b] /\ lock'[b] = lock[b] /\ step'[b] = step[b] /\ spawn'[b] = spawn[b]
      /\ (b \in sweepReg') = (b \in sweepReg) /\ (b \in turn') = (b \in turn)
      /\ (b \in frozen') = (b \in frozen)
  BY DEF SweepInv, MemberInv, MemberStep, Elsewhere
<1>2. MemberHeld(b)'
  BY <1>1 DEF MemberHeld, Exists
<1>3. MemberRow(b)'
  BY <1>1 DEF MemberRow
<1>4. MemberLost(b)'
  BY <1>1, FailuresStay DEF MemberLost
<1>5. MemberQueue(b)'
  <2> SUFFICES ASSUME NEW e \in ToSet(lock[b]) PROVE EntryOf(b, e)'
    BY <1>1 DEF MemberQueue
  <2>1. EntryOf(b, e) /\ (Exists(b) => Exists(b)')
    BY <1>1, ExistsStays DEF MemberQueue
  <2>2. lock[b] \in Seq(LockEntry)
    BY DEF SweepInv, SweepTypes
  <2>3. e.by # None => e.by \in Sweeps
    <3>1. PICK i \in 1 .. Len(lock[b]) : e = lock[b][i]
      BY <2>2 DEF ToSet
    <3>2. lock[b][i] \in LockEntry
      BY <2>2
    <3> QED
      BY <3>1, <3>2 DEF LockEntry
  <2>4. CASE e.by = None
    BY <2>1, <2>4, <1>1 DEF EntryOf
  <2>5. CASE e.by # None
    BY <2>1, <2>3, <2>5, <1>1, Seen DEF EntryOf, SameSweep
  <2> QED
    BY <2>4, <2>5
<1> QED
  BY <1>2, <1>3, <1>4, <1>5 DEF MemberInv

(* A step at a member keeps the invariant if it keeps the member's own.      *)
LEMMA MemberStepKeeps ==
    ASSUME SweepInv, SweepTypes', NEW a \in TreeAgents, NEW how, MemberStep(a, how), MemberInv(a)'
    PROVE  SweepInv'
<1>1. \A b \in TreeAgents : MemberInv(b)'
  BY OtherMembersStay
<1>2. \A s \in Sweeps : Progress(s)' /\ OthersRest(s)' /\ StopInv(s)' /\ ResumeGoes(s)' /\ PauseInv(s)'
  BY ProgressStays, StopAnswersStay, StopDescendsStays, StopLateStays, ResumeGoesStays, RootFirstStays,
     RootQueueStays, PauseGoesStays DEF StopInv, PauseInv
<1> QED
  BY <1>1, <1>2 DEF SweepInv

(* A command that is over: its lock passes on, and who waits is told.        *)
Pops(a, how, to) ==
    /\ lock[a] # <<>> /\ how \in {"applied", "failed"} /\ to \in {"joined", "unpaused"}
    /\ Unlock(a) /\ Answered(a, how) /\ JoinOver(a, to)

(* The end of a command keeps the types.                                     *)
LEMMA PopTypes ==
    ASSUME SweepInv, NEW a \in TreeAgents, NEW how, NEW to, Pops(a, how, to)
    PROVE  /\ lock' \in [TreeAgents -> Seq(LockEntry)] /\ step' \in [TreeAgents -> {NoStep} \cup StepAt]
           /\ spawn' \in [TreeAgents -> SpawnStates] /\ sweep' \in [Sweeps -> SweepRecord]
<1>1. lock[a] \in Seq(LockEntry) /\ OnceEach(lock[a]) /\ lock[a] # <<>> /\ SweepTypes
  BY DEF SweepInv, SweepTypes, MemberInv, MemberQueue, Pops
<1>2. lock' \in [TreeAgents -> Seq(LockEntry)]
  <2>1. Tail(lock[a]) \in Seq(LockEntry)
    BY <1>1, QueuePop
  <2> QED
    BY <2>1, <1>1 DEF SweepTypes, Pops, Unlock
<1>3. step' \in [TreeAgents -> {NoStep} \cup StepAt]
  BY <1>1 DEF SweepTypes, Pops, Unlock
<1>4. spawn' \in [TreeAgents -> SpawnStates]
  BY <1>1 DEF SweepTypes, Pops, JoinOver, SpawnStates
<1>5. sweep' \in [Sweeps -> SweepRecord]
  <2>1. CASE sweep' = sweep
    BY <2>1, <1>1 DEF SweepTypes
  <2>2. CASE sweep' # sweep
    <3>1. PICK s \in Sweeps : sweep' = [sweep EXCEPT ![s].res[a] = how, ![s].level = @ \ {a}]
      BY <2>2, HeadFacts, <1>1 DEF Pops, Answered, LockEntry
    <3>2. sweep \in [Sweeps -> SweepRecord] /\ how \in Answers
      BY <1>1 DEF SweepTypes, Pops, Answers
    <3>3. sweep[s] \in SweepRecord /\ sweep[s].res \in [TreeAgents -> Answers] /\ sweep[s].level \subseteq TreeAgents
      BY <3>2 DEF SweepRecord
    <3>4. [sweep[s].res EXCEPT ![a] = how] \in [TreeAgents -> Answers] /\ sweep[s].level \ {a} \in SUBSET TreeAgents
      BY <3>2, <3>3
    <3>5. [sweep[s] EXCEPT !.res = [sweep[s].res EXCEPT ![a] = how], !.level = sweep[s].level \ {a}] \in SweepRecord
      BY <3>3, <3>4 DEF SweepRecord
    <3>6. sweep' = [sweep EXCEPT ![s] = [sweep[s] EXCEPT !.res = [sweep[s].res EXCEPT ![a] = how], !.level = sweep[s].level \ {a}]]
      BY <3>1, <3>2, <3>3 DEF SweepRecord
    <3> QED
      BY <3>2, <3>5, <3>6
  <2> QED
    BY <2>1, <2>2
<1> QED
  BY <1>2, <1>3, <1>4, <1>5

(* The end of a command: who hears of it, and what is left in the lock.      *)
LEMMA PopFacts ==
    ASSUME SweepInv, NEW a \in TreeAgents, NEW how, NEW to, Pops(a, how, to)
    PROVE  /\ \A b \in TreeAgents \ {a} : lock'[b] = lock[b] /\ step'[b] = step[b] /\ spawn'[b] = spawn[b]
           /\ lock'[a] = Tail(lock[a]) /\ step'[a] = NoStep
           /\ spawn'[a] = IF Head(lock[a]).by = None THEN to ELSE spawn[a]
           /\ SeesOnly(a) /\ SeesAnswer(a, how)
           /\ \A o \in Sweeps \ {Head(lock[a]).by} : sweep'[o] = sweep[o]
           /\ Head(lock[a]).by = None => HeadOp(a, "pause") /\ spawn[a] = "joining"
           /\ Head(lock[a]).by # None /\ how = "failed" => HasFailed(a)'
           /\ HasFailed(a) => HasFailed(a)'
<1>1. lock[a] # <<>> /\ SweepTypes
  BY DEF SweepInv, Pops
<1>2. Head(lock[a]) \in LockEntry /\ EntryOf(a, Head(lock[a]))
  BY <1>1, HeadFacts
<1>3. \A b \in TreeAgents \ {a} : lock'[b] = lock[b] /\ step'[b] = step[b] /\ spawn'[b] = spawn[b]
  BY <1>1 DEF SweepTypes, Pops, Unlock, JoinOver
<1>4. lock'[a] = Tail(lock[a]) /\ step'[a] = NoStep /\ spawn'[a] = IF Head(lock[a]).by = None THEN to ELSE spawn[a]
  BY <1>1 DEF SweepTypes, Pops, Unlock, JoinOver
<1>5. CASE sweep' = sweep
  <2>1. SeesOnly(a) /\ SeesAnswer(a, how)
    BY <1>5 DEF SeesOnly, SeesAnswer, SameSweep
  <2>2. ASSUME Head(lock[a]).by # None PROVE HasFailed(a) \/ how # "failed"
    <3>1. PICK s \in Sweeps : s = Head(lock[a]).by
      BY <1>2, <2>2 DEF LockEntry
    <3>2. CASE a \notin sweep[s].level
      BY <1>2, <2>2, <3>1, <3>2 DEF EntryOf, HasFailed
    <3>3. CASE a \in sweep[s].level /\ how = "failed"
      <4>1. sweep' = [sweep EXCEPT ![s].res[a] = how, ![s].level = @ \ {a}]
        BY <3>1, <3>3, <2>2 DEF Pops, Answered
      <4>2. sweep[s] \in SweepRecord /\ sweep \in [Sweeps -> SweepRecord] /\ sweep[s].res \in [TreeAgents -> Answers]
        BY <1>1 DEF SweepTypes, SweepRecord
      <4>3. sweep'[s].level = sweep[s].level \ {a}
        BY <4>1, <4>2 DEF SweepRecord
      <4> QED
        BY <4>3, <3>3, <1>5
    <3> QED
      BY <3>2, <3>3
  <2> QED
    BY <1>1, <1>2, <1>3, <1>4, <1>5, <2>1, <2>2 DEF HasFailed, EntryOf, HeadOp
<1>6. CASE sweep' # sweep
  <2>1. PICK s \in Sweeps : s = Head(lock[a]).by /\ a \in sweep[s].level /\ s # None
                            /\ sweep' = [sweep EXCEPT ![s].res[a] = how, ![s].level = @ \ {a}]
    BY <1>2, <1>6, SubtreeConstants DEF Pops, Answered, LockEntry
  <2>2. /\ sweep \in [Sweeps -> SweepRecord] /\ sweep[s] \in SweepRecord
        /\ sweep[s].res \in [TreeAgents -> Answers]
    BY <1>1 DEF SweepTypes, SweepRecord
  <2>3. /\ sweep'[s].res = [sweep[s].res EXCEPT ![a] = how] /\ sweep'[s].level = sweep[s].level \ {a}
        /\ SameSweep(s) /\ \A o \in Sweeps \ {s} : sweep'[o] = sweep[o]
    BY <2>1, <2>2 DEF SweepRecord, SameSweep
  <2>4. SeesOnly(a)
    <3> SUFFICES ASSUME NEW o \in Sweeps
                 PROVE  SameSweep(o) /\ \A b \in TreeAgents \ {a} :
                            /\ sweep'[o].res[b] = sweep[o].res[b]
                            /\ (b \in sweep'[o].level) = (b \in sweep[o].level)
      BY DEF SeesOnly
    <3>1. CASE o = s
      BY <3>1, <2>2, <2>3
    <3>2. CASE o # s
      BY <3>2, <2>3 DEF SameSweep
    <3> QED
      BY <3>1, <3>2
  <2>5. sweep'[s].res[a] = how
    BY <2>2, <2>3
  <2>6. SeesAnswer(a, how)
    BY <2>1, <2>3, <2>5, <1>1, <1>4 DEF SeesAnswer
  <2>7. how = "failed" => HasFailed(a)'
    BY <2>5 DEF HasFailed
  <2>8. HasFailed(a) => HasFailed(a)'
    <3> SUFFICES ASSUME NEW o \in Sweeps, sweep[o].res[a] = "failed" PROVE sweep'[o].res[a] = "failed"
      BY DEF HasFailed
    <3>1. sweep[s].res[a] = "none"
      BY <2>1 DEF SweepInv, Progress
    <3> QED
      BY <3>1, <2>3
  <2> QED
    BY <1>2, <1>3, <1>4, <2>1, <2>3, <2>4, <2>6, <2>7, <2>8
<1> QED
  BY <1>5, <1>6

(* The commands that are left in the lock are as they were.                  *)
LEMMA PopQueue ==
    ASSUME SweepInv, NEW a \in TreeAgents, NEW how, NEW to, Pops(a, how, to),
           sweepMix'.op = sweepMix.op, row[a].sandbox => row'[a].sandbox, Exists(a) => Exists(a)'
    PROVE  MemberQueue(a)'
<1>1. lock[a] # <<>> /\ lock[a] \in Seq(LockEntry) /\ OnceEach(lock[a]) /\ \A e \in ToSet(lock[a]) : EntryOf(a, e)
  BY DEF SweepInv, SweepTypes, Pops, MemberInv, MemberQueue
<1>2. OnceEach(Tail(lock[a])) /\ Tail(lock[a]) \in Seq(LockEntry)
  BY <1>1, QueuePop
<1>3. ASSUME NEW e \in ToSet(Tail(lock[a])) PROVE EntryOf(a, e)'
  <2>1. EntryOf(a, e) /\ e.by # Head(lock[a]).by
    BY <1>1, <1>3, QueuePop
  <2>2. e.by # None => e.by \in Sweeps
    <3>1. PICK i \in 1 .. Len(Tail(lock[a])) : e = Tail(lock[a])[i]
      BY <1>2, <1>3 DEF ToSet
    <3>2. Tail(lock[a])[i] \in LockEntry
      BY <1>2
    <3> QED
      BY <3>1, <3>2 DEF LockEntry
  <2>3. CASE e.by = None
    BY <2>1, <2>3, PopFacts DEF EntryOf
  <2>4. CASE e.by # None
    <3>1. PICK o \in Sweeps : o = e.by
      BY <2>2, <2>4
    <3>2. sweep'[o].phase = sweep[o].phase /\ sweep'[o].res[a] = sweep[o].res[a] /\ (a \in sweep'[o].level) = (a \in sweep[o].level)
      BY <2>1, <3>1, PopFacts
    <3> QED
      BY <2>1, <2>4, <3>1, <3>2 DEF EntryOf
  <2> QED
    BY <2>3, <2>4
<1>4. lock'[a] = Tail(lock[a])
  BY PopFacts
<1> QED
  BY <1>2, <1>3, <1>4 DEF MemberQueue

(* No command is over.                                                       *)
LEMMA KeepFacts ==
    ASSUME SweepInv, NEW a \in TreeAgents, sweep' = sweep
    PROVE  /\ SeesOnly(a) /\ SeesAnswer(a, "failed") /\ (HasFailed(a) = HasFailed(a)')
           /\ lock'[a] = lock[a] /\ (spawn'[a] = spawn[a] \/ spawn[a] # "joining")
              /\ sweepMix'.op = sweepMix.op /\ (row[a].sandbox => row'[a].sandbox) /\ (Exists(a) => Exists(a)') => MemberQueue(a)'
<1>1. SeesOnly(a) /\ SeesAnswer(a, "failed") /\ (HasFailed(a) = HasFailed(a)')
  BY DEF SeesOnly, SeesAnswer, SameSweep, HasFailed
<1>2. MemberQueue(a)
  BY DEF SweepInv, MemberInv
<1>3. ASSUME lock'[a] = lock[a], spawn'[a] = spawn[a] \/ spawn[a] # "joining",
             sweepMix'.op = sweepMix.op, row[a].sandbox => row'[a].sandbox, Exists(a) => Exists(a)'
      PROVE  MemberQueue(a)'
  BY <1>2, <1>3 DEF MemberQueue, EntryOf
<1> QED
  BY <1>1, <1>3

(* What driveTurn() of a first prompt changes.                               *)
LEMMA StartFacts ==
    ASSUME SweepInv, NEW c \in TreeAgents, StartTurn(c)
    PROVE  /\ row' \in [TreeAgents -> SweepRow] /\ turn' \subseteq TreeAgents /\ sweepPrompts' \in [TreeAgents -> Nat]
           /\ \A b \in TreeAgents \ {c} : row'[b] = row[b] /\ (b \in turn') = (b \in turn)
           /\ row'[c].from = row[c].from /\ row'[c].ended = row[c].ended /\ row'[c].sandbox = row[c].sandbox
           /\ row'[c].state = IF c \in sweepReg THEN "running" ELSE row[c].state
           /\ (c \in turn') = (c \in turn \/ c \in sweepReg)
<1>1. SweepTypes /\ row[c] \in SweepRow /\ MemberHeld(c)
  BY DEF SweepInv, SweepTypes, MemberInv
<1>2. CASE c \in sweepReg
  <2>1. [row[c] EXCEPT !.state = "running"] \in SweepRow
    BY <1>1 DEF SweepRow, AgentStates
  <2>2. row' \in [TreeAgents -> SweepRow]
    BY <1>1, <1>2, <2>1 DEF SweepTypes, StartTurn
  <2>3. /\ row'[c].from = row[c].from /\ row'[c].ended = row[c].ended /\ row'[c].sandbox = row[c].sandbox
        /\ row'[c].state = "running"
    BY <1>1, <1>2 DEF SweepTypes, SweepRow, StartTurn
  <2>4. turn' = turn \cup {c} /\ \A b \in TreeAgents \ {c} : row'[b] = row[b]
    BY <1>1, <1>2 DEF SweepTypes, StartTurn
  <2>5. sweepPrompts' \in [TreeAgents -> Nat] /\ turn' \subseteq TreeAgents
    BY <1>1, <1>2 DEF SweepTypes, StartTurn
  <2> QED
    BY <2>2, <2>3, <2>4, <2>5, <1>2
<1>3. CASE c \notin sweepReg
  BY <1>1, <1>3 DEF SweepTypes, StartTurn, MemberHeld
<1> QED
  BY <1>2, <1>3

(* What the proofs of a command start from.                                  *)
MemberFacts(a) == /\ SweepTypes /\ row[a] \in SweepRow /\ MemberHeld(a) /\ MemberRow(a) /\ MemberLost(a)

(* pauseAgent(): the agent is paused already, is gone, or is being paused.   *)
LEMMA PauseBeginsKeeps == ASSUME SweepInv, NEW a \in TreeAgents, PauseBegins(a) PROVE SweepInv'
<1>1. MemberFacts(a)
  BY DEF SweepInv, SweepTypes, MemberInv, MemberFacts
<1>2. /\ lock[a] # <<>> /\ HeadOp(a, "pause") /\ step[a] = NoStep
      /\ UNCHANGED <<sweepMix, sweepReg>> /\ NoStep.at = "idle" /\ NoStep.from = "none"
  BY DEF PauseBegins, Begins, HeadOp, NoStep
<1>3. CASE row[a].state = "paused"
  <2>1. Pops(a, "applied", "joined") /\ UNCHANGED <<turn, row, sweepPrompts, frozen>>
    BY <1>2, <1>3 DEF PauseBegins, Applied, Pops
  <2>2. SweepTypes'
    BY <1>1, <1>2, <2>1, PopTypes DEF SweepTypes, MemberFacts
  <2>3. MemberStep(a, "applied")
    <3>1. Elsewhere(a) /\ SeesOnly(a) /\ SeesAnswer(a, "applied") /\ QueueMoves(a) /\ RowMoves(a)
      BY <1>2, <2>1, PopFacts DEF Elsewhere, QueueMoves, RowMoves, Exists
    <3>2. PauseMoves(a) /\ TurnMoves(a)
      BY <1>2, <1>3, <2>1, PopFacts DEF PauseMoves, TurnMoves, Joining
    <3>3. AnswerMoves(a, "applied")
      BY <1>1, <1>2, <1>3, <2>1 DEF AnswerMoves, HeadOp, MemberFacts, MemberRow
    <3> QED
      BY <1>2, <3>1, <3>2, <3>3 DEF MemberStep, Moves
  <2>4. MemberHeld(a)' /\ MemberRow(a)' /\ MemberLost(a)'
    <3>1. step'[a] = NoStep /\ spawn'[a] \in {spawn[a], "joined"} /\ (HasFailed(a) => HasFailed(a)')
      BY <2>1, PopFacts
    <3>2. MemberHeld(a)'
      BY <1>1, <1>2, <2>1, <3>1, <1>3 DEF MemberFacts, MemberHeld, Exists
    <3>3. MemberRow(a)'
      BY <1>1, <1>2, <2>1, <3>1, <1>3 DEF MemberFacts, MemberRow
    <3>4. MemberLost(a)'
      BY <1>1, <1>2, <2>1, <3>1 DEF MemberFacts, MemberLost
    <3> QED
      BY <3>2, <3>3, <3>4
  <2>5. MemberQueue(a)'
    BY <1>2, <2>1, PopQueue DEF Exists
  <2> QED
    BY <2>2, <2>3, <2>4, <2>5, MemberStepKeeps DEF MemberInv
<1>4. CASE row[a].state # "paused" /\ ~IsLive(a)
  <2>1. Pops(a, "failed", "unpaused") /\ UNCHANGED <<turn, row, sweepPrompts, frozen>>
    BY <1>2, <1>4 DEF PauseBegins, Failed, Pops, StartTurn, IsLive
  <2>2. SweepTypes'
    BY <1>1, <1>2, <2>1, PopTypes DEF SweepTypes, MemberFacts
  <2>3. MemberStep(a, "failed")
    <3>1. Elsewhere(a) /\ SeesOnly(a) /\ SeesAnswer(a, "failed") /\ QueueMoves(a) /\ RowMoves(a)
      BY <1>2, <2>1, PopFacts DEF Elsewhere, QueueMoves, RowMoves, Exists
    <3>2. PauseMoves(a) /\ TurnMoves(a)
      BY <1>4, <2>1, PopFacts DEF PauseMoves, TurnMoves, Joining
    <3> QED
      BY <1>2, <3>1, <3>2 DEF MemberStep, Moves, AnswerMoves
  <2>4. MemberHeld(a)' /\ MemberRow(a)' /\ MemberLost(a)'
    <3>1. step'[a] = NoStep /\ (spawn'[a] = spawn[a] \/ (spawn'[a] = "unpaused" /\ spawn[a] = "joining"))
          /\ (HasFailed(a) => HasFailed(a)')
      <4>1. /\ step'[a] = NoStep /\ (HasFailed(a) => HasFailed(a)')
            /\ spawn'[a] = IF Head(lock[a]).by = None THEN "unpaused" ELSE spawn[a]
            /\ Head(lock[a]).by = None => spawn[a] = "joining"
        BY <2>1, PopFacts
      <4> QED
        BY <4>1
    <3>2. MemberHeld(a)'
      BY <1>1, <1>2, <2>1, <3>1, <1>4 DEF MemberFacts, MemberHeld, Exists
    <3>3. MemberRow(a)'
      BY <1>1, <1>2, <2>1, <3>1, <1>4 DEF MemberFacts, MemberRow
    <3>4. MemberLost(a)'
      BY <1>1, <1>2, <2>1, <3>1 DEF MemberFacts, MemberLost
    <3> QED
      BY <3>2, <3>3, <3>4
  <2>5. MemberQueue(a)'
    BY <1>2, <2>1, PopQueue DEF Exists
  <2> QED
    BY <2>2, <2>3, <2>4, <2>5, MemberStepKeeps DEF MemberInv
<1>5. CASE row[a].state # "paused" /\ IsLive(a)
  <2>1. /\ Awaits(a, "pausing") /\ frozen' = frozen \cup {a} /\ a \in sweepReg
        /\ UNCHANGED <<turn, row, sweepPrompts, lock, sweep, spawn>>
    BY <1>5 DEF PauseBegins, Awaits, IsLive
  <2>2. /\ step' \in [TreeAgents -> {NoStep} \cup StepAt] /\ step'[a].at = "pausing"
        /\ step'[a].from = row[a].state /\ \A b \in TreeAgents \ {a} : step'[b] = step[b]
    BY <1>1, <2>1 DEF Awaits, SweepTypes, MemberFacts, StepAt, SweepRow
  <2>3. SweepTypes'
    BY <1>1, <1>2, <2>1, <2>2 DEF SweepTypes, MemberFacts
  <2>4. MemberStep(a, "failed")
    <3>1. Elsewhere(a) /\ SeesOnly(a) /\ SeesAnswer(a, "failed") /\ QueueMoves(a) /\ RowMoves(a)
      BY <1>2, <2>1, <2>2, KeepFacts DEF Elsewhere, QueueMoves, RowMoves, Exists
    <3>2. PauseMoves(a) /\ TurnMoves(a)
      BY <1>5, <2>1 DEF PauseMoves, TurnMoves, Joining
    <3> QED
      BY <1>2, <3>1, <3>2 DEF MemberStep, Moves, AnswerMoves
  <2>5. MemberHeld(a)' /\ MemberRow(a)' /\ MemberLost(a)'
    <3>1. MemberHeld(a)'
      BY <1>1, <1>2, <2>1, <2>2 DEF MemberFacts, MemberHeld, Exists, AwaitedOp, HeadOp
    <3>2. MemberRow(a)'
      <4>1. row[a].state \notin {"none", "aborted"}
        BY <1>1, <1>2, <2>1 DEF MemberFacts, MemberHeld, MemberRow, Exists
      <4> QED
        BY <1>1, <1>5, <2>1, <2>2, <4>1 DEF MemberFacts, MemberRow
    <3>3. MemberLost(a)'
      BY <1>1, <2>1, <2>2, KeepFacts DEF MemberFacts, MemberLost
    <3> QED
      BY <3>1, <3>2, <3>3
  <2>6. MemberQueue(a)'
    BY <1>2, <2>1, KeepFacts DEF Exists
  <2> QED
    BY <2>3, <2>4, <2>5, <2>6, MemberStepKeeps DEF MemberInv
<1> QED
  BY <1>3, <1>4, <1>5

(* The container is paused, and the row says so.                             *)
LEMMA PauseEndsKeeps == ASSUME SweepInv, NEW a \in TreeAgents, PauseEnds(a) PROVE SweepInv'
<1>1. MemberFacts(a)
  BY DEF SweepInv, SweepTypes, MemberInv, MemberFacts
<1>2. step[a].at = "pausing" /\ UNCHANGED <<sweepMix, sweepReg, turn, frozen, sweepPrompts>>
  BY DEF PauseEnds
<1>3. step[a] \in StepAt /\ step[a] # NoStep
  BY <1>1, <1>2 DEF MemberFacts, SweepTypes, NoStep
<1>4. lock[a] # <<>> /\ HeadOp(a, "pause") /\ Pops(a, "applied", "joined") /\ a \in sweepReg
  BY <1>1, <1>2, <1>3 DEF PauseEnds, Applied, Pops, MemberFacts, MemberHeld, HeadOp, AwaitedOp
<1>5. /\ row' \in [TreeAgents -> SweepRow] /\ \A b \in TreeAgents \ {a} : row'[b] = row[b]
      /\ row'[a].state = "paused" /\ row'[a].from = step[a].from
      /\ row'[a].ended = row[a].ended /\ row'[a].sandbox = row[a].sandbox
  <2>1. row' = [row EXCEPT ![a] = [row[a] EXCEPT !.state = "paused", !.from = step[a].from]]
    BY <1>1 DEF PauseEnds, MemberFacts, SweepTypes
  <2>2. [row[a] EXCEPT !.state = "paused", !.from = step[a].from] \in SweepRow
    BY <1>1, <1>3 DEF MemberFacts, SweepRow, StepAt, AgentStates
  <2> QED
    BY <1>1, <2>1, <2>2 DEF MemberFacts, SweepTypes, SweepRow
<1>6. SweepTypes'
  BY <1>1, <1>2, <1>4, <1>5, PopTypes DEF SweepTypes, MemberFacts
<1>7. MemberStep(a, "applied")
  <2>1. Elsewhere(a) /\ SeesOnly(a) /\ SeesAnswer(a, "applied") /\ QueueMoves(a) /\ RowMoves(a)
    BY <1>1, <1>2, <1>4, <1>5, PopFacts DEF Elsewhere, QueueMoves, RowMoves, Exists, MemberFacts, MemberHeld
  <2>2. PauseMoves(a) /\ TurnMoves(a)
    BY <1>2, <1>4, <1>5, PopFacts DEF PauseMoves, TurnMoves, Joining
  <2>3. AnswerMoves(a, "applied")
    BY <1>1, <1>2, <1>4, <1>5 DEF AnswerMoves, HeadOp, MemberFacts, MemberRow
  <2> QED
    BY <1>2, <2>1, <2>2, <2>3 DEF MemberStep, Moves
<1>8. step'[a] = NoStep /\ spawn'[a] \in {spawn[a], "joined"} /\ (HasFailed(a) => HasFailed(a)')
      /\ NoStep.at = "idle" /\ NoStep.from = "none"
  BY <1>4, PopFacts DEF NoStep
<1>9. MemberHeld(a)'
  BY <1>1, <1>2, <1>4, <1>5, <1>8 DEF MemberFacts, MemberHeld, Exists
<1>10. MemberRow(a)'
  BY <1>1, <1>2, <1>5, <1>8 DEF MemberFacts, MemberRow
<1>11. MemberLost(a)'
  BY <1>1, <1>5, <1>8 DEF MemberFacts, MemberLost
<1>12. MemberQueue(a)'
  BY <1>2, <1>4, <1>5, PopQueue DEF Exists
<1> QED
  BY <1>6, <1>7, <1>9, <1>10, <1>11, <1>12, MemberStepKeeps DEF MemberInv

(* resumeAgent(): the agent is paused, or the command fails.                 *)
LEMMA ResumeBeginsKeeps == ASSUME SweepInv, NEW a \in TreeAgents, ResumeBegins(a) PROVE SweepInv'
<1>1. MemberFacts(a)
  BY DEF SweepInv, SweepTypes, MemberInv, MemberFacts
<1>2. /\ lock[a] # <<>> /\ HeadOp(a, "resume") /\ ~HeadOp(a, "pause") /\ ~HeadOp(a, "stop") /\ step[a] = NoStep
      /\ UNCHANGED <<sweepMix, sweepReg, frozen>> /\ NoStep.at = "idle" /\ NoStep.from = "none"
  BY DEF ResumeBegins, Begins, HeadOp, NoStep
<1>3. CASE row[a].state = "paused" /\ a \in sweepReg
  <2>1. Awaits(a, "resuming") /\ UNCHANGED <<turn, row, sweepPrompts, lock, sweep, spawn>>
    BY <1>3 DEF ResumeBegins, Awaits
  <2>2. /\ step' \in [TreeAgents -> {NoStep} \cup StepAt] /\ step'[a].at = "resuming"
        /\ step'[a].from = row[a].state /\ \A b \in TreeAgents \ {a} : step'[b] = step[b]
    BY <1>1, <2>1 DEF Awaits, SweepTypes, MemberFacts, StepAt, SweepRow
  <2>3. SweepTypes'
    BY <1>1, <1>2, <2>1, <2>2 DEF SweepTypes, MemberFacts
  <2>4. MemberStep(a, "failed")
    <3>1. Elsewhere(a) /\ SeesOnly(a) /\ SeesAnswer(a, "failed") /\ QueueMoves(a) /\ RowMoves(a)
      BY <1>2, <2>1, <2>2, KeepFacts DEF Elsewhere, QueueMoves, RowMoves, Exists
    <3>2. PauseMoves(a) /\ TurnMoves(a)
      BY <1>2, <1>3, <2>1 DEF PauseMoves, TurnMoves, Joining
    <3> QED
      BY <1>2, <3>1, <3>2 DEF MemberStep, Moves, AnswerMoves
  <2>5. MemberHeld(a)' /\ MemberRow(a)' /\ MemberLost(a)'
    <3>1. MemberHeld(a)'
      BY <1>1, <1>2, <1>3, <2>1, <2>2 DEF MemberFacts, MemberHeld, Exists, AwaitedOp, HeadOp
    <3>2. MemberRow(a)'
      BY <1>1, <1>2, <1>3, <2>1, <2>2 DEF MemberFacts, MemberRow
    <3>3. MemberLost(a)'
      BY <1>1, <2>1, <2>2, KeepFacts DEF MemberFacts, MemberLost
    <3> QED
      BY <3>1, <3>2, <3>3
  <2>6. MemberQueue(a)'
    BY <1>2, <2>1, KeepFacts DEF Exists
  <2> QED
    BY <2>3, <2>4, <2>5, <2>6, MemberStepKeeps DEF MemberInv
<1>4. CASE ~(row[a].state = "paused" /\ a \in sweepReg)
  <2>1. Pops(a, "failed", "unpaused") /\ Head(lock[a]).by # None
    BY <1>2, <1>4, HeadFacts DEF ResumeBegins, Failed, Pops, EntryOf, HeadOp
  <2>2. UNCHANGED <<turn, row, sweepPrompts, frozen>>
    BY <1>2, <1>4, <2>1 DEF ResumeBegins, Failed
  <2>3. SweepTypes'
    BY <1>1, <1>2, <2>1, <2>2, PopTypes DEF SweepTypes, MemberFacts
  <2>4. spawn'[a] = spawn[a] /\ step'[a] = NoStep /\ (HasFailed(a) => HasFailed(a)')
    BY <2>1, PopFacts
  <2>5. MemberStep(a, "failed")
    <3>1. Elsewhere(a) /\ SeesOnly(a) /\ SeesAnswer(a, "failed") /\ QueueMoves(a) /\ RowMoves(a)
      BY <1>2, <2>1, <2>2, PopFacts DEF Elsewhere, QueueMoves, RowMoves, Exists
    <3>2. PauseMoves(a) /\ TurnMoves(a)
      BY <1>2, <2>2, <2>4 DEF PauseMoves, TurnMoves, Joining
    <3> QED
      BY <1>2, <3>1, <3>2 DEF MemberStep, Moves, AnswerMoves
  <2>6. MemberHeld(a)'
    BY <1>1, <1>2, <2>2, <2>4 DEF MemberFacts, MemberHeld, Exists
  <2>7. MemberRow(a)'
    BY <1>1, <1>2, <2>2, <2>4 DEF MemberFacts, MemberRow
  <2>8. MemberLost(a)'
    BY <1>1, <1>2, <2>2, <2>4 DEF MemberFacts, MemberLost
  <2>9. MemberQueue(a)'
    BY <1>2, <2>1, <2>2, PopQueue DEF Exists
  <2> QED
    BY <2>3, <2>5, <2>6, <2>7, <2>8, <2>9, MemberStepKeeps DEF MemberInv
<1> QED
  BY <1>3, <1>4

(* The container runs again.                                                 *)
LEMMA ResumeThawsKeeps == ASSUME SweepInv, NEW a \in TreeAgents, ResumeThaws(a) PROVE SweepInv'
<1>1. MemberFacts(a)
  BY DEF SweepInv, SweepTypes, MemberInv, MemberFacts
<1>2. step[a].at = "resuming" /\ frozen' = frozen \ {a}
      /\ UNCHANGED <<sweepMix, sweepReg, turn, sweepPrompts, lock, spawn, sweep>>
  BY DEF ResumeThaws
<1>3. step[a] \in StepAt /\ step[a] # NoStep
  BY <1>1, <1>2 DEF MemberFacts, SweepTypes, NoStep
<1>4. lock[a] # <<>> /\ HeadOp(a, "resume") /\ ~HeadOp(a, "pause") /\ ~HeadOp(a, "stop") /\ a \in sweepReg
  BY <1>1, <1>2, <1>3 DEF MemberFacts, MemberHeld, HeadOp, AwaitedOp
<1>5. /\ row' \in [TreeAgents -> SweepRow] /\ \A b \in TreeAgents \ {a} : row'[b] = row[b]
      /\ row'[a].state = row[a].from /\ row'[a].from = row[a].from
      /\ row'[a].ended = row[a].ended /\ row'[a].sandbox = row[a].sandbox
  <2>1. row' = [row EXCEPT ![a] = [row[a] EXCEPT !.state = row[a].from]]
    BY <1>1 DEF ResumeThaws, MemberFacts, SweepTypes
  <2>2. [row[a] EXCEPT !.state = row[a].from] \in SweepRow
    BY <1>1, <1>3 DEF MemberFacts, SweepRow
  <2> QED
    BY <1>1, <2>1, <2>2 DEF MemberFacts, SweepTypes, SweepRow
<1>6. /\ step' \in [TreeAgents -> {NoStep} \cup StepAt] /\ step'[a].at = "checking"
      /\ step'[a].from = step[a].from /\ \A b \in TreeAgents \ {a} : step'[b] = step[b]
  <2>1. [step[a] EXCEPT !.at = "checking"] \in StepAt
    BY <1>3 DEF StepAt
  <2> QED
    BY <1>1, <1>3, <2>1 DEF ResumeThaws, SweepTypes, MemberFacts, StepAt
<1>7. SweepTypes'
  BY <1>1, <1>2, <1>5, <1>6 DEF SweepTypes, MemberFacts
<1>8. row[a].from \notin {"none", "paused", "aborted"}
  BY <1>1, <1>2 DEF MemberFacts, MemberRow
<1>9. MemberStep(a, "failed")
  <2>1. Elsewhere(a) /\ SeesOnly(a) /\ SeesAnswer(a, "failed") /\ QueueMoves(a)
    BY <1>2, <1>5, <1>6, KeepFacts DEF Elsewhere, QueueMoves
  <2>2. RowMoves(a)
    BY <1>1, <1>2, <1>4, <1>5, <1>8 DEF RowMoves, Exists, MemberFacts, MemberHeld
  <2>3. PauseMoves(a) /\ TurnMoves(a)
    BY <1>2, <1>4, <1>5, <1>8 DEF PauseMoves, TurnMoves, Joining
  <2> QED
    BY <1>2, <2>1, <2>2, <2>3 DEF MemberStep, Moves, AnswerMoves
<1>10. MemberHeld(a)'
  BY <1>1, <1>2, <1>3, <1>4, <1>5, <1>6, <1>8 DEF MemberFacts, MemberHeld, Exists, AwaitedOp, HeadOp
<1>11. MemberRow(a)'
  BY <1>1, <1>2, <1>5, <1>6, <1>8 DEF MemberFacts, MemberRow
<1>12. MemberLost(a)'
  BY <1>1, <1>2, <1>5, <1>6, KeepFacts DEF MemberFacts, MemberLost
<1>13. MemberQueue(a)'
  BY <1>2, <1>5, <1>8, KeepFacts DEF Exists
<1> QED
  BY <1>7, <1>9, <1>10, <1>11, <1>12, <1>13, MemberStepKeeps DEF MemberInv

(* The bridge has answered: the turn goes on, or the first prompt starts.    *)
LEMMA ResumeEndsKeeps == ASSUME SweepInv, NEW a \in TreeAgents, ResumeEnds(a) PROVE SweepInv'
<1>1. MemberFacts(a)
  BY DEF SweepInv, SweepTypes, MemberInv, MemberFacts
<1>2. step[a].at = "checking" /\ UNCHANGED <<sweepMix, sweepReg, frozen>>
  BY DEF ResumeEnds
<1>3. step[a] \in StepAt /\ step[a] # NoStep
  BY <1>1, <1>2 DEF MemberFacts, SweepTypes, NoStep
<1>4. /\ lock[a] # <<>> /\ HeadOp(a, "resume") /\ ~HeadOp(a, "pause") /\ ~HeadOp(a, "stop") /\ a \in sweepReg
      /\ Pops(a, "applied", "joined") /\ Head(lock[a]).by # None
  <2>1. lock[a] # <<>> /\ HeadOp(a, "resume") /\ ~HeadOp(a, "pause") /\ ~HeadOp(a, "stop") /\ a \in sweepReg
    BY <1>1, <1>2, <1>3 DEF MemberFacts, MemberHeld, HeadOp, AwaitedOp
  <2> QED
    BY <2>1, HeadFacts DEF ResumeEnds, Applied, Pops, EntryOf, HeadOp
<1>5. /\ row' \in [TreeAgents -> SweepRow] /\ turn' \subseteq TreeAgents /\ sweepPrompts' \in [TreeAgents -> Nat]
      /\ \A b \in TreeAgents \ {a} : row'[b] = row[b] /\ (b \in turn') = (b \in turn)
      /\ row'[a].from = row[a].from /\ row'[a].ended = row[a].ended /\ row'[a].sandbox = row[a].sandbox
      /\ row'[a].state \in {"running", row[a].state}
  <2>1. CASE row[a].from = "provisioning" /\ ~row[a].ended /\ a \notin turn
    BY <2>1, StartFacts DEF ResumeEnds
  <2>2. CASE ~(row[a].from = "provisioning" /\ ~row[a].ended /\ a \notin turn)
    BY <2>2, <1>1 DEF ResumeEnds, MemberFacts, SweepTypes
  <2> QED
    BY <2>1, <2>2
<1>6. spawn'[a] = spawn[a] /\ step'[a] = NoStep /\ (HasFailed(a) => HasFailed(a)')
      /\ NoStep.at = "idle" /\ NoStep.from = "none"
  BY <1>4, PopFacts DEF NoStep
<1>7. SweepTypes'
  BY <1>1, <1>2, <1>4, <1>5, PopTypes DEF SweepTypes, MemberFacts
<1>8. row[a].state # "paused" /\ row'[a].state # "paused" /\ row[a].state # "aborted"
  BY <1>1, <1>2, <1>4, <1>5 DEF MemberFacts, MemberRow
<1>9. MemberStep(a, "applied")
  <2>1. Elsewhere(a) /\ SeesOnly(a) /\ SeesAnswer(a, "applied") /\ QueueMoves(a)
    BY <1>2, <1>4, <1>5, PopFacts DEF Elsewhere, QueueMoves
  <2>2. RowMoves(a)
    BY <1>1, <1>2, <1>4, <1>5 DEF RowMoves, Exists, MemberFacts, MemberHeld
  <2>3. PauseMoves(a) /\ TurnMoves(a) /\ AnswerMoves(a, "applied")
    BY <1>2, <1>4, <1>5, <1>6, <1>8 DEF PauseMoves, TurnMoves, Joining, AnswerMoves
  <2> QED
    BY <1>2, <2>1, <2>2, <2>3 DEF MemberStep, Moves
<1>10. MemberHeld(a)'
  BY <1>1, <1>2, <1>4, <1>5, <1>6 DEF MemberFacts, MemberHeld, Exists
<1>11. MemberRow(a)'
  BY <1>1, <1>2, <1>5, <1>6, <1>8 DEF MemberFacts, MemberRow
<1>12. MemberLost(a)'
  BY <1>1, <1>5, <1>6 DEF MemberFacts, MemberLost
<1>13. MemberQueue(a)'
  BY <1>2, <1>4, <1>5, PopQueue DEF Exists
<1> QED
  BY <1>7, <1>9, <1>10, <1>11, <1>12, <1>13, MemberStepKeeps DEF MemberInv

(* stopAgent(): nothing to do, a release, a cancellation or an abort.        *)
LEMMA StopBeginsKeeps == ASSUME SweepInv, NEW a \in TreeAgents, StopBegins(a) PROVE SweepInv'
<1>1. MemberFacts(a)
  BY DEF SweepInv, SweepTypes, MemberInv, MemberFacts
<1>2. /\ lock[a] # <<>> /\ HeadOp(a, "stop") /\ ~HeadOp(a, "pause") /\ ~HeadOp(a, "resume") /\ step[a] = NoStep
      /\ UNCHANGED <<sweepMix, sweepReg, turn, sweepPrompts, frozen>>
      /\ NoStep.at = "idle" /\ NoStep.from = "none"
  BY DEF StopBegins, Begins, HeadOp, NoStep
<1>3. Head(lock[a]).by # None
  BY <1>2, HeadFacts DEF EntryOf, HeadOp
(* The row, whichever way it goes.                                           *)
<1>4. /\ row' \in [TreeAgents -> SweepRow] /\ \A b \in TreeAgents \ {a} : row'[b] = row[b]
      /\ row'[a].from = row[a].from /\ row'[a].sandbox = row[a].sandbox
      /\ \/ row[a].ended /\ row'[a] = row[a]
         \/ ~row[a].ended /\ row'[a].state = "aborted" /\ row'[a].ended = (a \notin sweepReg)
  <2>1. CASE row' = row /\ row[a].ended
    BY <2>1, <1>1 DEF MemberFacts, SweepTypes
  <2>2. CASE ~row[a].ended /\ row' = [row EXCEPT ![a].state = "aborted", ![a].ended = a \notin sweepReg]
    <3>1. row' = [row EXCEPT ![a] = [row[a] EXCEPT !.state = "aborted", !.ended = a \notin sweepReg]]
      BY <1>1, <2>2 DEF MemberFacts, SweepTypes
    <3>2. [row[a] EXCEPT !.state = "aborted", !.ended = a \notin sweepReg] \in SweepRow
      BY <1>1 DEF MemberFacts, SweepRow, AgentStates
    <3> QED
      BY <1>1, <2>2, <3>1, <3>2 DEF MemberFacts, SweepTypes, SweepRow
  <2> QED
    BY <2>1, <2>2 DEF StopBegins
<1>5. row'[a].state = "paused" => row[a].state = "paused"
  BY <1>4
<1>6. Exists(a) /\ Exists(a)'
  BY <1>2, <1>4, HeadFacts DEF EntryOf, Exists
<1>7. RowMoves(a)
  BY <1>2, <1>4, <1>6 DEF RowMoves
<1>8. CASE a \notin sweepReg
  <2>1. Pops(a, "applied", "joined")
    BY <1>2, <1>8 DEF StopBegins, Applied, Pops
  <2>2. SweepTypes'
    BY <1>1, <1>2, <1>4, <2>1, PopTypes DEF SweepTypes, MemberFacts
  <2>3. spawn'[a] = spawn[a] /\ step'[a] = NoStep /\ (HasFailed(a) => HasFailed(a)')
    BY <1>3, <2>1, PopFacts
  <2>4. MemberStep(a, "applied")
    <3>1. Elsewhere(a) /\ SeesOnly(a) /\ SeesAnswer(a, "applied") /\ QueueMoves(a)
      BY <1>2, <1>4, <2>1, PopFacts DEF Elsewhere, QueueMoves
    <3>2. PauseMoves(a) /\ TurnMoves(a) /\ AnswerMoves(a, "applied")
      BY <1>2, <1>4, <1>5, <1>8, <2>3 DEF PauseMoves, TurnMoves, Joining, AnswerMoves
    <3> QED
      BY <1>2, <1>7, <3>1, <3>2 DEF MemberStep, Moves
  <2>5. MemberHeld(a)'
    BY <1>1, <1>2, <1>4, <2>3 DEF MemberFacts, MemberHeld, Exists
  <2>6. MemberRow(a)'
    BY <1>1, <1>2, <1>4, <1>5, <1>8, <2>3 DEF MemberFacts, MemberRow
  <2>7. MemberLost(a)'
    BY <1>1, <1>2, <1>4, <2>3 DEF MemberFacts, MemberLost
  <2>8. MemberQueue(a)'
    BY <1>2, <1>4, <1>6, <2>1, PopQueue
  <2> QED
    BY <2>2, <2>4, <2>5, <2>6, <2>7, <2>8, MemberStepKeeps DEF MemberInv
<1>9. CASE a \in sweepReg
  <2>1. PICK at \in {"aborting", "releasing"} :
           Awaits(a, at) /\ (at = "releasing" => row[a].ended) /\ (at = "aborting" => ~row[a].ended)
    BY <1>9 DEF StopBegins
  <2>2. /\ step' \in [TreeAgents -> {NoStep} \cup StepAt] /\ step'[a].at = at
        /\ step'[a].from = row[a].state /\ \A b \in TreeAgents \ {a} : step'[b] = step[b]
        /\ UNCHANGED <<lock, sweep, spawn>>
    BY <1>1, <2>1 DEF Awaits, SweepTypes, MemberFacts, StepAt, SweepRow
  <2>3. SweepTypes'
    BY <1>1, <1>2, <1>4, <2>2 DEF SweepTypes, MemberFacts
  <2>4. MemberStep(a, "failed")
    <3>1. Elsewhere(a) /\ SeesOnly(a) /\ SeesAnswer(a, "failed") /\ QueueMoves(a)
      BY <1>2, <1>4, <2>2, KeepFacts DEF Elsewhere, QueueMoves
    <3>2. PauseMoves(a) /\ TurnMoves(a)
      BY <1>2, <1>5, <2>2 DEF PauseMoves, TurnMoves, Joining
    <3> QED
      BY <1>2, <1>7, <3>1, <3>2 DEF MemberStep, Moves, AnswerMoves
  <2>5. MemberHeld(a)'
    BY <1>1, <1>2, <1>4, <1>9, <2>1, <2>2 DEF MemberFacts, MemberHeld, Exists, AwaitedOp, HeadOp
  <2>6. MemberRow(a)'
    BY <1>1, <1>2, <1>4, <1>5, <2>1, <2>2, <1>9 DEF MemberFacts, MemberRow
  <2>7. MemberLost(a)'
    BY <1>1, <1>2, <1>4, <2>1, <2>2, KeepFacts DEF MemberFacts, MemberLost
  <2>8. MemberQueue(a)'
    BY <1>2, <1>4, <1>6, <2>2, KeepFacts
  <2> QED
    BY <2>3, <2>4, <2>5, <2>6, <2>7, <2>8, MemberStepKeeps DEF MemberInv
<1> QED
  BY <1>8, <1>9

(* The agent is closed.                                                      *)
LEMMA StopEndsKeeps == ASSUME SweepInv, NEW a \in TreeAgents, StopEnds(a) PROVE SweepInv'
<1>1. MemberFacts(a)
  BY DEF SweepInv, SweepTypes, MemberInv, MemberFacts
<1>2. step[a].at \in {"aborting", "releasing"} /\ UNCHANGED <<sweepMix, sweepPrompts>>
      /\ sweepReg' = sweepReg \ {a} /\ turn' = turn /\ frozen' = frozen \ {a}
  BY DEF StopEnds, Gone
<1>3. step[a] \in StepAt /\ step[a] # NoStep
  BY <1>1, <1>2 DEF MemberFacts, SweepTypes, NoStep
<1>4. /\ lock[a] # <<>> /\ HeadOp(a, "stop") /\ ~HeadOp(a, "pause") /\ ~HeadOp(a, "resume")
      /\ Pops(a, "applied", "joined") /\ Head(lock[a]).by # None
  <2>1. lock[a] # <<>> /\ HeadOp(a, "stop") /\ ~HeadOp(a, "pause") /\ ~HeadOp(a, "resume")
    BY <1>1, <1>2, <1>3 DEF MemberFacts, MemberHeld, HeadOp, AwaitedOp
  <2> QED
    BY <2>1, HeadFacts DEF StopEnds, Applied, Pops, EntryOf, HeadOp
<1>5. /\ row' \in [TreeAgents -> SweepRow] /\ \A b \in TreeAgents \ {a} : row'[b] = row[b]
      /\ row'[a].from = row[a].from /\ row'[a].sandbox = row[a].sandbox /\ row'[a].ended
      /\ row'[a].state \in {row[a].state, "aborted"}
  <2>1. CASE step[a].at = "releasing"
    BY <2>1, <1>1 DEF StopEnds, MemberFacts, SweepTypes, MemberRow
  <2>2. CASE step[a].at = "aborting"
    <3>1. row' = [row EXCEPT ![a] = [row[a] EXCEPT !.state = "aborted", !.ended = TRUE]]
      BY <1>1, <2>2 DEF StopEnds, MemberFacts, SweepTypes
    <3>2. [row[a] EXCEPT !.state = "aborted", !.ended = TRUE] \in SweepRow
      BY <1>1 DEF MemberFacts, SweepRow, AgentStates
    <3> QED
      BY <1>1, <3>1, <3>2 DEF MemberFacts, SweepTypes, SweepRow
  <2> QED
    BY <1>2, <2>1, <2>2
<1>6. spawn'[a] = spawn[a] /\ step'[a] = NoStep /\ (HasFailed(a) => HasFailed(a)')
      /\ NoStep.at = "idle" /\ NoStep.from = "none"
  BY <1>4, PopFacts DEF NoStep
<1>7. SweepTypes'
  BY <1>1, <1>2, <1>4, <1>5, PopTypes DEF SweepTypes, MemberFacts
<1>8. MemberStep(a, "applied")
  <2>1. Elsewhere(a) /\ SeesOnly(a) /\ SeesAnswer(a, "applied") /\ QueueMoves(a)
    BY <1>2, <1>4, <1>5, PopFacts DEF Elsewhere, QueueMoves
  <2>2. RowMoves(a)
    BY <1>1, <1>2, <1>3, <1>4, <1>5 DEF RowMoves, Exists, MemberFacts, MemberHeld
  <2>3. PauseMoves(a) /\ TurnMoves(a) /\ AnswerMoves(a, "applied")
    BY <1>2, <1>4, <1>5, <1>6 DEF PauseMoves, TurnMoves, Joining, AnswerMoves
  <2> QED
    BY <1>2, <2>1, <2>2, <2>3 DEF MemberStep, Moves
<1>9. MemberHeld(a)'
  BY <1>1, <1>2, <1>3, <1>4, <1>5, <1>6 DEF MemberFacts, MemberHeld, Exists
<1>10. MemberRow(a)'
  BY <1>1, <1>2, <1>5, <1>6 DEF MemberFacts, MemberRow
<1>11. MemberLost(a)'
  BY <1>1, <1>5, <1>6 DEF MemberFacts, MemberLost
<1>13. Exists(a) => Exists(a)'
  BY <1>5 DEF Exists
<1>12. MemberQueue(a)'
  BY <1>2, <1>4, <1>5, <1>13, PopQueue
<1> QED
  BY <1>7, <1>8, <1>9, <1>10, <1>11, <1>12, MemberStepKeeps DEF MemberInv

(* The provider or the bridge refuses.                                       *)
LEMMA CommandFailsKeeps == ASSUME SweepInv, NEW a \in TreeAgents, CommandFails(a) PROVE SweepInv'
<1>1. MemberFacts(a)
  BY DEF SweepInv, SweepTypes, MemberInv, MemberFacts
<1>2. /\ step[a].at \in {"pausing", "resuming", "checking"} /\ UNCHANGED sweepReg
      /\ sweepMix' \in MixOfSweeps /\ 1 \notin sweepMix'.born
      /\ sweepMix'.op = sweepMix.op /\ sweepMix'.root = sweepMix.root
  <2>1. sweepMix.faults - 1 \in Nat
    BY <1>1 DEF CommandFails, MemberFacts, SweepTypes, MixOfSweeps
  <2> QED
    BY <1>1, <2>1 DEF CommandFails, MemberFacts, SweepTypes, MixOfSweeps
<1>3. step[a] \in StepAt /\ step[a] # NoStep
  BY <1>1, <1>2 DEF MemberFacts, SweepTypes, NoStep
<1>4. /\ lock[a] # <<>> /\ a \in sweepReg /\ Pops(a, "failed", "unpaused") /\ ~HeadOp(a, "stop")
      /\ HeadOp(a, "pause") = (step[a].at = "pausing") /\ HeadOp(a, "resume") = (step[a].at # "pausing")
      /\ step[a].at # "pausing" => Head(lock[a]).by # None
  <2>1. /\ lock[a] # <<>> /\ a \in sweepReg /\ ~HeadOp(a, "stop")
        /\ HeadOp(a, "pause") = (step[a].at = "pausing") /\ HeadOp(a, "resume") = (step[a].at # "pausing")
    BY <1>1, <1>2, <1>3 DEF MemberFacts, MemberHeld, HeadOp, AwaitedOp
  <2> QED
    BY <2>1, HeadFacts DEF CommandFails, Failed, Pops, EntryOf, HeadOp
<1>5. /\ step'[a] = NoStep /\ NoStep.at = "idle" /\ NoStep.from = "none"
      /\ spawn'[a] = IF Head(lock[a]).by = None THEN "unpaused" ELSE spawn[a]
      /\ Head(lock[a]).by = None => spawn[a] = "joining"
      /\ Head(lock[a]).by # None => HasFailed(a)'
      /\ HasFailed(a) => HasFailed(a)'
  BY <1>4, PopFacts DEF NoStep
<1>6. /\ row' \in [TreeAgents -> SweepRow] /\ turn' \subseteq TreeAgents /\ sweepPrompts' \in [TreeAgents -> Nat]
      /\ \A b \in TreeAgents \ {a} : row'[b] = row[b] /\ (b \in turn') = (b \in turn)
      /\ row'[a].from = row[a].from /\ row'[a].sandbox = row[a].sandbox /\ (row[a].ended => row'[a].ended)
      /\ row'[a].state \in {"running", "lost", row[a].state}
      /\ row'[a].state = "lost" => row[a].state = "lost" \/ step[a].at = "checking"
      /\ a \in turn' => a \in turn \/ Head(lock[a]).by = None
      /\ frozen' \subseteq frozen /\ \A b \in TreeAgents \ {a} : (b \in frozen') = (b \in frozen)
      /\ step[a].at = "resuming" => row' = row /\ turn' = turn /\ frozen' = frozen
  <2>1. CASE step[a].at = "pausing"
    <3>1. Failed(a) /\ frozen' = frozen \ {a}
      BY <2>1 DEF CommandFails
    <3>2. CASE Head(lock[a]).by = None
      BY <3>1, <3>2, <2>1, StartFacts DEF Failed
    <3>3. CASE Head(lock[a]).by # None
      BY <3>1, <3>3, <2>1, <1>1 DEF Failed, MemberFacts, SweepTypes
    <3> QED
      BY <3>2, <3>3
  <2>2. CASE step[a].at = "resuming"
    <3>1. UNCHANGED <<row, turn, sweepPrompts, frozen>>
      BY <2>2, <1>4 DEF CommandFails, Failed
    <3> QED
      BY <2>2, <3>1, <1>1 DEF MemberFacts, SweepTypes
  <2>3. CASE step[a].at = "checking"
    <3>1. UNCHANGED <<turn, sweepPrompts, frozen>>
          /\ row' = [row EXCEPT ![a].state = IF row[a].from = "done" THEN @ ELSE "lost", ![a].ended = TRUE]
      BY <2>3 DEF CommandFails
    <3>2. PICK st \in {"lost", row[a].state} : row' = [row EXCEPT ![a] = [row[a] EXCEPT !.state = st, !.ended = TRUE]]
      BY <3>1, <1>1 DEF MemberFacts, SweepTypes
    <3>3. [row[a] EXCEPT !.state = st, !.ended = TRUE] \in SweepRow
      BY <1>1 DEF MemberFacts, SweepRow, AgentStates
    <3>4. /\ row' \in [TreeAgents -> SweepRow] /\ \A b \in TreeAgents \ {a} : row'[b] = row[b]
          /\ row'[a].from = row[a].from /\ row'[a].sandbox = row[a].sandbox /\ row'[a].ended
          /\ row'[a].state = st
      BY <1>1, <3>2, <3>3 DEF MemberFacts, SweepTypes, SweepRow
    <3> QED
      BY <2>3, <3>1, <3>4, <1>1 DEF MemberFacts, SweepTypes
  <2> QED
    BY <1>2, <2>1, <2>2, <2>3
<1>7. SweepTypes'
  BY <1>1, <1>2, <1>4, <1>6, PopTypes DEF SweepTypes, MemberFacts
<1>8. /\ row[a].state # "none" /\ row[a].state # "aborted" /\ row'[a].state # "aborted"
      /\ step[a].at # "resuming" => row[a].state # "paused" /\ row'[a].state # "paused"
      /\ row'[a].state = "paused" => row[a].state = "paused"
  BY <1>1, <1>2, <1>4, <1>6 DEF MemberFacts, MemberRow, MemberHeld, Exists
<1>9. MemberStep(a, "failed")
  <2>1. Elsewhere(a) /\ SeesOnly(a) /\ SeesAnswer(a, "failed") /\ QueueMoves(a)
    BY <1>2, <1>4, <1>6, PopFacts DEF Elsewhere, QueueMoves
  <2>2. RowMoves(a)
    BY <1>1, <1>2, <1>4, <1>6, <1>8 DEF RowMoves, Exists
  <2>3. PauseMoves(a)
    BY <1>2, <1>4, <1>5, <1>6, <1>8 DEF PauseMoves, Joining
  <2>4. TurnMoves(a)
    BY <1>2, <1>4, <1>5, <1>6 DEF TurnMoves
  <2> QED
    BY <1>2, <2>1, <2>2, <2>3, <2>4 DEF MemberStep, Moves, AnswerMoves
<1>10. MemberHeld(a)'
  BY <1>1, <1>2, <1>4, <1>5, <1>6, <1>8 DEF MemberFacts, MemberHeld, Exists
<1>11. MemberRow(a)'
  BY <1>1, <1>2, <1>5, <1>6, <1>8 DEF MemberFacts, MemberRow
<1>12. MemberLost(a)'
  BY <1>1, <1>4, <1>5, <1>6 DEF MemberFacts, MemberLost
<1>14. Exists(a) => Exists(a)'
  BY <1>6, <1>8 DEF Exists
<1>13. MemberQueue(a)'
  BY <1>2, <1>4, <1>6, <1>14, PopQueue
<1> QED
  BY <1>7, <1>9, <1>10, <1>11, <1>12, <1>13, MemberStepKeeps DEF MemberInv

(* A child is accepted.                                                      *)
LEMMA AcceptKeeps == ASSUME SweepInv, NEW a \in TreeAgents, Accept(a) PROVE SweepInv'
<1>1. MemberFacts(a)
  BY DEF SweepInv, SweepTypes, MemberInv, MemberFacts
<1>2. /\ ~Exists(a) /\ a # 1 /\ Parent[a] \in sweepReg /\ spawn'[a] = "asked"
      /\ spawn' \in [TreeAgents -> SpawnStates] /\ \A b \in TreeAgents \ {a} : spawn'[b] = spawn[b]
      /\ UNCHANGED <<sweepMix, frozen, step, sweep, sweepReg, turn, sweepPrompts, lock>>
  BY <1>1 DEF Accept, SpawnUnchanged, MemberFacts, SweepTypes, SpawnStates
<1>3. spawn[a] = "off" /\ ~row[a].sandbox /\ a \notin sweepReg /\ a \notin turn /\ step[a] = NoStep
  BY <1>1, <1>2 DEF MemberFacts, MemberHeld
<1>4. /\ row' \in [TreeAgents -> SweepRow] /\ \A b \in TreeAgents \ {a} : row'[b] = row[b]
      /\ row'[a].state = "provisioning" /\ row'[a].from = row[a].from
      /\ row'[a].ended = row[a].ended /\ row'[a].sandbox = row[a].sandbox
  <2>1. row' = [row EXCEPT ![a] = [row[a] EXCEPT !.state = "provisioning"]]
    BY <1>1 DEF Accept, MemberFacts, SweepTypes
  <2>2. [row[a] EXCEPT !.state = "provisioning"] \in SweepRow
    BY <1>1 DEF MemberFacts, SweepRow, AgentStates
  <2> QED
    BY <1>1, <2>1, <2>2 DEF MemberFacts, SweepTypes, SweepRow
<1>5. SweepTypes'
  BY <1>1, <1>2, <1>4 DEF SweepTypes, MemberFacts
<1>6. MemberStep(a, "failed")
  <2>1. Elsewhere(a) /\ SeesOnly(a) /\ SeesAnswer(a, "failed") /\ QueueMoves(a)
    BY <1>2, <1>4, KeepFacts DEF Elsewhere, QueueMoves
  <2>2. RowMoves(a)
    BY <1>2, <1>3, <1>4 DEF RowMoves
  <2>3. PauseMoves(a) /\ TurnMoves(a)
    BY <1>2, <1>3, <1>4 DEF PauseMoves, TurnMoves, Exists
  <2> QED
    BY <1>2, <2>1, <2>2, <2>3 DEF MemberStep, Moves, AnswerMoves
<1>7. MemberHeld(a)'
  BY <1>2, <1>3, <1>4 DEF MemberHeld, Exists
<1>8. MemberRow(a)'
  BY <1>1, <1>2, <1>3, <1>4 DEF MemberFacts, MemberRow, NoStep
<1>9. MemberLost(a)'
  BY <1>1, <1>2, <1>4, KeepFacts DEF MemberFacts, MemberLost
<1>10. MemberQueue(a)'
  BY <1>2, <1>3, <1>4, KeepFacts
<1> QED
  BY <1>5, <1>6, <1>7, <1>8, <1>9, <1>10, MemberStepKeeps DEF MemberInv

(* A fork that is cancelled or cannot go on.                                 *)
LEMMA FailsKeeps ==
    ASSUME SweepInv, NEW a \in TreeAgents, spawn[a] \in {"asked", "forking"}, Fails(a), SpawnUnchanged
    PROVE  SweepInv'
<1>1. MemberFacts(a)
  BY DEF SweepInv, SweepTypes, MemberInv, MemberFacts
<1>2. /\ spawn'[a] = "off" /\ spawn' \in [TreeAgents -> SpawnStates]
      /\ \A b \in TreeAgents \ {a} : spawn'[b] = spawn[b]
      /\ UNCHANGED <<sweepMix, frozen, step, sweep, sweepReg, turn, sweepPrompts, lock>>
  BY <1>1 DEF Fails, SpawnUnchanged, MemberFacts, SweepTypes, SpawnStates
<1>3. Exists(a) /\ ~row[a].sandbox /\ a \notin sweepReg /\ a \notin turn /\ step[a] = NoStep
  BY <1>1 DEF MemberFacts, MemberHeld
<1>4. /\ row' \in [TreeAgents -> SweepRow] /\ \A b \in TreeAgents \ {a} : row'[b] = row[b]
      /\ row'[a].state \in {"failed", row[a].state} /\ row'[a].from = row[a].from
      /\ row'[a].sandbox = row[a].sandbox /\ row'[a].ended
      /\ row'[a].state = "aborted" => row'[a].state = row[a].state
  <2>1. CASE row[a].ended
    BY <1>1, <2>1 DEF Fails, MemberFacts, SweepTypes
  <2>2. CASE ~row[a].ended
    <3>1. row' = [row EXCEPT ![a] = [row[a] EXCEPT !.state = "failed", !.ended = TRUE]]
      BY <1>1, <2>2 DEF Fails, MemberFacts, SweepTypes
    <3>2. [row[a] EXCEPT !.state = "failed", !.ended = TRUE] \in SweepRow
      BY <1>1 DEF MemberFacts, SweepRow, AgentStates
    <3> QED
      BY <1>1, <3>1, <3>2 DEF MemberFacts, SweepTypes, SweepRow
  <2> QED
    BY <2>1, <2>2
<1>5. SweepTypes'
  BY <1>1, <1>2, <1>4 DEF SweepTypes, MemberFacts
<1>6. Exists(a)'
  BY <1>3, <1>4 DEF Exists
<1>7. MemberStep(a, "failed")
  <2>1. Elsewhere(a) /\ SeesOnly(a) /\ SeesAnswer(a, "failed") /\ QueueMoves(a)
    BY <1>2, <1>4, KeepFacts DEF Elsewhere, QueueMoves
  <2>2. RowMoves(a)
    BY <1>2, <1>3, <1>4, <1>6 DEF RowMoves
  <2>3. PauseMoves(a) /\ TurnMoves(a)
    BY <1>2, <1>3, <1>4 DEF PauseMoves, TurnMoves, Joining
  <2> QED
    BY <1>2, <2>1, <2>2, <2>3 DEF MemberStep, Moves, AnswerMoves
<1>8. MemberHeld(a)'
  BY <1>2, <1>3, <1>4, <1>6 DEF MemberHeld
<1>9. MemberRow(a)'
  BY <1>1, <1>2, <1>3, <1>4 DEF MemberFacts, MemberRow, NoStep
<1>10. MemberLost(a)'
  BY <1>1, <1>2, <1>4, KeepFacts DEF MemberFacts, MemberLost
<1>11. MemberQueue(a)'
  BY <1>2, <1>4, <1>6, KeepFacts
<1> QED
  BY <1>5, <1>7, <1>8, <1>9, <1>10, <1>11, MemberStepKeeps DEF MemberInv

(* A child whose spawn moves on, and nothing else.                           *)
LEMMA SpawnMovesOn ==
    ASSUME SweepInv, NEW a \in TreeAgents, NEW from \in {"asked", "forking"}, spawn[a] = from,
           NEW to \in {"off", "asked", "forking"}, spawn' = [spawn EXCEPT ![a] = to],
           UNCHANGED <<row, sweepReg, turn, sweepPrompts, lock>>, SpawnUnchanged
    PROVE  SweepInv'
<1>1. MemberFacts(a)
  BY DEF SweepInv, SweepTypes, MemberInv, MemberFacts
<1>2. /\ spawn'[a] = to /\ spawn' \in [TreeAgents -> SpawnStates]
      /\ \A b \in TreeAgents \ {a} : spawn'[b] = spawn[b]
      /\ UNCHANGED <<sweepMix, frozen, step, sweep>>
  BY <1>1 DEF SpawnUnchanged, MemberFacts, SweepTypes, SpawnStates
<1>3. Exists(a) /\ ~row[a].sandbox /\ a \notin sweepReg /\ a \notin turn /\ step[a] = NoStep
  BY <1>1 DEF MemberFacts, MemberHeld
<1>5. SweepTypes'
  BY <1>1, <1>2 DEF SweepTypes, MemberFacts
<1>6. Exists(a)'
  BY <1>3 DEF Exists
<1>7. MemberStep(a, "failed")
  <2>1. Elsewhere(a) /\ SeesOnly(a) /\ SeesAnswer(a, "failed") /\ QueueMoves(a)
    BY <1>2, KeepFacts DEF Elsewhere, QueueMoves
  <2>2. RowMoves(a)
    BY <1>2, <1>3, <1>6 DEF RowMoves
  <2>3. PauseMoves(a) /\ TurnMoves(a)
    BY <1>2, <1>3 DEF PauseMoves, TurnMoves, Joining
  <2> QED
    BY <1>2, <2>1, <2>2, <2>3 DEF MemberStep, Moves, AnswerMoves
<1>8. MemberHeld(a)'
  BY <1>2, <1>3, <1>6 DEF MemberHeld
<1>9. MemberRow(a)'
  BY <1>1, <1>2, <1>3 DEF MemberFacts, MemberRow, NoStep
<1>10. MemberLost(a)'
  BY <1>1, <1>2, KeepFacts DEF MemberFacts, MemberLost
<1>11. MemberQueue(a)'
  BY <1>2, <1>6, KeepFacts
<1> QED
  BY <1>5, <1>7, <1>8, <1>9, <1>10, <1>11, MemberStepKeeps DEF MemberInv

(* The fork returns: the child is registered, or closed again.               *)
LEMMA ForkReturnsKeeps == ASSUME SweepInv, NEW a \in TreeAgents, ForkReturns(a) PROVE SweepInv'
<1>1. MemberFacts(a)
  BY DEF SweepInv, SweepTypes, MemberInv, MemberFacts
<1>2. CASE row[a].ended
  BY <1>2, SpawnMovesOn DEF ForkReturns
<1>3. CASE ~row[a].ended
  <2>1. /\ spawn[a] = "forking" /\ spawn'[a] = "inject" /\ sweepReg' = sweepReg \cup {a}
        /\ spawn' \in [TreeAgents -> SpawnStates] /\ \A b \in TreeAgents \ {a} : spawn'[b] = spawn[b]
        /\ UNCHANGED <<sweepMix, frozen, step, sweep, turn, sweepPrompts, lock>>
    BY <1>1, <1>3 DEF ForkReturns, SpawnUnchanged, MemberFacts, SweepTypes, SpawnStates
  <2>2. Exists(a) /\ ~row[a].sandbox /\ a \notin sweepReg /\ a \notin turn /\ step[a] = NoStep
    BY <1>1, <2>1 DEF MemberFacts, MemberHeld
  <2>3. row[a].state # "aborted"
    BY <1>1, <1>3, <2>2 DEF MemberFacts, MemberRow, NoStep
  <2>4. /\ row' \in [TreeAgents -> SweepRow] /\ \A b \in TreeAgents \ {a} : row'[b] = row[b]
        /\ row'[a].state = row[a].state /\ row'[a].from = row[a].from
        /\ row'[a].ended = row[a].ended /\ row'[a].sandbox
    <3>1. row' = [row EXCEPT ![a] = [row[a] EXCEPT !.sandbox = TRUE]]
      BY <1>1, <1>3 DEF ForkReturns, MemberFacts, SweepTypes
    <3>2. [row[a] EXCEPT !.sandbox = TRUE] \in SweepRow
      BY <1>1 DEF MemberFacts, SweepRow
    <3> QED
      BY <1>1, <3>1, <3>2 DEF MemberFacts, SweepTypes, SweepRow
  <2>5. SweepTypes'
    BY <1>1, <2>1, <2>4 DEF SweepTypes, MemberFacts
  <2>6. Exists(a)'
    BY <2>2, <2>4 DEF Exists
  <2>7. MemberStep(a, "failed")
    <3>1. Elsewhere(a) /\ SeesOnly(a) /\ SeesAnswer(a, "failed") /\ QueueMoves(a)
      BY <2>1, <2>4, KeepFacts DEF Elsewhere, QueueMoves
    <3>2. RowMoves(a)
      BY <1>3, <2>1, <2>2, <2>4, <2>6 DEF RowMoves
    <3>3. PauseMoves(a) /\ TurnMoves(a)
      BY <2>1, <2>2, <2>4 DEF PauseMoves, TurnMoves, Joining
    <3> QED
      BY <2>1, <3>1, <3>2, <3>3 DEF MemberStep, Moves, AnswerMoves
  <2>8. MemberHeld(a)'
    BY <2>1, <2>2, <2>4, <2>6 DEF MemberHeld
  <2>9. MemberRow(a)'
    BY <1>1, <2>1, <2>2, <2>3, <2>4 DEF MemberFacts, MemberRow, NoStep
  <2>10. MemberLost(a)'
    BY <1>1, <2>1, <2>4, KeepFacts DEF MemberFacts, MemberLost
  <2>11. MemberQueue(a)'
    BY <2>1, <2>4, <2>6, KeepFacts
  <2> QED
    BY <2>5, <2>7, <2>8, <2>9, <2>10, <2>11, MemberStepKeeps DEF MemberInv
<1> QED
  BY <1>2, <1>3

(* The child joins a pause or starts its prompt.                             *)
LEMMA StartsKeeps == ASSUME SweepInv, NEW a \in TreeAgents, Starts(a) PROVE SweepInv'
<1>1. MemberFacts(a)
  BY DEF SweepInv, SweepTypes, MemberInv, MemberFacts
<1>2. spawn[a] = "inject" /\ Exists(a) /\ UNCHANGED <<sweepMix, frozen, step, sweep, sweepReg>>
  BY <1>1 DEF Starts, SpawnUnchanged, MemberFacts, MemberHeld
<1>3. CASE JoinsPause(a)
  <2>1. /\ spawn'[a] = "joining" /\ spawn' \in [TreeAgents -> SpawnStates]
        /\ \A b \in TreeAgents \ {a} : spawn'[b] = spawn[b] /\ lock'[b] = lock[b]
        /\ lock' = [lock EXCEPT ![a] = Append(@, Joins)] /\ lock'[a] = Append(lock[a], Joins)
        /\ UNCHANGED <<turn, row, sweepPrompts>>
    BY <1>1, <1>3 DEF Starts, MemberFacts, SweepTypes, SpawnStates, Joins
  <2>2. /\ lock[a] \in Seq(LockEntry) /\ OnceEach(lock[a]) /\ Joins \in LockEntry /\ Joins.by = None
        /\ Joins.op = "pause" /\ \A e \in ToSet(lock[a]) : EntryOf(a, e) /\ e.by # None
    BY <1>2 DEF SweepInv, SweepTypes, MemberInv, MemberQueue, EntryOf, Joins, LockEntry, Ops
  <2>3. /\ lock'[a] \in Seq(LockEntry) /\ lock'[a] # <<>> /\ OnceEach(lock'[a])
        /\ ToSet(lock'[a]) = ToSet(lock[a]) \cup {Joins}
    BY <2>1, <2>2, QueuePush
  <2>4. lock[a] # <<>> => Head(lock'[a]) = Head(lock[a])
    BY <2>1, <2>2
  <2>5. SweepTypes'
    <3>1. lock' \in [TreeAgents -> Seq(LockEntry)]
      BY <1>1, <2>1, <2>3 DEF SweepTypes, MemberFacts
    <3> QED
      BY <1>1, <1>2, <2>1, <3>1 DEF SweepTypes, MemberFacts
  <2>6. MemberStep(a, "failed")
    <3>1. Elsewhere(a) /\ SeesOnly(a) /\ SeesAnswer(a, "failed") /\ QueueMoves(a)
      BY <1>2, <2>1, KeepFacts DEF Elsewhere, QueueMoves
    <3>2. RowMoves(a)
      BY <1>2, <2>1 DEF RowMoves, Exists
    <3>3. PauseMoves(a) /\ TurnMoves(a)
      BY <1>2, <2>1 DEF PauseMoves, TurnMoves, Joining
    <3> QED
      BY <1>2, <3>1, <3>2, <3>3 DEF MemberStep, Moves, AnswerMoves
  <2>7. MemberHeld(a)'
    BY <1>1, <1>2, <2>1, <2>3, <2>4 DEF MemberFacts, MemberHeld, Exists
  <2>8. MemberRow(a)'
    BY <1>1, <1>2, <2>1 DEF MemberFacts, MemberRow
  <2>9. MemberLost(a)'
    BY <1>1, <1>2, <2>1, KeepFacts DEF MemberFacts, MemberLost
  <2>10. MemberQueue(a)'
    <3> SUFFICES ASSUME NEW e \in ToSet(lock[a]) \cup {Joins} PROVE EntryOf(a, e)'
      BY <2>3 DEF MemberQueue
    <3>1. Exists(a)'
      BY <1>2, <2>1 DEF Exists
    <3>2. CASE e = Joins
      BY <3>1, <3>2, <2>1, <2>2 DEF EntryOf
    <3>3. CASE e \in ToSet(lock[a])
      BY <3>1, <3>3, <1>2, <2>1, <2>2 DEF EntryOf
    <3> QED
      BY <3>2, <3>3
  <2> QED
    BY <2>5, <2>6, <2>7, <2>8, <2>9, <2>10, MemberStepKeeps DEF MemberInv
<1>4. CASE ~JoinsPause(a)
  <2>1. /\ spawn'[a] = "off" /\ spawn' \in [TreeAgents -> SpawnStates]
        /\ \A b \in TreeAgents \ {a} : spawn'[b] = spawn[b]
        /\ UNCHANGED lock /\ StartTurn(a) /\ ~hasPausedAncestor(a)
    BY <1>1, <1>4 DEF Starts, MemberFacts, SweepTypes, SpawnStates, JoinsPause
  <2>2. /\ row' \in [TreeAgents -> SweepRow] /\ turn' \subseteq TreeAgents /\ sweepPrompts' \in [TreeAgents -> Nat]
        /\ \A b \in TreeAgents \ {a} : row'[b] = row[b] /\ (b \in turn') = (b \in turn)
        /\ row'[a].from = row[a].from /\ row'[a].ended = row[a].ended /\ row'[a].sandbox = row[a].sandbox
        /\ row'[a].state = IF a \in sweepReg THEN "running" ELSE row[a].state
        /\ (a \in turn') = (a \in turn \/ a \in sweepReg)
    BY <2>1, StartFacts
  <2>3. SweepTypes'
    BY <1>1, <1>2, <2>1, <2>2 DEF SweepTypes, MemberFacts
  <2>4. Exists(a)'
    BY <1>2, <2>2 DEF Exists
  <2>5. MemberStep(a, "failed")
    <3>1. Elsewhere(a) /\ SeesOnly(a) /\ SeesAnswer(a, "failed") /\ QueueMoves(a)
      BY <1>2, <2>1, <2>2, KeepFacts DEF Elsewhere, QueueMoves
    <3>2. RowMoves(a)
      BY <1>2, <2>1, <2>2, <2>4 DEF RowMoves
    <3>3. PauseMoves(a)
      BY <1>2, <2>1, <2>2 DEF PauseMoves, Joining
    <3>4. TurnMoves(a)
      BY <1>2, <2>1, <2>2 DEF TurnMoves
    <3> QED
      BY <1>2, <3>1, <3>2, <3>3, <3>4 DEF MemberStep, Moves, AnswerMoves
  <2>6. MemberHeld(a)'
    BY <1>1, <1>2, <2>1, <2>2, <2>4 DEF MemberFacts, MemberHeld
  <2>7. MemberRow(a)'
    BY <1>1, <1>2, <2>1, <2>2 DEF MemberFacts, MemberRow, MemberHeld
  <2>8. MemberLost(a)'
    BY <1>1, <1>2, <2>1, <2>2, KeepFacts DEF MemberFacts, MemberLost
  <2>9. MemberQueue(a)'
    BY <1>2, <2>1, <2>2, <2>4, KeepFacts
  <2> QED
    BY <2>3, <2>5, <2>6, <2>7, <2>8, <2>9, MemberStepKeeps DEF MemberInv
<1> QED
  BY <1>3, <1>4

(* A turn ends.                                                              *)
LEMMA TurnOverKeeps == ASSUME SweepInv, NEW a \in TreeAgents, TurnOver(a) PROVE SweepInv'
<1>1. MemberFacts(a)
  BY DEF SweepInv, SweepTypes, MemberInv, MemberFacts
<1>2. /\ a \in turn /\ turn' = turn \ {a} /\ row[a].sandbox
      /\ UNCHANGED <<sweepMix, frozen, step, sweep, sweepReg, sweepPrompts, lock, spawn>>
      /\ a \in frozen => step[a].at = "pausing"
  BY <1>1 DEF TurnOver, SpawnUnchanged, MemberFacts, MemberHeld
<1>3. (row[a].state # "paused" \/ a \notin sweepReg) /\ Exists(a)
  BY <1>1, <1>2 DEF MemberFacts, MemberRow, MemberHeld
<1>4. /\ row' \in [TreeAgents -> SweepRow] /\ \A b \in TreeAgents \ {a} : row'[b] = row[b]
      /\ row'[a].state = "done" /\ row'[a].from = row[a].from
      /\ row'[a].ended /\ row'[a].sandbox = row[a].sandbox
  <2>1. row' = [row EXCEPT ![a] = [row[a] EXCEPT !.state = "done", !.ended = TRUE]]
    BY <1>1 DEF TurnOver, MemberFacts, SweepTypes
  <2>2. [row[a] EXCEPT !.state = "done", !.ended = TRUE] \in SweepRow
    BY <1>1 DEF MemberFacts, SweepRow, AgentStates
  <2> QED
    BY <1>1, <2>1, <2>2 DEF MemberFacts, SweepTypes, SweepRow
<1>5. SweepTypes'
  BY <1>1, <1>2, <1>4 DEF SweepTypes, MemberFacts
<1>6. Exists(a)'
  BY <1>4 DEF Exists
<1>7. MemberStep(a, "failed")
  <2>1. Elsewhere(a) /\ SeesOnly(a) /\ SeesAnswer(a, "failed") /\ QueueMoves(a)
    BY <1>2, <1>4, KeepFacts DEF Elsewhere, QueueMoves
  <2>2. RowMoves(a)
    BY <1>2, <1>3, <1>4, <1>6 DEF RowMoves
  <2>3. PauseMoves(a) /\ TurnMoves(a)
    BY <1>2, <1>3, <1>4 DEF PauseMoves, TurnMoves, Joining
  <2> QED
    BY <1>2, <2>1, <2>2, <2>3 DEF MemberStep, Moves, AnswerMoves
<1>8. MemberHeld(a)'
  BY <1>1, <1>2, <1>4, <1>6 DEF MemberFacts, MemberHeld
<1>9. MemberRow(a)'
  BY <1>1, <1>2, <1>3, <1>4 DEF MemberFacts, MemberRow
<1>10. MemberLost(a)'
  BY <1>1, <1>2, <1>4, KeepFacts DEF MemberFacts, MemberLost
<1>11. MemberQueue(a)'
  BY <1>2, <1>4, <1>6, KeepFacts
<1> QED
  BY <1>5, <1>7, <1>8, <1>9, <1>10, <1>11, MemberStepKeeps DEF MemberInv

(* A turn is given up: the row stays as it is.                               *)
LEMMA TurnGivenUpKeeps == ASSUME SweepInv, NEW a \in TreeAgents, TurnGivenUp(a) PROVE SweepInv'
<1>1. MemberFacts(a)
  BY DEF SweepInv, SweepTypes, MemberInv, MemberFacts
<1>2. /\ turn' = turn \ {a} /\ row[a].sandbox /\ Exists(a)
      /\ UNCHANGED <<sweepMix, row, frozen, step, sweep, sweepReg, sweepPrompts, lock, spawn>>
  BY <1>1 DEF TurnGivenUp, SpawnUnchanged, MemberFacts, MemberHeld
<1>3. SweepTypes' /\ Exists(a)'
  BY <1>1, <1>2 DEF SweepTypes, MemberFacts, Exists
<1>4. MemberStep(a, "failed")
  <2>1. Elsewhere(a) /\ SeesOnly(a) /\ SeesAnswer(a, "failed") /\ QueueMoves(a)
    BY <1>2, KeepFacts DEF Elsewhere, QueueMoves
  <2>2. RowMoves(a)
    BY <1>2, <1>3 DEF RowMoves
  <2>3. PauseMoves(a) /\ TurnMoves(a)
    BY <1>2 DEF PauseMoves, TurnMoves, Joining
  <2> QED
    BY <1>2, <2>1, <2>2, <2>3 DEF MemberStep, Moves, AnswerMoves
<1>5. MemberHeld(a)' /\ MemberRow(a)'
  BY <1>1, <1>2 DEF MemberFacts, MemberHeld, MemberRow, Exists
<1>6. MemberLost(a)'
  BY <1>1, <1>2, KeepFacts DEF MemberFacts, MemberLost
<1>7. MemberQueue(a)'
  BY <1>2, <1>3, KeepFacts
<1> QED
  BY <1>3, <1>4, <1>5, <1>6, <1>7, MemberStepKeeps DEF MemberInv

(* The sweep gives up on a member, whose command goes on.                    *)
LEMMA TimesOutKeeps ==
    ASSUME SweepInv, NEW s \in Sweeps, NEW a \in TreeAgents, MemberTimesOut(s, a) PROVE SweepInv'
<1>1. MemberFacts(a)
  BY DEF SweepInv, SweepTypes, MemberInv, MemberFacts
<1>2. /\ a \in sweep[s].level /\ sweep[s].res[a] = "none"
      /\ UNCHANGED <<row, sweepReg, turn, frozen, spawn, sweepPrompts, lock, step>>
      /\ sweepMix' \in MixOfSweeps /\ 1 \notin sweepMix'.born
      /\ sweepMix'.op = sweepMix.op /\ sweepMix'.root = sweepMix.root
  <2>1. sweepMix.faults - 1 \in Nat
    BY <1>1 DEF MemberTimesOut, MemberFacts, SweepTypes, MixOfSweeps
  <2>2. a \in sweep[s].level /\ sweep[s].res[a] = "none"
    BY DEF MemberTimesOut, SweepInv, Progress
  <2> QED
    BY <1>1, <2>1, <2>2 DEF MemberTimesOut, MemberFacts, SweepTypes, MixOfSweeps
<1>3. /\ sweep[s] \in SweepRecord /\ sweep \in [Sweeps -> SweepRecord] /\ sweep[s].res \in [TreeAgents -> Answers]
  BY <1>1 DEF MemberFacts, SweepTypes, SweepRecord
<1>4. PICK new : /\ new = [sweep[s] EXCEPT !.res = [sweep[s].res EXCEPT ![a] = "failed"], !.level = sweep[s].level \ {a}]
                 /\ sweep' = [sweep EXCEPT ![s] = new]
  BY <1>3 DEF MemberTimesOut, SweepRecord
<1>5. /\ new \in SweepRecord /\ new.res = [sweep[s].res EXCEPT ![a] = "failed"] /\ new.level = sweep[s].level \ {a}
      /\ new.phase = sweep[s].phase /\ new.todo = sweep[s].todo /\ new.late = sweep[s].late
      /\ new.alone = sweep[s].alone /\ new.last = sweep[s].last
  <2>1. [sweep[s].res EXCEPT ![a] = "failed"] \in [TreeAgents -> Answers]
    BY <1>3 DEF Answers
  <2> QED
    BY <1>3, <1>4, <2>1 DEF SweepRecord
<1>6. sweep' \in [Sweeps -> SweepRecord] /\ sweep'[s] = new /\ \A o \in Sweeps \ {s} : sweep'[o] = sweep[o]
  BY <1>3, <1>4, <1>5
<1>7. SweepTypes'
  BY <1>1, <1>2, <1>6 DEF SweepTypes, MemberFacts
<1>8. SeesOnly(a)
  <2> SUFFICES ASSUME NEW o \in Sweeps
               PROVE  SameSweep(o) /\ \A b \in TreeAgents \ {a} :
                          /\ sweep'[o].res[b] = sweep[o].res[b]
                          /\ (b \in sweep'[o].level) = (b \in sweep[o].level)
    BY DEF SeesOnly
  <2>1. CASE o = s
    BY <2>1, <1>3, <1>5, <1>6 DEF SameSweep
  <2>2. CASE o # s
    BY <2>2, <1>6 DEF SameSweep
  <2> QED
    BY <2>1, <2>2
<1>9. sweep'[s].res[a] = "failed" /\ a \notin sweep'[s].level
  BY <1>3, <1>5, <1>6
<1>10. SeesAnswer(a, "failed")
  BY <1>2, <1>6, <1>9 DEF SeesAnswer
<1>11. HasFailed(a)'
  BY <1>9 DEF HasFailed
<1>12. MemberStep(a, "failed")
  <2>1. Elsewhere(a) /\ QueueMoves(a) /\ RowMoves(a) /\ PauseMoves(a) /\ TurnMoves(a)
    BY <1>2 DEF Elsewhere, QueueMoves, RowMoves, PauseMoves, TurnMoves, Exists
  <2> QED
    BY <1>2, <1>8, <1>10, <2>1 DEF MemberStep, Moves, AnswerMoves
<1>13. MemberHeld(a)' /\ MemberRow(a)' /\ MemberLost(a)'
  <2>1. MemberHeld(a)'
    BY <1>1, <1>2 DEF MemberFacts, MemberHeld, Exists
  <2>2. MemberRow(a)'
    BY <1>1, <1>2 DEF MemberFacts, MemberRow
  <2>3. MemberLost(a)'
    BY <1>11 DEF MemberLost
  <2> QED
    BY <2>1, <2>2, <2>3
<1>14. MemberQueue(a)'
  <2>1. MemberQueue(a)
    BY DEF SweepInv, MemberInv
  <2> SUFFICES ASSUME NEW e \in ToSet(lock[a]) PROVE EntryOf(a, e)'
    BY <2>1, <1>2 DEF MemberQueue
  <2>2. EntryOf(a, e)
    BY <2>1 DEF MemberQueue
  <2>3. lock[a] \in Seq(LockEntry)
    BY <1>1 DEF MemberFacts, SweepTypes
  <2>4. e.by # None => e.by \in Sweeps
    <3>1. PICK i \in 1 .. Len(lock[a]) : e = lock[a][i]
      BY <2>3 DEF ToSet
    <3>2. lock[a][i] \in LockEntry
      BY <2>3
    <3> QED
      BY <3>1, <3>2 DEF LockEntry
  <2>5. CASE e.by \in {None, s}
    BY <2>2, <2>5, <1>2, <1>5, <1>6, <1>9 DEF EntryOf, Exists
  <2>6. CASE e.by \in Sweeps \ {s}
    BY <2>2, <2>6, <1>2, <1>6 DEF EntryOf, Exists
  <2> QED
    BY <2>4, <2>5, <2>6
<1> QED
  BY <1>7, <1>12, <1>13, <1>14, MemberStepKeeps DEF MemberInv

(* The steps of a sweep leave the members as they are.                       *)
MembersStay ==
    /\ UNCHANGED <<sweepMix, row, sweepReg, turn, frozen, spawn, sweepPrompts, step>>

(* A sweep that a step of another one does not touch.                        *)
Untouched(o) ==
    /\ sweep'[o].phase = sweep[o].phase /\ sweep'[o].todo = sweep[o].todo
    /\ sweep'[o].level = sweep[o].level /\ sweep'[o].late = sweep[o].late
    /\ sweep'[o].res = sweep[o].res

(* What a sweep is told of stays true while another one moves.               *)
LEMMA UntouchedStays ==
    ASSUME SweepInv, NEW o \in Sweeps, Untouched(o), MembersStay,
           \A a \in TreeAgents : \A e \in ToSet(lock'[a]) : e.by = o => e \in ToSet(lock[a])
    PROVE  Progress(o)' /\ StopInv(o)' /\ RootFirst(o)'
<1>1. PICK r \in TreeAgents : r = sweepMix.root[o]
  BY DEF SweepInv, SweepTypes, MixOfSweeps
<1>2. /\ sweepMix' = sweepMix /\ row' = row /\ sweepReg' = sweepReg
      /\ sweepMix'.root[o] = r /\ sweepMix.root[o] = r
  BY <1>1 DEF MembersStay
<1>3. Progress(o)'
  <2>1. Progress(o)
    BY DEF SweepInv
  <2>2. Exists(r)' = Exists(r) /\ \A a \in TreeAgents : Exists(a)' = Exists(a)
    BY <1>2 DEF Exists
  <2>3. /\ sweep[o].phase # "new" => Exists(r)
        /\ \A a \in sweep[o].todo \cup sweep[o].level : sweep[o].res[a] = "none" /\ a \in Below(r) /\ Exists(a)
    BY <2>1, <1>2 DEF Progress
  <2>4. sweep'[o].phase # "new" => row'[sweepMix'.root[o]].state # "none"
    BY <2>3, <1>2 DEF Untouched, Exists
  <2>5. \A a \in sweep'[o].todo \cup sweep'[o].level :
            sweep'[o].res[a] = "none" /\ a \in Below(r) /\ row'[a].state # "none"
    BY <2>3, <1>2 DEF Untouched, Exists
  <2>6. \A a \in sweep'[o].todo \cup sweep'[o].level : a \in Below(sweepMix'.root[o])
    BY <2>5, <1>2
  <2> QED
    BY <2>1, <2>4, <2>5, <2>6, <1>2 DEF Progress, Untouched, Exists
<1>4. StopInv(o)'
  <2>1. StopAnswers(o) /\ StopDescends(o) /\ StopLate(o)
    BY DEF SweepInv, StopInv
  <2>2. StopAnswers(o)'
    BY <2>1, <1>2 DEF StopAnswers, Untouched
  <2>3. StopDescends(o)'
    BY <2>1, <1>2 DEF StopDescends, Untouched
  <2>4. StopLate(o)'
    <3> SUFFICES ASSUME sweepMix.op[o] = "stop", sweep[o].phase \in {"second", "done"}
                 PROVE  /\ sweep[o].todo \cup sweep[o].level \subseteq sweep[o].late
                        /\ \A a \in sweep[o].late : a \in sweep[o].todo \cup sweep[o].level \/ sweep[o].res[a] # "none"
                        /\ \A a \in resolveSubtree(r)' :
                              sweep[o].res[a] = "none" /\ a \notin sweep[o].late =>
                                  \E b \in Above[a] : sweep[o].res[b] = "failed" \/ b \in sweep[o].late
      BY <1>2 DEF StopLate, Untouched, resolveSubtree, Exists
    <3>1. resolveSubtree(r)' = resolveSubtree(r)
      BY <1>2 DEF resolveSubtree, Exists
    <3> QED
      BY <2>1, <3>1, <1>2 DEF StopLate
  <2> QED
    BY <2>2, <2>3, <2>4 DEF StopInv
<1>5. RootFirst(o)'
  <2>1. RootFirst(o)
    BY DEF SweepInv, PauseInv
  <2>2. Waits(o)' = Waits(o)
    BY DEF Waits, Untouched
  <2> QED
    BY <2>1, <2>2, <1>2 DEF RootFirst, Untouched
<1> QED
  BY <1>3, <1>4, <1>5

(* The members' own parts, when only the queues grow.                        *)
LEMMA MembersHold ==
    ASSUME SweepInv, MembersStay, NEW a \in TreeAgents, HasFailed(a)' = HasFailed(a),
           lock[a] # <<>> => lock'[a] # <<>> /\ Head(lock'[a]) = Head(lock[a])
    PROVE  MemberHeld(a)' /\ MemberRow(a)' /\ MemberLost(a)'
<1>1. MemberHeld(a) /\ MemberRow(a) /\ MemberLost(a)
  BY DEF SweepInv, MemberInv
<1>2. MemberHeld(a)'
  BY <1>1 DEF MemberHeld, Exists, MembersStay
<1>3. MemberRow(a)'
  BY <1>1 DEF MemberRow, MembersStay
<1>4. MemberLost(a)'
  BY <1>1 DEF MemberLost, MembersStay
<1> QED
  BY <1>2, <1>3, <1>4

(* Every member of a queue is an entry of one.                               *)
LEMMA EntryBy ==
    ASSUME SweepTypes, NEW a \in TreeAgents, NEW e \in ToSet(lock[a]) PROVE e \in LockEntry
<1>1. lock[a] \in Seq(LockEntry)
  BY DEF SweepTypes
<1>2. PICK i \in 1 .. Len(lock[a]) : e = lock[a][i]
  BY <1>1 DEF ToSet
<1> QED
  BY <1>1, <1>2

(* A sweep begins: nobody waits for it yet, and no other sweep can think     *)
(* itself alone.                                                             *)
LEMMA BeginKeeps == ASSUME SweepInv, NEW s \in Sweeps, Begin(s) PROVE SweepInv'
<1>1. SweepTypes /\ sweep \in [Sweeps -> SweepRecord] /\ sweep[s] \in SweepRecord /\ sweepMix \in MixOfSweeps
  BY DEF SweepInv, SweepTypes
<1>2. PICK r \in TreeAgents : r = sweepMix.root[s]
  BY <1>1 DEF MixOfSweeps
<1>3. PICK others : others = {o \in Sweeps \ {s} : sweep[o].phase \notin {"new", "done"}}
  OBVIOUS
<1>4. /\ sweepMix.op[s] # None /\ sweep[s].phase = "new" /\ Exists(r)
      /\ sweep' = [o \in Sweeps |->
              IF o = s THEN [sweep[s] EXCEPT !.phase = "first", !.alone = others = {}, !.todo = resolveSubtree(r)]
              ELSE [sweep[o] EXCEPT !.alone = @ /\ o \notin others, !.last = sweep[o].phase = "new"]]
      /\ MembersStay /\ UNCHANGED lock
  BY <1>2, <1>3 DEF Begin, MembersStay
<1>5. /\ sweep[s].level = {} /\ sweep[s].late = {} /\ \A a \in TreeAgents : sweep[s].res[a] = "none"
  BY <1>4 DEF SweepInv, Progress
<1>6. resolveSubtree(r) \subseteq TreeAgents
  BY DEF resolveSubtree, Below
<1>7. /\ sweep'[s] \in SweepRecord /\ sweep'[s].phase = "first" /\ sweep'[s].alone = (others = {})
      /\ sweep'[s].todo = resolveSubtree(r) /\ sweep'[s].level = {} /\ sweep'[s].late = {}
      /\ sweep'[s].res = sweep[s].res
  <2>1. sweep'[s] = [sweep[s] EXCEPT !.phase = "first", !.alone = others = {}, !.todo = resolveSubtree(r)]
    BY <1>4
  <2> QED
    BY <2>1, <1>1, <1>5, <1>6 DEF SweepRecord
<1>8. ASSUME NEW o \in Sweeps \ {s}
      PROVE  sweep'[o] \in SweepRecord /\ Untouched(o) /\ sweep'[o].last = (sweep[o].phase = "new")
  <2>1. sweep'[o] = [sweep[o] EXCEPT !.alone = sweep[o].alone /\ o \notin others, !.last = sweep[o].phase = "new"]
    BY <1>4
  <2>2. sweep[o] \in SweepRecord
    BY <1>1
  <2> QED
    BY <2>1, <2>2 DEF SweepRecord, Untouched
<1>9. SweepTypes'
  <2>1. \A o \in Sweeps : sweep'[o] \in SweepRecord
    BY <1>7, <1>8
  <2>2. sweep' \in [Sweeps -> SweepRecord]
    BY <2>1, <1>4
  <2> QED
    BY <2>2, <1>1, <1>4 DEF SweepTypes, MembersStay
<1>10. \A o \in Sweeps : /\ sweep'[o].level = sweep[o].level /\ sweep'[o].res = sweep[o].res
                         /\ sweep'[o].phase = "new" => sweep[o].phase = "new"
  BY <1>5, <1>7, <1>8 DEF Untouched
<1>11. \A a \in TreeAgents : HasFailed(a)' = HasFailed(a)
  BY <1>10 DEF HasFailed
<1>12. ASSUME NEW a \in TreeAgents PROVE MemberInv(a)'
  <2>1. MemberHeld(a)' /\ MemberRow(a)' /\ MemberLost(a)'
    BY <1>4, <1>11, MembersHold
  <2>2. MemberQueue(a)'
    <3>1. MemberQueue(a)
      BY DEF SweepInv, MemberInv
    <3> SUFFICES ASSUME NEW e \in ToSet(lock[a]) PROVE EntryOf(a, e)'
      BY <3>1, <1>4 DEF MemberQueue
    <3>2. EntryOf(a, e) /\ e \in LockEntry
      BY <3>1, <1>1, EntryBy DEF MemberQueue
    <3>3. e.by # None => e.by \in Sweeps
      BY <3>2 DEF LockEntry
    <3> QED
      BY <3>2, <3>3, <1>4, <1>10 DEF EntryOf, Exists, MembersStay
  <2> QED
    BY <2>1, <2>2 DEF MemberInv
(* Nobody waits for the new sweep in a lock yet.                             *)
<1>13. ASSUME NEW a \in TreeAgents, NEW e \in ToSet(lock[a]) PROVE e.by # s
  <2>1. EntryOf(a, e)
    BY DEF SweepInv, MemberInv, MemberQueue
  <2> QED
    BY <2>1, <1>4, SubtreeConstants DEF EntryOf
<1>14. sweepMix' = sweepMix /\ sweepMix'.root[s] = r /\ lock' = lock /\ row' = row
  BY <1>2, <1>4 DEF MembersStay
<1>15. Progress(s)'
  <2>1. row'[sweepMix'.root[s]].state # "none" /\ sweepMix'.op[s] # None
    BY <1>4, <1>14 DEF Exists
  <2>2. \A a \in sweep'[s].todo \cup sweep'[s].level :
            sweep'[s].res[a] = "none" /\ a \in Below(r) /\ row'[a].state # "none"
    <3> SUFFICES ASSUME NEW a \in resolveSubtree(r)
                 PROVE  sweep[s].res[a] = "none" /\ a \in Below(r) /\ row[a].state # "none"
      BY <1>7, <1>14
    <3> QED
      BY <1>5, <1>6 DEF resolveSubtree, Exists
  <2>3. \A a \in sweep'[s].todo \cup sweep'[s].level : a \in Below(sweepMix'.root[s])
    BY <2>2, <1>14
  <2> QED
    BY <2>1, <2>2, <2>3, <1>7 DEF Progress, Exists
<1>16. StopInv(s)'
  <2>1. StopAnswers(s)'
    BY <1>5, <1>7 DEF StopAnswers
  <2>2. StopDescends(s)'
    BY <1>13, <1>14 DEF StopDescends
  <2>3. StopLate(s)'
    BY <1>7 DEF StopLate
  <2> QED
    BY <2>1, <2>2, <2>3 DEF StopInv
<1>17. OthersRest(s)'
  <2> SUFFICES ASSUME others = {}, NEW o \in Sweeps \ {s} PROVE sweep'[o].phase \in {"new", "done"}
    BY <1>7 DEF OthersRest, Uncrossed
  <2> QED
    BY <1>3, <1>8 DEF Untouched
<1>18. ResumeGoes(s)'
  <2> SUFFICES ASSUME NEW a \in Below(r), a \notin resolveSubtree(r) PROVE row[a].state # "paused"
    BY <1>7, <1>14 DEF ResumeGoes, Waits
  <2> QED
    BY DEF resolveSubtree, Below, Exists
<1>19. RootFirst(s)'
  <2>1. r \in resolveSubtree(r)
    BY <1>4 DEF resolveSubtree, Below
  <2>2. r \in Waits(s)'
    BY <2>1, <1>7 DEF Waits
  <2>3. \A a \in TreeAgents : sweep'[s].res[a] = "none"
    BY <1>5, <1>7
  <2> QED
    BY <2>2, <2>3, <1>7, <1>14 DEF RootFirst
<1>20. RootQueue(s)' /\ PauseGoes(s)'
  <2>1. sweep'[s].res[r] # "applied"
    BY <1>5, <1>7
  <2>2. lock[r] \in Seq(LockEntry)
    BY <1>1 DEF SweepTypes
  <2>3. JoinsBehind(lock[r], s)
    BY <1>13, <2>2 DEF JoinsBehind, ToSet
  <2>4. PauseGoes(s)'
    BY <2>1, <1>14 DEF PauseGoes
  <2>5. JoinsBehind(lock[sweepMix.root[s]], s)'
    BY <2>3, <1>14 DEF JoinsBehind
  <2> QED
    BY <2>1, <2>4, <2>5, <1>14 DEF RootQueue
<1>21. ASSUME NEW o \in Sweeps \ {s}
       PROVE  /\ Progress(o)' /\ OthersRest(o)' /\ StopInv(o)' /\ ResumeGoes(o)'
              /\ RootFirst(o)' /\ RootQueue(o)' /\ PauseGoes(o)'
  <2>1. Progress(o)' /\ StopInv(o)' /\ RootFirst(o)'
    BY <1>4, <1>8, UntouchedStays
  <2>2. ~Uncrossed(o)'
    BY <1>8 DEF Uncrossed, Untouched
  <2> QED
    BY <2>1, <2>2 DEF OthersRest, ResumeGoes, PauseGoes, RootQueue
<1> QED
  <2> SUFFICES ASSUME NEW o \in Sweeps
               PROVE  (Progress(o) /\ OthersRest(o) /\ StopInv(o) /\ ResumeGoes(o) /\ PauseInv(o))'
    BY <1>9, <1>12 DEF SweepInv
  <2>1. CASE o = s
    BY <2>1, <1>15, <1>16, <1>17, <1>18, <1>19, <1>20 DEF PauseInv
  <2>2. CASE o # s
    BY <2>2, <1>21 DEF PauseInv
  <2> QED
    BY <2>1, <2>2

(* The next level is asked: the root of a pause comes alone and first, of a  *)
(* stop the deepest.                                                         *)
LEMMA LevelKeeps == ASSUME SweepInv, NEW s \in Sweeps, Level(s) PROVE SweepInv'
<1>1. SweepTypes /\ sweep \in [Sweeps -> SweepRecord] /\ sweep[s] \in SweepRecord /\ sweepMix \in MixOfSweeps
  BY DEF SweepInv, SweepTypes
<1>2. PICK r \in TreeAgents : r = sweepMix.root[s]
  BY <1>1 DEF MixOfSweeps
<1>3. PICK members, asked, how :
         /\ members = NextLevel(s)
         /\ asked = {a \in members : ~Skipped(s, a) /\ ~WillJoin(s, a)}
         /\ how = [a \in TreeAgents |-> IF a \in members \ asked
                       THEN IF WillJoin(s, a) THEN "pending" ELSE "skipped" ELSE sweep[s].res[a]]
  OBVIOUS
<1>4. PICK mine : mine = [by |-> s, op |-> sweepMix.op[s]]
  OBVIOUS
<1>5. /\ sweep[s].phase \in {"first", "second"} /\ sweep[s].level = {} /\ sweep[s].todo # {}
      /\ sweep' = [sweep EXCEPT ![s] = [sweep[s] EXCEPT !.todo = sweep[s].todo \ members, !.level = asked, !.res = how]]
      /\ lock' = [a \in TreeAgents |-> IF a \in asked THEN Append(lock[a], mine) ELSE lock[a]]
      /\ MembersStay
  <2>1. sweep[s].phase \in {"first", "second"} /\ sweep[s].level = {} /\ sweep[s].todo # {} /\ MembersStay
    BY DEF Level, MembersStay
  <2>2. lock' = [a \in TreeAgents |-> IF a \in asked THEN Append(lock[a], mine) ELSE lock[a]]
    BY <1>3, <1>4 DEF Level
  <2>3. sweep' = [sweep EXCEPT ![s].todo = @ \ members, ![s].level = asked,
                 ![s].res = [a \in TreeAgents |-> IF a \in members \ asked
                               THEN IF WillJoin(s, a) THEN "pending" ELSE "skipped" ELSE @[a]]]
    BY <1>3 DEF Level
  <2>4. sweep' = [sweep EXCEPT ![s] = [sweep[s] EXCEPT !.todo = sweep[s].todo \ members, !.level = asked, !.res = how]]
    BY <2>3, <1>1, <1>3 DEF SweepRecord
  <2> QED
    BY <2>1, <2>2, <2>4
<1>6. /\ members \subseteq sweep[s].todo /\ members # {} /\ asked \subseteq members /\ members \subseteq TreeAgents
      /\ \A a \in members : sweep[s].res[a] = "none" /\ a \in Below(r) /\ Exists(a)
      /\ sweepMix.op[s] # None /\ Exists(r)
  <2>1. members \subseteq sweep[s].todo /\ members # {}
    BY <1>1, <1>3, <1>5, NextLevelFacts
  <2>2. Progress(s)
    BY DEF SweepInv
  <2> QED
    BY <2>1, <2>2, <1>1, <1>2, <1>3, <1>5 DEF Progress, SweepRecord
<1>7. how \in [TreeAgents -> Answers] /\ \A a \in TreeAgents : a \notin members \ asked => how[a] = sweep[s].res[a]
  BY <1>1, <1>3 DEF SweepRecord, Answers
<1>8. /\ sweep' \in [Sweeps -> SweepRecord] /\ sweep'[s].phase = sweep[s].phase
      /\ sweep'[s].todo = sweep[s].todo \ members /\ sweep'[s].level = asked
      /\ sweep'[s].late = sweep[s].late /\ sweep'[s].res = how
      /\ sweep'[s].alone = sweep[s].alone /\ sweep'[s].last = sweep[s].last
  <2>1. PICK new : new = [sweep[s] EXCEPT !.todo = sweep[s].todo \ members, !.level = asked, !.res = how]
    OBVIOUS
  <2>2. /\ new \in SweepRecord /\ new.phase = sweep[s].phase /\ new.todo = sweep[s].todo \ members
        /\ new.level = asked /\ new.late = sweep[s].late /\ new.res = how
        /\ new.alone = sweep[s].alone /\ new.last = sweep[s].last
    BY <2>1, <1>1, <1>6, <1>7 DEF SweepRecord
  <2>3. sweep' = [sweep EXCEPT ![s] = new]
    BY <2>1, <1>5
  <2> QED
    BY <2>2, <2>3, <1>1
<1>9. ASSUME NEW o \in Sweeps \ {s} PROVE Untouched(o) /\ sweep'[o] = sweep[o]
  BY <1>1, <1>5 DEF Untouched
<1>10. \A a \in TreeAgents : lock[a] \in Seq(LockEntry)
  BY <1>1 DEF SweepTypes
<1>11. mine \in LockEntry /\ mine.by = s /\ mine.op = sweepMix.op[s]
  BY <1>1, <1>4, <1>6 DEF LockEntry, MixOfSweeps
(* Who still waits for this sweep in a lock is behind: nobody that it asks.  *)
<1>12. ASSUME NEW a \in TreeAgents, NEW e \in ToSet(lock[a]), e.by = s PROVE sweep[s].res[a] = "failed"
  <2>1. EntryOf(a, e)
    BY DEF SweepInv, MemberInv, MemberQueue
  <2> QED
    BY <2>1, <1>5, <1>12, SubtreeConstants DEF EntryOf
<1>13. ASSUME NEW a \in TreeAgents
       PROVE  \/ a \notin asked /\ lock'[a] = lock[a]
              \/ /\ a \in asked /\ lock'[a] = Append(lock[a], mine)
                 /\ \A e \in ToSet(lock[a]) : e.by # s
  BY <1>5, <1>6, <1>12
<1>14. ASSUME NEW a \in TreeAgents
       PROVE  /\ lock'[a] \in Seq(LockEntry)
              /\ lock[a] # <<>> => lock'[a] # <<>> /\ Head(lock'[a]) = Head(lock[a])
              /\ \A e \in ToSet(lock'[a]) : e \in ToSet(lock[a]) \/ (a \in asked /\ e = mine)
              /\ OnceEach(lock'[a])
              /\ JoinsBehind(lock[a], s) => JoinsBehind(lock'[a], s)
  <2>1. OnceEach(lock[a])
    BY DEF SweepInv, MemberInv, MemberQueue
  <2>2. CASE lock'[a] = lock[a]
    BY <2>1, <2>2, <1>10
  <2>3. CASE a \in asked /\ lock'[a] = Append(lock[a], mine) /\ \A e \in ToSet(lock[a]) : e.by # s
    <3>1. /\ Append(lock[a], mine) \in Seq(LockEntry) /\ Append(lock[a], mine) # <<>>
          /\ ToSet(Append(lock[a], mine)) = ToSet(lock[a]) \cup {mine}
          /\ OnceEach(Append(lock[a], mine))
          /\ JoinsBehind(lock[a], s) => JoinsBehind(Append(lock[a], mine), s)
      BY <2>1, <2>3, <1>10, <1>11, QueuePush
    <3>2. lock[a] # <<>> => Head(Append(lock[a], mine)) = Head(lock[a])
      BY <1>10
    <3> QED
      BY <2>3, <3>1, <3>2
  <2> QED
    BY <2>2, <2>3, <1>13
<1>15. SweepTypes'
  <2>1. lock' \in [TreeAgents -> Seq(LockEntry)]
    BY <1>5, <1>14
  <2> QED
    BY <2>1, <1>1, <1>5, <1>8 DEF SweepTypes, MembersStay
<1>16. \A a \in TreeAgents : /\ how[a] = "failed" <=> sweep[s].res[a] = "failed"
                             /\ how[a] = "none" => sweep[s].res[a] = "none"
                             /\ how[a] = "applied" => sweep[s].res[a] = "applied" /\ a \notin members
  BY <1>3, <1>6, <1>7
<1>17. \A a \in TreeAgents : HasFailed(a)' = HasFailed(a)
  <2> SUFFICES ASSUME NEW a \in TreeAgents, NEW o \in Sweeps
               PROVE  sweep'[o].res[a] = "failed" <=> sweep[o].res[a] = "failed"
    BY DEF HasFailed
  <2> QED
    BY <1>8, <1>9, <1>16
<1>18. ASSUME NEW a \in TreeAgents PROVE MemberInv(a)'
  <2>1. MemberHeld(a)' /\ MemberRow(a)' /\ MemberLost(a)'
    BY <1>5, <1>14, <1>17, MembersHold
  <2>2. ASSUME NEW e \in ToSet(lock[a]) PROVE EntryOf(a, e)'
    <3>1. EntryOf(a, e) /\ e \in LockEntry
      BY <1>1, EntryBy DEF SweepInv, MemberInv, MemberQueue
    <3>2. CASE e.by = s
      <4>1. sweep'[s].res[a] = "failed"
        BY <3>2, <1>8, <1>12, <1>16
      <4> QED
        BY <3>1, <3>2, <4>1, <1>5, <1>8 DEF EntryOf, Exists, MembersStay
    <3>3. CASE e.by = None
      BY <3>1, <3>3, <1>5 DEF EntryOf, Exists, MembersStay
    <3>4. CASE e.by \in Sweeps \ {s}
      BY <3>1, <3>4, <1>5, <1>9 DEF EntryOf, Exists, MembersStay
    <3> QED
      BY <3>1, <3>2, <3>3, <3>4 DEF LockEntry
  <2>3. ASSUME a \in asked PROVE EntryOf(a, mine)'
    <3>1. sweepMix.op[s] = "pause" => row[a].sandbox
      BY <2>3, <1>3 DEF WillJoin
    <3>2. Exists(a)
      BY <2>3, <1>6
    <3>3. mine.by # None
      BY <1>11, SubtreeConstants
    <3> QED
      BY <2>3, <3>1, <3>2, <3>3, <1>5, <1>8, <1>11 DEF EntryOf, Exists, MembersStay
  <2>4. MemberQueue(a)'
    BY <2>2, <2>3, <1>14 DEF MemberQueue
  <2> QED
    BY <2>1, <2>4 DEF MemberInv
<1>19. /\ sweepMix' = sweepMix /\ sweepMix'.root[s] = r /\ sweepMix'.op[s] = sweepMix.op[s]
       /\ row' = row /\ sweepReg' = sweepReg /\ turn' = turn /\ frozen' = frozen /\ spawn' = spawn
  BY <1>2, <1>5 DEF MembersStay
<1>20. Waits(s)' = (sweep[s].todo \ members) \cup asked /\ Waits(s) = sweep[s].todo
  BY <1>5, <1>8 DEF Waits
<1>21. Progress(s)'
  <2>1. row'[sweepMix'.root[s]].state # "none" /\ sweepMix'.op[s] # None
    BY <1>6, <1>19 DEF Exists
  <2>2. ASSUME NEW a \in (sweep[s].todo \ members) \cup asked
        PROVE  how[a] = "none" /\ a \in Below(r) /\ row[a].state # "none"
    <3>1. a \in sweep[s].todo /\ a \in TreeAgents /\ a \notin members \ asked
      BY <1>1, <1>6 DEF SweepRecord
    <3>2. sweep[s].res[a] = "none" /\ a \in Below(r) /\ Exists(a)
      BY <3>1, <1>2 DEF SweepInv, Progress
    <3> QED
      BY <3>1, <3>2, <1>7 DEF Exists
  <2>3. \A a \in sweep'[s].todo \cup sweep'[s].level :
            sweep'[s].res[a] = "none" /\ a \in Below(sweepMix'.root[s]) /\ row'[a].state # "none"
    BY <2>2, <1>8, <1>19
  <2>4. sweep[s].phase = "first" => sweep[s].late = {}
    BY DEF SweepInv, Progress
  <2> QED
    BY <2>1, <2>3, <2>4, <1>5, <1>6, <1>8 DEF Progress, Exists
<1>22. StopInv(s)'
  <2>1. StopAnswers(s) /\ StopDescends(s) /\ StopLate(s)
    BY DEF SweepInv, StopInv
  <2>2. StopAnswers(s)'
    <3> SUFFICES ASSUME sweepMix.op[s] = "stop", NEW a \in TreeAgents
                 PROVE  how[a] # "pending" /\ (how[a] \in {"applied", "skipped"} => row[a].ended /\ a \notin sweepReg)
      BY <1>8, <1>19 DEF StopAnswers
    <3>1. CASE a \in members \ asked
      BY <3>1, <1>3 DEF WillJoin, Skipped
    <3>2. CASE a \notin members \ asked
      BY <3>2, <2>1, <1>7 DEF StopAnswers
    <3> QED
      BY <3>1, <3>2
  <2>3. StopDescends(s)'
    <3> SUFFICES ASSUME sweepMix.op[s] = "stop", sweep[s].phase = "first", NEW a \in TreeAgents,
                        NEW e \in ToSet(lock'[a]), e.by = s, NEW x \in sweep[s].todo \ members
                 PROVE  Depth(x) < Depth(a)
      BY <1>8, <1>19 DEF StopDescends
    <3>1. CASE e \in ToSet(lock[a])
      BY <3>1, <2>1 DEF StopDescends
    <3>2. CASE a \in asked
      BY <3>2, <1>1, <1>3, <1>5, <1>6, NextLevelFacts DEF FromTheTop
    <3> QED
      BY <3>1, <3>2, <1>14
  <2>4. StopLate(s)'
    <3> SUFFICES ASSUME sweepMix.op[s] = "stop", sweep[s].phase \in {"second", "done"}
                 PROVE  /\ (sweep[s].todo \ members) \cup asked \subseteq sweep[s].late
                        /\ \A a \in sweep[s].late : a \in (sweep[s].todo \ members) \cup asked \/ how[a] # "none"
                        /\ \A a \in resolveSubtree(r)' :
                              how[a] = "none" /\ a \notin sweep[s].late =>
                                  \E b \in Above[a] : how[b] = "failed" \/ b \in sweep[s].late
      BY <1>8, <1>19 DEF StopLate, resolveSubtree, Exists
    <3>1. resolveSubtree(r)' = resolveSubtree(r)
      BY <1>19 DEF resolveSubtree, Exists
    <3>2. /\ sweep[s].todo \subseteq sweep[s].late
          /\ \A a \in sweep[s].late : a \in sweep[s].todo \/ sweep[s].res[a] # "none"
          /\ \A a \in resolveSubtree(r) : sweep[s].res[a] = "none" /\ a \notin sweep[s].late =>
                 \E b \in Above[a] : sweep[s].res[b] = "failed" \/ b \in sweep[s].late
      BY <2>1, <1>2, <1>5 DEF StopLate
    <3>3. sweep[s].late \subseteq TreeAgents
      BY <1>1 DEF SweepRecord
    <3>4. \A a \in sweep[s].late : a \in (sweep[s].todo \ members) \cup asked \/ how[a] # "none"
      <4> SUFFICES ASSUME NEW a \in sweep[s].late, how[a] = "none"
                   PROVE  a \in (sweep[s].todo \ members) \cup asked
        OBVIOUS
      <4>1. a \in TreeAgents /\ sweep[s].res[a] = "none"
        BY <3>3, <1>16
      <4>2. a \in sweep[s].todo
        BY <4>1, <3>2
      <4>3. a \notin members \ asked
        BY <4>1, <1>3
      <4> QED
        BY <4>2, <4>3
    <3>5. ASSUME NEW a \in resolveSubtree(r), how[a] = "none", a \notin sweep[s].late
          PROVE  \E b \in Above[a] : how[b] = "failed" \/ b \in sweep[s].late
      <4>1. a \in TreeAgents
        BY DEF resolveSubtree, Below
      <4>2. PICK b \in Above[a] : sweep[s].res[b] = "failed" \/ b \in sweep[s].late
        BY <4>1, <3>5, <3>2, <1>16
      <4>3. b \in TreeAgents
        BY <4>1, AboveIsLess
      <4> QED
        BY <4>2, <4>3, <1>16
    <3> QED
      BY <3>1, <3>2, <3>4, <3>5, <1>6
  <2> QED
    BY <2>2, <2>3, <2>4 DEF StopInv
<1>23. OthersRest(s)'
  <2>1. OthersRest(s)
    BY DEF SweepInv
  <2> QED
    BY <2>1, <1>8, <1>9 DEF OthersRest, Uncrossed
<1>24. ResumeGoes(s)'
  <2> SUFFICES ASSUME sweepMix.op[s] = "resume", Uncrossed(s), NEW a \in Below(r),
                      a \notin (sweep[s].todo \ members) \cup asked, row[a].state = "paused"
               PROVE  HasFailed(a)' \/ spawn[a] \in {"joining", "joined"}
    BY <1>8, <1>19, <1>20 DEF ResumeGoes, Uncrossed
  <2>1. a \in TreeAgents
    BY DEF Below
  <2>2. a \notin members \ asked
    BY <1>3 DEF WillJoin, Skipped
  <2>3. a \notin Waits(s)
    BY <2>2, <1>20
  <2>4. HasFailed(a) \/ spawn[a] \in {"joining", "joined"}
    BY <2>3, <1>2 DEF SweepInv, ResumeGoes
  <2> QED
    BY <2>1, <2>4, <1>17
<1>25. RootFirst(s)'
  <2> SUFFICES ASSUME sweepMix.op[s] = "pause", how[r] = "none"
               PROVE  /\ sweep[s].phase = "first"
                      /\ r \in (sweep[s].todo \ members) \cup asked
                      /\ asked \subseteq {r}
                      /\ \A a \in TreeAgents : how[a] = "none"
    BY <1>8, <1>19, <1>20 DEF RootFirst
  <2>1. /\ sweep[s].phase = "first" /\ r \in sweep[s].todo /\ \A a \in TreeAgents : sweep[s].res[a] = "none"
    BY <1>2, <1>5, <1>16, <1>20 DEF SweepInv, PauseInv, RootFirst
  <2>2. ASSUME NEW m \in members PROVE m = r
    <3>1. Depth(m) <= Depth(r)
      BY <2>1, <1>1, <1>3, <1>5, NextLevelFacts DEF FromTheTop
    <3>2. m \in Below(r) /\ m \in TreeAgents
      BY <1>6
    <3>3. SUFFICES ASSUME r \in Above[m] PROVE FALSE
      BY <3>2 DEF Below
    <3>4. Depth(r) < Depth(m) /\ Depth(r) \in Nat /\ Depth(m) \in Nat
      BY <3>2, <3>3, DepthRises
    <3> QED
      BY <3>1, <3>4
  <2>3. members = {r}
    BY <2>2, <1>6
  <2>4. r \in asked
    BY <2>3, <1>3
  <2> QED
    BY <2>1, <2>3, <2>4, <1>6, <1>7
<1>26. RootQueue(s)'
  <2> SUFFICES ASSUME sweepMix.op[s] = "pause", Uncrossed(s)
               PROVE  JoinsBehind(lock'[r], s) /\ (how[r] = "applied" => RootStays(r)')
    BY <1>8, <1>19 DEF RootQueue, Uncrossed, JoinsBehind, RootStays, OnlyJoins
  <2>1. JoinsBehind(lock[r], s) /\ (sweep[s].res[r] = "applied" => RootStays(r))
    BY <1>2 DEF SweepInv, PauseInv, RootQueue
  <2>2. ASSUME how[r] = "applied" PROVE RootStays(r)'
    <3>1. RootStays(r) /\ lock'[r] = lock[r]
      BY <2>1, <2>2, <1>6, <1>13, <1>16
    <3> QED
      BY <3>1, <1>19 DEF RootStays, OnlyJoins
  <2> QED
    BY <2>1, <2>2, <1>14
<1>27. PauseGoes(s)'
  <2> SUFFICES ASSUME sweepMix.op[s] = "pause", Uncrossed(s), how[r] = "applied", row[r].state = "paused",
                      NEW a \in Below(r), a \notin (sweep[s].todo \ members) \cup asked,
                      how[a] # "none" \/ sweep[s].phase # "first", a \in turn \cap sweepReg
               PROVE  a \in frozen \/ spawn[a] = "unpaused" \/ HasFailed(a)'
    BY <1>8, <1>19, <1>20 DEF PauseGoes, Uncrossed, Rests
  <2>1. a \in TreeAgents
    BY DEF Below
  <2>2. CASE a \in members \ asked
    <3>1. MemberHeld(a) /\ MemberRow(a) /\ MemberLost(a)
      BY <2>1 DEF SweepInv, MemberInv
    <3>2. a \in sweepReg /\ row[a].sandbox
      BY <2>1, <3>1 DEF MemberHeld
    <3>3. row[a].state \in {"aborted", "lost", "paused"}
      BY <2>2, <3>2, <1>3 DEF WillJoin, Skipped, CLOSED_STATES
    <3>4. CASE row[a].state = "paused"
      BY <3>1, <3>4 DEF MemberRow
    <3>5. CASE row[a].state = "lost"
      BY <2>1, <3>1, <3>5, <1>17 DEF MemberLost
    <3>6. CASE row[a].state = "aborted"
      <4>1. step[a].at = "aborting"
        BY <3>1, <3>2, <3>6 DEF MemberRow
      <4>2. lock[a] # <<>> /\ Head(lock[a]).op = "stop"
        BY <3>1, <4>1 DEF MemberHeld, AwaitedOp, NoStep
      <4>3. Head(lock[a]).by \notin {None, s}
        BY <2>1, <4>2, HeadFacts, SubtreeConstants DEF EntryOf
      <4>4. HasFailed(a)
        BY <2>1, <4>2, <4>3, HeadFacts
      <4> QED
        BY <2>1, <4>4, <1>17
    <3> QED
      BY <3>3, <3>4, <3>5, <3>6
  <2>3. CASE a \notin members \ asked
    <3>1. a \notin Waits(s) /\ how[a] = sweep[s].res[a]
      BY <2>1, <2>3, <1>7, <1>20
    <3>2. sweep[s].res[r] = "applied"
      BY <1>16
    <3>3. PauseGoes(s)
      BY DEF SweepInv, PauseInv
    <3>4. Rests(a)
      BY <3>1, <3>2, <3>3, <1>2 DEF PauseGoes
    <3> QED
      BY <2>1, <3>4, <1>17 DEF Rests
  <2> QED
    BY <2>2, <2>3
<1>28. ASSUME NEW o \in Sweeps \ {s}
       PROVE  /\ Progress(o)' /\ OthersRest(o)' /\ StopInv(o)' /\ ResumeGoes(o)'
              /\ RootFirst(o)' /\ RootQueue(o)' /\ PauseGoes(o)'
  <2>1. \A a \in TreeAgents : \A e \in ToSet(lock'[a]) : e.by = o => e \in ToSet(lock[a])
    BY <1>11, <1>14
  <2>2. Progress(o)' /\ StopInv(o)' /\ RootFirst(o)'
    BY <2>1, <1>5, <1>9, UntouchedStays
  <2>3. OthersRest(o)
    BY DEF SweepInv
  <2>4. ~Uncrossed(o)
    BY <2>3, <1>5 DEF OthersRest
  <2>5. ~Uncrossed(o)'
    BY <2>4, <1>9 DEF Uncrossed
  <2> QED
    BY <2>2, <2>5 DEF OthersRest, ResumeGoes, PauseGoes, RootQueue
<1> QED
  <2> SUFFICES ASSUME NEW o \in Sweeps
               PROVE  (Progress(o) /\ OthersRest(o) /\ StopInv(o) /\ ResumeGoes(o) /\ PauseInv(o))'
    BY <1>15, <1>18 DEF SweepInv
  <2>1. CASE o = s
    BY <2>1, <1>21, <1>22, <1>23, <1>24, <1>25, <1>26, <1>27 DEF PauseInv
  <2>2. CASE o # s
    BY <2>2, <1>28 DEF PauseInv
  <2> QED
    BY <2>1, <2>2

(* The levels are done: the sweep looks for late members once, or is over.   *)
LEMMA LevelsDoneKeeps == ASSUME SweepInv, NEW s \in Sweeps, LevelsDone(s) PROVE SweepInv'
<1>1. SweepTypes /\ sweep \in [Sweeps -> SweepRecord] /\ sweep[s] \in SweepRecord /\ sweepMix \in MixOfSweeps
  BY DEF SweepInv, SweepTypes
<1>2. PICK r \in TreeAgents : r = sweepMix.root[s]
  BY <1>1 DEF MixOfSweeps
<1>3. PICK late : late = {a \in resolveSubtree(r) : sweep[s].res[a] = "none"}
  OBVIOUS
<1>4. /\ sweep[s].phase \in {"first", "second"} /\ sweep[s].level = {} /\ sweep[s].todo = {}
      /\ sweep' = [sweep EXCEPT ![s] = IF sweep[s].phase = "first" /\ late # {}
                      THEN [sweep[s] EXCEPT !.phase = "second", !.todo = late, !.late = late]
                      ELSE [sweep[s] EXCEPT !.phase = "done"]]
      /\ MembersStay /\ UNCHANGED lock
  BY <1>1, <1>2, <1>3 DEF LevelsDone, LateMembers, MembersStay
<1>5. late \subseteq TreeAgents
  BY <1>3 DEF resolveSubtree, Below
<1>6. /\ sweep' \in [Sweeps -> SweepRecord] /\ sweep'[s].level = {} /\ sweep'[s].res = sweep[s].res
      /\ sweep'[s].alone = sweep[s].alone /\ sweep'[s].last = sweep[s].last
      /\ \/ /\ sweep[s].phase = "first" /\ sweep'[s].phase = "second"
            /\ sweep'[s].todo = late /\ sweep'[s].late = late
         \/ /\ sweep'[s].phase = "done"
            /\ sweep[s].phase = "first" => late = {}
            /\ sweep'[s].todo = {} /\ sweep'[s].late = sweep[s].late
  <2>1. PICK new : new = IF sweep[s].phase = "first" /\ late # {}
                      THEN [sweep[s] EXCEPT !.phase = "second", !.todo = late, !.late = late]
                      ELSE [sweep[s] EXCEPT !.phase = "done"]
    OBVIOUS
  <2>2. sweep' = [sweep EXCEPT ![s] = new]
    BY <2>1, <1>4
  <2>3. CASE sweep[s].phase = "first" /\ late # {}
    <3>1. new = [sweep[s] EXCEPT !.phase = "second", !.todo = late, !.late = late]
      BY <2>1, <2>3
    <3>2. /\ new \in SweepRecord /\ new.level = {} /\ new.res = sweep[s].res /\ new.alone = sweep[s].alone
          /\ new.last = sweep[s].last /\ new.phase = "second" /\ new.todo = late /\ new.late = late
      BY <3>1, <1>1, <1>4, <1>5 DEF SweepRecord
    <3> QED
      BY <2>2, <2>3, <3>2, <1>1
  <2>4. CASE ~(sweep[s].phase = "first" /\ late # {})
    <3>1. new = [sweep[s] EXCEPT !.phase = "done"]
      BY <2>1, <2>4
    <3>2. /\ new \in SweepRecord /\ new.level = {} /\ new.res = sweep[s].res /\ new.alone = sweep[s].alone
          /\ new.last = sweep[s].last /\ new.phase = "done" /\ new.todo = {} /\ new.late = sweep[s].late
      BY <3>1, <1>1, <1>4 DEF SweepRecord
    <3> QED
      BY <2>2, <2>4, <3>2, <1>1
  <2> QED
    BY <2>3, <2>4
<1>7. ASSUME NEW o \in Sweeps \ {s} PROVE Untouched(o) /\ sweep'[o] = sweep[o]
  BY <1>1, <1>4 DEF Untouched
<1>8. SweepTypes'
  BY <1>1, <1>4, <1>6 DEF SweepTypes, MembersStay
<1>9. \A o \in Sweeps : /\ sweep'[o].level = sweep[o].level /\ sweep'[o].res = sweep[o].res
                        /\ sweep'[o].phase = "new" => sweep[o].phase = "new"
  BY <1>4, <1>6, <1>7
<1>10. \A a \in TreeAgents : HasFailed(a)' = HasFailed(a)
  BY <1>9 DEF HasFailed
<1>11. ASSUME NEW a \in TreeAgents PROVE MemberInv(a)'
  <2>1. MemberHeld(a)' /\ MemberRow(a)' /\ MemberLost(a)'
    BY <1>4, <1>10, MembersHold
  <2>2. MemberQueue(a)'
    <3>1. MemberQueue(a)
      BY DEF SweepInv, MemberInv
    <3> SUFFICES ASSUME NEW e \in ToSet(lock[a]) PROVE EntryOf(a, e)'
      BY <3>1, <1>4 DEF MemberQueue
    <3>2. EntryOf(a, e) /\ e \in LockEntry
      BY <3>1, <1>1, EntryBy DEF MemberQueue
    <3>3. e.by # None => e.by \in Sweeps
      BY <3>2 DEF LockEntry
    <3> QED
      BY <3>2, <3>3, <1>4, <1>9 DEF EntryOf, Exists, MembersStay
  <2> QED
    BY <2>1, <2>2 DEF MemberInv
<1>12. /\ sweepMix' = sweepMix /\ sweepMix'.root[s] = r /\ sweepMix'.op[s] = sweepMix.op[s] /\ lock' = lock
       /\ row' = row /\ sweepReg' = sweepReg /\ turn' = turn /\ frozen' = frozen /\ spawn' = spawn
  BY <1>2, <1>4 DEF MembersStay
<1>13. Progress(s) /\ sweepMix.op[s] # None /\ Exists(r)
  BY <1>2, <1>4 DEF SweepInv, Progress
<1>14. Progress(s)'
  <2>1. row'[sweepMix'.root[s]].state # "none" /\ sweepMix'.op[s] # None
    BY <1>12, <1>13 DEF Exists
  <2>2. \A a \in late : sweep[s].res[a] = "none" /\ a \in Below(r) /\ row[a].state # "none"
    BY <1>3 DEF resolveSubtree, Exists
  <2>3. \A a \in sweep'[s].todo \cup sweep'[s].level :
            sweep'[s].res[a] = "none" /\ a \in Below(sweepMix'.root[s]) /\ row'[a].state # "none"
    BY <2>2, <1>6, <1>12
  <2> QED
    BY <2>1, <2>3, <1>6 DEF Progress, Exists
<1>15. StopInv(s)'
  <2>1. StopAnswers(s) /\ StopLate(s)
    BY DEF SweepInv, StopInv
  <2>2. StopAnswers(s)'
    BY <2>1, <1>6, <1>12 DEF StopAnswers
  <2>3. StopDescends(s)'
    BY <1>6 DEF StopDescends
  <2>4. StopLate(s)'
    <3> SUFFICES ASSUME sweepMix.op[s] = "stop"
                 PROVE  /\ sweep'[s].todo \subseteq sweep'[s].late
                        /\ \A a \in sweep'[s].late : a \in sweep'[s].todo \/ sweep[s].res[a] # "none"
                        /\ \A a \in resolveSubtree(r)' :
                              sweep[s].res[a] = "none" /\ a \notin sweep'[s].late =>
                                  \E b \in Above[a] : sweep[s].res[b] = "failed" \/ b \in sweep'[s].late
      BY <1>6, <1>12 DEF StopLate, resolveSubtree, Exists
    <3>1. resolveSubtree(r)' = resolveSubtree(r)
      BY <1>12 DEF resolveSubtree, Exists
    <3>2. CASE sweep'[s].todo = late /\ sweep'[s].late = late
      BY <3>1, <3>2, <1>3
    <3>3. CASE sweep'[s].todo = {} /\ sweep'[s].late = sweep[s].late /\ sweep[s].phase = "second"
      BY <2>1, <3>1, <3>3, <1>2, <1>4 DEF StopLate
    <3>4. CASE sweep'[s].todo = {} /\ sweep'[s].late = sweep[s].late /\ sweep[s].phase = "first" /\ late = {}
      <4>1. sweep'[s].late = {}
        BY <3>4, <1>13 DEF Progress
      <4> QED
        BY <3>1, <3>4, <4>1, <1>3
    <3> QED
      BY <3>2, <3>3, <3>4, <1>4, <1>6
  <2> QED
    BY <2>2, <2>3, <2>4 DEF StopInv
<1>16. Uncrossed(s)' => Uncrossed(s)
  BY <1>4, <1>6 DEF Uncrossed
<1>17. OthersRest(s)'
  <2>1. OthersRest(s)
    BY DEF SweepInv
  <2> QED
    BY <2>1, <1>7, <1>16 DEF OthersRest
<1>18. ResumeGoes(s)'
  <2>1. Waits(s) = {}
    BY <1>4 DEF Waits
  <2> SUFFICES ASSUME sweepMix.op[s] = "resume", Uncrossed(s), NEW a \in Below(r), row[a].state = "paused"
               PROVE  HasFailed(a)' \/ spawn[a] \in {"joining", "joined"}
    BY <1>12, <1>16 DEF ResumeGoes
  <2>2. HasFailed(a) \/ spawn[a] \in {"joining", "joined"}
    BY <2>1, <1>2 DEF SweepInv, ResumeGoes
  <2> QED
    BY <2>2, <1>10 DEF Below
<1>19. RootFirst(s)'
  <2>1. RootFirst(s) /\ Waits(s) = {}
    BY <1>4 DEF SweepInv, PauseInv, Waits
  <2>2. sweepMix.op[s] = "pause" => sweep[s].res[r] # "none"
    BY <2>1, <1>2, <1>4 DEF RootFirst
  <2> QED
    BY <2>2, <1>6, <1>12 DEF RootFirst
<1>20. RootQueue(s)'
  <2>1. RootQueue(s)
    BY DEF SweepInv, PauseInv
  <2> SUFFICES ASSUME sweepMix.op[s] = "pause", Uncrossed(s)
               PROVE  JoinsBehind(lock[r], s) /\ (sweep[s].res[r] = "applied" => RootStays(r)')
    BY <1>6, <1>12, <1>16 DEF RootQueue, JoinsBehind, RootStays, OnlyJoins
  <2>2. RootStays(r)' = RootStays(r)
    BY <1>12 DEF RootStays, OnlyJoins
  <2> QED
    BY <2>1, <2>2, <1>2 DEF RootQueue
<1>21. PauseGoes(s)'
  <2> SUFFICES ASSUME sweepMix.op[s] = "pause", Uncrossed(s), sweep[s].res[r] = "applied", row[r].state = "paused",
                      NEW a \in Below(r), a \notin sweep'[s].todo, a \in turn \cap sweepReg
               PROVE  a \in frozen \/ spawn[a] = "unpaused" \/ HasFailed(a)'
    BY <1>6, <1>12, <1>16 DEF PauseGoes, Rests, Waits
  <2>1. a \in TreeAgents /\ a \notin Waits(s)
    BY <1>4 DEF Below, Waits
  <2>2. Exists(a)
    BY <2>1 DEF SweepInv, MemberInv, MemberHeld
  <2>3. sweep[s].res[a] # "none" \/ sweep[s].phase # "first"
    <3>1. SUFFICES ASSUME sweep[s].res[a] = "none", sweep[s].phase = "first" PROVE FALSE
      OBVIOUS
    <3>2. a \in late
      BY <2>2, <3>1, <1>3 DEF resolveSubtree
    <3> QED
      BY <3>1, <3>2, <1>6
  <2>4. PauseGoes(s)
    BY DEF SweepInv, PauseInv
  <2>5. Rests(a)
    BY <2>1, <2>3, <2>4, <1>2 DEF PauseGoes
  <2> QED
    BY <2>1, <2>5, <1>10 DEF Rests
<1>22. ASSUME NEW o \in Sweeps \ {s}
       PROVE  /\ Progress(o)' /\ OthersRest(o)' /\ StopInv(o)' /\ ResumeGoes(o)'
              /\ RootFirst(o)' /\ RootQueue(o)' /\ PauseGoes(o)'
  <2>1. Progress(o)' /\ StopInv(o)' /\ RootFirst(o)'
    BY <1>4, <1>7, UntouchedStays
  <2>2. OthersRest(o)
    BY DEF SweepInv
  <2>3. ~Uncrossed(o)
    BY <2>2, <1>4 DEF OthersRest
  <2>4. ~Uncrossed(o)'
    BY <2>3, <1>7 DEF Uncrossed
  <2> QED
    BY <2>1, <2>4 DEF OthersRest, ResumeGoes, PauseGoes, RootQueue
<1> QED
  <2> SUFFICES ASSUME NEW o \in Sweeps
               PROVE  (Progress(o) /\ OthersRest(o) /\ StopInv(o) /\ ResumeGoes(o) /\ PauseInv(o))'
    BY <1>8, <1>11 DEF SweepInv
  <2>1. CASE o = s
    BY <2>1, <1>14, <1>15, <1>17, <1>18, <1>19, <1>20, <1>21 DEF PauseInv
  <2>2. CASE o # s
    BY <2>2, <1>22 DEF PauseInv
  <2> QED
    BY <2>1, <2>2

(* The invariant holds before any request.                                   *)
LEMMA SweepInitially == SweepInit => SweepInv
<1> SUFFICES ASSUME SweepInit PROVE SweepInv
  OBVIOUS
<1>1. /\ sweepMix \in MixOfSweeps /\ sweepMix.paused \subseteq sweepMix.up /\ 1 \notin sweepMix.born
      /\ sweepMix.up \subseteq TreeAgents
  BY SubtreeConstants DEF SweepInit, MixOfSweeps
<1>2. ASSUME NEW a \in TreeAgents
      PROVE  /\ row[a].state = (IF a \in sweepMix.paused THEN "paused" ELSE IF a \in sweepMix.up THEN "running" ELSE "none")
             /\ row[a].from = (IF a \in sweepMix.paused THEN "running" ELSE "none")
             /\ row[a].ended = FALSE /\ row[a].sandbox = (a \in sweepMix.up)
             /\ row[a] \in SweepRow /\ spawn[a] = "off" /\ lock[a] = <<>> /\ step[a] = NoStep
  BY DEF SweepInit, SweepRow, AgentStates
<1>3. ASSUME NEW s \in Sweeps
      PROVE  /\ sweep[s] \in SweepRecord /\ sweep[s].phase = "new" /\ sweep[s].todo = {} /\ sweep[s].level = {}
             /\ sweep[s].late = {} /\ \A a \in TreeAgents : sweep[s].res[a] = "none"
  BY DEF SweepInit, SweepRecord, Answers
<1>4. sweepReg = sweepMix.up /\ turn = sweepMix.up /\ frozen = sweepMix.paused
  BY DEF SweepInit
<1>5. SweepTypes
  <2>1. row \in [TreeAgents -> SweepRow] /\ sweep \in [Sweeps -> SweepRecord]
    <3>1. row = [a \in TreeAgents |-> row[a]] /\ sweep = [s \in Sweeps |-> sweep[s]]
      BY DEF SweepInit
    <3> QED
      BY <3>1, <1>2, <1>3
  <2>2. spawn \in [TreeAgents -> SpawnStates] /\ sweepPrompts \in [TreeAgents -> Nat]
    BY DEF SweepInit, SpawnStates
  <2>3. lock \in [TreeAgents -> Seq(LockEntry)] /\ step \in [TreeAgents -> {NoStep} \cup StepAt]
    BY DEF SweepInit
  <2> QED
    BY <2>1, <2>2, <2>3, <1>1, <1>4 DEF SweepTypes
<1>6. ASSUME NEW a \in TreeAgents PROVE MemberInv(a)
  <2>1. MemberHeld(a)
    BY <1>1, <1>2, <1>4 DEF MemberHeld, Exists
  <2>2. step[a].at = "idle" /\ step[a].from = "none"
    <3>1. step[a] = NoStep
      BY <1>2
    <3> QED
      BY <3>1 DEF NoStep
  <2>3. /\ row[a].state \in {"paused", "running", "none"} /\ row[a].from \in {"running", "none"}
        /\ row[a].state = "paused" => row[a].from = "running" /\ a \in frozen
    BY <1>2, <1>4
  <2>4. MemberRow(a)
    BY <2>2, <2>3 DEF MemberRow
  <2>5. MemberLost(a)
    BY <2>2, <2>3 DEF MemberLost
  <2>6. MemberQueue(a)
    <3>1. lock[a] = <<>>
      BY <1>2
    <3>2. Len(lock[a]) = 0 /\ ToSet(lock[a]) = {}
      BY <3>1 DEF ToSet
    <3> QED
      BY <3>2 DEF MemberQueue, OnceEach
  <2> QED
    BY <2>1, <2>4, <2>5, <2>6 DEF MemberInv
<1>7. ASSUME NEW s \in Sweeps
      PROVE  Progress(s) /\ OthersRest(s) /\ StopInv(s) /\ ResumeGoes(s) /\ PauseInv(s)
  <2>1. Progress(s)
    BY <1>3 DEF Progress
  <2>2. OthersRest(s) /\ ResumeGoes(s) /\ RootQueue(s) /\ PauseGoes(s)
    BY <1>3 DEF OthersRest, ResumeGoes, RootQueue, PauseGoes, Uncrossed
  <2>3. StopInv(s) /\ RootFirst(s)
    BY <1>3 DEF StopInv, StopAnswers, StopDescends, StopLate, RootFirst
  <2> QED
    BY <2>1, <2>2, <2>3 DEF PauseInv
<1> QED
  BY <1>5, <1>6, <1>7 DEF SweepInv

(* Stuttering keeps the invariant.                                           *)
LEMMA SweepStutters == SweepInv /\ UNCHANGED sweepVars => SweepInv'
<1> SUFFICES ASSUME SweepInv, UNCHANGED sweepVars PROVE SweepInv'
  OBVIOUS
<1>1. MembersStay /\ lock' = lock /\ sweep' = sweep /\ sweepMix' = sweepMix /\ row' = row
      /\ turn' = turn /\ frozen' = frozen /\ spawn' = spawn /\ step' = step /\ sweepReg' = sweepReg
  BY DEF sweepVars, MembersStay
<1>2. SweepTypes'
  BY DEF SweepInv, SweepTypes, sweepVars
<1>3. ASSUME NEW a \in TreeAgents PROVE MemberInv(a)'
  <2>1. HasFailed(a)' = HasFailed(a)
    BY <1>1 DEF HasFailed
  <2>2. MemberHeld(a)' /\ MemberRow(a)' /\ MemberLost(a)'
    BY <2>1, <1>1, MembersHold
  <2>3. MemberQueue(a)'
    BY <1>1 DEF SweepInv, MemberInv, MemberQueue, EntryOf, Exists
  <2> QED
    BY <2>2, <2>3 DEF MemberInv
<1>4. ASSUME NEW s \in Sweeps
      PROVE  (Progress(s) /\ OthersRest(s) /\ StopInv(s) /\ ResumeGoes(s) /\ PauseInv(s))'
  <2>1. Progress(s)' /\ StopInv(s)' /\ RootFirst(s)'
    BY <1>1, UntouchedStays DEF Untouched
  <2>2. OthersRest(s) /\ ResumeGoes(s) /\ RootQueue(s) /\ PauseGoes(s)
    BY DEF SweepInv, PauseInv
  <2>3. OthersRest(s)'
    BY <2>2, <1>1 DEF OthersRest, Uncrossed
  <2>4. ResumeGoes(s)'
    BY <2>2, <1>1 DEF ResumeGoes, Uncrossed, Waits, HasFailed
  <2>5. RootQueue(s)'
    BY <2>2, <1>1 DEF RootQueue, Uncrossed, JoinsBehind, RootStays, OnlyJoins
  <2>6. PauseGoes(s)'
    BY <2>2, <1>1 DEF PauseGoes, Uncrossed, Waits, Rests, HasFailed
  <2> QED
    BY <2>1, <2>3, <2>4, <2>5, <2>6 DEF PauseInv
<1> QED
  BY <1>2, <1>3, <1>4 DEF SweepInv

(* Every step keeps the invariant.                                           *)
LEMMA SweepSteps == ASSUME SweepInv, SweepNext PROVE SweepInv'
<1>1. ASSUME NEW a \in TreeAgents, Spawning(a) PROVE SweepInv'
  <2>1. CASE ForkBegins(a)
    BY <2>1, FailsKeeps, SpawnMovesOn DEF ForkBegins
  <2>2. CASE ForkRefused(a)
    BY <2>2, FailsKeeps, SpawnMovesOn DEF ForkRefused
  <2> QED
    BY <1>1, <2>1, <2>2, ForkReturnsKeeps, StartsKeeps DEF Spawning
<1>2. ASSUME NEW a \in TreeAgents, Command(a) PROVE SweepInv'
  BY <1>2, PauseBeginsKeeps, PauseEndsKeeps, ResumeBeginsKeeps, ResumeThawsKeeps, ResumeEndsKeeps,
     StopBeginsKeeps, StopEndsKeeps DEF Command
<1> QED
  BY <1>1, <1>2, AcceptKeeps, TurnOverKeeps, TurnGivenUpKeeps, CommandFailsKeeps, BeginKeeps, LevelKeeps,
     LevelsDoneKeeps, TimesOutKeeps DEF SweepNext

(* The invariant holds in every behaviour.                                   *)
LEMMA SweepAlways == SweepSpec => []SweepInv
<1>1. SweepInv /\ [SweepNext]_sweepVars => SweepInv'
  BY SweepSteps, SweepStutters
<1> QED
  BY <1>1, SweepInitially, PTL DEF SweepSpec

(* Whatever tree, mixes and overlap: a sweep that is over, that no other     *)
(* crossed, has reached its whole subtree, late members included             *)
(* (subtree.ts:16-65, pause.ts:163-212, spawn.ts:217-227).                   *)
THEOREM SubtreeReached == SweepSpec => []SweepsReach
<1>1. SweepInv => SweepsReach
  <2> SUFFICES ASSUME SweepInv, NEW s \in Sweeps
               PROVE  /\ Over(s, "pause") /\ sweep[s].res[sweepMix.root[s]] = "applied"
                         /\ row[sweepMix.root[s]].state = "paused"
                         => \A a \in resolveSubtree(sweepMix.root[s]) : Rests(a)
                      /\ Over(s, "resume") => \A a \in resolveSubtree(sweepMix.root[s]) :
                            row[a].state = "paused" => HasFailed(a) \/ spawn[a] \in {"joining", "joined"}
                      /\ Over(s, "stop") => \A a \in resolveSubtree(sweepMix.root[s]) \cap sweepReg :
                            \E b \in Above[a] \cup {a} :
                                sweep[s].res[b] = "failed" \/ b \in sweep[s].late \ {a}
    BY DEF SweepsReach, PauseHolds, ResumeReaches, StopReaches, Rests, HasFailed
  <2>1. PICK r \in TreeAgents : r = sweepMix.root[s]
    BY DEF SweepInv, SweepTypes, MixOfSweeps
  <2>2. resolveSubtree(r) \subseteq Below(r) /\ Below(r) \subseteq TreeAgents
    BY DEF resolveSubtree, Below
  <2>3. sweep[s].phase = "done" => Waits(s) = {}
    BY DEF SweepInv, Progress, Waits
  <2>4. ASSUME Over(s, "pause"), sweep[s].res[r] = "applied", row[r].state = "paused", NEW a \in resolveSubtree(r)
        PROVE  Rests(a)
    <3>1. PauseGoes(s) /\ Uncrossed(s) /\ sweep[s].phase = "done" /\ sweepMix.op[s] = "pause"
      BY <2>4 DEF SweepInv, PauseInv, Over, Uncrossed
    <3> QED
      BY <2>1, <2>2, <2>3, <2>4, <3>1 DEF PauseGoes
  <2>5. ASSUME Over(s, "resume"), NEW a \in resolveSubtree(r), row[a].state = "paused"
        PROVE  HasFailed(a) \/ spawn[a] \in {"joining", "joined"}
    <3>1. ResumeGoes(s) /\ Uncrossed(s) /\ sweep[s].phase = "done" /\ sweepMix.op[s] = "resume"
      BY <2>5 DEF SweepInv, Over, Uncrossed
    <3> QED
      BY <2>1, <2>2, <2>3, <2>5, <3>1 DEF ResumeGoes
  <2>6. ASSUME Over(s, "stop"), NEW a \in resolveSubtree(r), a \in sweepReg
        PROVE  \E b \in Above[a] \cup {a} : sweep[s].res[b] = "failed" \/ b \in sweep[s].late \ {a}
    <3>1. /\ StopAnswers(s) /\ StopLate(s) /\ sweep[s].phase = "done" /\ sweepMix.op[s] = "stop"
          /\ sweep \in [Sweeps -> SweepRecord]
      BY <2>6 DEF SweepInv, SweepTypes, StopInv, Over
    <3>2. a \in TreeAgents /\ sweep[s].res \in [TreeAgents -> Answers]
      BY <2>2, <2>6, <3>1 DEF SweepRecord
    <3>3. sweep[s].res[a] \in {"none", "failed"}
      BY <2>6, <3>1, <3>2 DEF StopAnswers, Answers
    <3>4. CASE sweep[s].res[a] = "failed"
      BY <3>4
    <3>5. CASE sweep[s].res[a] = "none"
      <4>1. a \notin sweep[s].late
        BY <2>3, <3>1, <3>5 DEF StopLate, Waits
      <4>2. PICK b \in Above[a] : sweep[s].res[b] = "failed" \/ b \in sweep[s].late
        BY <2>1, <2>6, <3>1, <3>5, <4>1 DEF StopLate
      <4> QED
        BY <4>1, <4>2
    <3> QED
      BY <3>3, <3>4, <3>5
  <2> QED
    BY <2>1, <2>4, <2>5, <2>6
<1> QED
  BY <1>1, SweepAlways, PTL

(* Only the end of a stop takes an agent's handle.                           *)
LEMMA HandleGoes ==
    ASSUME SweepInv, SweepNext, NEW a \in TreeAgents, a \in sweepReg, a \notin sweepReg'
    PROVE  StopEnds(a)
<1>1. ASSUME NEW x \in TreeAgents, Accept(x) \/ Spawning(x) \/ TurnOver(x) \/ TurnGivenUp(x)
      PROVE  sweepReg \subseteq sweepReg'
  BY <1>1 DEF Accept, Spawning, ForkBegins, ForkRefused, ForkReturns, Starts, TurnOver, TurnGivenUp, Fails
<1>2. ASSUME NEW x \in TreeAgents, Command(x) \/ CommandFails(x) PROVE sweepReg' = sweepReg \/ StopEnds(x)
  BY <1>2 DEF Command, PauseBegins, PauseEnds, ResumeBegins, ResumeThaws, ResumeEnds, StopBegins, CommandFails
<1>3. ASSUME NEW x \in TreeAgents, StopEnds(x) PROVE x = a
  BY <1>3 DEF StopEnds, Gone
<1>4. ASSUME NEW s \in Sweeps, Begin(s) \/ Level(s) \/ LevelsDone(s) \/ \E x \in TreeAgents : MemberTimesOut(s, x)
      PROVE  sweepReg' = sweepReg
  BY <1>4 DEF Begin, Level, LevelsDone, MemberTimesOut
<1> QED
  BY <1>1, <1>2, <1>3, <1>4 DEF SweepNext

(* When a stop closes an agent, no descendant that the sweep knew is left to *)
(* be asked or was answered alive.                                           *)
LEMMA StopsFromTheLeaves ==
    ASSUME SweepInv, SweepNext, NEW s \in Sweeps, NEW a \in TreeAgents, a \in sweepReg, a \notin sweepReg',
           Head(lock[a]).by = s, sweep[s].phase = "first", NEW b \in Below(a) \cap sweepReg'
    PROVE  b \notin sweep[s].todo /\ sweep[s].res[b] \in {"none", "failed"}
<1>1. StopEnds(a)
  BY HandleGoes
<1>2. lock[a] # <<>> /\ Head(lock[a]).op = "stop"
  BY <1>1 DEF StopEnds, SweepInv, MemberInv, MemberHeld, AwaitedOp, NoStep
<1>3. sweepMix.op[s] = "stop"
  BY <1>2, HeadFacts, SubtreeConstants DEF EntryOf
<1>4. Head(lock[a]) \in ToSet(lock[a])
  <2>1. lock[a] \in Seq(LockEntry) /\ OnceEach(lock[a])
    BY DEF SweepInv, SweepTypes, MemberInv, MemberQueue
  <2> QED
    BY <2>1, <1>2, QueuePop
<1>5. StopAnswers(s) /\ \A x \in sweep[s].todo : Depth(x) < Depth(a)
  BY <1>3, <1>4 DEF SweepInv, StopInv, StopDescends
<1>6. b \in TreeAgents /\ b # a /\ b \in sweepReg /\ a \in Above[b]
  BY <1>1 DEF Below, StopEnds, Gone
<1>7. Depth(a) < Depth(b) /\ Depth(a) \in Nat /\ Depth(b) \in Nat
  BY <1>6, DepthRises
<1>8. b \notin sweep[s].todo
  BY <1>5, <1>7
<1>9. sweep[s].res[b] \in Answers
  BY <1>6 DEF SweepInv, SweepTypes, SweepRecord
<1> QED
  BY <1>3, <1>5, <1>6, <1>8, <1>9 DEF StopAnswers, Answers

(* What StoppedIsFinal says of one agent.                                    *)
StaysStopped(a) ==
    /\ a \notin sweepReg' /\ (a \in turn' => a \in turn)
    /\ row'[a] # row[a] => a \in turn \ turn' /\ row'[a] = [row[a] EXCEPT !.state = "done"]

(* An agent that was stopped stays so: only its own turn may still settle.   *)
LEMMA StoppedStays ==
    ASSUME SweepInv, SweepNext, NEW a \in TreeAgents, row[a].ended, a \notin sweepReg
    PROVE  StaysStopped(a)
<1>1. /\ step[a] = NoStep /\ row \in [TreeAgents -> SweepRow] /\ row[a].state # "none" /\ row[a] \in SweepRow
      /\ a \in TreeAgents /\ row[a].ended = TRUE
  <2>1. MemberHeld(a) /\ row[a] \in SweepRow /\ row \in [TreeAgents -> SweepRow]
    BY DEF SweepInv, SweepTypes, MemberInv
  <2>2. row[a].state # "none"
    BY DEF SweepInv, MemberInv, MemberHeld, Exists
  <2> QED
    BY <2>1, <2>2 DEF MemberHeld, SweepRow
<1>2. step[a].at = "idle"
  BY <1>1 DEF NoStep
<1>3. ASSUME NEW x \in TreeAgents, StartTurn(x) \/ UNCHANGED <<turn, row, sweepPrompts>>
      PROVE  row'[a] = row[a] /\ (a \in turn' => a \in turn)
  BY <1>1, <1>3 DEF StartTurn
<1>4. ASSUME NEW x \in TreeAgents, Fails(x)
      PROVE  row'[a] = row[a] /\ (a \in turn' => a \in turn) /\ sweepReg' = sweepReg
  BY <1>1, <1>4 DEF Fails
<1>5. CASE \E x \in TreeAgents : Accept(x) \/ Spawning(x) \/ TurnOver(x) \/ TurnGivenUp(x)
  <2>1. PICK x \in TreeAgents : Accept(x) \/ Spawning(x) \/ TurnOver(x) \/ TurnGivenUp(x)
    BY <1>5
  <2>2. CASE Accept(x)
    BY <2>2, <1>1 DEF Accept, Exists, StaysStopped
  <2>3. CASE ForkBegins(x) \/ ForkRefused(x)
    BY <2>3, <1>1, <1>4 DEF ForkBegins, ForkRefused, StaysStopped
  <2>4. CASE ForkReturns(x)
    BY <2>4, <1>1 DEF ForkReturns, StaysStopped
  <2>5. CASE Starts(x)
    BY <2>5, <1>3 DEF Starts, StaysStopped
  <2>6. CASE TurnOver(x)
    <3>1. CASE x # a
      BY <2>6, <3>1, <1>1 DEF TurnOver, StaysStopped
    <3>2. CASE x = a
      <4>1. row' = [row EXCEPT ![a] = [row[a] EXCEPT !.state = "done", !.ended = TRUE]]
        BY <2>6, <3>2, <1>1 DEF TurnOver
      <4>2. [row[a] EXCEPT !.state = "done", !.ended = TRUE] = [row[a] EXCEPT !.state = "done"]
        BY <1>1 DEF SweepRow
      <4>3. row'[a] = [row[a] EXCEPT !.state = "done"]
        BY <4>1, <4>2, <1>1
      <4> QED
        BY <2>6, <3>2, <4>3 DEF TurnOver, StaysStopped
    <3> QED
      BY <3>1, <3>2
  <2>7. CASE TurnGivenUp(x)
    BY <2>7, <1>1 DEF TurnGivenUp, StaysStopped
  <2> QED
    BY <2>1, <2>2, <2>3, <2>4, <2>5, <2>6, <2>7 DEF Spawning
<1>6. CASE \E x \in TreeAgents : Command(x) \/ CommandFails(x)
  <2>1. PICK x \in TreeAgents : Command(x) \/ CommandFails(x)
    BY <1>6
  <2>2. ASSUME Failed(x) PROVE row'[a] = row[a] /\ (a \in turn' => a \in turn)
    BY <2>2, <1>3 DEF Failed
  <2>3. CASE PauseBegins(x) \/ ResumeBegins(x)
    BY <2>2, <2>3, <1>1 DEF PauseBegins, ResumeBegins, StaysStopped
  <2>4. CASE PauseEnds(x) \/ ResumeThaws(x)
    BY <2>4, <1>1, <1>2 DEF PauseEnds, ResumeThaws, StaysStopped
  <2>5. CASE ResumeEnds(x)
    <3>1. x # a
      BY <2>5, <1>2 DEF ResumeEnds
    <3> QED
      BY <2>5, <3>1, <1>1, <1>3 DEF ResumeEnds, StaysStopped
  <2>6. CASE StopBegins(x)
    BY <2>6, <1>1 DEF StopBegins, StaysStopped
  <2>7. CASE StopEnds(x)
    <3>1. x # a
      BY <2>7, <1>2 DEF StopEnds
    <3> QED
      BY <2>7, <3>1, <1>1 DEF StopEnds, Gone, StaysStopped
  <2>8. CASE CommandFails(x)
    <3>1. x # a
      BY <2>8, <1>2 DEF CommandFails
    <3> QED
      BY <2>2, <2>8, <3>1, <1>1 DEF CommandFails, StaysStopped
  <2> QED
    BY <2>1, <2>3, <2>4, <2>5, <2>6, <2>7, <2>8 DEF Command
<1>7. CASE \E s \in Sweeps : Begin(s) \/ Level(s) \/ LevelsDone(s) \/ \E x \in TreeAgents : MemberTimesOut(s, x)
  BY <1>1, <1>7 DEF Begin, Level, LevelsDone, MemberTimesOut, StaysStopped
<1> QED
  BY <1>5, <1>6, <1>7 DEF SweepNext

(* Whatever tree, mixes and overlap: a stop goes from the leaves to the top, *)
(* nothing brings a stopped agent back, and only the turn that ran when the  *)
(* stop came rewrites its row, once (lifecycle.ts:43-105, agent-lock.ts:14-  *)
(* 30, stream.ts:248-319).                                                   *)
THEOREM SubtreeStopsInOrder == SweepSpec => StopIsOrderly
<1>1. SweepInv /\ [SweepNext]_sweepVars =>
        [\A s \in Sweeps, a \in TreeAgents :
           a \in sweepReg /\ a \notin sweepReg' /\ Head(lock[a]).by = s /\ sweep[s].phase = "first" =>
             \A b \in Below(a) \cap sweepReg' :
                 b \notin sweep[s].todo /\ sweep[s].res[b] \in {"none", "failed"}]_sweepVars
  BY StopsFromTheLeaves
<1>2. SweepInv /\ [SweepNext]_sweepVars =>
        [\A a \in TreeAgents : row[a].ended /\ a \notin sweepReg =>
           /\ a \notin sweepReg' /\ (a \in turn' => a \in turn)
           /\ row'[a] # row[a] => /\ a \in turn \ turn'
                                 /\ row'[a] = [row[a] EXCEPT !.state = "done"]]_sweepVars
  BY StoppedStays DEF StaysStopped
<1>3. SweepSpec => NoParentClosedUnderChild
  BY <1>1, SweepAlways, PTL DEF SweepSpec, NoParentClosedUnderChild
<1>4. SweepSpec => StoppedIsFinal
  BY <1>2, SweepAlways, PTL DEF SweepSpec, StoppedIsFinal
<1> QED
  BY <1>3, <1>4 DEF StopIsOrderly
=============================================================================
