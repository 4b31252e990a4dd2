----------------------------- MODULE SpawnProofs -----------------------------
(***************************************************************************)
(* That spawns are safe (SpawnsAreSafe of Spawn), for any children, depth  *)
(* budget, number of slots and retries: forks of one parent follow each    *)
(* other and each has a slot, a cancelled child never joins, and no tree   *)
(* grows deeper than its budget, whatever is paused, stopped or restarted. *)
(*                                                                         *)
(* Most of it is said of one agent at a time (Sound), so that a step need  *)
(* only be looked at for the agent it is a step of.                        *)
(***************************************************************************)
EXTENDS Spawn, FiniteSetTheorems, SequenceTheorems, TLAPS

(* x is in the sequence s, in which nobody is twice. *)
In(x, s) == \E i \in DOMAIN s : s[i] = x
Distinct(s) == \A i, j \in DOMAIN s : s[i] = s[j] => i = j

Lined(c) == call[c].at = "queued" \/ Forks(c)

(* Who is queued at a parent, or forks there, is one of its children, and is *)
(* in its queue once; who forks is the head.                                 *)
QueuesAreTrue ==
    /\ \A a \in All : \A c \in Agents : In(c, forkQueue[a]) => Lined(c) /\ parent(c) = a
    /\ \A a \in All : Distinct(forkQueue[a])
    /\ \A c \in Agents : Lined(c) => In(c, forkQueue[parent(c)])
    /\ \A c \in Agents : Forks(c) => Head(forkQueue[parent(c)]) = c

(* Where the call of c is, what it has and what it has not done yet.         *)
Placed(c) ==
    /\ row[c].state = "none" => call[c].at = "off" /\ ~row[c].provisioned /\ ~row[c].ended
    /\ call[c].at \notin {"off", "inject"} => c \notin registry /\ ~row[c].provisioned
    /\ call[c].at \in {"hold", "queued", "forking", "copied", "sleep"} => slot[c] = "owner"
    /\ call[c].at = "copied" => box[c].depth = call[c].budget - 1
    /\ call[c].at \notin {"off", "inject", "closing"} => call[c].budget - 1 <= row[c].budget

(* Who has an SDK handle, a sandbox or a command in progress.                *)
Registered(a) ==
    /\ a \in registry => row[a].provisioned /\ ~row[a].ended /\ row[a].state # "none"
    /\ row[a].provisioned => a \in registry \/ ~Live(a)
    /\ box[a] # NoBox => \/ a \in registry \cup stray
                         \/ a \in Agents /\ call[a].at \in {"copied", "closing"}
    /\ cmd[a] # "none" => a \in registry

(* The budget in the row and the one in the sandbox stay below the cap.      *)
Bounded(a) ==
    /\ row[a].state # "none" => Cardinality(row[a].above) + row[a].budget <= row[a].cap
    /\ a \in registry => Cardinality(row[a].above) + box[a].depth <= row[a].cap

Sound(a) == (a \in Agents => Placed(a)) /\ Registered(a) /\ Bounded(a)

SlotsHold == Cardinality(Slots!Owners) <= ADMISSION_CONCURRENCY

IInv == TypeOK /\ QueuesAreTrue /\ SlotsHold /\ \A a \in All : Sound(a)

-----------------------------------------------------------------------------
(* What is assumed of the constants. *)
LEMMA Finite == /\ IsFiniteSet(Agents) /\ IsFiniteSet(Others) /\ Root \notin Agents
                /\ IsFiniteSet(All) /\ IsFiniteSet(Agents \cup Others)
<1>1. IsFiniteSet(Agents) /\ IsFiniteSet(Others) /\ Root \notin Agents
  BY SpawnAssumption, Zenon DEF SpawnAssumption
<1>2. IsFiniteSet({Root})
  BY FS_Singleton
<1> QED BY <1>1, <1>2, FS_Union DEF All

LEMMA Numbers == /\ ADMISSION_CONCURRENCY \in Nat \ {0} /\ MAX_NOT_RUNNING_RETRIES \in Nat
                 /\ Budget \in Nat /\ Cardinality(Others) <= ADMISSION_CONCURRENCY
                 /\ Mixes \subseteq Bounds
  BY SpawnAssumption, Zenon DEF SpawnAssumption

(* The ancestors of an agent can be counted. *)
LEMMA AboveCounted ==
    ASSUME NEW A, A \subseteq All
    PROVE  /\ IsFiniteSet(A) /\ Cardinality(A) \in Nat
           /\ \A p \in All : Cardinality(A \cup {p}) <= Cardinality(A) + 1
<1>1. IsFiniteSet(A) /\ Cardinality(A) \in Nat
  BY Finite, FS_Subset, FS_CardinalityType
<1> DEFINE n == Cardinality(A)
<1>2. ASSUME NEW p \in All
      PROVE  Cardinality(A \cup {p}) <= n + 1
  <2>1. Cardinality(A \cup {p}) = IF p \in A THEN n ELSE n + 1
    BY <1>1, FS_AddElement
  <2>2. n \in Nat
    BY <1>1
  <2> HIDE DEF n
  <2> QED BY <2>1, <2>2
<1> QED BY <1>1, <1>2

-----------------------------------------------------------------------------
(* The slots. *)
SlotTyped == slot \in [Agents \cup Others -> {"outside", "queued", "owner", "refused", "left"}]

LEMMA SameCardinality == \A T : Slots!Cardinality(T) = Cardinality(T)
  BY DEF Slots!Cardinality, Cardinality

LEMMA OwnersCounted ==
    ASSUME NEW T, T \subseteq Agents \cup Others
    PROVE  /\ IsFiniteSet(T) /\ Cardinality(T) \in Nat
           /\ \A a : a \notin T => Cardinality(T \cup {a}) = Cardinality(T) + 1
           /\ \A a \in T : Cardinality(T \ {a}) = Cardinality(T) - 1
<1>1. IsFiniteSet(T) /\ Cardinality(T) \in Nat
  BY Finite, FS_Subset, FS_CardinalityType
<1> QED BY <1>1, FS_AddElement, FS_RemoveElement

(* A slot is only taken when one is free, and only given up by its owner.    *)
SlotKept(c) ==
    /\ SlotTyped' /\ SlotsHold'
    /\ \A d \in Agents \ {c} : slot[d] = "owner" => slot'[d] = "owner"

LEMMA SlotStep ==
    ASSUME SlotTyped, SlotsHold, NEW c \in Agents,
           Slots!Enter(c) \/ Slots!Queue(c) \/ Slots!Refuse(c) \/ Slots!Leave(c) \/ slot' = slot
    PROVE  SlotKept(c)
<1> DEFINE O == Slots!Owners
<1>0. O \subseteq Agents \cup Others /\ O' \subseteq Agents \cup Others
  BY DEF Slots!Owners
<1>1. CASE Slots!Enter(c)
  <2>1. SlotTyped' /\ O' = O \cup {c} /\ c \notin O
    BY <1>1 DEF SlotTyped, Slots!Enter, Slots!Owners
  <2>2. Cardinality(O) < ADMISSION_CONCURRENCY
    BY <1>1, SameCardinality DEF Slots!Enter
  <2>3. Cardinality(O') <= ADMISSION_CONCURRENCY
    BY <1>0, <2>1, <2>2, OwnersCounted, Numbers
  <2>4. \A d \in Agents \ {c} : slot[d] = "owner" => slot'[d] = "owner"
    BY <1>1 DEF SlotTyped, Slots!Enter
  <2> QED BY <2>1, <2>3, <2>4 DEF SlotKept, SlotsHold
<1>2. CASE Slots!Queue(c) \/ Slots!Refuse(c) \/ slot' = slot
  <2>1. SlotTyped' /\ O' = O /\ \A d \in Agents \ {c} : slot[d] = "owner" => slot'[d] = "owner"
    BY <1>2 DEF SlotTyped, Slots!Queue, Slots!Refuse, Slots!Owners
  <2> QED BY <2>1 DEF SlotKept, SlotsHold
<1>3. CASE Slots!Leave(c)
  <2>1. CASE slot' = [slot EXCEPT ![c] = "left"]
    <3>1. SlotTyped' /\ O' = O \ {c} /\ c \in O
      BY <1>3, <2>1 DEF SlotTyped, Slots!Leave, Slots!Owners
    <3>2. Cardinality(O') <= ADMISSION_CONCURRENCY
      BY <1>0, <3>1, OwnersCounted, Numbers DEF SlotsHold
    <3>3. \A d \in Agents \ {c} : slot[d] = "owner" => slot'[d] = "owner"
      BY <2>1 DEF SlotTyped
    <3> QED BY <3>1, <3>2, <3>3 DEF SlotKept, SlotsHold
  <2>2. CASE \E b \in Slots!Queued : slot' = [slot EXCEPT ![c] = "left", ![b] = "owner"]
    <3>0. PICK b \in Slots!Queued : slot' = [slot EXCEPT ![c] = "left", ![b] = "owner"]
      BY <2>2
    <3>1. SlotTyped' /\ O' = (O \ {c}) \cup {b} /\ c \in O /\ b \notin O
      BY <1>3, <3>0 DEF SlotTyped, Slots!Leave, Slots!Owners, Slots!Queued
    <3>2. Cardinality(O') = Cardinality(O)
      <4>1. Cardinality(O \ {c}) = Cardinality(O) - 1 /\ Cardinality(O) \in Nat
        BY <1>0, <3>1, OwnersCounted
      <4>2. Cardinality((O \ {c}) \cup {b}) = Cardinality(O \ {c}) + 1
        BY <1>0, <3>1, OwnersCounted
      <4> QED BY <3>1, <4>1, <4>2
    <3>3. \A d \in Agents \ {c} : slot[d] = "owner" => slot'[d] = "owner"
      BY <3>0 DEF SlotTyped
    <3> QED BY <3>1, <3>2, <3>3 DEF SlotKept, SlotsHold
  <2> QED BY <1>3, <2>1, <2>2 DEF Slots!Leave
<1> QED BY <1>1, <1>2, <1>3

-----------------------------------------------------------------------------
(* The queues of the fork locks. *)
LEMMA ShiftFacts ==
    ASSUME NEW S, NEW s \in Seq(S), NEW h, In(h, s), Head(s) = h, Distinct(s)
    PROVE  /\ Tail(s) \in Seq(S) /\ Distinct(Tail(s))
           /\ \A x : In(x, Tail(s)) <=> In(x, s) /\ x # h
<1>1. s # <<>>
  BY DEF In
<1>2. /\ Len(s) \in Nat \ {0} /\ s[1] = h /\ DOMAIN s = 1 .. Len(s)
      /\ Tail(s) \in Seq(S) /\ DOMAIN Tail(s) = 1 .. Len(s) - 1
      /\ \A i \in 1 .. Len(s) - 1 : Tail(s)[i] = s[i + 1]
  BY <1>1
<1>3. Distinct(Tail(s))
  BY <1>2 DEF Distinct
<1>4. ASSUME NEW x, In(x, Tail(s))
      PROVE  In(x, s) /\ x # h
  <2>1. PICK i \in 1 .. Len(s) - 1 : s[i + 1] = x
    BY <1>2, <1>4 DEF In
  <2>2. i + 1 \in DOMAIN s /\ i + 1 # 1 /\ 1 \in DOMAIN s
    BY <1>2
  <2> QED BY <1>2, <2>1, <2>2 DEF In, Distinct
<1>5. ASSUME NEW x, In(x, s), x # h
      PROVE  In(x, Tail(s))
  <2>1. PICK i \in DOMAIN s : s[i] = x
    BY <1>5 DEF In
  <2>2. i \in 2 .. Len(s)
    BY <1>2, <1>5, <2>1
  <2>3. i - 1 \in 1 .. Len(s) - 1 /\ (i - 1) + 1 = i
    BY <1>2, <2>2
  <2> QED BY <1>2, <2>1, <2>3 DEF In
<1> QED BY <1>2, <1>3, <1>4, <1>5

LEMMA PushFacts ==
    ASSUME NEW S, NEW s \in Seq(S), NEW e \in S, ~In(e, s), Distinct(s)
    PROVE  /\ Append(s, e) \in Seq(S) /\ Distinct(Append(s, e))
           /\ \A x : In(x, Append(s, e)) <=> In(x, s) \/ x = e
           /\ \A x : In(x, s) => Head(Append(s, e)) = Head(s)
<1>1. /\ Append(s, e) \in Seq(S) /\ Len(s) \in Nat
      /\ DOMAIN s = 1 .. Len(s) /\ DOMAIN Append(s, e) = 1 .. Len(s) + 1
      /\ Append(s, e)[Len(s) + 1] = e
      /\ \A i \in 1 .. Len(s) : Append(s, e)[i] = s[i]
  OBVIOUS
<1>2. Distinct(Append(s, e))
  BY <1>1 DEF Distinct, In
<1>3. \A x : In(x, Append(s, e)) <=> In(x, s) \/ x = e
  BY <1>1 DEF In
<1>4. ASSUME NEW x, In(x, s)
      PROVE  Head(Append(s, e)) = Head(s)
  <2>1. s # <<>>
    BY <1>4 DEF In
  <2> QED BY <2>1
<1> QED BY <1>1, <1>2, <1>3, <1>4

QueueTyped == forkQueue \in [All -> Seq(Agents)]

(* Nothing but the agent a changes. *)
Elsewhere(a) ==
    \A b \in All \ {a} :
        /\ row'[b] = row[b] /\ box'[b] = box[b] /\ cmd'[b] = cmd[b]
        /\ b \in registry' <=> b \in registry
        /\ b \in stray => b \in stray'
        /\ b \in Agents => call'[b] = call[b]

(* The queues are left alone. *)
LEMMA QueuesKept ==
    ASSUME QueuesAreTrue, forkQueue' = forkQueue, NEW c \in All, Elsewhere(c),
           c \in Agents => /\ Lined(c)' <=> Lined(c)
                           /\ Lined(c) => parent(c)' = parent(c)
                           /\ Forks(c)' /\ ~Forks(c)
                                 => Head(forkQueue[parent(c)]) = c
    PROVE  QueuesAreTrue'
<1>1. \A d \in Agents :
         /\ Lined(d)' <=> Lined(d)
         /\ Lined(d) => parent(d)' = parent(d)
         /\ Forks(d)' => Head(forkQueue[parent(d)]) = d
  <2> SUFFICES ASSUME NEW d \in Agents
               PROVE  /\ Lined(d)' <=> Lined(d)
                      /\ Lined(d) => parent(d)' = parent(d)
                      /\ Forks(d)' => Head(forkQueue[parent(d)]) = d
    OBVIOUS
  <2>1. CASE d = c
    BY <2>1 DEF QueuesAreTrue, Lined, Forks, parent
  <2>2. CASE d # c
    <3>1. row'[d] = row[d] /\ call'[d] = call[d]
      BY <2>2 DEF Elsewhere, All
    <3> QED BY <3>1 DEF QueuesAreTrue, Lined, Forks, parent
  <2> QED BY <2>1, <2>2
<1>2. \A a \in All : \A d \in Agents : In(d, forkQueue'[a]) => Lined(d)' /\ parent(d)' = a
  BY <1>1 DEF QueuesAreTrue
<1>3. \A a \in All : Distinct(forkQueue'[a])
  BY DEF QueuesAreTrue
<1>4. \A d \in Agents : Lined(d)' => In(d, forkQueue'[parent(d)'])
  BY <1>1 DEF QueuesAreTrue
<1>5. \A d \in Agents : Forks(d)' => Head(forkQueue'[parent(d)']) = d
  BY <1>1 DEF Lined
<1> QED BY <1>2, <1>3, <1>4, <1>5 DEF QueuesAreTrue

(* A fork has settled. *)
LEMMA QueueLeft ==
    ASSUME QueueTyped, QueuesAreTrue, row \in [All -> Rows], NEW c \in Agents, Elsewhere(c),
           Forks(c), LeaveQueue(c), ~Lined(c)'
    PROVE  QueueTyped' /\ QueuesAreTrue'
<1> DEFINE p == parent(c)
<1>1. p \in All /\ c \in All /\ Lined(c)
  BY DEF Rows, parent, Lined, All
<1>2. forkQueue[p] \in Seq(Agents) /\ In(c, forkQueue[p]) /\ Head(forkQueue[p]) = c /\ Distinct(forkQueue[p])
  BY <1>1 DEF QueueTyped, QueuesAreTrue
<1>3. /\ Tail(forkQueue[p]) \in Seq(Agents) /\ Distinct(Tail(forkQueue[p]))
      /\ \A x : In(x, Tail(forkQueue[p])) <=> In(x, forkQueue[p]) /\ x # c
  BY <1>2, ShiftFacts
<1>4. /\ QueueTyped'
      /\ forkQueue'[p] = Tail(forkQueue[p])
      /\ \A a \in All \ {p} : forkQueue'[a] = forkQueue[a]
  BY <1>1, <1>3 DEF QueueTyped, LeaveQueue
<1>5. \A d \in Agents \ {c} : (Lined(d)' <=> Lined(d)) /\ parent(d)' = parent(d) /\ call'[d] = call[d]
  BY DEF Elsewhere, Lined, Forks, parent, All
<1>6. \A d \in Agents \ {c} : Lined(d) => parent(d) \in All
  BY DEF Rows, parent, All
<1> HIDE DEF p
<1>7. \A a \in All : \A d \in Agents : In(d, forkQueue'[a]) => Lined(d)' /\ parent(d)' = a
  <2> SUFFICES ASSUME NEW a \in All, NEW d \in Agents, In(d, forkQueue'[a])
               PROVE  Lined(d)' /\ parent(d)' = a
    OBVIOUS
  <2>1. In(d, forkQueue[a]) /\ d # c
    <3>1. CASE a = p
      BY <1>3, <1>4, <3>1
    <3>2. CASE a # p
      <4>1. In(d, forkQueue[a])
        BY <1>4, <3>2
      <4>2. In(c, forkQueue[a]) => a = p
        BY DEF QueuesAreTrue, p
      <4> QED BY <3>2, <4>1, <4>2
    <3> QED BY <3>1, <3>2
  <2> QED BY <1>5, <2>1 DEF QueuesAreTrue
<1>8. \A a \in All : Distinct(forkQueue'[a])
  BY <1>3, <1>4 DEF QueuesAreTrue
<1>9. \A d \in Agents : Lined(d)' => In(d, forkQueue'[parent(d)'])
  <2> SUFFICES ASSUME NEW d \in Agents, Lined(d)'
               PROVE  In(d, forkQueue'[parent(d)'])
    OBVIOUS
  <2>1. d # c /\ Lined(d) /\ parent(d)' = parent(d) /\ parent(d) \in All
    BY <1>5, <1>6
  <2>2. In(d, forkQueue[parent(d)])
    BY <2>1 DEF QueuesAreTrue
  <2> QED BY <1>3, <1>4, <2>1, <2>2
<1>10. \A d \in Agents : Forks(d)' => Head(forkQueue'[parent(d)']) = d
  <2> SUFFICES ASSUME NEW d \in Agents, Forks(d)'
               PROVE  Head(forkQueue'[parent(d)']) = d
    OBVIOUS
  <2>1. d # c
    BY DEF Lined
  <2>2. Forks(d) /\ Lined(d) /\ parent(d)' = parent(d) /\ parent(d) \in All
    BY <1>5, <1>6, <2>1 DEF Lined, Forks
  <2>3. Head(forkQueue[parent(d)]) = d
    BY <2>2 DEF QueuesAreTrue
  <2> QED BY <1>2, <1>4, <2>1, <2>2, <2>3
<1> QED BY <1>4, <1>7, <1>8, <1>9, <1>10 DEF QueuesAreTrue

(* A child queues up at its parent. *)
LEMMA QueueJoined ==
    ASSUME QueueTyped, QueuesAreTrue, row \in [All -> Rows], NEW c \in Agents, Elsewhere(c), ~Lined(c),
           row'[c] = row[c], call'[c].at = "queued",
           forkQueue' = [forkQueue EXCEPT ![parent(c)] = Append(@, c)]
    PROVE  QueueTyped' /\ QueuesAreTrue'
<1> DEFINE p == parent(c)
<1>1. p \in All /\ c \in All
  BY DEF Rows, parent, All
<1>2. forkQueue[p] \in Seq(Agents) /\ ~In(c, forkQueue[p]) /\ Distinct(forkQueue[p])
  BY <1>1 DEF QueueTyped, QueuesAreTrue
<1>3. /\ Append(forkQueue[p], c) \in Seq(Agents) /\ Distinct(Append(forkQueue[p], c))
      /\ \A x : In(x, Append(forkQueue[p], c)) <=> In(x, forkQueue[p]) \/ x = c
      /\ \A x : In(x, forkQueue[p]) => Head(Append(forkQueue[p], c)) = Head(forkQueue[p])
  BY <1>2, PushFacts
<1>4. /\ QueueTyped'
      /\ forkQueue'[p] = Append(forkQueue[p], c)
      /\ \A a \in All \ {p} : forkQueue'[a] = forkQueue[a]
  BY <1>1, <1>3 DEF QueueTyped
<1>5. \A d \in Agents \ {c} : (Lined(d)' <=> Lined(d)) /\ parent(d)' = parent(d) /\ call'[d] = call[d]
  BY DEF Elsewhere, Lined, Forks, parent, All
<1>6. Lined(c)' /\ parent(c)' = p /\ ~Forks(c)'
  BY DEF Lined, parent, Forks
<1>7. \A d \in Agents : parent(d) \in All
  BY DEF Rows, parent, All
<1> HIDE DEF p
<1>8. \A a \in All : \A d \in Agents : In(d, forkQueue'[a]) => Lined(d)' /\ parent(d)' = a
  <2> SUFFICES ASSUME NEW a \in All, NEW d \in Agents, In(d, forkQueue'[a])
               PROVE  Lined(d)' /\ parent(d)' = a
    OBVIOUS
  <2>1. CASE In(d, forkQueue[a])
    BY <1>5, <1>6, <2>1 DEF QueuesAreTrue
  <2>2. CASE ~In(d, forkQueue[a])
    BY <1>3, <1>4, <1>6, <2>2
  <2> QED BY <2>1, <2>2
<1>9. \A a \in All : Distinct(forkQueue'[a])
  BY <1>3, <1>4 DEF QueuesAreTrue
<1>10. \A d \in Agents : Lined(d)' => In(d, forkQueue'[parent(d)'])
  <2> SUFFICES ASSUME NEW d \in Agents, Lined(d)'
               PROVE  In(d, forkQueue'[parent(d)'])
    OBVIOUS
  <2>1. CASE d = c
    BY <1>3, <1>4, <1>6, <2>1
  <2>2. CASE d # c
    <3>1. In(d, forkQueue[parent(d)])
      BY <1>5, <2>2 DEF QueuesAreTrue
    <3> QED BY <1>3, <1>4, <1>5, <1>7, <2>2, <3>1
  <2> QED BY <2>1, <2>2
<1>11. \A d \in Agents : Forks(d)' => Head(forkQueue'[parent(d)']) = d
  <2> SUFFICES ASSUME NEW d \in Agents, Forks(d)'
               PROVE  Head(forkQueue'[parent(d)']) = d
    OBVIOUS
  <2>1. d # c /\ Forks(d) /\ parent(d)' = parent(d) /\ parent(d) \in All
    BY <1>5, <1>6, <1>7 DEF Forks
  <2>2. Head(forkQueue[parent(d)]) = d /\ In(d, forkQueue[parent(d)])
    BY <2>1 DEF QueuesAreTrue, Lined
  <2> QED BY <1>3, <1>4, <2>1, <2>2
<1> QED BY <1>4, <1>8, <1>9, <1>10, <1>11 DEF QueuesAreTrue

-----------------------------------------------------------------------------
(* A step of one agent: the others, and the slots, stay sound. *)

(* TypeOK, but for the queues. *)
RestTyped ==
    /\ row \in [All -> Rows] /\ box \in [All -> Boxes]
    /\ orphan \subseteq All /\ registry \subseteq All /\ stray \subseteq All
    /\ call \in [Agents -> Calls]
    /\ SlotTyped
    /\ cmd \in [All -> {"none", "pause", "stop"}]
    /\ ops \in Bounds

LEMMA TypesApart == TypeOK <=> RestTyped /\ QueueTyped
  BY DEF TypeOK, RestTyped, QueueTyped, SlotTyped

LEMMA TypesApartNext == TypeOK' <=> RestTyped' /\ QueueTyped'
  BY DEF TypeOK, RestTyped, QueueTyped, SlotTyped

Fine(a) == Elsewhere(a) /\ SlotKept(a) /\ RestTyped' /\ Sound(a)'

LEMMA Combine ==
    ASSUME IInv, NEW a \in All, Fine(a), QueueTyped', QueuesAreTrue'
    PROVE  IInv'
<1>1. ASSUME NEW b \in All \ {a}
      PROVE  Sound(b)'
  <2>1. Sound(b)
    BY DEF IInv
  <2>2. /\ row'[b] = row[b] /\ box'[b] = box[b] /\ cmd'[b] = cmd[b]
        /\ b \in registry' <=> b \in registry
        /\ b \in stray => b \in stray'
        /\ b \in Agents => call'[b] = call[b] /\ (slot[b] = "owner" => slot'[b] = "owner")
    BY DEF Fine, Elsewhere, SlotKept
  <2>3. (b \in Agents => Placed(b))'
    BY <2>1, <2>2 DEF Sound, Placed
  <2>4. Registered(b)'
    BY <2>1, <2>2 DEF Sound, Registered, Live
  <2>5. Bounded(b)'
    BY <2>1, <2>2 DEF Sound, Bounded
  <2> QED BY <2>3, <2>4, <2>5 DEF Sound
<1>2. TypeOK' /\ SlotsHold'
  BY TypesApartNext DEF Fine, SlotKept
<1>3. \A b \in All : Sound(b)'
  BY <1>1 DEF Fine
<1> QED BY <1>2, <1>3 DEF IInv

LEMMA SlotSame ==
    ASSUME SlotTyped, SlotsHold, slot' = slot
    PROVE  \A a : SlotKept(a)
<1>1. SlotTyped' /\ Slots!Owners' = Slots!Owners
  BY DEF SlotTyped, Slots!Owners
<1> QED BY <1>1 DEF SlotKept, SlotsHold

States == {"none", "spawning", "provisioning", "running", "paused"} \cup TERMINAL

(* What a step may do to the row of a. *)
Edits(a) ==
    /\ row' \in [All -> Rows]
    /\ \A b \in All \ {a} : row'[b] = row[b]
    /\ row'[a].parent = row[a].parent /\ row'[a].above = row[a].above
    /\ row'[a].budget = row[a].budget /\ row'[a].cap = row[a].cap
    /\ row'[a].released = row[a].released

LEMMA EditFacts ==
    ASSUME row \in [All -> Rows], NEW a \in All
    PROVE  /\ row' = row => Edits(a) /\ row'[a] = row[a]
           /\ \A s \in TERMINAL : row' = [row EXCEPT ![a] = Ended(@, s)] =>
                  /\ Edits(a) /\ row'[a].state = s /\ row'[a].ended
                  /\ row'[a].provisioned = row[a].provisioned
           /\ \A s \in States : row' = [row EXCEPT ![a].state = s] =>
                  /\ Edits(a) /\ row'[a].state = s /\ row'[a].ended = row[a].ended
                  /\ row'[a].provisioned = row[a].provisioned
<1>1. row' = row => Edits(a) /\ row'[a] = row[a]
  BY DEF Edits
<1>2. ASSUME NEW s \in TERMINAL, row' = [row EXCEPT ![a] = Ended(@, s)]
      PROVE  /\ Edits(a) /\ row'[a].state = s /\ row'[a].ended
             /\ row'[a].provisioned = row[a].provisioned
  <2>1. \A r \in Rows : /\ Ended(r, s) \in Rows /\ Ended(r, s).state = s /\ Ended(r, s).ended
                         /\ Ended(r, s).parent = r.parent /\ Ended(r, s).above = r.above
                         /\ Ended(r, s).budget = r.budget /\ Ended(r, s).cap = r.cap
                         /\ Ended(r, s).released = r.released /\ Ended(r, s).provisioned = r.provisioned
    BY DEF Ended, Rows
  <2>2. row'[a] = Ended(row[a], s) /\ \A b \in All \ {a} : row'[b] = row[b]
    BY <1>2
  <2>3. row[a] \in Rows /\ row' \in [All -> Rows]
    BY <1>2, <2>1
  <2> QED BY <2>1, <2>2, <2>3 DEF Edits
<1>3. ASSUME NEW s \in States, row' = [row EXCEPT ![a].state = s]
      PROVE  /\ Edits(a) /\ row'[a].state = s /\ row'[a].ended = row[a].ended
             /\ row'[a].provisioned = row[a].provisioned
  BY <1>3 DEF Edits, States, Rows
<1> QED BY <1>1, <1>2, <1>3

LEMMA CallFacts ==
    ASSUME call \in [Agents -> Calls], NEW c \in Agents
    PROVE  /\ Return(c) => /\ call' \in [Agents -> Calls] /\ call'[c] = NoCall
                           /\ \A d \in Agents \ {c} : call'[d] = call[d]
           /\ \A at \in {"slot", "queued", "forking", "copied"} : Goto(c, at) =>
                  /\ call' \in [Agents -> Calls] /\ call'[c].at = at /\ call'[c].budget = call[c].budget
                  /\ \A d \in Agents \ {c} : call'[d] = call[d]
<1>1. NoCall \in Calls
  BY Numbers DEF NoCall, Calls
<1>2. ASSUME Return(c)
      PROVE  /\ call' \in [Agents -> Calls] /\ call'[c] = NoCall
             /\ \A d \in Agents \ {c} : call'[d] = call[d]
  BY <1>1, <1>2 DEF Return
<1>3. ASSUME NEW at \in {"slot", "queued", "forking", "copied"}, Goto(c, at)
      PROVE  /\ call' \in [Agents -> Calls] /\ call'[c].at = at /\ call'[c].budget = call[c].budget
             /\ \A d \in Agents \ {c} : call'[d] = call[d]
  BY <1>3 DEF Goto, Calls
<1> QED BY <1>2, <1>3

LEMMA InvFacts ==
    ASSUME IInv, NEW a \in All
    PROVE  /\ RestTyped /\ QueueTyped /\ SlotsHold /\ QueuesAreTrue
           /\ row[a] \in Rows /\ box[a] \in Boxes
           /\ Registered(a) /\ Bounded(a)
           /\ a \in Agents => call[a] \in Calls /\ Placed(a)
<1>1. RestTyped /\ QueueTyped /\ SlotsHold /\ QueuesAreTrue
  BY TypesApart DEF IInv
<1>2. row[a] \in Rows /\ box[a] \in Boxes /\ (a \in Agents => call[a] \in Calls)
  BY <1>1 DEF RestTyped
<1> QED BY <1>1, <1>2 DEF IInv, Sound

LEMMA AgentsInAll == Agents \subseteq All /\ Root \in All
  BY DEF All

(* What a step may do to the sandbox of c, which has not joined: it is there *)
(* once it has been copied, and it stays only where closing it failed.       *)
Boxed(c) ==
    /\ box' \in [All -> Boxes] /\ \A b \in All \ {c} : box'[b] = box[b]
    /\ stray \subseteq stray' /\ stray' \subseteq All
    /\ box'[c] # NoBox => c \in stray' \/ call'[c].at = "copied"
    /\ call'[c].at = "copied" => box'[c].depth = call'[c].budget - 1

LEMMA BoxKept ==
    ASSUME IInv, NEW c \in Agents, call[c].at \notin {"off", "inject", "closing", "copied"},
           call'[c].at # "copied", UNCHANGED <<box, stray>>
    PROVE  Boxed(c)
<1>1. c \in All /\ RestTyped /\ Placed(c) /\ Registered(c)
  BY InvFacts, AgentsInAll
<1>2. c \notin registry
  BY <1>1 DEF Placed
<1> QED BY <1>1, <1>2 DEF Boxed, Registered, RestTyped

LEMMA BoxClosed ==
    ASSUME IInv, NEW c \in All, CloseQuietly(c)
    PROVE  /\ box' \in [All -> Boxes] /\ \A b \in All \ {c} : box'[b] = box[b]
           /\ stray \subseteq stray' /\ stray' \subseteq All
           /\ box'[c] # NoBox => c \in stray'
<1>1. box \in [All -> Boxes] /\ stray \subseteq All
  BY InvFacts DEF RestTyped
<1>2. NoBox \in Boxes
  BY DEF NoBox, Boxes
<1> QED BY <1>1, <1>2 DEF CloseQuietly

(* provisionChild() on its way to the fork, and out of it without a child.   *)
LEMMA CallMoves ==
    ASSUME IInv, NEW c \in Agents, SlotKept(c),
           Edits(c), row'[c].provisioned = row[c].provisioned, row'[c].state # "none",
           Boxed(c), UNCHANGED <<orphan, registry, cmd, ops>>,
           call' \in [Agents -> Calls], \A d \in Agents \ {c} : call'[d] = call[d],
           call[c].at \notin {"off", "inject", "closing"},
           call'[c].at \notin {"inject", "closing"},
           call'[c].at = "off" \/ call'[c].budget = call[c].budget,
           call'[c].at \in {"hold", "queued", "forking", "copied", "sleep"} => slot'[c] = "owner"
    PROVE  Fine(c)
<1>1. c \in All /\ RestTyped /\ Placed(c) /\ Registered(c) /\ Bounded(c)
  BY InvFacts, AgentsInAll
<1>2. Elsewhere(c)
  BY DEF Elsewhere, Edits, Boxed
<1>3. RestTyped'
  BY <1>1 DEF RestTyped, Edits, SlotKept, Boxed
<1>4. c \notin registry /\ ~row[c].provisioned /\ cmd[c] = "none" /\ row[c].state # "none"
  BY <1>1 DEF Placed, Registered, RestTyped
<1>5. Placed(c)'
  BY <1>1, <1>4 DEF Placed, Edits, Boxed
<1>6. Registered(c)'
  BY <1>4 DEF Registered, Boxed
<1>7. Bounded(c)'
  BY <1>1, <1>4 DEF Bounded, Edits
<1> QED BY <1>2, <1>3, <1>5, <1>6, <1>7 DEF Fine, Sound

(* Out of the wait, and out of the queue for a slot. *)
LEMMA WaitInv ==
    ASSUME IInv, NEW c \in Agents,
           WaitCancelled(c) \/ WaitFails(c) \/ WaitResolves(c) \/ AdmissionTimesOut(c)
    PROVE  IInv'
<1>1. /\ c \in All /\ RestTyped /\ QueueTyped /\ SlotsHold /\ QueuesAreTrue /\ Placed(c)
      /\ row \in [All -> Rows] /\ call \in [Agents -> Calls] /\ SlotTyped
  BY InvFacts, AgentsInAll DEF RestTyped
<1>2. UNCHANGED <<box, orphan, registry, forkQueue, cmd, stray, ops>>
  BY DEF WaitCancelled, WaitFails, WaitResolves, AdmissionTimesOut
<1>3. call[c].at \in {"wait", "slot"}
  BY DEF WaitCancelled, WaitFails, WaitResolves, AdmissionTimesOut
<1>4. SlotKept(c)
  BY <1>1, SlotStep DEF WaitCancelled, WaitFails, WaitResolves, AdmissionTimesOut, AskForSlot
<1>5. row[c].state # "none"
  BY <1>1, <1>3 DEF Placed
<1>6. Edits(c) /\ row'[c].provisioned = row[c].provisioned /\ row'[c].state # "none"
  <2>1. CASE WaitCancelled(c)
    BY <1>1, <1>5, <2>1, EditFacts DEF WaitCancelled
  <2>2. CASE WaitFails(c) \/ AdmissionTimesOut(c)
    <3>1. "failed" \in TERMINAL
      BY DEF TERMINAL
    <3>2. row' = [row EXCEPT ![c] = Ended(@, "failed")]
      BY <2>2 DEF WaitFails, AdmissionTimesOut
    <3>3. Edits(c) /\ row'[c].provisioned = row[c].provisioned /\ row'[c].state = "failed"
      BY <1>1, <3>1, <3>2, EditFacts
    <3> QED BY <3>3
  <2>3. CASE WaitResolves(c)
    <3>1. "provisioning" \in States
      BY DEF States
    <3>2. row' = [row EXCEPT ![c].state = "provisioning"]
      BY <2>3 DEF WaitResolves
    <3>3. Edits(c) /\ row'[c].provisioned = row[c].provisioned /\ row'[c].state = "provisioning"
      BY <1>1, <3>1, <3>2, EditFacts
    <3> QED BY <3>3
  <2> QED BY <2>1, <2>2, <2>3
<1>7. Return(c) \/ Goto(c, "slot")
  BY DEF WaitCancelled, WaitFails, WaitResolves, AdmissionTimesOut
<1>8. /\ call' \in [Agents -> Calls] /\ \A d \in Agents \ {c} : call'[d] = call[d]
      /\ call'[c].at \in {"off", "slot"}
      /\ call'[c].at = "off" \/ call'[c].budget = call[c].budget
  BY <1>1, <1>7, CallFacts DEF NoCall
<1>9. Fine(c)
  BY <1>2, <1>3, <1>4, <1>6, <1>8, BoxKept, CallMoves
<1>10. QueueTyped'
  BY <1>1, <1>2 DEF QueueTyped
<1>11. ~Lined(c) /\ ~Lined(c)' /\ ~Forks(c)'
  BY <1>3, <1>8 DEF Lined, Forks
<1>12. QueuesAreTrue'
  BY <1>1, <1>2, <1>9, <1>11, QueuesKept DEF Fine
<1> QED BY <1>1, <1>9, <1>10, <1>12, Combine

(* The ways out of provisionChild() that give the slot back. *)
LEMMA LeaveFine ==
    ASSUME IInv, NEW c \in Agents, call[c].at \notin {"off", "inject", "closing"},
           Throws(c) \/ ReturnsNull(c),
           CloseQuietly(c) \/ (call[c].at # "copied" /\ UNCHANGED <<box, stray>>)
    PROVE  Fine(c) /\ ~Lined(c)' /\ call'[c].at = "off"
<1>1. /\ c \in All /\ RestTyped /\ SlotsHold /\ Placed(c)
      /\ row \in [All -> Rows] /\ call \in [Agents -> Calls] /\ SlotTyped
  BY InvFacts, AgentsInAll DEF RestTyped
<1>2. UNCHANGED <<orphan, registry, cmd, ops>> /\ Return(c) /\ Slots!Leave(c)
  BY DEF Throws, ReturnsNull
<1>3. SlotKept(c)
  BY <1>1, <1>2, SlotStep
<1>4. row[c].state # "none"
  BY <1>1 DEF Placed
<1>5. Edits(c) /\ row'[c].provisioned = row[c].provisioned /\ row'[c].state # "none"
  <2>1. CASE row' = row
    BY <1>1, <1>4, <2>1, EditFacts
  <2>2. CASE row' = [row EXCEPT ![c] = Ended(@, "failed")]
    <3>1. "failed" \in TERMINAL
      BY DEF TERMINAL
    <3>2. Edits(c) /\ row'[c].provisioned = row[c].provisioned /\ row'[c].state = "failed"
      BY <1>1, <2>2, <3>1, EditFacts
    <3> QED BY <3>2
  <2> QED BY <2>1, <2>2 DEF Throws, ReturnsNull
<1>6. /\ call' \in [Agents -> Calls] /\ \A d \in Agents \ {c} : call'[d] = call[d]
      /\ call'[c].at = "off"
  BY <1>1, <1>2, CallFacts DEF NoCall
<1>7. Boxed(c)
  <2>1. CASE CloseQuietly(c)
    BY <1>1, <1>6, <2>1, BoxClosed DEF Boxed
  <2>2. CASE call[c].at # "copied" /\ UNCHANGED <<box, stray>>
    BY <1>6, <2>2, BoxKept
  <2> QED BY <2>1, <2>2
<1>8. Fine(c)
  BY <1>2, <1>3, <1>5, <1>6, <1>7, CallMoves
<1> QED BY <1>6, <1>8 DEF Lined, Forks

(* A child is held, with its slot. *)
LEMMA HoldFine ==
    ASSUME IInv, NEW c \in Agents, call[c].at \notin {"off", "inject", "closing", "copied"},
           slot[c] = "owner", Hold(c)
    PROVE  Fine(c) /\ ~Lined(c)' /\ call'[c].at = "hold"
<1>1. /\ c \in All /\ RestTyped /\ SlotsHold
      /\ row \in [All -> Rows] /\ call \in [Agents -> Calls] /\ SlotTyped
  BY InvFacts, AgentsInAll DEF RestTyped
<1>2. UNCHANGED <<box, orphan, registry, slot, cmd, stray, ops>>
  BY DEF Hold
<1>3. SlotKept(c)
  BY <1>1, <1>2, SlotSame
<1>4. Edits(c) /\ row'[c].provisioned = row[c].provisioned /\ row'[c].state = "spawning"
  <2>1. "spawning" \in States
    BY DEF States
  <2> QED BY <1>1, <2>1, EditFacts DEF Hold
<1>5. /\ call' \in [Agents -> Calls] /\ \A d \in Agents \ {c} : call'[d] = call[d]
      /\ call'[c].at = "hold" /\ call'[c].budget = call[c].budget
  BY <1>1 DEF Hold, Calls
<1>6. Fine(c)
  BY <1>2, <1>3, <1>4, <1>5, BoxKept, CallMoves
<1> QED BY <1>5, <1>6 DEF Lined, Forks

LEMMA UnlinedInv ==
    ASSUME IInv, NEW c \in Agents, Fine(c), ~Lined(c), ~Lined(c)', forkQueue' = forkQueue
    PROVE  IInv'
<1>1. c \in All /\ QueueTyped /\ QueuesAreTrue
  BY InvFacts, AgentsInAll
<1>2. QueueTyped'
  BY <1>1 DEF QueueTyped
<1>3. ~Forks(c)'
  BY DEF Lined
<1>4. QueuesAreTrue'
  BY <1>1, <1>3, QueuesKept DEF Fine
<1> QED BY <1>1, <1>2, <1>4, Combine

LEMMA QueueForkInv ==
    ASSUME IInv, NEW c \in Agents, call[c].at \in {"slot", "sleep", "hold"}, slot[c] = "owner", QueueFork(c)
    PROVE  IInv'
<1>1. /\ c \in All /\ RestTyped /\ QueueTyped /\ SlotsHold /\ QueuesAreTrue /\ Placed(c)
      /\ row \in [All -> Rows] /\ call \in [Agents -> Calls] /\ SlotTyped
  BY InvFacts, AgentsInAll DEF RestTyped
<1>2. ~Lined(c) /\ call[c].at \notin {"off", "inject", "closing", "copied"}
  BY DEF Lined, Forks
<1>3. CASE Throws(c) /\ UNCHANGED <<box, forkQueue, stray>>
  BY <1>2, <1>3, LeaveFine, UnlinedInv
<1>4. CASE /\ Goto(c, "queued")
           /\ forkQueue' = [forkQueue EXCEPT ![parent(c)] = Append(@, c)]
           /\ UNCHANGED <<row, box, orphan, registry, slot, cmd, stray, ops>>
  <2>1. /\ call' \in [Agents -> Calls] /\ call'[c].at = "queued" /\ call'[c].budget = call[c].budget
        /\ \A d \in Agents \ {c} : call'[d] = call[d]
    BY <1>1, <1>4, CallFacts
  <2>2. SlotKept(c)
    BY <1>1, <1>4, SlotSame
  <2>3. Edits(c) /\ row'[c] = row[c] /\ row[c].state # "none"
    BY <1>1, <1>2, <1>4, EditFacts DEF Placed
  <2>4. Fine(c)
    BY <1>2, <1>4, <2>1, <2>2, <2>3, BoxKept, CallMoves
  <2>5. QueueTyped' /\ QueuesAreTrue'
    BY <1>1, <1>2, <1>4, <2>1, <2>3, <2>4, QueueJoined DEF Fine
  <2> QED BY <1>1, <2>4, <2>5, Combine
<1> QED BY <1>3, <1>4 DEF QueueFork

LEMMA LoopTopInv ==
    ASSUME IInv, NEW c \in Agents, LoopTop(c)
    PROVE  IInv'
<1>1. Placed(c)
  BY InvFacts, AgentsInAll
<1>2. call[c].at \in {"slot", "sleep"} /\ slot[c] = "owner"
  BY <1>1 DEF LoopTop, Placed
<1>3. ~Lined(c) /\ call[c].at \notin {"off", "inject", "closing", "copied"}
  BY <1>2 DEF Lined, Forks
<1>4. CASE ReturnsNull(c) /\ UNCHANGED forkQueue
  BY <1>3, <1>4, LeaveFine, UnlinedInv DEF ReturnsNull
<1>5. CASE Hold(c) /\ UNCHANGED forkQueue
  BY <1>2, <1>3, <1>5, HoldFine, UnlinedInv
<1>6. CASE QueueFork(c)
  BY <1>2, <1>6, QueueForkInv
<1> QED BY <1>4, <1>5, <1>6 DEF LoopTop

LEMMA HoldEndsInv ==
    ASSUME IInv, NEW c \in Agents, HoldEnds(c)
    PROVE  IInv'
<1>1. Placed(c)
  BY InvFacts, AgentsInAll
<1>2. call[c].at = "hold" /\ slot[c] = "owner"
  BY <1>1 DEF HoldEnds, Placed
<1>3. ~Lined(c) /\ call[c].at \notin {"off", "inject", "closing", "copied"}
  BY <1>2 DEF Lined, Forks
<1>4. CASE ReturnsNull(c) /\ UNCHANGED forkQueue
  BY <1>3, <1>4, LeaveFine, UnlinedInv DEF ReturnsNull
<1>5. CASE QueueFork(c)
  BY <1>2, <1>5, QueueForkInv
<1> QED BY <1>4, <1>5 DEF HoldEnds

(* A fork starts, and the sandbox is copied.  *)
LEMMA ForkStartsInv ==
    ASSUME IInv, NEW c \in Agents, ForkStarts(c) \/ Forked(c)
    PROVE  IInv'
<1>1. /\ c \in All /\ RestTyped /\ QueueTyped /\ SlotsHold /\ QueuesAreTrue /\ Placed(c)
      /\ row \in [All -> Rows] /\ call \in [Agents -> Calls] /\ SlotTyped
      /\ box \in [All -> Boxes] /\ stray \subseteq All /\ call[c] \in Calls
  BY InvFacts, AgentsInAll DEF RestTyped
<1>2. /\ \/ call[c].at = "queued" /\ Head(forkQueue[parent(c)]) = c /\ Goto(c, "forking")
         \/ call[c].at = "forking" /\ Goto(c, "copied")
      /\ UNCHANGED <<row, orphan, registry, slot, forkQueue, cmd, stray, ops>>
  BY DEF ForkStarts, Forked
<1>3. /\ call' \in [Agents -> Calls] /\ call'[c].budget = call[c].budget
      /\ Goto(c, "forking") => call'[c].at = "forking"
      /\ Goto(c, "copied") => call'[c].at = "copied"
      /\ \A d \in Agents \ {c} : call'[d] = call[d]
  BY <1>1, <1>2, CallFacts
<1>4. SlotKept(c)
  BY <1>1, <1>2, SlotSame
<1>5. Edits(c) /\ row'[c] = row[c] /\ row[c].state # "none" /\ slot[c] = "owner"
  BY <1>1, <1>2, EditFacts DEF Placed
<1>6. Boxed(c)
  <2>1. CASE ForkStarts(c)
    BY <1>3, <2>1, BoxKept DEF ForkStarts
  <2>2. CASE Forked(c)
    <3>1. call[c].budget \in Int /\ call[c].budget - 1 \in Nat
      BY <1>1, <2>2 DEF Forked, Refused, Calls
    <3>2. PICK k \in Boxes : k.depth = call[c].budget - 1 /\ box' = [box EXCEPT ![c] = k]
      <4>1. [is |-> "running", depth |-> call[c].budget - 1] \in Boxes
        BY <3>1 DEF Boxes
      <4> QED BY <2>2, <4>1 DEF Forked
    <3>3. call'[c].at = "copied"
      BY <1>3, <2>2 DEF Forked
    <3> QED BY <1>1, <1>2, <1>3, <3>2, <3>3 DEF Boxed
  <2> QED BY <2>1, <2>2
<1>7. call[c].at \in {"queued", "forking"} /\ call'[c].at \in {"forking", "copied"}
  BY <1>2, <1>3
<1>8. Fine(c)
  BY <1>2, <1>3, <1>4, <1>5, <1>6, <1>7, CallMoves
<1>9. Lined(c) /\ Lined(c)' /\ parent(c)' = parent(c)
  BY <1>2, <1>7 DEF Lined, Forks, parent
<1>10. ~Forks(c) => Head(forkQueue[parent(c)]) = c
  BY <1>2 DEF Forks
<1>11. QueueTyped' /\ QueuesAreTrue'
  BY <1>1, <1>2, <1>8, <1>9, <1>10, QueuesKept DEF Fine, QueueTyped
<1> QED BY <1>1, <1>8, <1>11, Combine

(* A fork that has settled without a child. *)
LEMMA SettledInv ==
    ASSUME IInv, NEW c \in Agents, Forks(c), LeaveQueue(c), Fine(c), ~Lined(c)'
    PROVE  IInv'
<1>1. c \in All /\ QueueTyped /\ QueuesAreTrue /\ row \in [All -> Rows]
  BY InvFacts, AgentsInAll DEF RestTyped
<1>2. QueueTyped' /\ QueuesAreTrue'
  BY <1>1, QueueLeft DEF Fine
<1> QED BY <1>1, <1>2, Combine

LEMMA ForkFailsInv ==
    ASSUME IInv, NEW c \in Agents, ForkFails(c)
    PROVE  IInv'
<1>1. /\ Forks(c) /\ Throws(c) /\ LeaveQueue(c)
      /\ call[c].at \notin {"off", "inject", "closing"}
      /\ CloseQuietly(c) \/ (call[c].at # "copied" /\ UNCHANGED <<box, stray>>)
  BY DEF ForkFails, Forks
<1> QED BY <1>1, LeaveFine, SettledInv

LEMMA ForkNotRunningInv ==
    ASSUME IInv, NEW c \in Agents, ForkNotRunning(c)
    PROVE  IInv'
<1>1. /\ c \in All /\ RestTyped /\ SlotsHold /\ Placed(c)
      /\ row \in [All -> Rows] /\ call \in [Agents -> Calls] /\ call[c] \in Calls /\ SlotTyped
  BY InvFacts, AgentsInAll DEF RestTyped
<1>2. /\ call[c].at = "forking" /\ LeaveQueue(c) /\ slot[c] = "owner" /\ row[c].state # "none"
      /\ Forks(c)
  BY <1>1 DEF ForkNotRunning, Placed, Forks
<1>3. CASE ReturnsNull(c) \/ (Throws(c) /\ UNCHANGED <<box, stray>>)
  BY <1>2, <1>3, LeaveFine, SettledInv DEF ReturnsNull
<1>4. CASE Hold(c)
  BY <1>2, <1>4, HoldFine, SettledInv
<1>5. CASE /\ call[c].retries # MAX_NOT_RUNNING_RETRIES
           /\ call' = [call EXCEPT ![c].at = "sleep", ![c].retries = @ + 1]
           /\ UNCHANGED <<row, box, orphan, registry, slot, cmd, stray, ops>>
  <2>1. call[c].retries + 1 \in 0 .. MAX_NOT_RUNNING_RETRIES
    BY <1>1, <1>5, Numbers DEF Calls
  <2>2. /\ call' \in [Agents -> Calls] /\ call'[c].at = "sleep" /\ call'[c].budget = call[c].budget
        /\ \A d \in Agents \ {c} : call'[d] = call[d]
    BY <1>1, <1>5, <2>1 DEF Calls
  <2>3. SlotKept(c)
    BY <1>1, <1>5, SlotSame
  <2>4. Edits(c) /\ row'[c] = row[c]
    BY <1>1, <1>5, EditFacts
  <2>5. Fine(c)
    BY <1>2, <1>5, <2>2, <2>3, <2>4, BoxKept, CallMoves
  <2>6. ~Lined(c)'
    BY <2>2 DEF Lined, Forks
  <2> QED BY <1>2, <2>5, <2>6, SettledInv
<1> QED BY <1>3, <1>4, <1>5 DEF ForkNotRunning

LEMMA FreshCall ==
    ASSUME NEW step \in {"closing", "inject"}
    PROVE  [NoCall EXCEPT !.at = step] \in Calls /\ [NoCall EXCEPT !.at = step].at = step
<1>1. NoCall \in Calls
  BY Numbers DEF NoCall, Calls
<1>2. \A r \in Calls : [r EXCEPT !.at = step] \in Calls /\ [r EXCEPT !.at = step].at = step
  BY DEF Calls
<1> QED BY <1>1, <1>2

(* The sandbox is there: the child joins, or its sandbox is closed. *)
LEMMA ForkReturnsInv ==
    ASSUME IInv, NEW c \in Agents, ForkReturns(c)
    PROVE  IInv'
<1>1. /\ c \in All /\ RestTyped /\ SlotsHold /\ Placed(c) /\ Registered(c) /\ Bounded(c)
      /\ row \in [All -> Rows] /\ call \in [Agents -> Calls] /\ box \in [All -> Boxes]
      /\ row[c] \in Rows /\ call[c] \in Calls /\ SlotTyped
  BY InvFacts, AgentsInAll DEF RestTyped
<1>2. /\ call[c].at = "copied" /\ Forks(c) /\ LeaveQueue(c) /\ Slots!Leave(c)
      /\ Join(c) \/ Discard(c)
      /\ UNCHANGED <<box, orphan, cmd, stray, ops>>
  BY DEF ForkReturns, Join, Discard, Forks
<1>3. /\ c \notin registry /\ ~row[c].provisioned /\ row[c].state # "none" /\ cmd[c] = "none"
      /\ call[c].budget - 1 <= row[c].budget
  BY <1>1, <1>2 DEF Placed, Registered, RestTyped
<1>4. SlotKept(c)
  BY <1>1, <1>2, SlotStep
<1>5. call[c].budget \in Int /\ box[c].depth = call[c].budget - 1
  BY <1>1, <1>2 DEF Placed, Calls
<1>6. /\ box' \in [All -> Boxes] /\ box'[c].depth = call[c].budget - 1
      /\ \A b \in All \ {c} : box'[b] = box[b]
  BY <1>1, <1>2, <1>5
<1>7. /\ row[c].above \subseteq All /\ row[c].budget \in Int /\ row[c].cap \in Nat
      /\ Cardinality(row[c].above) \in Nat
  BY <1>1, AboveCounted DEF Rows
<1>8. Cardinality(row[c].above) + row[c].budget <= row[c].cap
  BY <1>1, <1>3 DEF Bounded
<1>9. Cardinality(row[c].above) + box'[c].depth <= row[c].cap
  <2> DEFINE n == Cardinality(row[c].above)
  <2>1. n \in Nat /\ n + row[c].budget <= row[c].cap
    BY <1>7, <1>8
  <2> HIDE DEF n
  <2>2. n + (call[c].budget - 1) <= row[c].cap
    BY <1>3, <1>5, <1>7, <2>1
  <2> QED BY <1>6, <2>2 DEF n
<1>10. CASE Join(c)
  <2>1. /\ ~row[c].ended /\ registry' = registry \cup {c}
        /\ call' = [call EXCEPT ![c] = [NoCall EXCEPT !.at = "inject"]]
        /\ row' = [row EXCEPT ![c].provisioned = TRUE,
                              ![c].state = IF call[c].held THEN "provisioning" ELSE @]
    BY <1>10 DEF Join, isCancelled
  <2>2. /\ call' \in [Agents -> Calls] /\ call'[c].at = "inject"
        /\ \A d \in Agents \ {c} : call'[d] = call[d]
    <3> DEFINE k == [NoCall EXCEPT !.at = "inject"]
    <3>1. k \in Calls /\ k.at = "inject"
      BY FreshCall
    <3>2. call' = [call EXCEPT ![c] = k]
      BY <2>1
    <3> HIDE DEF k
    <3> QED BY <1>1, <3>1, <3>2
  <2>3. /\ Edits(c) /\ row'[c].provisioned /\ ~row'[c].ended /\ row'[c].state # "none"
    BY <1>1, <1>3, <2>1 DEF Edits, Rows
  <2>4. Elsewhere(c)
    BY <1>2, <1>6, <2>1, <2>2, <2>3 DEF Elsewhere, Edits
  <2>5. RestTyped'
    BY <1>1, <1>2, <1>4, <1>6, <2>1, <2>2, <2>3 DEF RestTyped, Edits, SlotKept
  <2>6. Placed(c)' /\ Registered(c)'
    BY <1>2, <1>3, <2>1, <2>2, <2>3 DEF Placed, Registered
  <2>7. Bounded(c)'
    BY <1>8, <1>9, <2>3 DEF Bounded, Edits
  <2>8. ~Lined(c)'
    BY <2>2 DEF Lined, Forks
  <2>9. Fine(c)
    BY <1>4, <2>4, <2>5, <2>6, <2>7 DEF Fine, Sound
  <2> QED BY <1>2, <2>8, <2>9, SettledInv
<1>11. CASE Discard(c)
  <2>1. /\ registry' = registry
        /\ call' = [call EXCEPT ![c] = [NoCall EXCEPT !.at = "closing"]]
        /\ row' = [row EXCEPT ![c].state = IF call[c].held THEN "provisioning" ELSE @]
    BY <1>11 DEF Discard
  <2>2. /\ call' \in [Agents -> Calls] /\ call'[c].at = "closing"
        /\ \A d \in Agents \ {c} : call'[d] = call[d]
    <3> DEFINE k == [NoCall EXCEPT !.at = "closing"]
    <3>1. k \in Calls /\ k.at = "closing"
      BY FreshCall
    <3>2. call' = [call EXCEPT ![c] = k]
      BY <2>1
    <3> HIDE DEF k
    <3> QED BY <1>1, <3>1, <3>2
  <2>3. /\ Edits(c) /\ row'[c].provisioned = row[c].provisioned /\ row'[c].state # "none"
    BY <1>1, <1>3, <2>1 DEF Edits, Rows
  <2>4. Elsewhere(c)
    BY <1>2, <1>6, <2>1, <2>2, <2>3 DEF Elsewhere, Edits
  <2>5. RestTyped'
    BY <1>1, <1>2, <1>4, <1>6, <2>1, <2>2, <2>3 DEF RestTyped, Edits, SlotKept
  <2>6. Placed(c)' /\ Registered(c)'
    BY <1>2, <1>3, <2>1, <2>2, <2>3 DEF Placed, Registered
  <2>7. Bounded(c)'
    BY <1>3, <1>8, <2>1, <2>3 DEF Bounded, Edits
  <2>8. ~Lined(c)'
    BY <2>2 DEF Lined, Forks
  <2>9. Fine(c)
    BY <1>4, <2>4, <2>5, <2>6, <2>7 DEF Fine, Sound
  <2> QED BY <1>2, <2>8, <2>9, SettledInv
<1> QED BY <1>2, <1>10, <1>11

LEMMA ClosedInv ==
    ASSUME IInv, NEW c \in Agents, Closed(c)
    PROVE  IInv'
<1>1. /\ c \in All /\ RestTyped /\ SlotsHold /\ Placed(c) /\ Registered(c) /\ Bounded(c)
      /\ row \in [All -> Rows] /\ call \in [Agents -> Calls] /\ box \in [All -> Boxes]
      /\ row[c] \in Rows /\ SlotTyped
  BY InvFacts, AgentsInAll DEF RestTyped
<1>2. /\ call[c].at = "closing" /\ Return(c)
      /\ CloseQuietly(c)
      /\ row' = [row EXCEPT ![c].released = TRUE]
      /\ UNCHANGED <<orphan, registry, slot, forkQueue, cmd, ops>>
  BY DEF Closed
<1>3. /\ c \notin registry /\ ~row[c].provisioned /\ row[c].state # "none" /\ cmd[c] = "none"
  BY <1>1, <1>2 DEF Placed, Registered, RestTyped
<1>4. /\ call' \in [Agents -> Calls] /\ call'[c].at = "off" /\ \A d \in Agents \ {c} : call'[d] = call[d]
  BY <1>1, <1>2, CallFacts DEF NoCall
<1>5. SlotKept(c)
  BY <1>1, <1>2, SlotSame
<1>6. /\ box' \in [All -> Boxes] /\ \A b \in All \ {c} : box'[b] = box[b]
      /\ stray \subseteq stray' /\ stray' \subseteq All
      /\ box'[c] # NoBox => c \in stray'
  BY <1>1, <1>2, BoxClosed
<1>7. /\ row' \in [All -> Rows] /\ \A b \in All \ {c} : row'[b] = row[b]
      /\ row'[c].state = row[c].state /\ row'[c].provisioned = row[c].provisioned
      /\ row'[c].above = row[c].above /\ row'[c].budget = row[c].budget /\ row'[c].cap = row[c].cap
  BY <1>1, <1>2 DEF Rows
<1>8. Elsewhere(c)
  BY <1>2, <1>4, <1>6, <1>7 DEF Elsewhere
<1>9. RestTyped'
  BY <1>1, <1>2, <1>4, <1>5, <1>6, <1>7 DEF RestTyped, SlotKept
<1>10. Placed(c)' /\ Registered(c)'
  BY <1>2, <1>3, <1>4, <1>6, <1>7 DEF Placed, Registered
<1>11. Bounded(c)'
  BY <1>1, <1>2, <1>3, <1>7 DEF Bounded
<1>12. Fine(c)
  BY <1>5, <1>8, <1>9, <1>10, <1>11 DEF Fine, Sound
<1> QED BY <1>2, <1>4, <1>12, UnlinedInv DEF Lined, Forks

(* The first turn, or the pause of an ancestor. *)
LEMMA InjectInv ==
    ASSUME IInv, NEW c \in Agents, JoinPause(c) \/ FirstTurn(c)
    PROVE  IInv'
<1>1. /\ c \in All /\ RestTyped /\ SlotsHold /\ Placed(c) /\ Registered(c) /\ Bounded(c)
      /\ row \in [All -> Rows] /\ call \in [Agents -> Calls] /\ box \in [All -> Boxes]
      /\ row[c] \in Rows /\ box[c] \in Boxes /\ SlotTyped
  BY InvFacts, AgentsInAll DEF RestTyped
<1>2. /\ call[c].at = "inject" /\ Return(c)
      /\ UNCHANGED <<orphan, registry, slot, forkQueue, stray, ops>>
  BY DEF JoinPause, FirstTurn
<1>3. row[c].state # "none"
  BY <1>1, <1>2 DEF Placed
<1>4. /\ call' \in [Agents -> Calls] /\ call'[c].at = "off" /\ \A d \in Agents \ {c} : call'[d] = call[d]
  BY <1>1, <1>2, CallFacts DEF NoCall
<1>5. SlotKept(c)
  BY <1>1, <1>2, SlotSame
<1>6. CASE JoinPause(c)
  <2>1. /\ c \in registry /\ row' = row
        /\ cmd' = [cmd EXCEPT ![c] = "pause"] /\ box' = [box EXCEPT ![c].is = "paused"]
    BY <1>6 DEF JoinPause
  <2>2. box' \in [All -> Boxes] /\ box'[c].depth = box[c].depth /\ \A b \in All \ {c} : box'[b] = box[b]
    BY <1>1, <2>1 DEF Boxes
  <2>3. Elsewhere(c) /\ RestTyped'
    BY <1>1, <1>2, <1>4, <1>5, <2>1, <2>2 DEF Elsewhere, RestTyped, SlotKept
  <2>4. Placed(c)' /\ Registered(c)' /\ Bounded(c)'
    BY <1>1, <1>2, <1>3, <1>4, <2>1, <2>2 DEF Placed, Registered, Bounded, Live
  <2>5. Fine(c)
    BY <1>5, <2>3, <2>4 DEF Fine, Sound
  <2> QED BY <1>2, <1>4, <2>5, UnlinedInv DEF Lined, Forks
<1>7. CASE FirstTurn(c)
  <2>1. UNCHANGED <<box, cmd>>
    BY <1>7 DEF FirstTurn
  <2>2. \/ row' = row
        \/ c \in registry /\ row' = [row EXCEPT ![c].state = "running"]
    BY <1>7 DEF FirstTurn
  <2>3. "running" \in States
    BY DEF States
  <2>4. /\ Edits(c) /\ row'[c].provisioned = row[c].provisioned /\ row'[c].ended = row[c].ended
        /\ row'[c].state # "none"
        /\ c \notin registry => row'[c].state = row[c].state
    <3>1. CASE row' = row
      BY <1>1, <1>3, <3>1, EditFacts
    <3>2. CASE c \in registry /\ row' = [row EXCEPT ![c].state = "running"]
      <4>1. /\ Edits(c) /\ row'[c].provisioned = row[c].provisioned /\ row'[c].ended = row[c].ended
            /\ row'[c].state = "running"
        BY <1>1, <2>3, <3>2, EditFacts
      <4> QED BY <3>2, <4>1
    <3> QED BY <2>2, <3>1, <3>2
  <2>5. Elsewhere(c) /\ RestTyped'
    BY <1>1, <1>2, <1>4, <1>5, <2>1, <2>4 DEF Elsewhere, RestTyped, SlotKept, Edits
  <2>6. Placed(c)' /\ Registered(c)' /\ Bounded(c)'
    BY <1>1, <1>2, <1>3, <1>4, <2>1, <2>4 DEF Placed, Registered, Bounded, Live, Edits
  <2>7. Fine(c)
    BY <1>5, <2>5, <2>6 DEF Fine, Sound
  <2> QED BY <1>2, <1>4, <2>7, UnlinedInv DEF Lined, Forks
<1> QED BY <1>6, <1>7

(* The row of a new child. *)
LEMMA NewRowFacts ==
    ASSUME row \in [All -> Rows], NEW p \in All, NEW v \in Int, NEW wait \in BOOLEAN,
           v = row[p].budget \/ v \in Nat
    PROVE  /\ NewRow(p, v, wait) \in Rows
           /\ NewRow(p, v, wait).state \in {"spawning", "provisioning"}
           /\ ~NewRow(p, v, wait).provisioned /\ ~NewRow(p, v, wait).ended
           /\ NewRow(p, v, wait).above = row[p].above \cup {p}
           /\ NewRow(p, v, wait).budget = v - 1
           /\ NewRow(p, v, wait).cap = IF v = row[p].budget THEN row[p].cap
                                        ELSE Cardinality(row[p].above) + v
<1> DEFINE deep == IF v = row[p].budget THEN row[p].cap ELSE Cardinality(row[p].above) + v
           new == IF wait THEN "spawning" ELSE "provisioning"
           line == row[p].above \cup {p}
<1>1. row[p] \in Rows
  OBVIOUS
<1>2. row[p].above \subseteq All /\ row[p].cap \in Nat
  BY <1>1 DEF Rows
<1>3. Cardinality(row[p].above) \in Nat
  BY <1>2, AboveCounted
<1>4. deep \in Nat
  BY <1>2, <1>3
<1>5. line \subseteq All /\ new \in {"spawning", "provisioning"} /\ v - 1 \in Int
  BY <1>2
<1>6. NoRow \in Rows /\ ~NoRow.provisioned /\ ~NoRow.ended
  BY AgentsInAll DEF NoRow, Rows
<1> DEFINE N(r) == [r EXCEPT !.state = new, !.parent = p, !.above = line, !.budget = v - 1, !.wait = wait,
                             !.cap = deep]
<1>7. N(NoRow) = NewRow(p, v, wait)
  BY DEF NewRow
<1> HIDE DEF deep, new, line
<1>8. \A r \in Rows : /\ N(r) \in Rows /\ N(r).state = new /\ N(r).above = line /\ N(r).budget = v - 1
                       /\ N(r).cap = deep /\ N(r).provisioned = r.provisioned /\ N(r).ended = r.ended
  BY <1>4, <1>5 DEF Rows
<1> HIDE DEF N
<1> QED BY <1>5, <1>6, <1>7, <1>8 DEF deep, line

LEMMA SpawnInv ==
    ASSUME IInv, NEW c \in Agents, NEW p \in All, NEW wait \in BOOLEAN,
           NEW v \in {row[p].budget} \cup ops.overrides, Spawn(c, p, v, wait)
    PROVE  IInv'
<1>1. /\ c \in All /\ RestTyped /\ SlotsHold /\ Placed(c) /\ Registered(c) /\ Registered(p) /\ Bounded(p)
      /\ row \in [All -> Rows] /\ call \in [Agents -> Calls] /\ ops \in Bounds
      /\ row[p] \in Rows /\ SlotTyped
  BY InvFacts, AgentsInAll DEF RestTyped
<1>2. /\ row[c].state = "none" /\ p \in registry
      /\ row' = [row EXCEPT ![c] = NewRow(p, v, wait)]
      /\ call' = [call EXCEPT ![c] = [NoCall EXCEPT !.at = IF wait THEN "wait" ELSE "slot",
                                                    !.budget = v]]
      /\ AskForSlot(c) \/ slot' = slot
      /\ UNCHANGED <<box, orphan, registry, forkQueue, cmd, stray, ops>>
  BY DEF Spawn, SpawnBudget
<1>3. v \in Int /\ (v = row[p].budget \/ v \in Nat)
  BY <1>1 DEF Bounds, Rows
<1>4. /\ call[c].at = "off" /\ c \notin registry /\ cmd[c] = "none"
      /\ box[c] = NoBox \/ c \in stray
      /\ row[p].state # "none"
  BY <1>1, <1>2 DEF Placed, Registered, RestTyped
<1>5. SlotKept(c)
  BY <1>1, <1>2, SlotStep DEF AskForSlot
<1>6. /\ call' \in [Agents -> Calls] /\ call'[c].at \in {"wait", "slot"} /\ call'[c].budget = v
      /\ \A d \in Agents \ {c} : call'[d] = call[d]
  <2> DEFINE step == IF wait THEN "wait" ELSE "slot"
             K(r) == [r EXCEPT !.at = step, !.budget = v]
  <2>1. step \in {"wait", "slot"}
    OBVIOUS
  <2>2. call' = [call EXCEPT ![c] = K(NoCall)]
    BY <1>2
  <2> HIDE DEF step
  <2>3. \A r \in Calls : K(r) \in Calls /\ K(r).at = step /\ K(r).budget = v
    BY <1>3, <2>1 DEF Calls
  <2>4. NoCall \in Calls
    BY Numbers DEF NoCall, Calls
  <2> HIDE DEF K
  <2> QED BY <1>1, <2>1, <2>2, <2>3, <2>4
<1>7. /\ row' \in [All -> Rows] /\ \A b \in All \ {c} : row'[b] = row[b]
      /\ row'[c] = NewRow(p, v, wait)
  BY <1>1, <1>2, <1>3, NewRowFacts
<1>8. /\ row'[c].state \in {"spawning", "provisioning"} /\ ~row'[c].provisioned /\ ~row'[c].ended
      /\ row'[c].above = row[p].above \cup {p} /\ row'[c].budget = v - 1
      /\ row'[c].cap = IF v = row[p].budget THEN row[p].cap ELSE Cardinality(row[p].above) + v
  BY <1>1, <1>3, <1>7, NewRowFacts
<1>9. Elsewhere(c)
  BY <1>2, <1>6, <1>7 DEF Elsewhere
<1>10. RestTyped'
  BY <1>1, <1>2, <1>5, <1>6, <1>7 DEF RestTyped, SlotKept
<1>11. Placed(c)'
  BY <1>2, <1>3, <1>4, <1>6, <1>8 DEF Placed
<1>12. Registered(c)'
  BY <1>2, <1>4, <1>8 DEF Registered
<1>13. Bounded(c)'
  <2> DEFINE n == Cardinality(row[p].above)
             m == Cardinality(row'[c].above)
  <2>1. row[p].above \subseteq All /\ row[p].cap \in Nat
    BY <1>1 DEF Rows
  <2>2. n \in Nat /\ m <= n + 1
    BY <1>8, <2>1, AboveCounted
  <2>3. row'[c].above \subseteq All
    BY <1>8, <2>1
  <2>4. m \in Nat
    BY <2>3, AboveCounted
  <2>5. n + row[p].budget <= row[p].cap
    BY <1>1, <1>4 DEF Bounded
  <2>6. Bounded(c)' <=> m + (v - 1) <= row'[c].cap
    BY <1>2, <1>4, <1>8 DEF Bounded
  <2> HIDE DEF n, m
  <2>7. row'[c].cap = IF v = row[p].budget THEN row[p].cap ELSE n + v
    BY <1>8 DEF n
  <2>8. CASE v = row[p].budget
    BY <1>3, <2>1, <2>2, <2>4, <2>5, <2>6, <2>7, <2>8
  <2>9. CASE v # row[p].budget
    BY <1>3, <2>2, <2>4, <2>6, <2>7, <2>9
  <2> QED BY <2>8, <2>9
<1>14. Fine(c)
  BY <1>5, <1>9, <1>10, <1>11, <1>12, <1>13 DEF Fine, Sound
<1> QED BY <1>2, <1>4, <1>6, <1>14, UnlinedInv DEF Lined, Forks

-----------------------------------------------------------------------------
(* A step that leaves calls, slots and queues alone. *)
LEMMA RowStep ==
    ASSUME IInv, NEW a \in All, Elsewhere(a), RestTyped', Sound(a)', row'[a].parent = row[a].parent,
           UNCHANGED <<call, slot, forkQueue>>
    PROVE  IInv'
<1>1. RestTyped /\ QueueTyped /\ SlotsHold /\ QueuesAreTrue /\ SlotTyped
  BY InvFacts DEF RestTyped
<1>2. SlotKept(a)
  BY <1>1, SlotSame
<1>3. Fine(a)
  BY <1>2 DEF Fine
<1>4. (Lined(a)' <=> Lined(a)) /\ (Forks(a)' <=> Forks(a)) /\ parent(a)' = parent(a)
  BY DEF Lined, Forks, parent
<1>5. QueuesAreTrue' /\ QueueTyped'
  BY <1>1, <1>4, QueuesKept DEF QueueTyped
<1> QED BY <1>3, <1>5, Combine

LEMMA CommandInv ==
    ASSUME IInv, NEW a \in All, Command(a) \/ (a \in Agents /\ Cancel(a))
    PROVE  IInv'
<1>1. /\ RestTyped /\ Registered(a) /\ Bounded(a) /\ (a \in Agents => Placed(a))
      /\ row \in [All -> Rows] /\ box \in [All -> Boxes] /\ ops \in Bounds /\ SlotTyped
      /\ row[a] \in Rows /\ cmd \in [All -> {"none", "pause", "stop"}]
  BY InvFacts DEF RestTyped
<1>2. UNCHANGED <<orphan, call, slot, forkQueue>>
  BY DEF Command, Pause, PauseEnds, Resume, StopBegins, StopEnds, Cancel, daemon
<1>3. \A n \in Nat : n > 0 => n - 1 \in Nat
  OBVIOUS
<1>4. ops' \in Bounds
  <2>1. CASE ops' = ops
    BY <1>1, <2>1
  <2>2. CASE ops.pauses > 0 /\ ops' = [ops EXCEPT !.pauses = @ - 1]
    BY <1>1, <1>3, <2>2 DEF Bounds
  <2>3. CASE ops.stops > 0 /\ ops' = [ops EXCEPT !.stops = @ - 1]
    BY <1>1, <1>3, <2>3 DEF Bounds
  <2> QED BY <2>1, <2>2, <2>3 DEF Command, Pause, PauseEnds, Resume, StopBegins, StopEnds, Cancel
<1>5. ASSUME NEW s \in {"paused", "running"}, box' = [box EXCEPT ![a].is = s]
      PROVE  /\ box' \in [All -> Boxes] /\ box'[a].depth = box[a].depth
             /\ \A b \in All \ {a} : box'[b] = box[b]
  BY <1>1, <1>5 DEF Boxes
<1>6. {"paused", "running", "aborted"} \subseteq States /\ "aborted" \in TERMINAL
  BY DEF States, TERMINAL
<1>7. CASE Pause(a) \/ PauseEnds(a) \/ Resume(a) \/ StopBegins(a)
  <2>1. a \in registry /\ row[a].state # "none" /\ UNCHANGED <<orphan, registry, stray>>
    BY <1>1, <1>7 DEF Pause, PauseEnds, Resume, StopBegins, Registered, daemon
  <2>2. /\ cmd' \in [All -> {"none", "pause", "stop"}] /\ \A b \in All \ {a} : cmd'[b] = cmd[b]
    BY <1>1, <1>7 DEF Pause, PauseEnds, Resume, StopBegins, daemon
  <2>3. /\ box' \in [All -> Boxes] /\ box'[a].depth = box[a].depth
        /\ \A b \in All \ {a} : box'[b] = box[b]
    BY <1>1, <1>5, <1>7 DEF Pause, PauseEnds, Resume, StopBegins
  <2>4. /\ Edits(a) /\ row'[a].ended = row[a].ended /\ row'[a].provisioned = row[a].provisioned
        /\ row'[a].state # "none"
    <3>1. CASE row' = row
      BY <1>1, <2>1, <3>1, EditFacts
    <3>2. ASSUME NEW s \in {"paused", "running", "aborted"}, row' = [row EXCEPT ![a].state = s]
          PROVE  /\ Edits(a) /\ row'[a].ended = row[a].ended /\ row'[a].provisioned = row[a].provisioned
                 /\ row'[a].state # "none"
      <4>1. /\ Edits(a) /\ row'[a].ended = row[a].ended /\ row'[a].provisioned = row[a].provisioned
            /\ row'[a].state = s
        BY <1>1, <1>6, <3>2, EditFacts
      <4> QED BY <4>1
    <3> QED BY <1>7, <3>1, <3>2 DEF Pause, PauseEnds, Resume, StopBegins
  <2>5. Elsewhere(a)
    BY <1>2, <2>1, <2>2, <2>3, <2>4 DEF Elsewhere, Edits
  <2>6. SlotTyped'
    BY <1>1, <1>2 DEF SlotTyped
  <2>7. RestTyped'
    BY <1>1, <1>2, <1>4, <2>1, <2>2, <2>3, <2>4, <2>6 DEF RestTyped, Edits
  <2>8. (a \in Agents => Placed(a))'
    BY <1>1, <1>2, <2>1, <2>4 DEF Placed, Edits
  <2>9. Registered(a)'
    BY <1>1, <2>1, <2>4 DEF Registered
  <2>10. Bounded(a)'
    BY <1>1, <2>1, <2>3, <2>4 DEF Bounded, Edits
  <2> QED BY <1>2, <2>4, <2>5, <2>7, <2>8, <2>9, <2>10, RowStep DEF Sound, Edits
<1>8. CASE StopEnds(a)
  <2>1. /\ a \in registry /\ row[a].state # "none" /\ registry' = registry \ {a}
        /\ cmd' = [cmd EXCEPT ![a] = "none"] /\ CloseQuietly(a)
        /\ row' = [row EXCEPT ![a] = Ended(@, "aborted")]
    BY <1>1, <1>8 DEF StopEnds, Registered
  <2>2. /\ Edits(a) /\ row'[a].ended /\ row'[a].provisioned = row[a].provisioned
        /\ row'[a].state = "aborted"
    BY <1>1, <1>6, <2>1, EditFacts
  <2>3. /\ box' \in [All -> Boxes] /\ \A b \in All \ {a} : box'[b] = box[b]
        /\ stray \subseteq stray' /\ stray' \subseteq All
        /\ box'[a] # NoBox => a \in stray'
        /\ cmd' \in [All -> {"none", "pause", "stop"}] /\ cmd'[a] = "none"
        /\ \A b \in All \ {a} : cmd'[b] = cmd[b]
    BY <1>1, <2>1, BoxClosed
  <2>4. Elsewhere(a)
    BY <1>2, <2>1, <2>2, <2>3 DEF Elsewhere, Edits
  <2>5. SlotTyped'
    BY <1>1, <1>2 DEF SlotTyped
  <2>6. RestTyped'
    BY <1>1, <1>2, <1>4, <2>1, <2>2, <2>3, <2>5 DEF RestTyped, Edits
  <2>7. (a \in Agents => Placed(a))'
    BY <1>1, <1>2, <2>1, <2>2 DEF Placed, Edits
  <2>8. Registered(a)'
    BY <1>6, <2>1, <2>2, <2>3 DEF Registered, Live
  <2>9. Bounded(a)'
    BY <1>1, <2>1, <2>2 DEF Bounded, Edits
  <2> QED BY <1>2, <2>2, <2>4, <2>6, <2>7, <2>8, <2>9, RowStep DEF Sound, Edits
<1>9. CASE a \in Agents /\ Cancel(a)
  <2>1. /\ a \notin registry /\ row[a].state # "none" /\ UNCHANGED <<registry, cmd, box, stray>>
        /\ row' = [row EXCEPT ![a] = Ended(@, "aborted")]
    BY <1>9 DEF Cancel, daemon
  <2>2. /\ Edits(a) /\ row'[a].ended /\ row'[a].provisioned = row[a].provisioned
        /\ row'[a].state = "aborted"
    BY <1>1, <1>6, <2>1, EditFacts
  <2>3. Elsewhere(a)
    BY <1>2, <2>1, <2>2 DEF Elsewhere, Edits
  <2>4. SlotTyped'
    BY <1>1, <1>2 DEF SlotTyped
  <2>5. RestTyped'
    BY <1>1, <1>2, <1>4, <2>1, <2>2, <2>4 DEF RestTyped, Edits
  <2>6. (a \in Agents => Placed(a))'
    BY <1>1, <1>2, <2>1, <2>2 DEF Placed, Edits
  <2>7. Registered(a)'
    BY <1>1, <1>2, <1>6, <2>1, <2>2 DEF Registered, Live
  <2>8. Bounded(a)'
    BY <1>1, <2>1, <2>2 DEF Bounded, Edits
  <2> QED BY <1>2, <2>2, <2>3, <2>5, <2>6, <2>7, <2>8, RowStep DEF Sound, Edits
<1> QED BY <1>7, <1>8, <1>9 DEF Command

(* Nothing changes, or a fork ends that nobody follows. *)
LEMMA IdleInv ==
    ASSUME IInv, orphan' \subseteq All, UNCHANGED <<row, box, daemon, stray, ops>>
    PROVE  IInv'
<1>1. Root \in All /\ RestTyped /\ Sound(Root)
  BY InvFacts, AgentsInAll DEF IInv
<1>2. UNCHANGED <<registry, call, slot, forkQueue, cmd>>
  BY DEF daemon
<1>3. Elsewhere(Root) /\ RestTyped'
  BY <1>1, <1>2 DEF Elsewhere, RestTyped, SlotTyped
<1>4. Sound(Root)'
  BY <1>1, <1>2 DEF Sound, Placed, Registered, Bounded, Live
<1> QED BY <1>1, <1>2, <1>3, <1>4, RowStep

-----------------------------------------------------------------------------
(* kill -9 and a boot: what the rows say is what there is. *)
LEMMA RestartInv ==
    ASSUME IInv, Restart
    PROVE  IInv'
<1>1. /\ RestTyped /\ row \in [All -> Rows] /\ box \in [All -> Boxes] /\ call \in [Agents -> Calls]
      /\ ops \in Bounds /\ SlotTyped /\ orphan \subseteq All
  BY InvFacts, AgentsInAll DEF RestTyped
<1>2. /\ orphan' = orphan \cup {parent(c) : c \in {d \in Agents : call[d].at = "forking"}}
      /\ ops.restarts > 0 /\ ops' = [ops EXCEPT !.restarts = @ - 1]
      /\ forkQueue' = [a \in All |-> <<>>] /\ cmd' = [a \in All |-> "none"] /\ stray' = {}
  BY DEF Restart
<1>0. PICK back \in SUBSET Known, again \in SUBSET Known :
         /\ Reattached(back, again) /\ Retry(Retried(back))
         /\ row' = [a \in All |-> IF a \in (Known \ back) \cup (PreFork \ Retried(back))
                                  THEN Ended(row[a], "lost") ELSE row[a]]
  BY DEF Restart
<1> DEFINE retried == Retried(back)
           gone == (Known \ back) \cup (PreFork \ retried)
<1>3. /\ registry' = back
      /\ box' = [a \in All |-> IF a \notin back THEN NoBox
                 ELSE [is |-> IF row[a].state = "paused" THEN "paused" ELSE "running",
                       depth |-> IF a \in again \ {Root} THEN 0 ELSE box[a].depth]]
      /\ row' = [a \in All |-> IF a \in gone THEN Ended(row[a], "lost") ELSE row[a]]
      /\ call' = [c \in Agents |-> IF c \notin retried THEN NoCall
                 ELSE [NoCall EXCEPT !.at = IF row[c].wait THEN "wait" ELSE "slot",
                                     !.budget = row[c].budget]]
  BY <1>0 DEF Reattached, Retry
<1>4. /\ back \subseteq registry /\ back \cap gone = {}
      /\ \A a \in back : a \in All /\ row[a].provisioned /\ ~row[a].ended /\ row[a].state # "none"
      /\ \A a \in All : row[a].provisioned => a \in back \cup gone \/ ~Live(a)
      /\ \A a \in gone \cup retried : Live(a) /\ row[a].state # "none"
      /\ \A a \in retried : a \notin gone /\ ~row[a].provisioned
  <2>1. \A a \in All : Registered(a)
    BY InvFacts
  <2> QED BY <1>0, <2>1, AgentsInAll DEF Known, PreFork, Retried, Registered, Live
<1> HIDE DEF gone
<1>5. \A a \in All : /\ row'[a] \in Rows /\ row'[a].provisioned = row[a].provisioned
                     /\ row'[a].above = row[a].above /\ row'[a].budget = row[a].budget
                     /\ row'[a].cap = row[a].cap /\ row'[a].released = row[a].released
                     /\ row'[a].state # "none" <=> row[a].state # "none"
                     /\ a \notin gone => row'[a] = row[a]
                     /\ a \in gone => row'[a].state = "lost"
  <2> SUFFICES ASSUME NEW a \in All
               PROVE  /\ row'[a] \in Rows /\ row'[a].provisioned = row[a].provisioned
                      /\ row'[a].above = row[a].above /\ row'[a].budget = row[a].budget
                      /\ row'[a].cap = row[a].cap /\ row'[a].released = row[a].released
                      /\ row'[a].state # "none" <=> row[a].state # "none"
                      /\ a \notin gone => row'[a] = row[a]
                      /\ a \in gone => row'[a].state = "lost"
    OBVIOUS
  <2>1. CASE a \in gone
    <3>1. row'[a] = Ended(row[a], "lost") /\ row[a].state # "none" /\ row[a] \in Rows
      BY <1>1, <1>3, <1>4, <2>1
    <3>2. \A r \in Rows : /\ Ended(r, "lost") \in Rows /\ Ended(r, "lost").state = "lost"
                           /\ Ended(r, "lost").above = r.above
                           /\ Ended(r, "lost").budget = r.budget /\ Ended(r, "lost").cap = r.cap
                           /\ Ended(r, "lost").released = r.released
                           /\ Ended(r, "lost").provisioned = r.provisioned
      BY DEF Ended, Rows, TERMINAL
    <3> QED BY <2>1, <3>1, <3>2
  <2>2. CASE a \notin gone
    BY <1>1, <1>3, <2>2
  <2> QED BY <2>1, <2>2
<1>6. row' \in [All -> Rows]
  BY <1>3, <1>5
<1>7. \A a \in All : /\ box'[a] \in Boxes
                     /\ a \in back => box'[a].depth <= box[a].depth
                     /\ a \notin back => box'[a] = NoBox
  <2> SUFFICES ASSUME NEW a \in All
               PROVE  /\ box'[a] \in Boxes
                      /\ a \in back => box'[a].depth <= box[a].depth
                      /\ a \notin back => box'[a] = NoBox
    OBVIOUS
  <2>1. box[a].depth \in Nat /\ NoBox \in Boxes
    BY <1>1 DEF Boxes, NoBox
  <2> DEFINE s == IF row[a].state = "paused" THEN "paused" ELSE "running"
             d == IF a \in again \ {Root} THEN 0 ELSE box[a].depth
  <2>2. s \in {"paused", "running"} /\ d \in Nat /\ d <= box[a].depth
    BY <2>1
  <2>3. box'[a] = IF a \notin back THEN NoBox ELSE [is |-> s, depth |-> d]
    BY <1>3
  <2> HIDE DEF s, d
  <2> QED BY <2>1, <2>2, <2>3 DEF Boxes
<1>8. box' \in [All -> Boxes]
  BY <1>3, <1>7
<1>9. \A c \in Agents : /\ call'[c] \in Calls /\ call'[c].at \in {"off", "wait", "slot"}
                        /\ c \notin retried => call'[c].at = "off"
                        /\ c \in retried => call'[c].budget = row[c].budget
  <2> SUFFICES ASSUME NEW c \in Agents
               PROVE  /\ call'[c] \in Calls /\ call'[c].at \in {"off", "wait", "slot"}
                      /\ c \notin retried => call'[c].at = "off"
                      /\ c \in retried => call'[c].budget = row[c].budget
    OBVIOUS
  <2>1. NoCall \in Calls /\ NoCall.at = "off"
    BY Numbers DEF NoCall, Calls
  <2>2. row[c].budget \in Int
    BY <1>1, AgentsInAll DEF Rows
  <2> DEFINE step == IF row[c].wait THEN "wait" ELSE "slot"
             K(r) == [r EXCEPT !.at = step, !.budget = row[c].budget]
  <2>3. step \in {"wait", "slot"}
    OBVIOUS
  <2>4. call'[c] = IF c \notin retried THEN NoCall ELSE K(NoCall)
    BY <1>3
  <2> HIDE DEF step
  <2>5. \A r \in Calls : K(r) \in Calls /\ K(r).at = step /\ K(r).budget = row[c].budget
    BY <2>2, <2>3 DEF Calls
  <2> HIDE DEF K
  <2> QED BY <2>1, <2>3, <2>4, <2>5
<1>10. call' \in [Agents -> Calls]
  BY <1>3, <1>9
<1>11. SlotTyped' /\ SlotsHold'
  <2> DEFINE asking == {c \in retried : ~row[c].wait}
  <2>1. PICK got \in SUBSET asking :
           /\ Cardinality(got \cup ops.taken) <= ADMISSION_CONCURRENCY
           /\ slot' = [c \in DOMAIN slot |-> IF c \in got \cup ops.taken THEN "owner"
                          ELSE IF c \in asking THEN "queued" ELSE "outside"]
    BY <1>0 DEF Retry
  <2>2. got \subseteq Agents /\ ops.taken \subseteq Others
    BY <1>1 DEF Retried, PreFork, Bounds
  <2>3. DOMAIN slot = Agents \cup Others
    BY <1>1 DEF SlotTyped
  <2> HIDE DEF asking
  <2>4. SlotTyped'
    BY <2>1, <2>3 DEF SlotTyped
  <2>5. Slots!Owners' = got \cup ops.taken
    BY <2>1, <2>2, <2>3 DEF Slots!Owners
  <2> QED BY <2>1, <2>4, <2>5 DEF SlotsHold
<1>12. ops' \in Bounds
  BY <1>1, <1>2 DEF Bounds
<1>13. orphan' \subseteq All
  BY <1>1, <1>2, AgentsInAll DEF parent, Rows
<1>14. RestTyped'
  <2>1. registry' \subseteq All /\ stray' \subseteq All /\ cmd' \in [All -> {"none", "pause", "stop"}]
    BY <1>2, <1>3, <1>4
  <2> QED BY <1>6, <1>8, <1>10, <1>11, <1>12, <1>13, <2>1 DEF RestTyped
<1>15. QueueTyped' /\ QueuesAreTrue'
  <2>1. \A a \in All : forkQueue'[a] = <<>>
    BY <1>2
  <2>2. \A x : ~In(x, <<>>)
    BY DEF In
  <2>3. Distinct(<<>>)
    BY DEF Distinct
  <2>4. QueueTyped'
    BY <1>2 DEF QueueTyped
  <2>5. \A c \in Agents : ~Lined(c)' /\ ~Forks(c)'
    BY <1>9 DEF Lined, Forks
  <2> QED BY <2>1, <2>2, <2>3, <2>4, <2>5 DEF QueuesAreTrue
<1>16. ASSUME NEW a \in All
       PROVE  Sound(a)'
  <2>1. Registered(a)'
    <3>1. a \in back => row'[a] = row[a]
      BY <1>4, <1>5
    <3>2. ~Live(a) => ~Live(a)'
      <4>1. ~Live(a) => row'[a] = row[a]
        BY <1>4, <1>5
      <4> QED BY <4>1 DEF Live
    <3>3. cmd'[a] = "none" /\ registry' = back
      BY <1>2, <1>3
    <3>4. a \in gone => ~Live(a)'
      BY <1>5 DEF Live, TERMINAL
    <3>5. row'[a].provisioned => a \in registry' \/ ~Live(a)'
      <4>1. row'[a].provisioned = row[a].provisioned
        BY <1>5
      <4> QED BY <1>4, <3>2, <3>3, <3>4, <4>1
    <3>6. a \in registry' => row'[a].provisioned /\ ~row'[a].ended /\ row'[a].state # "none"
      BY <1>4, <3>1, <3>3
    <3> QED BY <1>7, <3>3, <3>5, <3>6 DEF Registered
  <2>2. Bounded(a)'
    <3>1. Bounded(a)
      BY InvFacts
    <3> DEFINE n == Cardinality(row[a].above)
    <3>2. n \in Nat /\ row[a].cap \in Nat
      <4>1. row[a].above \subseteq All /\ row[a].cap \in Nat
        BY <1>1 DEF Rows
      <4> QED BY <4>1, AboveCounted
    <3>3. box[a].depth \in Nat /\ box'[a].depth \in Nat
      BY <1>1, <1>7 DEF Boxes
    <3>4. a \in back => n + box[a].depth <= row[a].cap /\ box'[a].depth <= box[a].depth
      BY <1>4, <1>7, <3>1 DEF Bounded
    <3> DEFINE m == box[a].depth
               m2 == box'[a].depth
    <3> HIDE DEF n, m, m2
    <3>5. a \in back => n + m2 <= row[a].cap
      <4>1. n \in Nat /\ row[a].cap \in Nat /\ m \in Nat /\ m2 \in Nat
        BY <3>2, <3>3 DEF m, m2
      <4>2. a \in back => n + m <= row[a].cap /\ m2 <= m
        BY <3>4 DEF m, m2
      <4> QED BY <4>1, <4>2
    <3>6. a \in registry' => Cardinality(row'[a].above) + box'[a].depth <= row'[a].cap
      BY <1>3, <1>5, <3>5 DEF n, m2
    <3>7. row'[a].state # "none" => Cardinality(row'[a].above) + row'[a].budget <= row'[a].cap
      BY <1>5, <3>1 DEF Bounded
    <3> QED BY <3>6, <3>7 DEF Bounded
  <2>3. ASSUME a \in Agents
        PROVE  Placed(a)'
    <3>1. Placed(a)
      BY <2>3, InvFacts
    <3>2. row'[a].state = "none" => call'[a].at = "off" /\ ~row'[a].provisioned /\ ~row'[a].ended
      BY <1>4, <1>5, <1>9, <2>3, <3>1 DEF Placed
    <3>3. call'[a].at \notin {"off", "inject"} => a \notin registry' /\ ~row'[a].provisioned
      <4>1. a \in retried \/ call'[a].at \in {"off", "inject"}
        BY <1>9, <2>3
      <4>2. a \in retried => ~row[a].provisioned /\ row'[a].provisioned = row[a].provisioned
        BY <1>4, <1>5
      <4>3. a \in retried => a \notin back
        BY <1>4, <4>2
      <4> QED BY <1>3, <4>1, <4>2, <4>3
    <3>4. call'[a].at \notin {"hold", "queued", "forking", "copied", "sleep"}
      BY <1>9, <2>3
    <3>5. call'[a].at \notin {"off", "inject", "closing"} => call'[a].budget - 1 <= row'[a].budget
      <4>1. row[a].budget \in Int /\ row'[a].budget = row[a].budget
        BY <1>1, <1>5 DEF Rows
      <4> QED BY <1>9, <2>3, <4>1
    <3> QED BY <3>2, <3>3, <3>4, <3>5 DEF Placed
  <2> QED BY <2>1, <2>2, <2>3 DEF Sound
<1>17. TypeOK'
  BY <1>14, <1>15, TypesApartNext
<1> QED BY <1>11, <1>15, <1>16, <1>17 DEF IInv

LEMMA InitInv == Init => IInv
<1> SUFFICES ASSUME Init PROVE IInv
  OBVIOUS
<1>1. ops \in Bounds /\ ops.taken \subseteq Others
  BY Numbers DEF Init, Bounds
<1>2. NoRow \in Rows /\ NoCall \in Calls /\ NoBox \in Boxes
  BY AgentsInAll, Numbers DEF NoRow, Rows, NoCall, Calls, NoBox, Boxes
<1>3. /\ \A a \in Agents : row[a] = NoRow /\ box[a] = NoBox /\ call[a] = NoCall
      /\ row[Root] = [NoRow EXCEPT !.state = "running", !.budget = Budget, !.cap = Budget,
                                 !.provisioned = TRUE]
      /\ box[Root] = [is |-> "running", depth |-> Budget]
  BY Finite, AgentsInAll DEF Init
<1>4. /\ row[Root] \in Rows /\ row[Root].state = "running" /\ row[Root].provisioned /\ ~row[Root].ended
      /\ row[Root].above = {} /\ row[Root].budget = Budget /\ row[Root].cap = Budget
  <2> DEFINE run == "running"
             yes == TRUE
             N(r) == [r EXCEPT !.state = run, !.budget = Budget, !.cap = Budget, !.provisioned = yes]
  <2>1. ~NoRow.ended /\ NoRow.above = {} /\ row[Root] = N(NoRow)
    BY <1>3 DEF NoRow
  <2>2. run \in States /\ run = "running" /\ yes \in BOOLEAN /\ yes /\ Budget \in Nat /\ Budget \in Int
    BY Numbers DEF States
  <2> HIDE DEF run, yes
  <2>3. \A r \in Rows : /\ N(r) \in Rows /\ N(r).state = run /\ N(r).provisioned = yes
                         /\ N(r).ended = r.ended /\ N(r).above = r.above
                         /\ N(r).budget = Budget /\ N(r).cap = Budget
    BY <2>2 DEF Rows, States
  <2> HIDE DEF N
  <2> QED BY <1>2, <2>1, <2>2, <2>3
<1>5. row \in [All -> Rows] /\ box \in [All -> Boxes] /\ call \in [Agents -> Calls]
  <2>1. \A a \in All : row[a] \in Rows
    BY <1>2, <1>3, <1>4 DEF All
  <2>2. \A a \in All : box[a] \in Boxes
    BY <1>2, <1>3, Numbers DEF All, Boxes
  <2> QED BY <1>2, <2>1, <2>2 DEF Init
<1>6. SlotTyped /\ SlotsHold
  <2>1. SlotTyped
    BY DEF Init, SlotTyped
  <2>2. Slots!Owners = ops.taken
    BY <1>1 DEF Init, Slots!Owners
  <2>3. Cardinality(ops.taken) <= Cardinality(Others)
    BY <1>1, Finite, FS_Subset
  <2>4. Cardinality(ops.taken) \in Nat /\ Cardinality(Others) \in Nat
    BY <1>1, OwnersCounted
  <2>5. Cardinality(ops.taken) <= ADMISSION_CONCURRENCY
    <3> DEFINE n == Cardinality(ops.taken)
               m == Cardinality(Others)
    <3>1. n <= m /\ m <= ADMISSION_CONCURRENCY /\ n \in Nat /\ m \in Nat
      BY <2>3, <2>4, Numbers
    <3> HIDE DEF n, m
    <3>2. n <= ADMISSION_CONCURRENCY
      BY <3>1, Numbers
    <3> QED BY <3>2 DEF n
  <2> QED BY <2>1, <2>2, <2>5 DEF SlotsHold
<1>7. RestTyped /\ QueueTyped
  BY <1>1, <1>5, <1>6, AgentsInAll DEF Init, RestTyped, QueueTyped
<1>8. QueuesAreTrue
  <2>1. \A a \in All : forkQueue[a] = <<>>
    BY DEF Init
  <2>2. (\A x : ~In(x, <<>>)) /\ Distinct(<<>>)
    BY DEF In, Distinct
  <2>3. \A c \in Agents : ~Lined(c) /\ ~Forks(c)
    BY <1>3 DEF Lined, Forks, NoCall
  <2> QED BY <2>1, <2>2, <2>3 DEF QueuesAreTrue
<1>9. ASSUME NEW a \in Agents
      PROVE  Sound(a)
  <2>1. a \notin registry /\ cmd[a] = "none" /\ a \in All
    BY Finite, AgentsInAll DEF Init
  <2>2. row[a].state = "none" /\ ~row[a].provisioned /\ ~row[a].ended /\ box[a] = NoBox /\ call[a].at = "off"
    BY <1>3 DEF NoRow, NoCall
  <2> QED BY <2>1, <2>2 DEF Sound, Placed, Registered, Bounded
<1>10. Sound(Root)
  <2>1. Root \notin Agents /\ Root \in registry /\ cmd[Root] = "none" /\ box[Root].depth = Budget
    BY <1>3, Finite, AgentsInAll DEF Init
  <2>2. Cardinality(row[Root].above) = 0
    BY <1>4, FS_EmptySet
  <2>3. Bounded(Root)
    BY <1>4, <2>1, <2>2, Numbers DEF Bounded
  <2> QED BY <1>4, <2>1, <2>3 DEF Sound, Registered
<1> QED BY <1>6, <1>7, <1>8, <1>9, <1>10, TypesApart DEF IInv, All

LEMMA StepInv == IInv /\ [Next]_vars => IInv'
<1> SUFFICES ASSUME IInv, [Next]_vars PROVE IInv'
  OBVIOUS
<1>1. RestTyped /\ orphan \subseteq All
  BY InvFacts, AgentsInAll DEF RestTyped
<1>2. ASSUME NEW c \in Agents, ProvisionStep(c) PROVE IInv'
  BY <1>2, WaitInv, LoopTopInv, HoldEndsInv, ForkStartsInv, ForkFailsInv, ForkNotRunningInv, ForkReturnsInv,
     ClosedInv, InjectInv DEF ProvisionStep
<1>3. ASSUME NEW c \in Agents, NEW p \in All, NEW wait \in BOOLEAN,
             NEW v \in {row[p].budget} \cup ops.overrides, Spawn(c, p, v, wait)
      PROVE  IInv'
  BY <1>3, SpawnInv
<1>4. ASSUME NEW a \in All, Command(a) \/ (a \in Agents /\ Cancel(a)) PROVE IInv'
  BY <1>4, CommandInv
<1>5. ASSUME NEW p \in All, OrphanEnds(p) PROVE IInv'
  BY <1>1, <1>5, IdleInv DEF OrphanEnds
<1>6. CASE Restart
  BY <1>6, RestartInv
<1>7. CASE UNCHANGED vars
  BY <1>1, <1>7, IdleInv DEF vars
<1> QED BY <1>2, <1>3, <1>4, <1>5, <1>6, <1>7, AgentsInAll DEF Next

(* Every variable keeps its type.                                            *)
THEOREM SpawnTyped == Spec => []TypeOK
<1>1. IInv => TypeOK
  BY DEF IInv
<1> QED BY <1>1, InitInv, StepInv, PTL DEF Spec

(* However spawns race stops, pauses, each other and restarts: two forks of  *)
(* one parent never run at once, each fork has a slot, a child that was      *)
(* cancelled never joins and keeps no sandbox but one that could not be      *)
(* closed, and no agent is deeper than its budget allows                     *)
(* (spawn.ts:49-302, fork-lock.ts:19-35, admission.ts:46-91).                *)
THEOREM SpawnSafe == Spec => []SpawnsAreSafe
<1>1. IInv => ForksAreSerialized
  <2> SUFFICES ASSUME IInv PROVE ForksAreSerialized
    OBVIOUS
  <2>1. ASSUME NEW c \in Agents, NEW d \in Agents, Forks(c), Forks(d),
               parent(c) = parent(d)
        PROVE  c = d
    BY <2>1 DEF IInv, QueuesAreTrue
  <2>2. ASSUME NEW c \in Agents, Forks(c)
        PROVE  c \in Slots!Owners
    <3>1. Placed(c)
      BY InvFacts, AgentsInAll
    <3> QED BY <2>2, <3>1 DEF Placed, Forks, Slots!Owners
  <2> QED BY <2>1, <2>2 DEF IInv, SlotsHold, ForksAreSerialized
<1>2. IInv => CancelledNeverJoins
  BY InvFacts, AgentsInAll DEF CancelledNeverJoins, Registered
<1>3. IInv => DepthIsBounded
  BY TypesApart DEF IInv, Sound, DepthIsBounded, Bounded, RestTyped
<1>4. IInv => SpawnsAreSafe
  BY <1>1, <1>2, <1>3 DEF SpawnsAreSafe
<1> QED BY <1>4, InitInv, StepInv, PTL DEF Spec
=============================================================================
