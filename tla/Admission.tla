------------------------------ MODULE Admission ------------------------------
(***************************************************************************)
(* apps/alineod/src/engine/admission.ts: the global cap on concurrent      *)
(* provisioning calls (Alineo.start() and parent.spawn()).                 *)
(*                                                                         *)
(* JavaScript runs one task at a time, so each action is one uninterrupted *)
(* stretch of code between two awaits.  acquireAdmission's only await is   *)
(* the Promise.race between the grant and the timer; `race' records which  *)
(* of the two settled it first.  Between the settling of the race and the  *)
(* resumption of the function other code may run, in particular a          *)
(* release(): that window is what the code's `idx !== -1' test is about.   *)
(***************************************************************************)
EXTENDS Naturals, Sequences, FiniteSets, SequencesExt

CONSTANTS Agents,                  \* callers of acquireAdmission
          ADMISSION_CONCURRENCY    \* the configured cap

ASSUME AgentsAssumption == IsFiniteSet(Agents)
ASSUME CapAssumption == ADMISSION_CONCURRENCY \in Nat \ {0}

VARIABLES inUse,    \* the module's counter
          waiters,  \* the queue of waiters, each named by its agent
          race,     \* what settled the caller's Promise.race
          pc        \* where the caller is

vars == <<inUse, waiters, race, pc>>

Init == /\ inUse = 0
        /\ waiters = <<>>
        /\ race = [a \in Agents |-> "none"]
        /\ pc = [a \in Agents |-> "idle"]

-----------------------------------------------------------------------------
(* tryAcquire succeeds: the uncontended path, no await at all.             *)
AcquireNow(a) ==
    /\ pc[a] = "idle"
    /\ inUse < ADMISSION_CONCURRENCY
    /\ inUse' = inUse + 1
    /\ pc' = [pc EXCEPT ![a] = "holding"]
    /\ UNCHANGED <<waiters, race>>

(* tryAcquire fails: push a waiter, start the timer, await the race.       *)
Enqueue(a) ==
    /\ pc[a] = "idle"
    /\ ~(inUse < ADMISSION_CONCURRENCY)
    /\ waiters' = Append(waiters, a)
    /\ pc' = [pc EXCEPT ![a] = "waiting"]
    /\ UNCHANGED <<inUse, race>>

(* sleep(ADMISSION_TIMEOUT_MS) elapses; it settles the race only if the    *)
(* grant has not settled it already.                                       *)
TimerFires(a) ==
    /\ pc[a] = "waiting"
    /\ race[a] = "none"
    /\ race' = [race EXCEPT ![a] = "timer"]
    /\ UNCHANGED <<inUse, waiters, pc>>

(* Mutant: believe the timer without looking whether the waiter is still   *)
(* queued.                                                                 *)
BelieveTimer(a) ==
    /\ pc[a] = "waiting"
    /\ race[a] = "timer"
    /\ waiters' = Remove(waiters, a)
    /\ pc' = [pc EXCEPT ![a] = "timeout"]
    /\ UNCHANGED <<inUse, race>>

(* acquireAdmission resumes after the race: either the waiter is still     *)
(* queued and the timeout is real, or the slot is already this caller's.   *)
ResumeTimedOut(a) ==
    /\ pc[a] = "waiting"
    /\ race[a] = "timer"
    /\ \E i \in 1 .. Len(waiters) :
          /\ waiters[i] = a
          /\ waiters' = RemoveAt(waiters, i)
    /\ pc' = [pc EXCEPT ![a] = "timeout"]
    /\ UNCHANGED <<inUse, race>>

ResumeGranted(a) ==
    /\ pc[a] = "waiting"
    /\ race[a] # "none"
    /\ race[a] = "timer" => a \notin ToSet(waiters)
    /\ pc' = [pc EXCEPT ![a] = "holding"]
    /\ UNCHANGED <<inUse, waiters, race>>

(* Mutant: release() serves the last waiter, waiters.pop().                *)
HandOverToLast(a) ==
    /\ pc[a] = "holding"
    /\ waiters # <<>>
    /\ waiters' = Front(waiters)
    /\ race' = [race EXCEPT ![Last(waiters)] = IF @ = "none" THEN "grant" ELSE @]
    /\ pc' = [pc EXCEPT ![a] = "released"]
    /\ UNCHANGED inUse

(* release(): hand the slot to the first waiter, inUse unchanged, or free  *)
(* it.  provisionRoot and provisionChild call it once, in a finally.       *)
HandOver(a) ==
    /\ pc[a] = "holding"
    /\ waiters # <<>>
    /\ waiters' = Tail(waiters)
    /\ race' = [race EXCEPT ![Head(waiters)] =
                    IF @ = "none" THEN "grant" ELSE @]
    /\ pc' = [pc EXCEPT ![a] = "released"]
    /\ UNCHANGED inUse

Free(a) ==
    /\ pc[a] = "holding"
    /\ waiters = <<>>
    /\ inUse' = inUse - 1
    /\ pc' = [pc EXCEPT ![a] = "released"]
    /\ UNCHANGED <<waiters, race>>

Done == /\ \A a \in Agents : pc[a] \in {"released", "timeout"}
        /\ UNCHANGED vars

Next == \/ \E a \in Agents : \/ AcquireNow(a) \/ Enqueue(a)
                             \/ TimerFires(a)
                             \/ ResumeTimedOut(a) \/ ResumeGranted(a)
                             \/ HandOver(a) \/ Free(a)
        \/ Done

Spec == Init /\ [][Next]_vars

(* Settled promises run their continuations, and every caller releases in  *)
(* a finally once its provisioning call has settled.  The timer is left    *)
(* out: the property below holds of a daemon with no timeout at all.       *)
Fairness == \A a \in Agents : /\ WF_vars(ResumeTimedOut(a))
                              /\ WF_vars(ResumeGranted(a))
                              /\ WF_vars(HandOver(a) \/ Free(a))

FairSpec == Spec /\ Fairness

-----------------------------------------------------------------------------
(* Agents that own a slot: those running with it, and those it was handed  *)
(* to who have not resumed yet.                                            *)
Granted(a) == pc[a] = "waiting" /\ a \notin ToSet(waiters)
SlotOwners == {a \in Agents : pc[a] = "holding" \/ Granted(a)}

(* The caller's standing in AdmissionSlots.                                *)
Standing(a) == CASE pc[a] = "idle"     -> "outside"
                 [] pc[a] = "holding"  -> "owner"
                 [] pc[a] = "timeout"  -> "refused"
                 [] pc[a] = "released" -> "left"
                 [] pc[a] = "waiting"  ->
                      IF a \in ToSet(waiters) THEN "queued" ELSE "owner"

Slots == INSTANCE AdmissionSlots
            WITH status <- [a \in Agents |-> Standing(a)]

TypeOK == /\ inUse \in Nat
          /\ waiters \in Seq(Agents)
          /\ race \in [Agents -> {"none", "grant", "timer"}]
          /\ pc \in [Agents -> {"idle", "waiting", "holding", "timeout", "released"}]

(* The counter is exactly the number of slot owners and never above the    *)
(* cap: no grant racing a timeout leaks a slot or hands one out twice      *)
(* (admission.ts:76-87).                                                   *)
SlotsConserved == /\ inUse = Cardinality(SlotOwners)
                  /\ inUse <= ADMISSION_CONCURRENCY

(* No slot is idle while somebody queues for one, so release() never       *)
(* decrements past a waiter and a new caller never overtakes the queue.    *)
NoIdleSlotWhileQueued == waiters # <<>> => inUse = ADMISSION_CONCURRENCY

(* A caller told "timeout" owns nothing, and one whose grant won the race  *)
(* is out of the queue: a second release() can never grant it again.       *)
QueueMatchesCallers ==
    /\ \A i, j \in 1 .. Len(waiters) : waiters[i] = waiters[j] => i = j
    /\ \A i \in 1 .. Len(waiters) : /\ pc[waiters[i]] = "waiting"
                                    /\ race[waiters[i]] # "grant"
    /\ \A a \in Agents : pc[a] = "waiting" /\ race[a] = "none"
                            => a \in ToSet(waiters)

(* Slots are handed over in arrival order: a queued caller only ever moves *)
(* towards the head.                                                       *)
QueueIsFifo ==
    [][\A i, j \in 1 .. Len(waiters) :
          /\ i < j
          /\ waiters[j] \notin ToSet(waiters')
          => \/ waiters[i] \notin ToSet(waiters')
             \/ pc'[waiters[j]] = "timeout"]_vars

(* Every caller that queues is eventually granted its slot or told it      *)
(* timed out: none is forgotten in the queue.                              *)
EveryWaiterAnswered == []<>(\A a \in Agents : pc[a] # "waiting")

(* Whoever queues is served, in the order of the queue, and a caller that  *)
(* gives up leaves the others' order alone (admission.ts:37-91).           *)
WaitersServedInOrder == QueueIsFifo /\ EveryWaiterAnswered

(* The queue, the counter and the race implement the abstract slot pool.   *)
ImplementsSlots == Slots!Spec
=============================================================================
