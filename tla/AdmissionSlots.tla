--------------------------- MODULE AdmissionSlots ---------------------------
(***************************************************************************)
(* What apps/alineod/src/engine/admission.ts promises, without its queue,  *)
(* counter, timer or promises: at most ADMISSION_CONCURRENCY callers own a *)
(* slot, a caller queues only when all are taken, and a freed slot goes to *)
(* a queued caller in the same step that frees it.                         *)
(***************************************************************************)
EXTENDS Naturals, FiniteSets

CONSTANTS Agents, ADMISSION_CONCURRENCY

VARIABLE status

Owners == {a \in Agents : status[a] = "owner"}
Queued == {a \in Agents : status[a] = "queued"}

Init == status = [a \in Agents |-> "outside"]

Enter(a) == /\ status[a] = "outside"
            /\ Cardinality(Owners) < ADMISSION_CONCURRENCY
            /\ status' = [status EXCEPT ![a] = "owner"]

Queue(a) == /\ status[a] = "outside"
            /\ Cardinality(Owners) = ADMISSION_CONCURRENCY
            /\ status' = [status EXCEPT ![a] = "queued"]

Refuse(a) == /\ status[a] = "queued"
             /\ status' = [status EXCEPT ![a] = "refused"]

Leave(a) == /\ status[a] = "owner"
            /\ \/ /\ Queued = {}
                  /\ status' = [status EXCEPT ![a] = "left"]
               \/ \E b \in Queued :
                     status' = [status EXCEPT ![a] = "left", ![b] = "owner"]

Next == \E a \in Agents : Enter(a) \/ Queue(a) \/ Refuse(a) \/ Leave(a)

Spec == Init /\ [][Next]_status
=============================================================================
