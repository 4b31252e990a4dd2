---------------------------- MODULE DurableProofs ----------------------------
(***************************************************************************)
(* What is promised of an inbox (InboxKeepsItsWord, ImplementsMailbox and  *)
(* NothingSentToPaused of Inbox), for any number of messages, whichever of *)
(* them wake their reader, and however many prompts, pauses, deliveries,   *)
(* restarts, retries and lost answers. And what is promised of a sandbox   *)
(* that is resumed (SessionSurvives of SandboxSession), for any program,   *)
(* settings, checkpoints and number of sessions; of the facts of a memory  *)
(* (FactsAreKept of Memory), however compactions and forks overlap; of the *)
(* backups of it all (BackupsAreWhole of Backup), for any jobs; and of the *)
(* checkpoints of an agent (SomeCopyIsFound and TurnsComeBack of           *)
(* AgentCheckpoint), for any turns, retention, margin, losses and faults.  *)
(***************************************************************************)
EXTENDS Inbox, AgentCheckpoint, SandboxSession, Memory, Backup,
        SequenceTheorems, FiniteSetTheorems, WellFoundedInduction, TLAPS

Inboxes == {"none", "pending", "delivered", "dropped"}

(* A message is queued when all before it are, and given when it is queued.  *)
QueuedInOrder ==
    /\ \A m, k \in Messages : m < k /\ status[k] # "none" => status[m] # "none"
    /\ \A m \in Messages : told[m] > 0 => status[m] # "none"

(* What a prompt has or took along is marked delivered, and everything      *)
(* before it was settled with it or earlier.                                 *)
HandedWell ==
    /\ \A m \in Messages : Handed(m) => status[m] = "delivered"
    /\ \A m, k \in Messages : m < k /\ Handed(k) => status[m] \notin {"none", "pending"}

(* What a steer carries was queued and is not dropped meanwhile, and what is *)
(* before it and was not given it carries too, or a prompt took it. Once it  *)
(* is taken, it was given.                                                   *)
SteerCarriesAll ==
    /\ \A k \in steer.seqs : status[k] \notin {"none", "dropped"}
    /\ \A k \in steer.seqs, m \in Messages :
          m < k => m \in steer.seqs \/ told[m] > 0 \/ status[m] = "dropped" \/ Handed(m)
    /\ steer.pc = "taken" => \A m \in steer.seqs : told[m] > 0
    /\ steer.pc = "none" => steer = NoSteer

(* An agent that has not finished a turn may be paused before its first; one *)
(* that is not registered yet was given nothing.                             *)
FreshIsOpen == state = "provisioning" \/ (state = "paused" /\ from = "provisioning") => ~ended
FreshWasToldNothing ==
    state = "provisioning" /\ ~reg =>
        steer = NoSteer /\ prompts = {} /\ \A m \in Messages : told[m] = 0

(* A stopped agent is no longer registered: no prompt reaches it.            *)
AbortedIsOut == state = "aborted" => ~reg

(* Undisturbed, a message that is pending and was given is one that the      *)
(* steer in flight has just brought, what it carries is pending, and what a  *)
(* prompt has was not given, by it or another.                               *)
Unsettled(m) == status[m] = "pending" /\ told[m] > 0
OnlyBySteer ==
    /\ \A m \in Messages : told[m] <= 1
    /\ \A m \in Messages : Unsettled(m) => m \in steer.seqs /\ steer.pc = "taken"
    /\ steer.pc = "sent" => \A m \in steer.seqs : told[m] = 0
    /\ \A m \in steer.seqs : status[m] = "pending"
OneAtATime ==
    /\ \A b \in prompts : \A m \in b : told[m] = 0
    /\ \A b, c \in prompts : \A m \in b : m \in c => b = c
OnlyByChain == Undisturbed => OnlyBySteer /\ OneAtATime

(* The steer in flight is that of the first call in the chain.               *)
SteerHeadsChain == steer.pc # "none" => chain # <<>>

Order == QueuedInOrder /\ HandedWell /\ SteerCarriesAll /\ DeliveredWasTold /\ ToldInOrder
Fresh == FreshIsOpen /\ FreshWasToldNothing /\ AbortedIsOut
IInv == TypeOK /\ SteerHeadsChain /\ Order /\ Fresh /\ OnlyByChain

-----------------------------------------------------------------------------
(* Settling and telling, as functions of the messages.                       *)
LEMMA SettleFacts ==
    ASSUME TypeOK, NEW seqs \in SUBSET Messages, NEW to \in Inboxes, Settle(seqs, to)
    PROVE  /\ status' \in [Messages -> Inboxes]
           /\ \A m \in Messages : IF m \in seqs /\ status[m] = "pending"
                                  THEN status'[m] = to ELSE status'[m] = status[m]
  BY DEF TypeOK, Settle, Inboxes

LEMMA TellFacts ==
    ASSUME TypeOK, NEW seqs \in SUBSET Messages, Tell(seqs)
    PROVE  /\ told' \in [Messages -> Nat]
           /\ \A m \in Messages : IF m \in seqs THEN told'[m] = told[m] + 1 ELSE told'[m] = told[m]
  BY DEF TypeOK, Tell

(* Who was handed to a prompt is a message, and has a status.                *)
LEMMA MailFacts ==
    ASSUME TypeOK
    PROVE  /\ \A m \in Messages : told[m] \in Nat /\ status[m] \in Inboxes
           /\ steer.seqs \subseteq Messages /\ pending \subseteq Messages
           /\ \A b \in prompts : b \subseteq Messages
           /\ \A m : m \in pending <=> m \in Messages /\ status[m] = "pending"
  BY DEF TypeOK, Inboxes, pending

(* A prompt takes all that is pending.                                       *)
LEMMA HandsPending ==
    ASSUME IInv, DriveWithInbox, UNCHANGED <<told, cut, steer>>,
           \/ ~Undisturbed'
           \/ steer = NoSteer /\ count' = count
    PROVE  status' \in [Messages -> Inboxes] /\ Order' /\ OnlyByChain'
<1> USE DEF IInv
<1>1. pending \in SUBSET Messages
  BY DEF pending
<1>2. /\ status' \in [Messages -> Inboxes]
      /\ \A m \in Messages : status'[m] = IF status[m] = "pending" THEN "delivered" ELSE status[m]
  BY <1>1, SettleFacts DEF pending, Inboxes, DriveWithInbox
<1>3. \A m \in Messages : Handed(m)' <=> Handed(m) \/ status[m] = "pending"
  BY MailFacts DEF Handed, DriveWithInbox
<1>4. \A m \in Messages : told[m] \in Nat /\ status[m] \in Inboxes
  BY MailFacts
<1>5. steer.seqs \subseteq Messages
  BY DEF TypeOK
<1>6. QueuedInOrder'
  BY <1>2 DEF Order, QueuedInOrder
<1>7. HandedWell'
  <2>1. \A m \in Messages : Handed(m)' => status'[m] = "delivered"
    BY <1>2, <1>3 DEF Order, HandedWell
  <2>2. ASSUME NEW m \in Messages, NEW k \in Messages, m < k, Handed(k)'
        PROVE  status'[m] \notin {"none", "pending"}
    BY <1>2, <1>3, <1>4, <2>2 DEF Order, HandedWell, QueuedInOrder, Inboxes
  <2> QED
    BY <2>1, <2>2 DEF HandedWell
<1>8. SteerCarriesAll'
  BY <1>2, <1>3, <1>4, <1>5 DEF Order, SteerCarriesAll
<1>9. DeliveredWasTold' /\ ToldInOrder'
  BY <1>2, <1>3, <1>4 DEF Order, DeliveredWasTold, ToldInOrder
<1>10. OnlyByChain'
  <2> SUFFICES ASSUME Undisturbed, steer = NoSteer
               PROVE  OnlyByChain'
    BY DEF OnlyByChain, Undisturbed
  <2>1. OnlyBySteer /\ OneAtATime /\ steer.seqs = {}
    BY DEF OnlyByChain, NoSteer
  <2>2. \A m \in Messages : told[m] <= 1 /\ ~Unsettled(m)
    BY <2>1 DEF OnlyBySteer
  <2>3. OnlyBySteer'
    BY <1>2, <2>1, <2>2 DEF OnlyBySteer, Unsettled
  <2>4. \A m \in pending : told[m] = 0 /\ \A b \in prompts : m \notin b
    BY <1>4, <2>2, MailFacts DEF Unsettled, Order, HandedWell, Handed
  <2>5. prompts' = prompts \cup ({pending} \ {{}})
    BY DEF DriveWithInbox
  <2>6. OneAtATime'
    BY <2>1, <2>4, <2>5 DEF OneAtATime
  <2> QED
    BY <2>3, <2>6 DEF OnlyByChain
<1> QED
  BY <1>2, <1>6, <1>7, <1>8, <1>9, <1>10 DEF Order

(* A step that gives the agent nothing and settles nothing; a prompt may go  *)
(* down, with what it had.                                                   *)
LEMMA TellsNothing ==
    ASSUME IInv, UNCHANGED <<status, told>>, steer' = NoSteer \/ steer' = steer,
           prompts' \in SUBSET prompts, cut' = cut \cup UNION (prompts \ prompts'),
           Undisturbed' => Undisturbed,
           \/ steer' = steer
           \/ steer.pc # "taken"
           \/ ~Undisturbed'
    PROVE  Order' /\ OnlyByChain'
<1> USE DEF IInv
<1>1. \A m \in Messages : Handed(m)' <=> Handed(m)
  BY DEF Handed
<1>2. steer.seqs \subseteq Messages
  BY DEF TypeOK
<1>3. QueuedInOrder' /\ HandedWell' /\ DeliveredWasTold' /\ ToldInOrder'
  BY <1>1 DEF Order, QueuedInOrder, HandedWell, DeliveredWasTold, ToldInOrder
<1>4. SteerCarriesAll'
  BY <1>1, <1>2 DEF Order, SteerCarriesAll, NoSteer
<1>5. OnlyByChain'
  <2> SUFFICES ASSUME Undisturbed' PROVE (OnlyBySteer /\ OneAtATime)'
    BY DEF OnlyByChain
  <2>1. OnlyBySteer /\ OneAtATime
    BY DEF OnlyByChain
  <2>2. OnlyBySteer'
    BY <2>1 DEF OnlyBySteer, Unsettled, NoSteer
  <2>3. OneAtATime'
    BY <2>1 DEF OneAtATime
  <2> QED
    BY <2>2, <2>3
<1> QED
  BY <1>3, <1>4, <1>5 DEF Order

(* The agent reads a prompt.                                                 *)
LEMMA PromptInv ==
    ASSUME IInv, NEW b \in prompts, PromptReaches(b)
    PROVE  told' \in [Messages -> Nat] /\ Order' /\ OnlyByChain'
<1> USE DEF IInv
<1>2. UNCHANGED <<status, steer, cut>> /\ b \subseteq Messages
  BY MailFacts DEF PromptReaches
<1>3. /\ told' \in [Messages -> Nat]
      /\ \A m \in Messages : told'[m] = IF m \in b THEN told[m] + 1 ELSE told[m]
  BY <1>2, TellFacts DEF PromptReaches
<1>4. prompts' \in {prompts, prompts \ {b}}
  BY DEF PromptReaches
<1>5. \A m \in Messages : (m \in b => Handed(m)) /\ (Handed(m)' => Handed(m)) /\ (Handed(m) => Handed(m)' \/ m \in b)
  BY <1>2, <1>4 DEF Handed
<1>6. /\ \A m \in Messages : told[m] \in Nat /\ status[m] \in Inboxes
      /\ steer.seqs \subseteq Messages
  BY MailFacts
<1>7. QueuedInOrder'
  BY <1>2, <1>3, <1>5 DEF Order, QueuedInOrder, HandedWell
<1>8. HandedWell'
  BY <1>2, <1>5 DEF Order, HandedWell
<1>9. SteerCarriesAll'
  BY <1>2, <1>3, <1>5, <1>6 DEF Order, SteerCarriesAll
<1>10. DeliveredWasTold'
  BY <1>2, <1>3, <1>5, <1>6 DEF Order, DeliveredWasTold
<1>11. ToldInOrder'
  <2> SUFFICES ASSUME NEW m \in Messages, NEW k \in Messages, m < k, told'[k] > 0
               PROVE  (told[m] > 0 \/ status[m] = "dropped" \/ Handed(m))'
    BY DEF ToldInOrder
  <2>1. told[m] > 0 \/ status[m] = "dropped" \/ Handed(m)
    <3>1. CASE told[k] > 0
      BY <3>1 DEF Order, ToldInOrder
    <3>2. CASE ~(told[k] > 0)
      <4>1. k \in b
        BY <3>2, <1>3
      <4>2. status[m] \notin {"none", "pending"}
        BY <4>1, <1>5 DEF Order, HandedWell
      <4> QED
        BY <4>2, <1>6 DEF Order, DeliveredWasTold, Inboxes
    <3> QED
      BY <3>1, <3>2
  <2> QED
    BY <2>1, <1>2, <1>3, <1>5, <1>6
<1>12. OnlyByChain'
  <2> SUFFICES ASSUME Undisturbed' PROVE (OnlyBySteer /\ OneAtATime)'
    BY DEF OnlyByChain
  <2>1. count' = count /\ prompts' = prompts \ {b}
    <3>1. count.retries \in Nat
      BY InboxAssumption DEF TypeOK
    <3>2. ~(count' = [count EXCEPT !.retries = @ + 1])
      BY <3>1 DEF Undisturbed, TypeOK
    <3> QED
      BY <3>2 DEF PromptReaches, Counts
  <2>2. OnlyBySteer /\ OneAtATime
    BY <2>1 DEF OnlyByChain, Undisturbed
  <2>3. \A m \in b : told[m] = 0 /\ m \notin steer.seqs /\ status[m] = "delivered"
    BY <1>2, <1>5, <2>2 DEF OneAtATime, OnlyBySteer, Order, HandedWell
  <2>4. OnlyBySteer'
    BY <1>2, <1>3, <1>6, <2>2, <2>3 DEF OnlyBySteer, Unsettled
  <2>5. OneAtATime'
    BY <1>2, <1>3, <2>1, <2>2, MailFacts DEF OneAtATime
  <2> QED
    BY <2>4, <2>5
<1> QED
  BY <1>3, <1>7, <1>8, <1>9, <1>10, <1>11, <1>12 DEF Order

(* A message is queued after all others.                                     *)
LEMMA QueueInv ==
    ASSUME IInv, NEW q \in Messages, Queue(q)
    PROVE  Order' /\ OnlyByChain'
<1> USE DEF IInv
<1>1. /\ \A m \in Messages : status'[m] = IF m = q THEN "pending" ELSE status[m]
      /\ status[q] = "none" /\ \A k \in Messages : k < q => status[k] # "none"
      /\ UNCHANGED <<told, steer, count, prompts, cut>>
  <2>1. status \in [Messages -> Inboxes] /\ N \in Nat
    BY InboxAssumption DEF TypeOK, Inboxes
  <2>2. status' = [status EXCEPT ![q] = "pending"] /\ status[q] = "none"
        /\ (\A k \in 1 .. q - 1 : status[k] # "none")
        /\ UNCHANGED <<told, steer, count, prompts, cut>>
    BY DEF Queue, handed
  <2>3. \A k \in Messages : k < q => k \in 1 .. q - 1
    BY <2>1 DEF Messages
  <2> QED
    BY <2>1, <2>2, <2>3
<1>2. /\ \A m \in Messages : told[m] \in Nat /\ status[m] \in Inboxes
      /\ steer.seqs \subseteq Messages
  BY MailFacts
<1>3. \A m \in Messages : Handed(m)' <=> Handed(m)
  BY <1>1 DEF Handed
<1>4. QueuedInOrder'
  BY <1>1 DEF Order, QueuedInOrder
<1>5. HandedWell'
  <2>1. \A m \in Messages : Handed(m) => m # q
    BY <1>1 DEF Order, HandedWell
  <2>2. \A k \in Messages : Handed(k) => ~(q < k)
    BY <1>1 DEF Order, HandedWell
  <2> QED
    BY <1>1, <1>3, <2>1, <2>2 DEF Order, HandedWell
<1>6. SteerCarriesAll'
  BY <1>1, <1>2, <1>3 DEF Order, SteerCarriesAll
<1>7. DeliveredWasTold' /\ ToldInOrder'
  BY <1>1, <1>3 DEF Order, DeliveredWasTold, ToldInOrder
<1>8. told[q] = 0
  BY <1>1, <1>2 DEF QueuedInOrder, Order
<1>9. OnlyByChain'
  <2> SUFFICES ASSUME Undisturbed PROVE (OnlyBySteer /\ OneAtATime)'
    BY <1>1 DEF OnlyByChain, Undisturbed
  <2>1. OnlyBySteer /\ OneAtATime
    BY DEF OnlyByChain
  <2>2. OnlyBySteer'
    BY <1>1, <1>2, <1>8, <2>1 DEF OnlyBySteer, Unsettled
  <2>3. OneAtATime'
    BY <1>1, <2>1 DEF OneAtATime
  <2> QED
    BY <2>2, <2>3
<1> QED
  BY <1>4, <1>5, <1>6, <1>7, <1>9 DEF Order

(* What is pending when the agent is closed is dropped.                      *)
LEMMA DropsInv ==
    ASSUME IInv, DeliverDrops
    PROVE  Order' /\ OnlyByChain'
<1> USE DEF IInv
<1>1. /\ \A m \in Messages : status'[m] = IF status[m] = "pending" THEN "dropped" ELSE status[m]
      /\ UNCHANGED <<told, steer, count, prompts, cut>> /\ steer.seqs = {}
  BY DEF DeliverDrops, Delivering, NoSteer, Settle, pending, TypeOK, handed
<1>2. steer.seqs \subseteq Messages
  BY DEF TypeOK
<1>3. \A m \in Messages : Handed(m)' <=> Handed(m)
  BY <1>1 DEF Handed
<1>4. QueuedInOrder' /\ HandedWell'
  BY <1>1, <1>3 DEF Order, QueuedInOrder, HandedWell
<1>5. SteerCarriesAll'
  BY <1>1, <1>2, <1>3 DEF Order, SteerCarriesAll
<1>6. DeliveredWasTold' /\ ToldInOrder'
  BY <1>1, <1>3 DEF Order, DeliveredWasTold, ToldInOrder
<1>7. OnlyByChain'
  BY <1>1 DEF OnlyByChain, OnlyBySteer, OneAtATime, Undisturbed, Unsettled
<1> QED
  BY <1>4, <1>5, <1>6, <1>7 DEF Order

(* A steer takes all that is pending.                                        *)
LEMMA SteersInv ==
    ASSUME IInv, DeliverSteers
    PROVE  Order' /\ OnlyByChain'
<1> USE DEF IInv
<1>1. /\ steer' = [seqs |-> pending, pc |-> "sent"] /\ steer = NoSteer
      /\ UNCHANGED <<status, told, count, prompts, cut>>
  BY DEF DeliverSteers, Delivering, handed
<1>2. /\ \A m \in Messages : status[m] \in Inboxes /\ told[m] \in Nat
      /\ \A m \in pending : m \in Messages /\ status[m] = "pending"
      /\ \A m \in Messages : status[m] = "pending" => m \in pending
  BY MailFacts
<1>3. \A m \in Messages : Handed(m)' <=> Handed(m)
  BY <1>1 DEF Handed
<1>4. QueuedInOrder' /\ HandedWell' /\ DeliveredWasTold' /\ ToldInOrder'
  BY <1>1, <1>3 DEF Order, QueuedInOrder, HandedWell, DeliveredWasTold, ToldInOrder
<1>5. ASSUME NEW k \in pending, NEW m \in Messages, m < k
      PROVE  m \in pending \/ told[m] > 0 \/ status[m] = "dropped" \/ Handed(m)
  BY <1>2, <1>5 DEF Order, QueuedInOrder, DeliveredWasTold, Inboxes
<1>6. SteerCarriesAll'
  BY <1>1, <1>2, <1>3, <1>5 DEF SteerCarriesAll
<1>7. OnlyByChain'
  <2> SUFFICES ASSUME Undisturbed
               PROVE  (OnlyBySteer /\ OneAtATime)'
    BY <1>1 DEF OnlyByChain, Undisturbed
  <2>1. OnlyBySteer /\ OneAtATime /\ steer.seqs = {} /\ steer.pc = "none"
    BY <1>1 DEF OnlyByChain, NoSteer
  <2>2. \A m \in Messages : told[m] <= 1 /\ ~Unsettled(m)
    BY <2>1 DEF OnlyBySteer
  <2>3. \A m \in pending : told[m] = 0
    BY <1>2, <2>2 DEF Unsettled
  <2>4. \A m \in Messages : ~Unsettled(m)'
    BY <1>1, <2>2 DEF Unsettled
  <2>5. OnlyBySteer'
    BY <1>1, <1>2, <2>2, <2>3, <2>4 DEF OnlyBySteer
  <2>6. OneAtATime'
    BY <1>1, <2>1 DEF OneAtATime
  <2> QED
    BY <2>5, <2>6
<1> QED
  BY <1>4, <1>6, <1>7 DEF Order

(* The bridge takes the steer.                                               *)
LEMMA ReachesInv ==
    ASSUME IInv, SteerReachesAgent
    PROVE  told' \in [Messages -> Nat] /\ Order' /\ OnlyByChain'
<1> USE DEF IInv
<1>1. /\ steer.pc = "sent" /\ steer'.seqs = steer.seqs /\ steer'.pc = "taken"
      /\ UNCHANGED <<status, count, prompts, cut>>
  BY DEF SteerReachesAgent, TypeOK, handed
<1>2. /\ told' \in [Messages -> Nat]
      /\ \A m \in Messages : told'[m] = IF m \in steer.seqs THEN told[m] + 1 ELSE told[m]
  BY TellFacts DEF SteerReachesAgent, TypeOK
<1>3. steer.seqs \subseteq Messages /\ \A m \in Messages : told[m] \in Nat
  BY DEF TypeOK
<1>4. \A m \in Messages : Handed(m)' <=> Handed(m)
  BY <1>1 DEF Handed
<1>5. QueuedInOrder' /\ HandedWell' /\ DeliveredWasTold'
  BY <1>1, <1>2, <1>3, <1>4 DEF Order, QueuedInOrder, HandedWell, SteerCarriesAll, DeliveredWasTold
<1>6. ToldInOrder'
  BY <1>1, <1>2, <1>3, <1>4 DEF Order, SteerCarriesAll, ToldInOrder
<1>7. SteerCarriesAll'
  BY <1>1, <1>2, <1>3, <1>4 DEF Order, SteerCarriesAll
<1>8. OnlyByChain'
  <2> SUFFICES ASSUME Undisturbed PROVE (OnlyBySteer /\ OneAtATime)'
    BY <1>1 DEF OnlyByChain, Undisturbed
  <2>1. OnlyBySteer /\ OneAtATime
    BY DEF OnlyByChain
  <2>2. OnlyBySteer'
    BY <1>1, <1>2, <1>3, <2>1 DEF OnlyBySteer, Unsettled
  <2>3. \A b \in prompts : \A m \in b : m \in Messages /\ Handed(m)
    BY MailFacts DEF Handed
  <2>4. \A b \in prompts : \A m \in b : m \notin steer.seqs
    BY <2>1, <2>3 DEF OnlyBySteer, Order, HandedWell
  <2>5. OneAtATime'
    BY <1>1, <1>2, <2>1, <2>3, <2>4 DEF OneAtATime
  <2> QED
    BY <2>2, <2>5
<1> QED
  BY <1>2, <1>5, <1>6, <1>7, <1>8 DEF Order

(* A steer that was taken is marked delivered.                               *)
LEMMA ReturnsInv ==
    ASSUME IInv, SteerReturns
    PROVE  Order' /\ OnlyByChain'
<1> USE DEF IInv
<1>1. steer.pc = "taken" /\ steer' = NoSteer /\ UNCHANGED <<told, count, prompts, cut>>
  BY DEF SteerReturns, agent, handed
<1>2. steer.seqs \subseteq Messages
  BY DEF TypeOK
<1>3. \A m \in Messages : status'[m] = IF m \in steer.seqs /\ status[m] = "pending"
                                       THEN "delivered" ELSE status[m]
  BY DEF SteerReturns, Settle, TypeOK
<1>4. \A m \in Messages : Handed(m)' <=> Handed(m)
  BY <1>1 DEF Handed
<1>5. QueuedInOrder' /\ HandedWell'
  BY <1>1, <1>3, <1>4 DEF Order, QueuedInOrder, HandedWell
<1>6. SteerCarriesAll'
  BY <1>1 DEF SteerCarriesAll, NoSteer
<1>7. DeliveredWasTold' /\ ToldInOrder'
  BY <1>1, <1>3, <1>4 DEF Order, SteerCarriesAll, DeliveredWasTold, ToldInOrder
<1>8. OnlyByChain'
  BY <1>1, <1>3 DEF OnlyByChain, OnlyBySteer, OneAtATime, Undisturbed, Unsettled, NoSteer
<1> QED
  BY <1>5, <1>6, <1>7, <1>8 DEF Order


-----------------------------------------------------------------------------
(* Whoever is provisioned has not ended, and an agent that is stopped never  *)
(* comes back to that.                                                       *)
LEMMA StepFresh == IInv /\ [Next]_vars => Fresh'
<1> SUFFICES ASSUME IInv, [Next]_vars PROVE Fresh'
  OBVIOUS
<1> USE DEF IInv, Fresh, TypeOK
<1>1. FreshIsOpen'
  <2>1. CASE UNCHANGED agent
    BY <2>1 DEF FreshIsOpen, agent
  <2>2. CASE DeliverIdle \/ Provisioned \/ Prompt \/ TurnEnds
    BY <2>2 DEF FreshIsOpen, DeliverIdle, Provisioned, Prompt, TurnEnds, DriveWithInbox
  <2>3. CASE Pause \/ Resume
    BY <2>3 DEF FreshIsOpen, Pause, Resume
  <2>4. CASE Stop
    BY <2>4 DEF FreshIsOpen, Stop
  <2> QED
    BY <2>1, <2>2, <2>3, <2>4 DEF Next, Queue, OperatorDelivers, Deliver, DeliverNothing, DeliverDrops, DeliverHolds,
       DeliverSteers, SteerStep, SteerReachesAgent, SteerReturns, SteerThrows, SteerAnswerLost,
       PromptStep, PromptReaches, PromptFails, Restart, vars, agent, handed, Counts
<1>2. FreshWasToldNothing'
  <2> SUFFICES ASSUME state' = "provisioning", ~reg' PROVE FreshWasToldNothing'
    BY DEF FreshWasToldNothing
  <2>1. state = "provisioning" /\ ~reg /\ ~DeliverIdle /\ ~Provisioned /\ ~Prompt
        /\ ~DeliverSteers /\ ~Stop /\ ~TurnEnds /\ ~Pause /\ ~Resume
    BY DEF Next, Queue, OperatorDelivers, Deliver, DeliverNothing, DeliverDrops, DeliverHolds,
       DeliverSteers, DeliverIdle, SteerStep, SteerReachesAgent, SteerReturns, SteerThrows,
       SteerAnswerLost, PromptStep, PromptReaches, PromptFails, Provisioned, Prompt, TurnEnds,
       Pause, Resume, Stop, Restart, DriveWithInbox, vars, agent, FreshIsOpen, handed, Counts
  <2>2. steer = NoSteer /\ prompts = {} /\ \A m \in Messages : told[m] = 0
    BY <2>1 DEF FreshWasToldNothing
  <2>3. steer.pc = "none"
    BY <2>2 DEF NoSteer
  <2>4. UNCHANGED <<steer, told>> /\ prompts' \subseteq prompts
    BY <2>1, <2>2, <2>3 DEF Next, Queue, OperatorDelivers, Deliver, DeliverNothing, DeliverDrops, DeliverHolds,
       SteerStep, SteerReachesAgent, SteerReturns, SteerThrows, SteerAnswerLost, PromptStep,
       PromptReaches, PromptFails, Restart, vars, handed, Counts
  <2> QED
    BY <2>2, <2>4 DEF FreshWasToldNothing
<1>3. AbortedIsOut'
  BY DEF AbortedIsOut, FreshIsOpen, Next, Queue, OperatorDelivers, Deliver, DeliverNothing,
       DeliverDrops, DeliverHolds, DeliverSteers, DeliverIdle, SteerStep, SteerReachesAgent,
       SteerReturns, SteerThrows, SteerAnswerLost, PromptStep, PromptReaches, PromptFails,
       Provisioned, Prompt, TurnEnds, Pause, Resume, Stop, Restart, DriveWithInbox, Closed, vars,
       agent, handed, Counts
<1> QED
  BY <1>1, <1>2, <1>3

(* What becomes of the messages in each step.                                *)
LEMMA StepOrder == IInv /\ [Next]_vars => Order' /\ OnlyByChain'
<1> SUFFICES ASSUME IInv, [Next]_vars PROVE Order' /\ OnlyByChain'
  OBVIOUS
<1>0. /\ TypeOK /\ count.prompts \in Nat /\ count.restarts \in Nat /\ count.losses \in Nat
      /\ count.retries \in Nat
  BY InboxAssumption DEF IInv, TypeOK
<1>1. CASE \E m \in Messages : Queue(m)
  BY <1>1, QueueInv
<1>2. CASE DeliverDrops
  BY <1>2, DropsInv
<1>3. CASE DeliverSteers
  BY <1>3, SteersInv
<1>4. CASE SteerReachesAgent
  BY <1>4, ReachesInv
<1>5. CASE SteerReturns
  BY <1>5, ReturnsInv
<1>6. CASE SteerThrows
  <2>1. UNCHANGED <<status, told, count, prompts, cut>> /\ steer' = NoSteer /\ steer.pc # "taken"
    BY <1>6 DEF SteerThrows, handed
  <2>2. Undisturbed' => Undisturbed
    BY <2>1 DEF Undisturbed
  <2> QED
    BY <2>1, <2>2, TellsNothing
<1>7. CASE DeliverIdle
  <2>1. steer = NoSteer /\ UNCHANGED <<steer, count>>
    BY <1>7 DEF DeliverIdle, Delivering
  <2>2. CASE UNCHANGED <<status, told, prompts, cut>>
    BY <2>1, <2>2, TellsNothing DEF Undisturbed
  <2>3. CASE DriveWithInbox /\ UNCHANGED <<told, cut>>
    BY <2>1, <2>3, HandsPending
  <2> QED
    BY <1>7, <2>2, <2>3 DEF DeliverIdle
<1>8. CASE Provisioned
  <2>1. steer = NoSteer /\ UNCHANGED <<steer, count>>
    BY <1>8 DEF Provisioned, IInv, Fresh, FreshWasToldNothing
  <2>2. CASE UNCHANGED <<status, told, prompts, cut>>
    BY <2>1, <2>2, TellsNothing DEF Undisturbed
  <2>3. CASE DriveWithInbox /\ UNCHANGED <<told, cut>>
    BY <2>1, <2>3, HandsPending
  <2> QED
    BY <1>8, <2>2, <2>3 DEF Provisioned
<1>9. CASE Prompt
  <2>1. steer' = steer /\ count'.prompts = count.prompts + 1
    BY <1>9, <1>0 DEF Prompt, Counts, TypeOK
  <2>2. ~Undisturbed'
    BY <1>0, <2>1 DEF Undisturbed
  <2> QED
    BY <1>9, <2>1, <2>2, HandsPending DEF Prompt
<1>10. CASE Restart
  <2>1. UNCHANGED <<status, told>> /\ steer' = NoSteer
        /\ count'.restarts = count.restarts + 1
        /\ prompts' \in SUBSET prompts /\ cut' = cut \cup UNION (prompts \ prompts')
    BY <1>10, <1>0 DEF Restart, Counts, TypeOK
  <2>2. ~Undisturbed'
    BY <1>0, <2>1 DEF Undisturbed
  <2> QED
    BY <2>1, <2>2, TellsNothing
<1>11. CASE OperatorDelivers \/ DeliverNothing \/ DeliverHolds \/ TurnEnds \/ Pause \/ Resume \/ Stop
            \/ UNCHANGED vars
  <2>1. UNCHANGED <<status, told, steer, prompts, cut>> /\ count'.prompts = count.prompts
        /\ count'.restarts = count.restarts /\ count'.losses = count.losses
        /\ count'.retries = count.retries
    BY <1>11, <1>0 DEF OperatorDelivers, DeliverNothing, DeliverHolds, TurnEnds, Pause, Resume,
       Stop, vars, handed, Counts, TypeOK
  <2>2. Undisturbed' => Undisturbed
    BY <2>1 DEF Undisturbed
  <2> QED
    BY <2>1, <2>2, TellsNothing
<1>12. CASE SteerAnswerLost
  <2>1. UNCHANGED <<status, told, prompts, cut>> /\ steer' = NoSteer
        /\ count'.losses = count.losses + 1
    BY <1>12, <1>0 DEF SteerAnswerLost, Counts, handed, TypeOK
  <2>2. ~Undisturbed'
    BY <1>0, <2>1 DEF Undisturbed
  <2> QED
    BY <2>1, <2>2, TellsNothing
<1>13. CASE \E b \in prompts : PromptReaches(b)
  BY <1>13, PromptInv
<1>14. CASE \E b \in prompts : PromptFails(b)
  <2>1. PICK b \in prompts : PromptFails(b)
    BY <1>14
  <2>2. UNCHANGED <<status, told, steer, count>>
        /\ prompts' = prompts \ {b} /\ cut' = cut \cup b
    BY <2>1 DEF PromptFails
  <2>3. prompts \ prompts' = {b} /\ UNION {b} = b
    BY <2>2
  <2>4. cut' = cut \cup UNION (prompts \ prompts')
    BY <2>2, <2>3
  <2>5. Undisturbed' => Undisturbed
    BY <2>2 DEF Undisturbed
  <2> QED
    BY <2>2, <2>4, <2>5, TellsNothing
<1> QED
  BY <1>1, <1>2, <1>3, <1>4, <1>5, <1>6, <1>7, <1>8, <1>9, <1>10, <1>11, <1>12, <1>13, <1>14
     DEF Next, Deliver, SteerStep, PromptStep

(* Every step keeps the types of the variables.                              *)
LEMMA StepTypes == IInv /\ [Next]_vars => TypeOK'
<1> SUFFICES ASSUME IInv, [Next]_vars PROVE TypeOK'
  OBVIOUS
<1> DEFINE AgentTyped == /\ state \in {"provisioning", "running", "idle", "paused", "aborted"}
                         /\ from \in {"provisioning", "running", "idle"}
                         /\ ended \in BOOLEAN /\ reg \in BOOLEAN
           MailTyped == status \in [Messages -> Inboxes] /\ told \in [Messages -> Nat]
           HandedTyped == prompts \subseteq SUBSET Messages /\ cut \subseteq Messages
           ChainTyped == /\ chain \in Seq(BOOLEAN)
                         /\ steer \in [seqs : SUBSET Messages, pc : {"none", "sent", "taken"}]
           CountTyped == count \in [prompts : 0 .. MaxPrompts, pauses : 0 .. MaxPauses,
                                    delivers : 0 .. MaxDeliver, restarts : 0 .. MaxRestarts,
                                    losses : 0 .. MaxLosses, retries : 0 .. MaxRetries]
<1>0. AgentTyped /\ MailTyped /\ HandedTyped /\ ChainTyped /\ CountTyped
  BY DEF IInv, TypeOK, Inboxes
<1>1. AgentTyped'
  BY <1>0 DEF Next, Queue, OperatorDelivers, Deliver, DeliverNothing, DeliverDrops, DeliverHolds,
       DeliverSteers, DeliverIdle, SteerStep, SteerReachesAgent, SteerReturns, SteerThrows,
       SteerAnswerLost, PromptStep, PromptReaches, PromptFails, Provisioned, Prompt, TurnEnds,
       Pause, Resume, Stop, Restart, DriveWithInbox, vars, agent, handed, Counts
<1>2. MailTyped'
  <2>1. pending \in SUBSET Messages /\ steer.seqs \in SUBSET Messages /\ TypeOK
    BY DEF IInv, TypeOK, pending
  <2>2. \A seqs \in SUBSET Messages, to \in Inboxes : Settle(seqs, to) => status' \in [Messages -> Inboxes]
    BY <2>1, SettleFacts
  <2>3. \A seqs \in SUBSET Messages : Tell(seqs) => told' \in [Messages -> Nat]
    BY <2>1, TellFacts
  <2>4. CASE \E m \in Messages : Queue(m)
    BY <1>0, <2>4 DEF Queue, Inboxes
  <2>5. CASE DeliverDrops \/ SteerReturns \/ SteerReachesAgent
    BY <1>0, <2>1, <2>2, <2>3, <2>5 DEF DeliverDrops, SteerReturns, SteerReachesAgent, Inboxes
  <2>6. CASE DeliverIdle \/ Provisioned \/ Prompt
    <3>1. UNCHANGED told /\ (UNCHANGED status \/ Settle(pending, "delivered"))
      BY <2>6 DEF DeliverIdle, Provisioned, Prompt, DriveWithInbox
    <3> QED
      BY <1>0, <2>1, <2>2, <3>1 DEF Inboxes
  <2>8. CASE \E b \in prompts : PromptReaches(b)
    BY <1>0, <2>3, <2>8 DEF PromptReaches
  <2>7. CASE UNCHANGED <<status, told>>
    BY <1>0, <2>7
  <2> QED
    BY <2>4, <2>5, <2>6, <2>7, <2>8 DEF Next, OperatorDelivers, Deliver, DeliverNothing,
       DeliverHolds, DeliverSteers, SteerStep, SteerThrows, SteerAnswerLost, PromptStep,
       PromptFails, TurnEnds, Pause, Resume, Stop, Restart, vars
<1>5. HandedTyped'
  <2>1. pending \subseteq Messages
    BY DEF pending
  <2>2. CASE \E b \in prompts : prompts' = prompts \ {b} /\ cut' = cut \cup b
    BY <1>0, <2>2
  <2>3. CASE prompts' \in SUBSET prompts /\ cut' = cut \cup UNION (prompts \ prompts')
    BY <1>0, <2>3
  <2>4. CASE UNCHANGED cut /\ prompts' \subseteq prompts \cup {pending}
    BY <1>0, <2>1, <2>4
  <2> QED
    BY <2>2, <2>3, <2>4 DEF Next, Queue, OperatorDelivers, Deliver, DeliverNothing, DeliverDrops,
       DeliverHolds, DeliverSteers, DeliverIdle, SteerStep, SteerReachesAgent, SteerReturns,
       SteerThrows, SteerAnswerLost, PromptStep, PromptReaches, PromptFails, Provisioned, Prompt,
       TurnEnds, Pause, Resume, Stop, Restart, DriveWithInbox, vars, handed
<1>3. ChainTyped'
  <2>1. \/ chain' \in {chain, Append(chain, TRUE), Append(chain, FALSE), <<>>, <<FALSE>>}
        \/ chain # <<>> /\ chain' = Tail(chain)
        \/ steer.pc # "none" /\ chain' = Tail(chain)
    BY DEF Next, Queue, OperatorDelivers, Deliver, DeliverNothing, DeliverDrops, DeliverHolds,
       DeliverSteers, DeliverIdle, Delivering, SteerStep, SteerReachesAgent, SteerReturns,
       SteerThrows, SteerAnswerLost, PromptStep, PromptReaches, PromptFails, Provisioned, Prompt,
       TurnEnds, Pause, Resume, Stop, Restart, DriveWithInbox, vars, handed, Counts
  <2>2. chain' \in Seq(BOOLEAN)
    <3>1. chain # <<>> => Tail(chain) \in Seq(BOOLEAN)
      BY <1>0, HeadTailProperties
    <3>2. \A wake \in BOOLEAN : Append(chain, wake) \in Seq(BOOLEAN)
      BY <1>0, AppendProperties
    <3>3. <<>> \in Seq(BOOLEAN) /\ <<FALSE>> \in Seq(BOOLEAN) /\ TRUE \in BOOLEAN /\ FALSE \in BOOLEAN
      OBVIOUS
    <3>4. steer.pc # "none" => chain # <<>>
      BY DEF IInv, SteerHeadsChain
    <3> QED
      BY <1>0, <2>1, <3>1, <3>2, <3>3, <3>4, Zenon
  <2>3. steer' \in [seqs : SUBSET Messages, pc : {"none", "sent", "taken"}]
    <3>1. pending \in SUBSET Messages
      BY DEF pending
    <3>2. \/ steer' \in {steer, NoSteer, [seqs |-> pending, pc |-> "sent"]}
          \/ steer' = [steer EXCEPT !.pc = "taken"]
      BY DEF Next, Queue, OperatorDelivers, Deliver, DeliverNothing, DeliverDrops, DeliverHolds,
       DeliverSteers, DeliverIdle, SteerStep, SteerReachesAgent, SteerReturns, SteerThrows,
       SteerAnswerLost, PromptStep, PromptReaches, PromptFails, Provisioned, Prompt, TurnEnds,
       Pause, Resume, Stop, Restart, DriveWithInbox, vars, handed, Counts
    <3> QED
      BY <1>0, <3>1, <3>2 DEF NoSteer
  <2> QED
    BY <2>2, <2>3
<1>4. CountTyped'
  <2>1. \/ count' = count
        \/ count.prompts < MaxPrompts /\ count' = [count EXCEPT !.prompts = @ + 1]
        \/ count.pauses < MaxPauses /\ count' = [count EXCEPT !.pauses = @ + 1]
        \/ count.delivers < MaxDeliver /\ count' = [count EXCEPT !.delivers = @ + 1]
        \/ count.restarts < MaxRestarts /\ count' = [count EXCEPT !.restarts = @ + 1]
        \/ count.losses < MaxLosses /\ count' = [count EXCEPT !.losses = @ + 1]
        \/ count.retries < MaxRetries /\ count' = [count EXCEPT !.retries = @ + 1]
    BY DEF Next, Queue, OperatorDelivers, Deliver, DeliverNothing, DeliverDrops, DeliverHolds,
       DeliverSteers, DeliverIdle, SteerStep, SteerReachesAgent, SteerReturns, SteerThrows,
       SteerAnswerLost, PromptStep, PromptReaches, PromptFails, Provisioned, Prompt, TurnEnds,
       Pause, Resume, Stop, Restart, DriveWithInbox, vars, handed, Counts
  <2>2. /\ MaxPrompts \in Nat /\ MaxPauses \in Nat /\ MaxDeliver \in Nat /\ MaxRestarts \in Nat
        /\ MaxLosses \in Nat /\ MaxRetries \in Nat
    BY InboxAssumption
  <2>3. /\ count.prompts \in 0 .. MaxPrompts /\ count.pauses \in 0 .. MaxPauses
        /\ count.delivers \in 0 .. MaxDeliver /\ count.restarts \in 0 .. MaxRestarts
        /\ count.losses \in 0 .. MaxLosses /\ count.retries \in 0 .. MaxRetries
    BY <1>0
  <2>4. /\ count.prompts < MaxPrompts => count.prompts + 1 \in 0 .. MaxPrompts
        /\ count.pauses < MaxPauses => count.pauses + 1 \in 0 .. MaxPauses
        /\ count.delivers < MaxDeliver => count.delivers + 1 \in 0 .. MaxDeliver
        /\ count.restarts < MaxRestarts => count.restarts + 1 \in 0 .. MaxRestarts
        /\ count.losses < MaxLosses => count.losses + 1 \in 0 .. MaxLosses
        /\ count.retries < MaxRetries => count.retries + 1 \in 0 .. MaxRetries
    BY <2>2, <2>3
  <2> QED
    BY <1>0, <2>1, <2>4
<1> QED
  BY <1>1, <1>2, <1>3, <1>4, <1>5 DEF TypeOK, Inboxes

(* The chain and the steer it has in flight.                                 *)
LEMMA StepChain == IInv /\ [Next]_vars => SteerHeadsChain'
<1> SUFFICES ASSUME IInv, [Next]_vars PROVE SteerHeadsChain'
  OBVIOUS
<1> USE DEF SteerHeadsChain
<1>0. chain \in Seq(BOOLEAN) /\ (steer.pc # "none" => chain # <<>>) /\ (steer.pc = "none" => steer = NoSteer)
  BY DEF IInv, TypeOK, Order, SteerCarriesAll
<1>1. CASE steer' = NoSteer
  BY <1>1 DEF NoSteer
<1>2. CASE DeliverSteers
  BY <1>2 DEF DeliverSteers, Delivering
<1>3. CASE SteerReachesAgent
  BY <1>0, <1>3 DEF SteerReachesAgent
<1>4. CASE UNCHANGED <<chain, steer>>
  BY <1>0, <1>4
<1>5. CASE steer' = steer /\ \E wake \in BOOLEAN : chain' = Append(chain, wake)
  BY <1>0, <1>5
<1> QED
  BY <1>0, <1>1, <1>2, <1>3, <1>4, <1>5 DEF Next, Queue, OperatorDelivers, Deliver, DeliverNothing, DeliverDrops, DeliverHolds,
       DeliverIdle, Delivering, SteerStep, SteerReturns, SteerThrows, SteerAnswerLost,
       PromptStep, PromptReaches, PromptFails, Provisioned, Prompt, TurnEnds, Pause, Resume,
       Stop, Restart, DriveWithInbox, vars, handed, Counts

(* At first nothing is queued, and the agent was given nothing.              *)
LEMMA InitInv == Init => IInv
<1> SUFFICES ASSUME Init PROVE IInv
  OBVIOUS
<1>1. TypeOK
  <2>1. /\ 0 \in 0 .. MaxPrompts /\ 0 \in 0 .. MaxPauses
        /\ 0 \in 0 .. MaxDeliver /\ 0 \in 0 .. MaxRestarts /\ 0 \in 0 .. MaxLosses
        /\ 0 \in 0 .. MaxRetries
    BY InboxAssumption
  <2>2. count \in [prompts : 0 .. MaxPrompts, pauses : 0 .. MaxPauses,
                  delivers : 0 .. MaxDeliver, restarts : 0 .. MaxRestarts,
                  losses : 0 .. MaxLosses, retries : 0 .. MaxRetries]
    BY <2>1 DEF Init
  <2>3. steer \in [seqs : SUBSET Messages, pc : {"none", "sent", "taken"}] /\ chain \in Seq(BOOLEAN)
    BY DEF Init, NoSteer
  <2> QED
    BY <2>2, <2>3 DEF Init, TypeOK
<1>2. SteerHeadsChain /\ Fresh
  BY DEF Init, SteerHeadsChain, Fresh, FreshIsOpen, FreshWasToldNothing,
     AbortedIsOut, NoSteer
<1>3. Order
  BY DEF Init, Order, QueuedInOrder, HandedWell, Handed, SteerCarriesAll, DeliveredWasTold, ToldInOrder, NoSteer
<1>4. OnlyByChain
  BY DEF Init, OnlyByChain, OnlyBySteer, OneAtATime, Unsettled, NoSteer
<1> QED
  BY <1>1, <1>2, <1>3, <1>4 DEF IInv

(* The parts of the invariant together.                                      *)
LEMMA StepInv == IInv /\ [Next]_vars => IInv'
  BY StepTypes, StepChain, StepOrder, StepFresh DEF IInv

(* Between two moments at which the agent is paused, with no steer and no    *)
(* prompt in flight, no step gives it anything.                              *)
LEMMA StepPaused ==
    [Next]_vars => (state = "paused" /\ state' = "paused" /\ steer = NoSteer /\ prompts = {}
                      => steer' = NoSteer /\ prompts' = {} /\ told' = told)
<1> SUFFICES ASSUME [Next]_vars, state = "paused", state' = "paused", steer = NoSteer,
                    prompts = {}
             PROVE  steer' = NoSteer /\ prompts' = {} /\ told' = told
  OBVIOUS
<1>1. steer.pc = "none"
  BY DEF NoSteer
<1>2. ~DeliverSteers /\ ~DeliverIdle /\ ~Provisioned /\ ~Prompt /\ ~SteerStep /\ ~PromptStep
  BY <1>1 DEF DeliverSteers, DeliverIdle, Provisioned, Prompt, DriveWithInbox, SteerStep,
     PromptStep, SteerReachesAgent, SteerReturns, SteerThrows, SteerAnswerLost
<1> QED
  BY <1>2 DEF Next, Queue, OperatorDelivers, Deliver, DeliverNothing, DeliverDrops, DeliverHolds,
       TurnEnds, Pause, Resume, Stop, Restart, vars, handed

-----------------------------------------------------------------------------
(* The inbox as a mailbox.                                                   *)

(* What waits is pending, and the agent was not given it.                    *)
LEMMA WaitingFacts ==
    ASSUME IInv
    PROVE  /\ Promise!Waiting = {m \in pending : told[m] = 0}
           /\ Promise!Out = {m \in Messages : told[m] = 0 /\ Handed(m)}
           /\ \A m \in Messages : Handed(m) => status[m] = "delivered"
<1>1. \A m \in Messages : told[m] \in Nat /\ status[m] \in Inboxes
  BY MailFacts DEF IInv
<1>2. \A m \in Messages : Handed(m) => status[m] = "delivered"
  BY DEF IInv, Order, HandedWell
<1>3. \A m \in Messages : Standing(m) = "waiting" <=> status[m] = "pending" /\ told[m] = 0
  BY <1>1, <1>2 DEF Standing, Handed, Inboxes, IInv, Order, DeliveredWasTold
<1>4. \A m \in Messages : Standing(m) \in {"handed", "lost"} <=> told[m] = 0 /\ Handed(m)
  BY <1>1 DEF Standing, Handed
<1> QED
  BY <1>2, <1>3, <1>4 DEF Promise!Waiting, Promise!Out, pending

(* A reader that is closed stays so, and nothing sets out for it.            *)
LEMMA ClosedStays ==
    IInv /\ [Next]_vars /\ Closed => Closed' /\ (OnItsWay' => OnItsWay)
<1> SUFFICES ASSUME IInv, [Next]_vars, Closed PROVE Closed' /\ (OnItsWay' => OnItsWay)
  OBVIOUS
<1>1. ~DeliverSteers /\ ~DeliverIdle /\ ~Stop
  BY DEF DeliverSteers, DeliverIdle, Stop
<1>2. ~Provisioned /\ ~Prompt /\ ~Pause /\ ~Resume
  BY DEF IInv, Fresh, FreshIsOpen, AbortedIsOut, Provisioned, Prompt, Pause, Resume, Closed
<1>3. Closed'
  <2>1. UNCHANGED agent \/ TurnEnds
    BY <1>1, <1>2 DEF Next, Queue, OperatorDelivers, Deliver, DeliverNothing, DeliverDrops,
       DeliverHolds, SteerStep, SteerReachesAgent, SteerReturns, SteerThrows, SteerAnswerLost,
       PromptStep, PromptReaches, PromptFails, Restart, vars, agent
  <2> QED
    BY <2>1 DEF TurnEnds, Closed, agent, IInv, Fresh, AbortedIsOut
<1>4. /\ prompts' \subseteq prompts
      /\ steer' = steer \/ steer' = NoSteer \/ steer' = [steer EXCEPT !.pc = "taken"]
  BY <1>1, <1>2 DEF Next, Queue, OperatorDelivers, Deliver, DeliverNothing, DeliverDrops,
     DeliverHolds, SteerStep, SteerReachesAgent, SteerReturns, SteerThrows, SteerAnswerLost,
     PromptStep, PromptReaches, PromptFails, TurnEnds, Restart, vars, handed
<1>5. steer'.pc = "sent" => steer.pc = "sent"
  BY <1>4 DEF NoSteer, IInv, TypeOK
<1> QED
  BY <1>3, <1>4, <1>5 DEF OnItsWay

(* While something is on its way, the reader is not closed; and a step that  *)
(* leaves the agent alone leaves an open reader open.                        *)
LEMMA ArrivesFacts ==
    ASSUME IInv, [Next]_vars, OnItsWay, UNCHANGED agent
    PROVE  Promise!Arrives
  BY ClosedStays DEF Promise!Arrives, Reader, Closed, agent

(* A prompt takes what waits.                                                *)
LEMMA HandRefines ==
    ASSUME IInv, DriveWithInbox, UNCHANGED <<told, cut>>, ~Closed, ~Closed'
    PROVE  Promise!Next
<1>1. /\ \A m \in Messages : told[m] \in Nat /\ status[m] \in Inboxes
      /\ \A m : m \in pending <=> m \in Messages /\ status[m] = "pending"
  BY MailFacts DEF IInv
<1>2. \A m \in Messages : status'[m] = IF status[m] = "pending" THEN "delivered" ELSE status[m]
  BY <1>1 DEF Settle, DriveWithInbox
<1>3. \A m \in Messages : m \in UNION prompts' <=> m \in UNION prompts \/ status[m] = "pending"
  BY <1>1 DEF DriveWithInbox
<1>4. \A m \in Messages : status[m] = "pending" => m \notin cut /\ m \notin UNION prompts
  BY WaitingFacts DEF Handed
<1>5. \A m \in Messages : m \in Promise!Waiting <=> status[m] = "pending" /\ told[m] = 0
  BY <1>1, WaitingFacts
<1>6. \A m \in Messages : Standing(m)' = IF m \in Promise!Waiting THEN "handed" ELSE Standing(m)
  <2> TAKE m \in Messages
  <2>1. CASE m \in Promise!Waiting
    BY <1>3, <1>5, <2>1 DEF Standing
  <2>2. CASE m \notin Promise!Waiting
    <3>1. CASE status[m] = "pending"
      BY <1>1, <1>5, <2>2, <3>1 DEF Standing
    <3>2. CASE status[m] # "pending"
      <4>1. status'[m] = status[m] /\ (m \in UNION prompts' <=> m \in UNION prompts)
        BY <1>2, <1>3, <3>2
      <4> QED
        BY <4>1, <2>2 DEF Standing
    <3> QED
      BY <3>1, <3>2
  <2> QED
    BY <2>1, <2>2
<1>7. Reader = "open" /\ Reader' = "open"
  BY DEF Reader
<1>8. Promise!Hand
  BY <1>6, <1>7 DEF Promise!Hand, Promise!Become, Promise!Waiting
<1> QED
  BY <1>8 DEF Promise!Next

(* What the agent reads of a steer or a prompt is a Read of the mailbox: all *)
(* that was queued before it is no longer waiting, or is with it.            *)
LEMMA TellRefines ==
    ASSUME IInv, [Next]_vars, OnItsWay, UNCHANGED <<agent, status>>,
           NEW b, b \subseteq Messages, Tell(b),
           \A m \in b : status[m] = "pending" \/ told[m] > 0 \/ Handed(m),
           \A k \in b, m \in Messages : m < k /\ told[k] = 0 =>
               m \in b \/ told[m] > 0 \/ status[m] # "pending",
           \A m \in Messages : m \in UNION prompts' \/ m \in b <=> m \in UNION prompts \/ m \in b,
           UNCHANGED cut
    PROVE  Promise!Next
<1> DEFINE News == {m \in b : told[m] = 0}
<1>1. /\ \A m \in Messages : told[m] \in Nat /\ status[m] \in Inboxes
      /\ \A m : m \in pending <=> m \in Messages /\ status[m] = "pending"
  BY MailFacts DEF IInv
<1>2. \A m \in Messages : told'[m] = IF m \in b THEN told[m] + 1 ELSE told[m]
  BY DEF IInv, TypeOK, Tell
<1>3. News \subseteq Promise!Waiting \cup Promise!Out
  BY <1>1, WaitingFacts
<1>4. \A k \in News, m \in Promise!Waiting : m < k => m \in News
  BY <1>1, WaitingFacts
<1>5. \A m \in Messages : Standing(m)' = IF m \in News THEN "read" ELSE Standing(m)
  <2> TAKE m \in Messages
  <2>1. CASE m \in b
    <3>1. told'[m] > 0
      BY <1>1, <1>2, <2>1
    <3>2. CASE told[m] = 0
      BY <2>1, <3>1, <3>2 DEF Standing
    <3>3. CASE told[m] # 0
      <4>1. told[m] > 0
        BY <1>1, <3>3
      <4> QED
        BY <3>1, <3>3, <4>1 DEF Standing
    <3> QED
      BY <3>2, <3>3
  <2>2. CASE m \notin b
    <3>1. told'[m] = told[m] /\ status'[m] = status[m] /\ (m \in UNION prompts' <=> m \in UNION prompts)
      BY <1>2, <2>2
    <3> QED
      BY <2>2, <3>1 DEF Standing
  <2> QED
    BY <2>1, <2>2
<1>6. Promise!Arrives
  BY ArrivesFacts
<1>7. Promise!Read(News)
  BY <1>4, <1>5, <1>6 DEF Promise!Read, Promise!Become
<1> QED
  BY <1>3, <1>7 DEF Promise!Next

LEMMA SteerRefines == ASSUME IInv, [Next]_vars, SteerReachesAgent PROVE Promise!Next
<1>1. /\ steer.pc = "sent" /\ UNCHANGED <<agent, status, prompts, cut>> /\ Tell(steer.seqs)
      /\ steer.seqs \subseteq Messages /\ OnItsWay
  BY MailFacts DEF SteerReachesAgent, handed, OnItsWay, IInv
<1>2. \A m \in Messages : told[m] \in Nat /\ status[m] \in Inboxes
  BY MailFacts DEF IInv
<1>3. \A m \in steer.seqs : status[m] = "pending" \/ told[m] > 0 \/ Handed(m)
  BY <1>1, <1>2 DEF IInv, Order, SteerCarriesAll, DeliveredWasTold, Inboxes
<1>4. \A k \in steer.seqs, m \in Messages :
          m < k => m \in steer.seqs \/ told[m] > 0 \/ status[m] # "pending"
  BY <1>1, WaitingFacts DEF IInv, Order, SteerCarriesAll
<1> QED
  BY <1>1, <1>3, <1>4, TellRefines

LEMMA PromptRefines ==
    ASSUME IInv, [Next]_vars, NEW b \in prompts, PromptReaches(b) PROVE Promise!Next
<1>1. /\ UNCHANGED <<agent, status, cut>> /\ Tell(b) /\ b \subseteq Messages /\ OnItsWay
      /\ prompts' \in {prompts, prompts \ {b}}
  BY MailFacts DEF PromptReaches, OnItsWay, IInv
<1>2. \A m \in b : Handed(m)
  BY DEF Handed
<1>3. \A k \in b, m \in Messages : m < k => status[m] # "pending"
  BY <1>1, <1>2 DEF IInv, Order, HandedWell
<1>4. \A m \in Messages : m \in UNION prompts' \/ m \in b <=> m \in UNION prompts \/ m \in b
  BY <1>1
<1> QED
  BY <1>1, <1>2, <1>3, <1>4, TellRefines

(* What goes down with prompts is lost.                                      *)
LEMMA LoseRefines ==
    ASSUME IInv, [Next]_vars, prompts # {}, UNCHANGED <<agent, status, told>>,
           prompts' \in SUBSET prompts, cut' = cut \cup UNION (prompts \ prompts')
    PROVE  Promise!Next
<1> DEFINE Downs == {m \in Messages : told[m] = 0 /\ m \in UNION prompts /\ m \notin UNION prompts'}
<1>1. Downs \subseteq Promise!Out
  BY WaitingFacts DEF Handed
<1>2. \A m \in Messages : /\ m \in UNION prompts' => m \in UNION prompts
                          /\ m \in cut' \/ m \in UNION prompts' <=> m \in cut \/ m \in UNION prompts
  OBVIOUS
<1>3. \A m \in Messages : told[m] \in Nat
  BY MailFacts DEF IInv
<1>4. \A m \in Messages : Standing(m)' = IF m \in Downs THEN "lost" ELSE Standing(m)
  <2> TAKE m \in Messages
  <2>1. CASE m \in Downs
    BY <1>2, <2>1 DEF Standing
  <2>2. CASE told[m] > 0
    BY <2>2 DEF Standing
  <2>3. CASE told[m] = 0 /\ m \notin Downs
    <3>1. m \in UNION prompts' <=> m \in UNION prompts
      BY <1>2, <2>3
    <3>2. m \in cut' \ UNION prompts' <=> m \in cut \ UNION prompts
      BY <1>2, <3>1
    <3> QED
      BY <2>3, <3>1, <3>2 DEF Standing
  <2> QED
    BY <1>3, <2>1, <2>2, <2>3
<1>5. Promise!Arrives
  BY ArrivesFacts DEF OnItsWay
<1>6. Promise!Lose(Downs)
  BY <1>4, <1>5 DEF Promise!Lose, Promise!Become
<1> QED
  BY <1>1, <1>6 DEF Promise!Next

(* A message that is queued is sent, and the closed reader's are dropped.    *)
LEMMA QueueRefines == ASSUME IInv, NEW q \in Messages, Queue(q) PROVE Promise!Next
<1>1. /\ \A m \in Messages : status'[m] = IF m = q THEN "pending" ELSE status[m]
      /\ status[q] = "none" /\ \A k \in Messages : k < q => status[k] # "none"
      /\ UNCHANGED <<agent, told, steer, prompts, cut>>
  <2>1. status \in [Messages -> Inboxes] /\ N \in Nat
    BY InboxAssumption DEF IInv, TypeOK, Inboxes
  <2>2. \A k \in Messages : k < q => k \in 1 .. q - 1
    BY <2>1 DEF Messages
  <2> QED
    BY <2>1, <2>2 DEF Queue, handed
<1>2. \A m \in Messages : told[m] \in Nat /\ (told[m] > 0 => status[m] # "none")
  BY DEF IInv, TypeOK, Order, QueuedInOrder
<1>3. told[q] = 0 /\ q \notin UNION prompts /\ q \notin cut
  BY <1>1, <1>2, WaitingFacts DEF Handed
<1>4. Standing(q)' = "waiting" /\ Standing(q) = "unsent"
  BY <1>1, <1>3 DEF Standing
<1>5. \A m \in Messages : Standing(m)' = IF m \in {q} THEN "waiting" ELSE Standing(m)
  BY <1>1, <1>4 DEF Standing
<1>6. \A k \in Messages : k < q => Standing(k) # "unsent"
  BY <1>1 DEF Standing
<1>7. Reader' = Reader
  BY <1>1 DEF Reader, OnItsWay, Closed, agent
<1>8. Promise!Send(q)
  BY <1>4, <1>5, <1>6, <1>7 DEF Promise!Send, Promise!Become
<1> QED
  BY <1>8 DEF Promise!Next

LEMMA DropRefines == ASSUME IInv, DeliverDrops PROVE Promise!Next
<1>1. /\ \A m \in Messages : status'[m] = IF status[m] = "pending" THEN "dropped" ELSE status[m]
      /\ UNCHANGED <<agent, told, steer, prompts, cut>> /\ Closed
  BY DEF DeliverDrops, Settle, pending, IInv, TypeOK, handed
<1>2. \A m \in Messages : m \in Promise!Waiting <=> status[m] = "pending" /\ told[m] = 0
  BY WaitingFacts DEF pending
<1>3. \A m \in Messages : status[m] = "pending" => ~Handed(m)
  BY WaitingFacts
<1>4. \A m \in Messages : Standing(m)' = IF m \in Promise!Waiting THEN "dropped" ELSE Standing(m)
  <2> TAKE m \in Messages
  <2>1. CASE m \in Promise!Waiting
    BY <1>1, <1>2, <1>3, <2>1 DEF Standing, Handed
  <2>2. CASE m \notin Promise!Waiting /\ status[m] = "pending"
    <3>1. told[m] > 0
      BY <1>2, <2>2, MailFacts DEF IInv
    <3> QED
      BY <1>1, <2>2, <3>1 DEF Standing
  <2>3. CASE m \notin Promise!Waiting /\ status[m] # "pending"
    BY <1>1, <2>3 DEF Standing
  <2> QED
    BY <2>1, <2>2, <2>3
<1>5. Reader' = Reader /\ Reader # "open"
  BY <1>1 DEF Reader, OnItsWay, Closed, agent
<1>6. Promise!Drop
  BY <1>4, <1>5 DEF Promise!Drop, Promise!Become
<1> QED
  BY <1>6 DEF Promise!Next

(* A step after which every message stands as before is at most a Close.     *)
LEMMA RestRefines ==
    ASSUME IInv, [Next]_vars, \A m \in Messages : Standing(m)' = Standing(m),
           OnItsWay' => OnItsWay
    PROVE  Promise!Next \/ UNCHANGED <<[m \in Messages |-> Standing(m)], Reader>>
<1>1. UNCHANGED [m \in Messages |-> Standing(m)]
  OBVIOUS
<1>2. CASE Closed'
  <2>1. Reader' \in {"closing", "closed"}
    BY <1>2 DEF Reader
  <2>2. CASE Reader = "closed"
    BY <1>1, <1>2, <2>2 DEF Reader
  <2>3. CASE Reader # "closed"
    BY <1>1, <2>1, <2>3 DEF Promise!Next, Promise!Close
  <2> QED
    BY <2>2, <2>3
<1>3. CASE ~Closed'
  BY <1>1, <1>3, ClosedStays DEF Reader
<1> QED
  BY <1>2, <1>3

(* Every step is a step of the mailbox, or leaves it as it is.               *)
LEMMA StepRefines ==
    IInv /\ [Next]_vars
      => Promise!Next \/ UNCHANGED <<[m \in Messages |-> Standing(m)], Reader>>
<1> SUFFICES ASSUME IInv, [Next]_vars
             PROVE  Promise!Next \/ UNCHANGED <<[m \in Messages |-> Standing(m)], Reader>>
  OBVIOUS
<1>1. CASE \E m \in Messages : Queue(m)
  BY <1>1, QueueRefines
<1>2. CASE DeliverDrops
  BY <1>2, DropRefines
<1>3. CASE SteerReachesAgent
  BY <1>3, SteerRefines
<1>4. CASE UNCHANGED <<status, told, prompts, cut>>
  <2>1. \A m \in Messages : Standing(m)' = Standing(m)
    BY <1>4 DEF Standing
  <2>2. CASE OnItsWay' => OnItsWay
    BY <2>1, <2>2, RestRefines
  <2>3. CASE OnItsWay' /\ ~OnItsWay
    <3>1. ~Closed
      BY <2>3, ClosedStays
    <3>2. UNCHANGED agent
      BY <1>4, <2>3 DEF OnItsWay, Next, Queue, OperatorDelivers, Deliver, DeliverNothing,
         DeliverDrops, DeliverHolds, DeliverSteers, DeliverIdle, SteerStep, SteerReachesAgent,
         SteerReturns, SteerThrows, SteerAnswerLost, PromptStep, PromptReaches, PromptFails,
         Provisioned, Prompt, TurnEnds, Pause, Resume, Stop, Restart, vars, agent
    <3> QED
      BY <2>1, <3>1, <3>2 DEF Reader, Closed, agent
  <2> QED
    BY <2>2, <2>3
<1>5. CASE SteerReturns
  <2>1. /\ UNCHANGED <<told, prompts, cut>> /\ steer.pc = "taken" /\ steer.seqs \subseteq Messages
        /\ steer' = NoSteer
        /\ \A m \in Messages : status'[m] = IF m \in steer.seqs /\ status[m] = "pending"
                                           THEN "delivered" ELSE status[m]
    BY <1>5 DEF SteerReturns, Settle, agent, handed, IInv, TypeOK
  <2>2. \A m \in steer.seqs : told[m] > 0
    BY <2>1 DEF IInv, Order, SteerCarriesAll
  <2>3. \A m \in Messages : Standing(m)' = Standing(m)
    <3> TAKE m \in Messages
    <3>1. CASE m \in steer.seqs
      BY <2>1, <2>2, <3>1 DEF Standing
    <3>2. CASE m \notin steer.seqs
      BY <2>1, <3>2 DEF Standing
    <3> QED
      BY <3>1, <3>2
  <2>4. OnItsWay' => OnItsWay
    BY <2>1 DEF OnItsWay, NoSteer
  <2> QED
    BY <2>3, <2>4, RestRefines
<1>6. CASE DeliverIdle \/ Provisioned \/ Prompt
  <2>1. \/ UNCHANGED <<status, told, prompts, cut>>
        \/ DriveWithInbox /\ UNCHANGED <<told, cut>>
    BY <1>6 DEF DeliverIdle, Provisioned, Prompt
  <2>2. ~Closed
    BY <1>6 DEF DeliverIdle, Provisioned, Prompt, Closed, IInv, Fresh, FreshIsOpen, AbortedIsOut
  <2>3. reg' = TRUE
    BY <1>6 DEF DeliverIdle, Provisioned, Prompt, IInv, TypeOK
  <2>4. DriveWithInbox => ~Closed'
    BY <2>3 DEF DriveWithInbox, Closed
  <2> QED
    BY <1>4, <2>1, <2>2, <2>4, HandRefines
<1>7. CASE \E b \in prompts : PromptReaches(b)
  BY <1>7, PromptRefines
<1>8. CASE \E b \in prompts : PromptFails(b)
  <2>1. PICK b \in prompts : PromptFails(b)
    BY <1>8
  <2>2. UNCHANGED <<agent, status, told>> /\ prompts' = prompts \ {b} /\ cut' = cut \cup b
    BY <2>1 DEF PromptFails
  <2>3. prompts \ prompts' = {b} /\ UNION {b} = b
    BY <2>2
  <2>4. cut' = cut \cup UNION (prompts \ prompts')
    BY <2>2, <2>3
  <2> QED
    BY <2>2, <2>4, LoseRefines
<1>9. CASE Restart
  <2>1. /\ UNCHANGED <<agent, status, told>> /\ prompts' \in SUBSET prompts
        /\ cut' = cut \cup UNION (prompts \ prompts')
    BY <1>9 DEF Restart
  <2>2. CASE prompts = {}
    BY <1>4, <2>1, <2>2
  <2> QED
    BY <2>1, <2>2, LoseRefines
<1> QED
  BY <1>1, <1>2, <1>3, <1>4, <1>5, <1>6, <1>7, <1>8, <1>9 DEF Next, OperatorDelivers, Deliver,
     DeliverNothing, DeliverHolds, DeliverSteers, SteerStep, SteerThrows, SteerAnswerLost,
     PromptStep, TurnEnds, Pause, Resume, Stop, vars, handed

-----------------------------------------------------------------------------
(* What the ledger calls delivered the agent was given, in the order it was  *)
(* queued, unless a prompt has it or took it along; and the chain alone      *)
(* gives it at most once, whatever a steer, prompts, retries, pauses, a      *)
(* stop, crashes and lost answers do to each other (notify.ts:159-226).      *)
THEOREM InboxSafe == Spec => []InboxKeepsItsWord
<1>1. IInv => InboxKeepsItsWord
  BY DEF IInv, Order, OnlyByChain, OnlyBySteer, InboxKeepsItsWord, ToldAsRecorded, ChainTellsOnce
<1> QED
  BY <1>1, InitInv, StepInv, PTL DEF Spec

(* A paused agent is given nothing new (notify.ts:188).                      *)
THEOREM PausedIsLeftAlone == Spec => NothingSentToPaused
  BY StepPaused, PTL DEF Spec, NothingSentToPaused

(* The inbox, with its chain, steers, prompts, pauses, stops and crashes, is *)
(* a mailbox: messages leave it in order, to be read at least once, until    *)
(* its reader is closed, and only a prompt may lose what it took             *)
(* (notify.ts:159-226).                                                      *)
THEOREM InboxRefines == Spec => ImplementsMailbox
<1>1. Init => Promise!Init
  BY DEF Init, Promise!Init, Standing, Reader, OnItsWay, Closed, NoSteer
<1>2. IInv /\ [Next]_vars => [Promise!Next]_<<[m \in Messages |-> Standing(m)], Reader>>
  BY StepRefines
<1>3. Spec => []IInv
  BY InitInv, StepInv, PTL DEF Spec
<1> QED
  BY <1>1, <1>2, <1>3, PTL DEF Spec, ImplementsMailbox, Promise!Spec
-----------------------------------------------------------------------------
(* The sandbox session.                                                      *)

Vals == Rules \cup {"on", "none", "given"}
Disks == [Commands -> Nat]
Events == {"sandbox.created", "sandbox.checkpoint_created", "exec.started", "exec.completed", "set"}

(* A session begins with the policy it was created with; a credential is on, *)
(* or none.                                                                  *)
Began(log) ==
    /\ log # <<>> /\ log[1].ev = "sandbox.created" /\ log[1].val \in [Kept -> Vals]
    /\ \A k \in Creds : log[1].val[k] = "none"
    /\ \A j \in 1 .. Len(log) :
          /\ log[j].ev = "set" => log[j].val \in Vals /\ (log[j].key \in Creds => log[j].val \in {"on", "none"})
          /\ log[j].ev = "exec.completed" => log[j].key \in Commands

(* A command has run once if it did, or not at all if its stream was cut,    *)
(* and else it has not.                                                      *)
Ran(runs, did, n, c) == IF did THEN runs = 1 \/ (runs = 0 /\ n \in c) ELSE runs = 0

(* Of a command that is not blurred, the disk of a checkpoint has one run if *)
(* its completion comes before, unless it was cut, and none otherwise.       *)
Shows(log, i, done, b, c) ==
    log[i].val \in Disks /\ \A n \in Commands \ b : Ran(log[i].val[n], n \in done, n, c)
Snapshots(log, b, c) ==
    \A i \in 1 .. Len(log) :
       log[i].ev = "sandbox.checkpoint_created" => Shows(log, i, CompletedBefore(log, i), b, c)
AllDone(log) == CompletedBefore(log, Len(log) + 1)

Entries ==
    [ev : Events, key : Commands \cup Settings \cup {None},
     val : Vals \cup {None} \cup Disks \cup [Kept -> Vals]]
LogIsSound(log, b, c) == log \in Seq(Entries) /\ Began(log) /\ Snapshots(log, b, c)

SessionTyped ==
    /\ left \in MixOfSessions /\ live \in BOOLEAN
    /\ cmd \in [Commands -> {"new", "cached", "issued", "started", "ran", "done", "failed"}]
    /\ {cache, blurred, adrift, cutOff} \subseteq SUBSET Commands
    /\ disk \in Disks /\ (snap = None \/ snap \in Disks)
    /\ config \in [Kept -> Vals] /\ want \in [Kept -> Vals]
    /\ changes \subseteq Settings \X (Rules \cup {"on", "none"}) /\ torn \subseteq Settings
    /\ \A c \in changes : c[1] \in Creds => c[2] \in {"on", "none"}
    /\ ~live => snap = None /\ changes = {} /\ adrift = {}

Logged ==
    /\ ledger \in Seq(Seq(Entries)) /\ ledger # <<>>
    /\ \A s \in 1 .. Len(ledger) : LogIsSound(ledger[s], blurred, cutOff)

(* The ledger has the completions of this session; what the cache answers    *)
(* was run before, and what completed has run.                               *)
RunOnce ==
    live =>
        /\ AllDone(ledger[Current]) = {n \in Commands : cmd[n] = "done"}
        /\ \A n \in Commands :
              /\ n \in cache => cmd[n] \in {"new", "cached"}
              /\ cmd[n] = "cached" => n \in cache
              /\ n \notin blurred =>
                    /\ Ran(disk[n], n \in cache \/ cmd[n] \in {"ran", "done"}, n, cutOff)
                    /\ n \in adrift => cmd[n] = "done" /\ disk[n] = 0

(* While a snapshot waits to be logged, a command runs only if it is blurred.*)
Waits ==
    live /\ snap # None =>
        /\ cache \subseteq blurred
        /\ \A n \in Commands \ blurred :
              cmd[n] \in {"new", "issued", "failed", "done"} /\ Ran(snap[n], cmd[n] = "done", n, cutOff)

(* The ledger gives each setting back, or will once its change is logged.    *)
Settled ==
    \A k \in Settings \ torn :
        /\ live => config[k] = want[k]
        /\ (\A c \in changes : c[1] # k) => Reconstructed(ledger[Current], k) = want[k]
        /\ \A c \in changes : c[1] = k => c[2] = want[k]

SessionInv == SessionTyped /\ Logged /\ RunOnce /\ Waits /\ Settled

BelowNat == {ss \in Nat \X Nat : ss[1] < ss[2]}

(* A set of numbers that has a bound has a greatest one.                     *)
LEMMA Greatest ==
    ASSUME NEW b \in Nat, NEW T \in SUBSET (1 .. b), T # {}
    PROVE  Max(T) \in T /\ \A t \in T : Max(T) >= t
<1>1. OpToRel(<, Nat) = BelowNat
  BY DEF OpToRel, BelowNat
<1>2. IsWellFoundedOn(BelowNat, Nat)
  BY <1>1, NatLessThanWellFounded
<1>3. PICK U : U = {b - t : t \in T}
  OBVIOUS
<1>4. U \in SUBSET Nat /\ U # {}
  <2>1. \A t \in T : b - t \in Nat
    OBVIOUS
  <2> QED
    BY <1>3, <2>1
<1>5. PICK u \in U : \A w \in U : ~(<<w, u>> \in BelowNat)
  BY <1>2, <1>4, WFMin
<1>6. PICK m \in T : u = b - m
  BY <1>3
<1>7. ASSUME NEW t \in T PROVE m >= t
  <2>1. b - t \in U /\ <<b - t, u>> \in Nat \X Nat /\ <<b - t, u>>[1] = b - t /\ <<b - t, u>>[2] = u
    BY <1>3, <1>4
  <2>2. ~(b - t < u)
    BY <1>5, <2>1 DEF BelowNat
  <2> QED
    BY <1>6, <2>2
<1>8. \E x \in T : \A y \in T : x >= y
  BY <1>7
<1> QED
  BY <1>8 DEF Max

(* Of finitely many things that are numbered one has the greatest number.    *)
LEMMA Topmost ==
    ASSUME NEW S, IsFiniteSet(S), S # {}, NEW f \in [S -> Nat]
    PROVE  \E x \in S : \A y \in S : f[y] <= f[x]
<1>1. OpToRel(<, Nat) = BelowNat
  BY DEF OpToRel, BelowNat
<1>2. IsWellFoundedOn(BelowNat, Nat)
  BY <1>1, NatLessThanWellFounded
<1>3. PICK above : above = [x \in S |-> {y \in S : f[y] > f[x]}]
  OBVIOUS
<1>4. ASSUME NEW T \in SUBSET S PROVE IsFiniteSet(T) /\ Cardinality(T) \in Nat
  BY FS_Subset, FS_CardinalityType
<1>5. PICK sizes : sizes = {Cardinality(above[x]) : x \in S}
  OBVIOUS
<1>6. sizes \in SUBSET Nat /\ sizes # {}
  <2>1. \A x \in S : above[x] \in SUBSET S
    BY <1>3
  <2> QED
    BY <1>4, <1>5, <2>1
<1>7. PICK c \in sizes : \A d \in sizes : ~(<<d, c>> \in BelowNat)
  BY <1>2, <1>6, WFMin
<1>8. PICK x \in S : c = Cardinality(above[x])
  BY <1>5
<1>9. ASSUME NEW y \in S, ~(f[y] <= f[x]) PROVE FALSE
  <2>1. \A z \in S : f[z] \in Nat
    OBVIOUS
  <2>2. f[y] > f[x]
    BY <1>9, <2>1
  <2>3. PICK A, B : A = above[y] /\ B = above[x]
    OBVIOUS
  <2>4. A \in SUBSET B /\ A # B /\ B \in SUBSET S
    <3>1. y \in B /\ y \notin A
      BY <1>3, <2>1, <2>2, <2>3
    <3>2. \A z \in A : z \in B
      BY <1>3, <2>1, <2>2, <2>3
    <3> QED
      BY <1>3, <2>3, <3>1, <3>2
  <2>5. IsFiniteSet(B) /\ Cardinality(A) <= Cardinality(B) /\ Cardinality(A) # Cardinality(B)
    BY <1>4, <2>4, FS_Subset
  <2>6. Cardinality(A) \in sizes /\ Cardinality(B) = c
    BY <1>5, <1>8, <2>3
  <2>7. Cardinality(A) \in Nat /\ c \in Nat
    BY <1>6, <2>6
  <2>8. <<Cardinality(A), c>> \in BelowNat
    <3>1. Cardinality(A) < c
      BY <2>5, <2>6, <2>7
    <3> QED
      BY <2>7, <3>1 DEF BelowNat
  <2> QED
    BY <1>7, <2>6, <2>8
<1> QED
  BY <1>9

(* What one more entry does to what is read from a log.                      *)
LEMMA OneMore ==
    ASSUME NEW log \in Seq(Entries), NEW e \in Entries
    PROVE  /\ Append(log, e) \in Seq(Entries) /\ Len(log) \in Nat /\ Len(Append(log, e)) = Len(log) + 1
           /\ Append(log, e)[Len(log) + 1] = e
           /\ \A j \in 1 .. Len(log) : Append(log, e)[j] = log[j]
           /\ DOMAIN log = 1 .. Len(log) /\ DOMAIN Append(log, e) = 1 .. Len(log) + 1
OBVIOUS

LEMMA CompletedMore ==
    ASSUME NEW log \in Seq(Entries), NEW e \in Entries
    PROVE  /\ \A i \in 1 .. Len(log) + 1 : CompletedBefore(Append(log, e), i) = CompletedBefore(log, i)
           /\ AllDone(Append(log, e)) =
                AllDone(log) \cup IF e.ev = "exec.completed" THEN {e.key} ELSE {}
<1>1. PICK w : w = Append(log, e)
  OBVIOUS
<1>2. PICK n \in Nat : n = Len(log)
  BY OneMore
<1>3. /\ Len(w) = n + 1 /\ w[n + 1] = e /\ DOMAIN log = 1 .. n /\ DOMAIN w = 1 .. n + 1
      /\ \A j \in 1 .. n : w[j] = log[j]
  BY <1>1, <1>2, OneMore
<1>4. ASSUME NEW i \in 1 .. n + 1 PROVE CompletedBefore(w, i) = CompletedBefore(log, i)
  <2>1. {j \in 1 .. n + 1 : j < i /\ w[j].ev = "exec.completed"} = {j \in 1 .. n : j < i /\ log[j].ev = "exec.completed"}
    <3>1. \A j \in 1 .. n + 1 : j < i => j \in 1 .. n
      OBVIOUS
    <3>2. \A j \in 1 .. n : j \in 1 .. n + 1
      OBVIOUS
    <3> QED
      BY <1>3, <3>1, <3>2
  <2>2. PICK J : J = {j \in 1 .. n : j < i /\ log[j].ev = "exec.completed"}
    OBVIOUS
  <2>3. {w[j].key : j \in J} = {log[j].key : j \in J}
    BY <1>3, <2>2
  <2> QED
    BY <1>3, <2>1, <2>2, <2>3 DEF CompletedBefore
<1>5. AllDone(log) = {log[j].key : j \in {j \in 1 .. n : log[j].ev = "exec.completed"}}
  <2>1. {j \in 1 .. n : j < n + 1 /\ log[j].ev = "exec.completed"} = {j \in 1 .. n : log[j].ev = "exec.completed"}
    OBVIOUS
  <2> QED
    BY <1>2, <1>3, <2>1 DEF AllDone, CompletedBefore
<1>6. AllDone(w) = {w[j].key : j \in {j \in 1 .. n + 1 : w[j].ev = "exec.completed"}}
  <2>1. {j \in 1 .. n + 1 : j < (n + 1) + 1 /\ w[j].ev = "exec.completed"} = {j \in 1 .. n + 1 : w[j].ev = "exec.completed"}
    OBVIOUS
  <2> QED
    BY <1>3, <2>1 DEF AllDone, CompletedBefore
<1>7. AllDone(w) = AllDone(log) \cup IF e.ev = "exec.completed" THEN {e.key} ELSE {}
  <2>1. \A j \in 1 .. n + 1 : j \in 1 .. n \/ j = n + 1
    OBVIOUS
  <2>2. (\A j \in 1 .. n : j \in 1 .. n + 1) /\ n + 1 \in 1 .. n + 1
    OBVIOUS
  <2> QED
    BY <1>3, <1>5, <1>6, <2>1, <2>2
<1> QED
  BY <1>1, <1>2, <1>4, <1>7

LEMMA ReconstructedMore ==
    ASSUME NEW log \in Seq(Entries), log # <<>>, NEW e \in Entries, NEW k
    PROVE  Reconstructed(Append(log, e), k) =
             IF e.ev = "set" /\ e.key = k THEN e.val ELSE Reconstructed(log, k)
<1>1. PICK w : w = Append(log, e)
  OBVIOUS
<1>2. PICK n \in Nat : n = Len(log)
  BY OneMore
<1>3. /\ Len(w) = n + 1 /\ w[n + 1] = e /\ DOMAIN log = 1 .. n /\ DOMAIN w = 1 .. n + 1
      /\ \A j \in 1 .. n : w[j] = log[j]
  BY <1>1, <1>2, OneMore
<1>4. PICK at : at = {j \in 1 .. n : log[j].ev = "set" /\ log[j].key = k}
  OBVIOUS
<1>5. PICK more : more = {j \in 1 .. n + 1 : w[j].ev = "set" /\ w[j].key = k}
  OBVIOUS
<1>6. Reconstructed(w, k) = IF more = {} THEN w[1].val[k] ELSE w[Max(more)].val
  BY <1>3, <1>5 DEF Reconstructed
<1>7. Reconstructed(log, k) = IF at = {} THEN log[1].val[k] ELSE log[Max(at)].val
  BY <1>3, <1>4 DEF Reconstructed
<1>8. CASE e.ev = "set" /\ e.key = k
  <2>1. n + 1 \in more /\ more \in SUBSET (1 .. n + 1)
    BY <1>3, <1>5, <1>8
  <2>2. Max(more) \in more /\ Max(more) >= n + 1
    <3>1. n + 1 \in Nat /\ more # {}
      BY <2>1
    <3> QED
      BY <2>1, <3>1, Greatest
  <2>3. Max(more) = n + 1
    <3>1. PICK m \in 1 .. n + 1 : m = Max(more)
      BY <2>1, <2>2
    <3> QED
      BY <2>2, <3>1
  <2> QED
    BY <1>1, <1>3, <1>6, <1>8, <2>1, <2>3
<1>9. CASE ~(e.ev = "set" /\ e.key = k)
  <2>1. more = at
    <3>1. \A j \in 1 .. n + 1 : j \in 1 .. n \/ j = n + 1
      OBVIOUS
    <3>2. \A j \in 1 .. n : j \in 1 .. n + 1
      OBVIOUS
    <3> QED
      BY <1>3, <1>4, <1>5, <1>9, <3>1, <3>2
  <2>2. 1 \in 1 .. n
    BY <1>2, <1>9
  <2>3. at # {} => Max(at) \in 1 .. n
    <3>1. at \in SUBSET (1 .. n)
      BY <1>4
    <3> QED
      BY <3>1, Greatest
  <2> QED
    BY <1>1, <1>3, <1>6, <1>7, <1>9, <2>1, <2>2, <2>3
<1> QED
  BY <1>1, <1>8, <1>9

(* A setting that nobody changed is what the session began with, and what is *)
(* given back is a value that was recorded.                                  *)
LEMMA GivenBack ==
    ASSUME NEW log \in Seq(Entries), Began(log), NEW k \in Kept, "resources" \notin Settings
    PROVE  Reconstructed(log, k) \in Vals /\ (k \in Creds => Reconstructed(log, k) \in {"on", "none"})
<1>1. PICK n \in Nat : n = Len(log) /\ DOMAIN log = 1 .. n
  OBVIOUS
<1>2. PICK at : at = {j \in 1 .. n : log[j].ev = "set" /\ log[j].key = k}
  OBVIOUS
<1>3. Reconstructed(log, k) = IF at = {} THEN log[1].val[k] ELSE log[Max(at)].val
  BY <1>1, <1>2 DEF Reconstructed
<1>4. CASE at = {}
  BY <1>3, <1>4 DEF Began
<1>5. CASE at # {}
  <2>1. at \in SUBSET (1 .. n)
    BY <1>2
  <2>2. Max(at) \in at
    BY <1>5, <2>1, Greatest
  <2>3. PICK m \in 1 .. n : m = Max(at) /\ log[m].ev = "set" /\ log[m].key = k
    BY <1>2, <2>2
  <2> QED
    BY <1>1, <1>3, <1>5, <2>3 DEF Began
<1> QED
  BY <1>4, <1>5

(* A log with one entry more, and one that is looked at when more is blurred.*)
LEMMA SoundMore ==
    ASSUME NEW log, NEW b, NEW c, LogIsSound(log, b, c), NEW e \in Entries, e.ev # "sandbox.created",
           e.ev = "set" => e.val \in Vals /\ (e.key \in Creds => e.val \in {"on", "none"}),
           e.ev = "exec.completed" => e.key \in Commands,
           e.ev = "sandbox.checkpoint_created" =>
              e.val \in Disks /\ \A n \in Commands \ b : Ran(e.val[n], n \in AllDone(log), n, c)
    PROVE  LogIsSound(Append(log, e), b, c)
<1>1. log \in Seq(Entries) /\ Began(log) /\ Snapshots(log, b, c)
  BY DEF LogIsSound
<1>2. PICK w : w = Append(log, e)
  OBVIOUS
<1>3. PICK n \in Nat : n = Len(log)
  BY <1>1, OneMore
<1>4. /\ w \in Seq(Entries) /\ Len(w) = n + 1 /\ w[n + 1] = e
      /\ \A j \in 1 .. n : w[j] = log[j]
  BY <1>1, <1>2, <1>3, OneMore
<1>5. \A j \in 1 .. n + 1 : j \in 1 .. n \/ j = n + 1
  OBVIOUS
<1>6. n # 0 /\ 1 \in 1 .. n
  BY <1>1, <1>3 DEF Began
<1>7. Began(w)
  <2>1. w # <<>> /\ w[1] = log[1]
    BY <1>4, <1>6
  <2> QED
    BY <1>1, <1>3, <1>4, <1>5, <2>1 DEF Began
<1>8. Snapshots(w, b, c)
  <2>1. ASSUME NEW i \in 1 .. n + 1, w[i].ev = "sandbox.checkpoint_created"
        PROVE  Shows(w, i, CompletedBefore(w, i), b, c)
    <3>1. CompletedBefore(w, i) = CompletedBefore(log, i)
      BY <1>1, <1>2, <1>3, CompletedMore
    <3>2. CASE i \in 1 .. n
      BY <1>1, <1>3, <1>4, <2>1, <3>1, <3>2 DEF Snapshots, Shows
    <3>3. CASE i = n + 1
      BY <1>3, <1>4, <2>1, <3>1, <3>3 DEF Shows, AllDone
    <3> QED
      BY <1>5, <3>2, <3>3
  <2> QED
    BY <1>4, <2>1 DEF Snapshots
<1> QED
  BY <1>2, <1>4, <1>7, <1>8 DEF LogIsSound

LEMMA SoundBlurred ==
    ASSUME NEW log, NEW b, NEW c, LogIsSound(log, b, c), NEW d, b \subseteq d, NEW e, c \subseteq e
    PROVE  LogIsSound(log, d, e)
BY DEF LogIsSound, Snapshots, Shows, Ran

-----------------------------------------------------------------------------
(* An entry is written to the ledger of the session that goes on.            *)
LEMMA LogFacts ==
    ASSUME SessionInv, NEW e \in Entries, ledger' = Log(e), e.ev # "sandbox.created",
           e.ev = "set" => e.val \in Vals /\ (e.key \in Creds => e.val \in {"on", "none"}),
           e.ev = "exec.completed" => e.key \in Commands,
           e.ev = "sandbox.checkpoint_created" =>
              e.val \in Disks /\ \A n \in Commands \ blurred : Ran(e.val[n], n \in AllDone(ledger[Current]), n, cutOff),
           blurred \subseteq blurred', cutOff \subseteq cutOff'
    PROVE  /\ Logged'
           /\ AllDone(ledger[Current])' =
                AllDone(ledger[Current]) \cup IF e.ev = "exec.completed" THEN {e.key} ELSE {}
           /\ \A k : Reconstructed(ledger'[Current'], k) =
                IF e.ev = "set" /\ e.key = k THEN e.val ELSE Reconstructed(ledger[Current], k)
<1>1. ledger \in Seq(Seq(Entries)) /\ ledger # <<>> /\ \A s \in 1 .. Len(ledger) : LogIsSound(ledger[s], blurred, cutOff)
  BY DEF SessionInv, Logged
<1>2. PICK n \in Nat \ {0} : n = Len(ledger) /\ n = Current
  BY <1>1 DEF Current
<1>3. PICK log : log = ledger[n]
  OBVIOUS
<1>4. n \in 1 .. n /\ log \in Seq(Entries) /\ LogIsSound(log, blurred, cutOff) /\ log # <<>>
  BY <1>1, <1>2, <1>3 DEF LogIsSound, Began
<1>5. PICK w : w = Append(log, e)
  OBVIOUS
<1>6. w \in Seq(Entries) /\ LogIsSound(w, blurred, cutOff)
  BY <1>2, <1>3, <1>4, <1>5, OneMore, SoundMore
<1>7. /\ ledger' = [ledger EXCEPT ![n] = w] /\ ledger' \in Seq(Seq(Entries)) /\ Len(ledger') = n
      /\ \A s \in 1 .. n : ledger'[s] = IF s = n THEN w ELSE ledger[s]
  <2>1. ledger' = [ledger EXCEPT ![n] = w]
    BY <1>2, <1>3, <1>5 DEF Log
  <2>2. PICK S : S = Seq(Entries)
    OBVIOUS
  <2>3. PICK l \in Seq(S) : l = ledger
    BY <1>1, <2>2
  <2>4. n \in 1 .. Len(l) /\ w \in S
    BY <1>2, <1>4, <1>6, <2>2, <2>3
  <2>5. /\ [l EXCEPT ![n] = w] \in Seq(S) /\ Len([l EXCEPT ![n] = w]) = Len(l)
        /\ \A s \in 1 .. Len(l) : [l EXCEPT ![n] = w][s] = IF s = n THEN w ELSE l[s]
    BY <2>3, <2>4, ExceptSeq
  <2> QED
    BY <1>2, <2>1, <2>2, <2>3, <2>5
<1>8. Current' = n /\ ledger'[Current'] = w /\ ledger[Current] = log
  BY <1>2, <1>3, <1>4, <1>7 DEF Current
<1>9. Logged'
  <2>1. ASSUME NEW s \in 1 .. n PROVE LogIsSound(ledger'[s], blurred', cutOff')
    <3>1. LogIsSound(ledger'[s], blurred, cutOff)
      BY <1>1, <1>2, <1>6, <1>7
    <3> QED
      BY <3>1, SoundBlurred
  <2>2. ledger' # <<>>
    BY <1>2, <1>7
  <2> QED
    BY <1>7, <2>1, <2>2 DEF Logged
<1>10. AllDone(w) = AllDone(log) \cup IF e.ev = "exec.completed" THEN {e.key} ELSE {}
  BY <1>4, <1>5, CompletedMore
<1>11. \A k : Reconstructed(w, k) = IF e.ev = "set" /\ e.key = k THEN e.val ELSE Reconstructed(log, k)
  BY <1>4, <1>5, ReconstructedMore
<1> QED
  BY <1>8, <1>9, <1>10, <1>11

(* The ledger stays as it is, and maybe more is blurred.                     *)
LEMMA LoggedStays ==
    ASSUME SessionInv, ledger' = ledger, blurred \subseteq blurred', cutOff \subseteq cutOff' PROVE Logged'
<1>1. \A s \in 1 .. Len(ledger) : LogIsSound(ledger[s], blurred', cutOff')
  BY SoundBlurred DEF SessionInv, Logged
<1> QED
  BY <1>1 DEF SessionInv, Logged

LEMMA SettledStays ==
    ASSUME SessionInv, UNCHANGED <<live, settings>>,
           \A k : Reconstructed(ledger'[Current'], k) = Reconstructed(ledger[Current], k)
    PROVE  Settled'
BY DEF SessionInv, Settled, settings

LEMMA CommandStays ==
    ASSUME UNCHANGED ledger PROVE /\ \A k : Reconstructed(ledger'[Current'], k) = Reconstructed(ledger[Current], k)
                                  /\ AllDone(ledger[Current])' = AllDone(ledger[Current])
BY DEF Current

-----------------------------------------------------------------------------
(* The commands.                                                             *)
LEMMA IssueInv == ASSUME SessionInv, NEW n \in Commands, Issue(n) PROVE SessionInv'
<1>1. /\ UNCHANGED <<left, ledger, live, cache, disk, adrift, cutOff, snap, settings, blurred>> /\ cmd[n] = "new"
      /\ cmd' = [cmd EXCEPT ![n] = IF n \in cache THEN "cached" ELSE "issued"]
  BY DEF Issue, process
<1>2. UNCHANGED <<config, changes, want, torn>>
  BY <1>1 DEF settings
<1>3. Logged' /\ Settled'
  BY <1>1, LoggedStays, SettledStays, CommandStays
<1>4. SessionTyped'
  BY <1>1, <1>2 DEF SessionInv, SessionTyped
<1>5. \A m \in Commands : cmd'[m] = IF m = n THEN (IF n \in cache THEN "cached" ELSE "issued") ELSE cmd[m]
  BY <1>1 DEF SessionInv, SessionTyped
<1>6. RunOnce'
  <2>1. AllDone(ledger[Current])' = AllDone(ledger[Current])
    BY <1>1, CommandStays
  <2>2. {m \in Commands : cmd[m] = "done"}' = {m \in Commands : cmd[m] = "done"}
    BY <1>1, <1>5
  <2> QED
    BY <1>1, <1>5, <2>1, <2>2 DEF SessionInv, RunOnce, Ran
<1>7. Waits'
  BY <1>1, <1>5 DEF SessionInv, Waits
<1> QED
  BY <1>3, <1>4, <1>6, <1>7 DEF SessionInv

LEMMA StartInv == ASSUME SessionInv, NEW n \in Commands, Start(n) PROVE SessionInv'
<1>1. /\ UNCHANGED <<left, live, cache, disk, adrift, cutOff, snap, settings>> /\ live /\ cmd[n] = "issued"
      /\ cmd' = [cmd EXCEPT ![n] = "started"] /\ ledger' = Log(Entry("exec.started", n, None))
      /\ blurred' = IF snap # None THEN blurred \cup {n} ELSE blurred
  BY DEF Start, process
<1>2. UNCHANGED <<config, changes, want, torn>>
  BY <1>1 DEF settings
<1>3. PICK e : e = Entry("exec.started", n, None)
  OBVIOUS
<1>4. e \in Entries /\ e.ev = "exec.started"
  BY <1>3 DEF Entry, Entries, Events
<1>5. /\ Logged' /\ AllDone(ledger[Current])' = AllDone(ledger[Current])
      /\ \A k : Reconstructed(ledger'[Current'], k) = Reconstructed(ledger[Current], k)
  BY <1>1, <1>3, <1>4, LogFacts
<1>6. Settled'
  BY <1>1, <1>5, SettledStays
<1>7. SessionTyped'
  BY <1>1, <1>2 DEF SessionInv, SessionTyped
<1>8. \A m \in Commands : cmd'[m] = IF m = n THEN "started" ELSE cmd[m]
  BY <1>1 DEF SessionInv, SessionTyped
<1>9. RunOnce'
  <2>1. {m \in Commands : cmd[m] = "done"}' = {m \in Commands : cmd[m] = "done"}
    BY <1>1, <1>8
  <2>2. blurred \subseteq blurred'
    BY <1>1
  <2> QED
    BY <1>1, <1>5, <1>8, <2>1, <2>2 DEF SessionInv, RunOnce, Ran
<1>10. Waits'
  BY <1>1, <1>8 DEF SessionInv, Waits
<1> QED
  BY <1>5, <1>6, <1>7, <1>9, <1>10 DEF SessionInv

LEMMA RunsInv == ASSUME SessionInv, NEW n \in Commands, Runs(n) PROVE SessionInv'
<1>1. /\ UNCHANGED <<left, ledger, live, cache, adrift, cutOff, snap, settings, blurred>> /\ live /\ cmd[n] = "started"
      /\ cmd' = [cmd EXCEPT ![n] = "ran"] /\ disk' = [disk EXCEPT ![n] = disk[n] + 1]
  BY DEF Runs, process
<1>2. UNCHANGED <<config, changes, want, torn>>
  BY <1>1 DEF settings
<1>3. Logged' /\ Settled'
  BY <1>1, LoggedStays, SettledStays, CommandStays
<1>4. disk[n] \in Nat
  BY DEF SessionInv, SessionTyped, Disks
<1>5. SessionTyped'
  <2>1. disk' \in Disks
    BY <1>1, <1>4 DEF SessionInv, SessionTyped, Disks
  <2> QED
    BY <1>1, <1>2, <2>1 DEF SessionInv, SessionTyped
<1>6. \A m \in Commands : /\ cmd'[m] = IF m = n THEN "ran" ELSE cmd[m]
                          /\ disk'[m] = IF m = n THEN disk[n] + 1 ELSE disk[m]
  BY <1>1 DEF SessionInv, SessionTyped, Disks
<1>7. RunOnce'
  <2>1. AllDone(ledger[Current])' = AllDone(ledger[Current])
    BY <1>1, CommandStays
  <2>2. {m \in Commands : cmd[m] = "done"}' = {m \in Commands : cmd[m] = "done"}
    BY <1>1, <1>6
  <2>3. n \notin cache /\ (n \notin blurred => disk[n] = 0)
    BY <1>1 DEF SessionInv, RunOnce, Ran
  <2> QED
    BY <1>1, <1>6, <2>1, <2>2, <2>3 DEF SessionInv, RunOnce, Ran
<1>8. Waits'
  BY <1>1, <1>6 DEF SessionInv, Waits
<1> QED
  BY <1>3, <1>5, <1>7, <1>8 DEF SessionInv

LEMMA CompletesInv == ASSUME SessionInv, NEW n \in Commands, Completes(n) PROVE SessionInv'
<1>1. /\ UNCHANGED <<left, live, cache, disk, adrift, cutOff, snap, settings, blurred>> /\ live /\ cmd[n] = "ran"
      /\ cmd' = [cmd EXCEPT ![n] = "done"] /\ ledger' = Log(Entry("exec.completed", n, None))
  BY DEF Completes, process
<1>2. UNCHANGED <<config, changes, want, torn>>
  BY <1>1 DEF settings
<1>3. PICK e : e = Entry("exec.completed", n, None)
  OBVIOUS
<1>4. e \in Entries /\ e.ev = "exec.completed" /\ e.key = n
  BY <1>3 DEF Entry, Entries, Events
<1>5. /\ Logged' /\ AllDone(ledger[Current])' = AllDone(ledger[Current]) \cup {n}
      /\ \A k : Reconstructed(ledger'[Current'], k) = Reconstructed(ledger[Current], k)
  BY <1>1, <1>3, <1>4, LogFacts
<1>6. Settled'
  BY <1>1, <1>5, SettledStays
<1>7. SessionTyped'
  BY <1>1, <1>2 DEF SessionInv, SessionTyped
<1>8. \A m \in Commands : cmd'[m] = IF m = n THEN "done" ELSE cmd[m]
  BY <1>1 DEF SessionInv, SessionTyped
<1>9. RunOnce'
  <2>1. {m \in Commands : cmd'[m] = "done"} = {m \in Commands : cmd[m] = "done"} \cup {n}
    BY <1>8
  <2> QED
    BY <1>1, <1>5, <1>8, <2>1 DEF SessionInv, RunOnce, Ran
<1>10. Waits'
  BY <1>1, <1>8 DEF SessionInv, Waits
<1> QED
  BY <1>5, <1>6, <1>7, <1>9, <1>10 DEF SessionInv

LEMMA StreamCutInv == ASSUME SessionInv, NEW n \in Commands, StreamCut(n) PROVE SessionInv'
<1>1. /\ UNCHANGED <<live, cache, disk, snap, settings, blurred>> /\ live /\ cmd[n] = "started"
      /\ cmd' = [cmd EXCEPT ![n] = "done"] /\ ledger' = Log(Entry("exec.completed", n, None))
      /\ adrift' = adrift \cup {n} /\ cutOff' = cutOff \cup {n}
  BY DEF StreamCut
<1>2. UNCHANGED <<config, changes, want, torn>>
  BY <1>1 DEF settings
<1>3. PICK e : e = Entry("exec.completed", n, None)
  OBVIOUS
<1>4. e \in Entries /\ e.ev = "exec.completed" /\ e.key = n
  BY <1>3 DEF Entry, Entries, Events
<1>5. /\ Logged' /\ AllDone(ledger[Current])' = AllDone(ledger[Current]) \cup {n}
      /\ \A k : Reconstructed(ledger'[Current'], k) = Reconstructed(ledger[Current], k)
  BY <1>1, <1>3, <1>4, LogFacts
<1>6. Settled'
  BY <1>1, <1>5, SettledStays
<1>7. SessionTyped'
  <2>1. left' \in MixOfSessions
    BY DEF SessionInv, SessionTyped, StreamCut, MixOfSessions
  <2> QED
    BY <1>1, <1>2, <2>1 DEF SessionInv, SessionTyped
<1>8. \A m \in Commands : cmd'[m] = IF m = n THEN "done" ELSE cmd[m]
  BY <1>1 DEF SessionInv, SessionTyped
<1>9. RunOnce'
  <2>1. {m \in Commands : cmd'[m] = "done"} = {m \in Commands : cmd[m] = "done"} \cup {n}
    BY <1>8
  <2>2. n \notin cache /\ (n \notin blurred => disk[n] = 0)
    BY <1>1 DEF SessionInv, RunOnce, Ran
  <2> QED
    BY <1>1, <1>5, <1>8, <2>1, <2>2 DEF SessionInv, RunOnce, Ran
<1>10. Waits'
  BY <1>1, <1>8 DEF SessionInv, Waits, Ran
<1> QED
  BY <1>5, <1>6, <1>7, <1>9, <1>10 DEF SessionInv

LEMMA FailsInv == ASSUME SessionInv, NEW n \in Commands, Fails(n) PROVE SessionInv'
<1>1. /\ UNCHANGED <<ledger, live, cache, disk, cutOff, snap, settings>> /\ live
      /\ cmd[n] \in {"issued", "started", "ran"} /\ cmd' = [cmd EXCEPT ![n] = "failed"]
      /\ adrift' = IF cmd[n] = "started" THEN adrift \cup {n} ELSE adrift
      /\ blurred' = IF cmd[n] = "issued" THEN blurred ELSE blurred \cup {n}
  BY DEF Fails
<1>2. UNCHANGED <<config, changes, want, torn>> /\ blurred \subseteq blurred'
  BY <1>1 DEF settings
<1>3. Logged' /\ Settled'
  BY <1>1, <1>2, LoggedStays, SettledStays, CommandStays
<1>4. SessionTyped'
  <2>1. left' \in MixOfSessions
    BY DEF SessionInv, SessionTyped, Fails, MixOfSessions
  <2> QED
    BY <1>1, <1>2, <2>1 DEF SessionInv, SessionTyped
<1>5. \A m \in Commands : cmd'[m] = IF m = n THEN "failed" ELSE cmd[m]
  BY <1>1 DEF SessionInv, SessionTyped
<1>6. RunOnce'
  <2>1. AllDone(ledger[Current])' = AllDone(ledger[Current])
    BY <1>1, CommandStays
  <2>2. {m \in Commands : cmd[m] = "done"}' = {m \in Commands : cmd[m] = "done"}
    BY <1>1, <1>5
  <2> QED
    BY <1>1, <1>2, <1>5, <2>1, <2>2 DEF SessionInv, RunOnce, Ran
<1>7. Waits'
  BY <1>1, <1>2, <1>5 DEF SessionInv, Waits
<1> QED
  BY <1>3, <1>4, <1>6, <1>7 DEF SessionInv

(* What goes on without its stream runs once more: it had not.               *)
LEMMA GoesOnInv == ASSUME SessionInv, NEW n \in Commands, GoesOn(n) PROVE SessionInv'
<1>1. /\ UNCHANGED <<left, ledger, live, cmd, cache, cutOff, snap, settings, blurred>> /\ live /\ n \in adrift
      /\ adrift' = adrift \ {n} /\ disk' = [disk EXCEPT ![n] = disk[n] + 1]
  BY DEF GoesOn
<1>2. UNCHANGED <<config, changes, want, torn>>
  BY <1>1 DEF settings
<1>3. Logged' /\ Settled'
  BY <1>1, LoggedStays, SettledStays, CommandStays
<1>4. disk[n] \in Nat
  BY DEF SessionInv, SessionTyped, Disks
<1>5. SessionTyped'
  <2>1. disk' \in Disks
    BY <1>1, <1>4 DEF SessionInv, SessionTyped, Disks
  <2> QED
    BY <1>1, <1>2, <2>1 DEF SessionInv, SessionTyped
<1>6. \A m \in Commands : disk'[m] = IF m = n THEN disk[n] + 1 ELSE disk[m]
  BY <1>1 DEF SessionInv, SessionTyped, Disks
<1>7. RunOnce'
  <2>1. AllDone(ledger[Current])' = AllDone(ledger[Current])
    BY <1>1, CommandStays
  <2>2. n \notin blurred => cmd[n] = "done" /\ disk[n] = 0
    BY <1>1 DEF SessionInv, RunOnce
  <2> QED
    BY <1>1, <1>6, <2>1, <2>2 DEF SessionInv, RunOnce, Ran
<1>8. Waits'
  BY <1>1 DEF SessionInv, Waits
<1> QED
  BY <1>3, <1>5, <1>7, <1>8 DEF SessionInv

-----------------------------------------------------------------------------
(* checkpoint().                                                             *)
LEMMA SnapshotTakenInv == ASSUME SessionInv, SnapshotTaken PROVE SessionInv'
<1>1. /\ UNCHANGED <<ledger, live, run, settings>> /\ live /\ snap' = disk
      /\ blurred' = blurred \cup InFlight \cup cache
  BY DEF SnapshotTaken
<1>2. UNCHANGED <<config, changes, want, torn, cmd, cache, disk, adrift, cutOff>> /\ blurred \subseteq blurred'
  BY <1>1 DEF settings, run, process
<1>3. Logged' /\ Settled'
  BY <1>1, <1>2, LoggedStays, SettledStays, CommandStays
<1>4. SessionTyped'
  <2>1. left' \in MixOfSessions
    BY DEF SessionInv, SessionTyped, SnapshotTaken, MixOfSessions
  <2>2. blurred' \subseteq Commands
    BY <1>1 DEF SessionInv, SessionTyped, InFlight
  <2> QED
    BY <1>1, <1>2, <2>1, <2>2 DEF SessionInv, SessionTyped
<1>5. RunOnce'
  <2>1. AllDone(ledger[Current])' = AllDone(ledger[Current])
    BY <1>1, CommandStays
  <2> QED
    BY <1>1, <1>2, <2>1 DEF SessionInv, RunOnce
<1>6. Waits'
  <2>1. ASSUME NEW n \in Commands \ blurred'
        PROVE  cmd[n] \in {"new", "issued", "failed", "done"} /\ Ran(disk[n], cmd[n] = "done", n, cutOff)
    <3>1. n \notin blurred /\ n \notin cache /\ cmd[n] \notin {"issued", "started", "ran"}
      BY <1>1, <2>1 DEF InFlight
    <3>2. cmd[n] # "cached" /\ Ran(disk[n], cmd[n] \in {"ran", "done"}, n, cutOff)
      BY <1>1, <3>1 DEF SessionInv, RunOnce
    <3>3. cmd[n] \in {"new", "cached", "issued", "started", "ran", "done", "failed"}
      BY DEF SessionInv, SessionTyped
    <3> QED
      BY <3>1, <3>2, <3>3 DEF Ran
  <2> QED
    BY <1>1, <1>2, <2>1 DEF Waits
<1> QED
  BY <1>3, <1>4, <1>5, <1>6 DEF SessionInv

LEMMA CheckpointLoggedInv == ASSUME SessionInv, CheckpointLogged PROVE SessionInv'
<1>1. /\ UNCHANGED <<left, live, run, settings, blurred>> /\ live /\ snap # None /\ snap' = None
      /\ ledger' = Log(Entry("sandbox.checkpoint_created", None, snap))
  BY DEF CheckpointLogged
<1>2. UNCHANGED <<config, changes, want, torn, cmd, cache, disk, adrift, cutOff>>
  BY <1>1 DEF settings, run, process
<1>3. PICK e : e = Entry("sandbox.checkpoint_created", None, snap)
  OBVIOUS
<1>4. e.ev = "sandbox.checkpoint_created" /\ e.val = snap /\ snap \in Disks
  BY <1>1, <1>3 DEF Entry, SessionInv, SessionTyped
<1>5. e \in Entries
  BY <1>3, <1>4 DEF Entry, Entries, Events
<1>6. \A n \in Commands \ blurred : Ran(snap[n], n \in AllDone(ledger[Current]), n, cutOff)
  BY <1>1 DEF SessionInv, RunOnce, Waits
<1>7. /\ Logged' /\ AllDone(ledger[Current])' = AllDone(ledger[Current])
      /\ \A k : Reconstructed(ledger'[Current'], k) = Reconstructed(ledger[Current], k)
  BY <1>1, <1>2, <1>3, <1>4, <1>5, <1>6, LogFacts
<1>8. Settled'
  BY <1>1, <1>7, SettledStays
<1>9. SessionTyped'
  BY <1>1, <1>2 DEF SessionInv, SessionTyped
<1>10. RunOnce'
  BY <1>1, <1>2, <1>7 DEF SessionInv, RunOnce
<1>11. Waits'
  BY <1>1 DEF Waits
<1> QED
  BY <1>7, <1>8, <1>9, <1>10, <1>11 DEF SessionInv

-----------------------------------------------------------------------------
(* The settings.                                                             *)
LEMMA RunStays ==
    ASSUME SessionInv, UNCHANGED <<live, run, snap, blurred>>, AllDone(ledger[Current])' = AllDone(ledger[Current])
    PROVE  RunOnce' /\ Waits'
BY DEF SessionInv, RunOnce, Waits, run, process

LEMMA ChangeInv ==
    ASSUME SessionInv, NEW k \in Settings, NEW v \in Values(k) \cup {"none"}, Change(k, v)
    PROVE  SessionInv'
<1>1. /\ UNCHANGED <<ledger, live, run, snap, blurred>> /\ live
      /\ config' = [config EXCEPT ![k] = v] /\ want' = [want EXCEPT ![k] = v]
      /\ changes' = changes \cup {<<k, v>>}
      /\ torn' = IF \E c \in changes : c[1] = k THEN torn \cup {k} ELSE torn
  BY DEF Change
<1>2. v \in Vals /\ v \in Rules \cup {"on", "none"} /\ (k \in Creds => v \in {"on", "none"}) /\ k \in Kept
  BY SessionConstants DEF Values, Vals, Kept, Settings
<1>3. Logged' /\ RunOnce' /\ Waits'
  <2>1. cutOff' = cutOff
    BY <1>1 DEF run, process
  <2> QED
    BY <1>1, <2>1, LoggedStays, CommandStays, RunStays
<1>4. SessionTyped'
  <2>1. left' \in MixOfSessions
    BY DEF SessionInv, SessionTyped, Change, MixOfSessions
  <2>2. config' \in [Kept -> Vals] /\ want' \in [Kept -> Vals]
    BY <1>1, <1>2 DEF SessionInv, SessionTyped
  <2>c. changes' \subseteq Settings \X (Rules \cup {"on", "none"}) /\ torn' \subseteq Settings
    BY <1>1, <1>2 DEF SessionInv, SessionTyped
  <2>3. \A c \in changes' : c[1] \in Creds => c[2] \in {"on", "none"}
    BY <1>1, <1>2 DEF SessionInv, SessionTyped
  <2> QED
    BY <1>1, <2>1, <2>2, <2>c, <2>3 DEF SessionInv, SessionTyped, run, process
<1>5. Settled'
  <2>1. SUFFICES ASSUME NEW q \in Settings \ torn'
                 PROVE  /\ config'[q] = want'[q]
                        /\ (\A c \in changes' : c[1] # q) => Reconstructed(ledger'[Current'], q) = want'[q]
                        /\ \A c \in changes' : c[1] = q => c[2] = want'[q]
    BY DEF Settled
  <2>2. q \in Kept /\ q \notin torn
    BY <1>1 DEF Kept
  <2>3. /\ config'[q] = IF q = k THEN v ELSE config[q]
        /\ want'[q] = IF q = k THEN v ELSE want[q]
    BY <1>1, <1>2, <2>2 DEF SessionInv, SessionTyped
  <2>4. <<k, v>> \in changes' /\ <<k, v>>[1] = k /\ <<k, v>>[2] = v
    BY <1>1
  <2>5. /\ config[q] = want[q]
        /\ (\A c \in changes : c[1] # q) => Reconstructed(ledger[Current], q) = want[q]
        /\ \A c \in changes : c[1] = q => c[2] = want[q]
    BY <1>1, <2>2 DEF SessionInv, Settled
  <2>6. CASE q = k
    <3>1. \A c \in changes : c[1] # k
      BY <1>1, <2>1, <2>6
    <3> QED
      BY <1>1, <2>3, <2>4, <2>6, <3>1
  <2>7. CASE q # k
    <3>1. Reconstructed(ledger'[Current'], q) = Reconstructed(ledger[Current], q)
      BY <1>1, CommandStays
    <3>2. \A c \in changes' : c[1] = q => c \in changes
      BY <1>1, <2>4, <2>7
    <3>3. \A c \in changes : c \in changes'
      BY <1>1
    <3> QED
      BY <2>3, <2>5, <2>7, <3>1, <3>2, <3>3
  <2> QED
    BY <2>6, <2>7
<1> QED
  BY <1>3, <1>4, <1>5 DEF SessionInv

LEMMA ChangeLoggedInv == ASSUME SessionInv, NEW c \in changes, ChangeLogged(c) PROVE SessionInv'
<1>1. /\ UNCHANGED <<left, live, run, snap, config, want, torn, blurred>> /\ live /\ changes' = changes \ {c}
      /\ ledger' = Log(Entry("set", c[1], c[2]))
  BY DEF ChangeLogged
<1>2. PICK e : e = Entry("set", c[1], c[2])
  OBVIOUS
<1>3. c[1] \in Settings /\ c[2] \in Vals /\ (c[1] \in Creds => c[2] \in {"on", "none"})
  BY DEF SessionInv, SessionTyped, Vals
<1>4. e \in Entries /\ e.ev = "set" /\ e.key = c[1] /\ e.val = c[2] /\ c[2] \in Vals /\ c[1] \in Settings
  BY <1>2, <1>3 DEF Entry, Entries, Events
<1>5. /\ Logged' /\ AllDone(ledger[Current])' = AllDone(ledger[Current])
      /\ \A k : Reconstructed(ledger'[Current'], k) = IF c[1] = k THEN c[2] ELSE Reconstructed(ledger[Current], k)
  <2>1. cutOff' = cutOff
    BY <1>1 DEF run, process
  <2> QED
    BY <1>1, <1>2, <1>3, <1>4, <2>1, LogFacts
<1>6. RunOnce' /\ Waits'
  BY <1>1, <1>5, RunStays
<1>7. SessionTyped'
  BY <1>1 DEF SessionInv, SessionTyped, run, process
<1>8. Settled'
  <2>1. SUFFICES ASSUME NEW q \in Settings \ torn
                 PROVE  /\ config[q] = want[q]
                        /\ (\A d \in changes' : d[1] # q) => Reconstructed(ledger'[Current'], q) = want[q]
                        /\ \A d \in changes' : d[1] = q => d[2] = want[q]
    BY <1>1 DEF Settled
  <2>2. /\ config[q] = want[q]
        /\ (\A d \in changes : d[1] # q) => Reconstructed(ledger[Current], q) = want[q]
        /\ \A d \in changes : d[1] = q => d[2] = want[q]
    BY <1>1 DEF SessionInv, Settled
  <2>3. ASSUME \A d \in changes' : d[1] # q PROVE Reconstructed(ledger'[Current'], q) = want[q]
    <3>1. CASE c[1] = q
      BY <1>5, <2>2, <3>1
    <3>2. CASE c[1] # q
      BY <1>1, <1>5, <2>2, <2>3, <3>2
    <3> QED
      BY <3>1, <3>2
  <2> QED
    BY <1>1, <2>2, <2>3
<1> QED
  BY <1>5, <1>6, <1>7, <1>8 DEF SessionInv

LEMMA EndsInv == ASSUME SessionInv, Ends PROVE SessionInv'
<1>1. /\ UNCHANGED <<left, ledger, cutOff, want, blurred>> /\ live' = FALSE /\ changes' = {} /\ snap' = None
      /\ adrift' = {}
      /\ torn' = torn \cup {c[1] : c \in changes} /\ cache' = {}
      /\ cmd' = [n \in Commands |-> "new"] /\ disk' = [n \in Commands |-> 0]
      /\ config' = [k \in Kept |-> "none"]
  BY DEF Ends, Afresh
<1>2. Logged' /\ RunOnce' /\ Waits'
  BY <1>1, LoggedStays DEF RunOnce, Waits
<1>3. SessionTyped'
  <2>1. torn' \subseteq Settings
    BY <1>1 DEF SessionInv, SessionTyped
  <2>2. cmd' \in [Commands -> {"new", "cached", "issued", "started", "ran", "done", "failed"}]
        /\ disk' \in Disks /\ config' \in [Kept -> Vals]
    BY <1>1 DEF Disks, Vals
  <2>3. {cache', blurred', adrift', cutOff'} \subseteq SUBSET Commands
    BY <1>1 DEF SessionInv, SessionTyped
  <2> QED
    BY <1>1, <2>1, <2>2, <2>3 DEF SessionInv, SessionTyped
<1>4. Settled'
  <2>1. ASSUME NEW q \in Settings \ torn' PROVE Reconstructed(ledger'[Current'], q) = want'[q]
    <3>1. q \notin torn /\ \A c \in changes : c[1] # q
      BY <1>1
    <3>2. Reconstructed(ledger[Current], q) = want[q]
      BY <3>1 DEF SessionInv, Settled
    <3>3. Reconstructed(ledger'[Current'], q) = Reconstructed(ledger[Current], q)
      BY <1>1, CommandStays
    <3> QED
      BY <1>1, <3>2, <3>3
  <2> QED
    BY <1>1, <2>1 DEF Settled
<1> QED
  BY <1>2, <1>3, <1>4 DEF SessionInv

-----------------------------------------------------------------------------
(* resume(): the log that a new session begins with.                         *)
FirstLog(boot, order) ==
    <<Entry("sandbox.created", None, boot)>> \o [j \in DOMAIN order |-> Entry("set", order[j], "on")]

OrdersAll(order, bound) ==
    order \in [1 .. Cardinality(bound) -> bound] /\ \A k \in bound : \E j \in DOMAIN order : order[j] = k
BootsClean(boot) == boot \in [Kept -> Vals] /\ \A k \in Creds : boot[k] = "none"
GivesBack(log, boot, bound) ==
    \A k \in Kept : Reconstructed(log, k) = IF k \in bound THEN "on" ELSE boot[k]

LEMMA NewLog ==
    ASSUME NEW boot, BootsClean(boot), NEW bound, bound \subseteq Creds, NEW order, OrdersAll(order, bound),
           NEW log, log = FirstLog(boot, order)
    PROVE  /\ log \in Seq(Entries) /\ \A b, c : LogIsSound(log, b, c)
           /\ AllDone(log) = {}
           /\ GivesBack(log, boot, bound)
<1>0. /\ boot \in [Kept -> Vals] /\ (\A k \in Creds : boot[k] = "none")
      /\ order \in [1 .. Cardinality(bound) -> bound]
      /\ \A k \in bound : \E j \in DOMAIN order : order[j] = k
  BY DEF BootsClean, OrdersAll
<1>1. PICK m \in Nat : m = Cardinality(bound)
  <2>1. IsFiniteSet(bound)
    BY SessionConstants, FS_Subset
  <2>2. Cardinality(bound) \in Nat
    BY <2>1, FS_CardinalityType
  <2> QED
    BY <2>2
<1>2. PICK first : first = Entry("sandbox.created", None, boot)
  OBVIOUS
<1>3. first \in Entries /\ first.ev = "sandbox.created" /\ first.val = boot
  BY <1>0, <1>2 DEF Entry, Entries, Events
<1>4. PICK rest : rest = [j \in 1 .. m |-> Entry("set", order[j], "on")]
  OBVIOUS
<1>5. \A j \in 1 .. m : rest[j] \in Entries /\ rest[j].ev = "set" /\ rest[j].key = order[j] /\ rest[j].val = "on"
                        /\ order[j] \in bound
  <2>1. ASSUME NEW j \in 1 .. m
        PROVE  rest[j] \in Entries /\ rest[j].ev = "set" /\ rest[j].key = order[j] /\ rest[j].val = "on"
               /\ order[j] \in bound
    <3>1. PICK k \in Creds : k = order[j] /\ k \in bound
      BY <1>0, <1>1
    <3>2. rest[j] = Entry("set", k, "on")
      BY <1>4, <3>1
    <3> QED
      BY <3>1, <3>2 DEF Entry, Entries, Events, Vals, Settings
  <2> QED
    BY <2>1
<1>6. rest \in Seq(Entries) /\ Len(rest) = m
  BY <1>4, <1>5
<1>7. log = <<first>> \o rest
  BY <1>0, <1>1, <1>2, <1>4 DEF FirstLog
<1>8. /\ log \in Seq(Entries) /\ Len(log) = m + 1 /\ DOMAIN log = 1 .. m + 1 /\ log[1] = first
      /\ \A j \in 2 .. m + 1 : j - 1 \in 1 .. m /\ log[j] = rest[j - 1]
  <2>1. <<first>> \in Seq(Entries) /\ Len(<<first>>) = 1 /\ <<first>>[1] = first
    BY <1>3
  <2>2. PICK s \in Seq(Entries) : s = <<first>> /\ Len(s) = 1 /\ s[1] = first
    BY <2>1
  <2>3. /\ s \o rest \in Seq(Entries) /\ Len(s \o rest) = 1 + m
        /\ \A i \in 1 .. 1 + m : (s \o rest)[i] = IF i <= 1 THEN s[i] ELSE rest[i - 1]
    BY <1>6, <2>2, ConcatProperties
  <2>4. PICK l \in Seq(Entries) : l = s \o rest
    BY <2>3
  <2>5. log = l /\ DOMAIN l = 1 .. m + 1 /\ Len(l) = m + 1
    <3>1. log = l
      BY <1>7, <2>2, <2>4
    <3>2. Len(l) = m + 1
      <4>1. Len(s \o rest) = 1 + m
        BY <2>3
      <4> QED
        BY <2>4, <4>1
    <3>3. DOMAIN l = 1 .. Len(l)
      OBVIOUS
    <3> QED
      BY <3>1, <3>2, <3>3
  <2>6. \A j \in 2 .. m + 1 : j - 1 \in 1 .. m /\ j \in 1 .. 1 + m /\ ~(j <= 1)
    OBVIOUS
  <2>7. 1 \in 1 .. 1 + m
    OBVIOUS
  <2>8. l[1] = first
    BY <2>2, <2>3, <2>4, <2>7
  <2>9. ASSUME NEW j \in 2 .. m + 1 PROVE l[j] = rest[j - 1]
    BY <2>3, <2>4, <2>6
  <2> QED
    BY <2>5, <2>6, <2>8, <2>9
<1>9. \A j \in 1 .. m + 1 : j = 1 \/ j \in 2 .. m + 1
  OBVIOUS
<1>10. \A j \in 2 .. m + 1 : log[j].ev = "set" /\ log[j].key \in bound /\ log[j].val = "on"
  <2>1. ASSUME NEW j \in 2 .. m + 1 PROVE log[j].ev = "set" /\ log[j].key \in bound /\ log[j].val = "on"
    <3>1. j - 1 \in 1 .. m /\ log[j] = rest[j - 1]
      BY <1>8
    <3> QED
      BY <1>5, <3>1
  <2> QED
    BY <2>1
<1>11. log[1].ev = "sandbox.created" /\ log[1].val = boot
  BY <1>3, <1>8
<1>12. \A j \in 1 .. m + 1 : log[j].ev \in {"sandbox.created", "set"}
  BY <1>9, <1>10, <1>11
<1>13. Began(log)
  <2>1. log # <<>>
    BY <1>8
  <2>2. ASSUME NEW j \in 1 .. m + 1, log[j].ev = "set"
        PROVE  log[j].val \in Vals /\ (log[j].key \in Creds => log[j].val \in {"on", "none"})
    <3>1. j \in 2 .. m + 1
      BY <1>9, <1>11, <2>2
    <3> QED
      BY <1>10, <3>1 DEF Vals
  <2>3. \A j \in 1 .. m + 1 : log[j].ev # "exec.completed"
    BY <1>12
  <2>4. Len(log) = m + 1
    BY <1>8
  <2> QED
    BY <1>0, <1>11, <2>1, <2>2, <2>3, <2>4 DEF Began
<1>14. \A b, c : Snapshots(log, b, c)
  <2>1. \A j \in 1 .. m + 1 : log[j].ev # "sandbox.checkpoint_created"
    BY <1>12
  <2>2. Len(log) = m + 1
    BY <1>8
  <2> QED
    BY <2>1, <2>2 DEF Snapshots
<1>15. AllDone(log) = {}
  <2>1. \A j \in 1 .. m + 1 : log[j].ev # "exec.completed"
    BY <1>12
  <2>2. DOMAIN log = 1 .. m + 1
    BY <1>8
  <2> QED
    BY <2>1, <2>2 DEF AllDone, CompletedBefore
<1>16. ASSUME NEW k \in Kept PROVE Reconstructed(log, k) = IF k \in bound THEN "on" ELSE boot[k]
  <2>1. PICK at : at = {j \in 1 .. m + 1 : log[j].ev = "set" /\ log[j].key = k}
    OBVIOUS
  <2>2. Reconstructed(log, k) = IF at = {} THEN log[1].val[k] ELSE log[Max(at)].val
    BY <1>8, <2>1 DEF Reconstructed
  <2>3. CASE k \in bound
    <3>1. PICK j \in 1 .. m : order[j] = k
      BY <1>0, <1>1, <2>3
    <3>2. j + 1 \in 2 .. m + 1 /\ (j + 1) - 1 = j /\ j + 1 \in 1 .. m + 1
      OBVIOUS
    <3>3. log[j + 1].ev = "set" /\ log[j + 1].key = k
      <4>1. log[j + 1] = rest[j]
        BY <1>8, <3>2
      <4> QED
        BY <1>5, <3>1, <4>1
    <3>4. at # {} /\ at \in SUBSET (1 .. m + 1)
      BY <2>1, <3>2, <3>3
    <3>5. Max(at) \in at
      <4>1. m + 1 \in Nat
        OBVIOUS
      <4> QED
        BY <3>4, <4>1, Greatest
    <3>6. PICK i \in 1 .. m + 1 : i = Max(at) /\ log[i].ev = "set"
      BY <2>1, <3>5
    <3>7. i \in 2 .. m + 1
      BY <1>9, <1>11, <3>6
    <3>8. log[i].val = "on"
      BY <1>10, <3>7
    <3> QED
      BY <2>2, <2>3, <3>4, <3>6, <3>8
  <2>4. CASE k \notin bound
    <3>1. ASSUME NEW j \in 1 .. m + 1, log[j].ev = "set" PROVE log[j].key # k
      <4>1. j \in 2 .. m + 1
        BY <1>9, <1>11, <3>1
      <4> QED
        BY <1>10, <2>4, <4>1
    <3>2. at = {}
      BY <2>1, <3>1
    <3> QED
      BY <1>11, <2>2, <2>4, <3>2
  <2> QED
    BY <2>3, <2>4
<1> QED
  BY <1>8, <1>13, <1>14, <1>15, <1>16 DEF LogIsSound, GivesBack

LEMMA ResumesInv ==
    ASSUME SessionInv, NEW s \in DOMAIN ledger, NEW i \in DOMAIN ledger[s], SessionResumes(s, i)
    PROVE  SessionInv'
<1>1. ledger \in Seq(Seq(Entries)) /\ ledger # <<>> /\ (\A t \in 1 .. Len(ledger) : LogIsSound(ledger[t], blurred, cutOff))
  BY DEF SessionInv, Logged
<1>2. PICK n \in Nat : n = Len(ledger) /\ n # 0 /\ n = Current
  BY <1>1 DEF Current
<1>3. PICK old \in Seq(Entries) : old = ledger[s] /\ LogIsSound(old, blurred, cutOff)
  BY <1>1 DEF LogIsSound
<1>4. PICK now : now = [k \in Kept |-> Reconstructed(old, k)]
  OBVIOUS
<1>5. PICK boot : boot = [k \in Kept |-> IF k \in Hosts THEN now[k] ELSE "none"]
  OBVIOUS
<1>6. PICK bound : bound = {k \in Creds : now[k] # "none"}
  OBVIOUS
<1>7. /\ config' = now
      /\ \E order \in {f \in [1 .. Cardinality(bound) -> bound] : \A k \in bound : \E j \in DOMAIN f : f[j] = k} :
            ledger' = Append(ledger, <<Entry("sandbox.created", None, boot)>>
                                       \o [j \in DOMAIN order |-> Entry("set", order[j], "on")])
  <2>1. /\ config' = [k \in Kept |-> Reconstructed(ledger[s], k)]
        /\ \E order \in {f \in [1 .. Cardinality({k \in Creds : [q \in Kept |-> Reconstructed(ledger[s], q)][k] # "none"})
                                   -> {k \in Creds : [q \in Kept |-> Reconstructed(ledger[s], q)][k] # "none"}] :
                             \A k \in {k \in Creds : [q \in Kept |-> Reconstructed(ledger[s], q)][k] # "none"} :
                                \E j \in DOMAIN f : f[j] = k} :
              ledger' = Append(ledger,
                 <<Entry("sandbox.created", None,
                         [k \in Kept |-> IF k \in Hosts THEN [q \in Kept |-> Reconstructed(ledger[s], q)][k] ELSE "none"])>>
                   \o [j \in DOMAIN order |-> Entry("set", order[j], "on")])
    BY Zenon DEF SessionResumes
  <2>2. now = [k \in Kept |-> Reconstructed(ledger[s], k)]
    BY <1>3, <1>4
  <2> QED
    BY <1>5, <1>6, <2>1, <2>2, Zenon
<1>8. PICK order \in [1 .. Cardinality(bound) -> bound] :
        /\ \A k \in bound : \E j \in DOMAIN order : order[j] = k
        /\ ledger' = Append(ledger, FirstLog(boot, order))
  BY <1>7, Zenon DEF FirstLog
<1>9. PICK log : log = FirstLog(boot, order)
  OBVIOUS
<1>10. /\ left.resumes > 0 /\ left' = [left EXCEPT !.resumes = left.resumes - 1]
       /\ ~live /\ live' = TRUE /\ i \in CheckpointsIn(old)
       /\ want' = (IF s = Current THEN want ELSE config')
       /\ cache' = CompletedBefore(old, i) /\ disk' = old[i].val /\ cmd' = [m \in Commands |-> "new"]
       /\ UNCHANGED <<adrift, cutOff, snap, changes, torn, blurred>>
  BY <1>3 DEF SessionResumes, Afresh, process
<1>11. changes = {} /\ snap = None /\ adrift = {}
  BY <1>10 DEF SessionInv, SessionTyped
<1>12. \A k \in Kept : now[k] = Reconstructed(old, k) /\ now[k] \in Vals /\ (k \in Creds => now[k] \in {"on", "none"})
  BY <1>3, <1>4, GivenBack, SessionConstants DEF LogIsSound
<1>13. boot \in [Kept -> Vals] /\ (\A k \in Creds : boot[k] = "none") /\ bound \in SUBSET Creds
  BY <1>5, <1>6, <1>12, SessionConstants DEF Vals, Kept, Settings
<1>14. /\ log \in Seq(Entries) /\ LogIsSound(log, blurred, cutOff)
       /\ AllDone(log) = {}
       /\ \A k \in Kept : Reconstructed(log, k) = IF k \in bound THEN "on" ELSE boot[k]
  <2>1. BootsClean(boot) /\ bound \subseteq Creds
    BY <1>13 DEF BootsClean
  <2>2. OrdersAll(order, bound)
    BY <1>8 DEF OrdersAll
  <2>3. /\ log \in Seq(Entries) /\ \A b, c : LogIsSound(log, b, c)
        /\ AllDone(log) = {}
        /\ GivesBack(log, boot, bound)
    BY <1>9, <2>1, <2>2, NewLog
  <2> QED
    BY <2>3 DEF GivesBack
<1>15. /\ ledger' \in Seq(Seq(Entries)) /\ Len(ledger') = n + 1 /\ ledger'[n + 1] = log
       /\ \A t \in 1 .. n : ledger'[t] = ledger[t]
  <2>1. PICK S : S = Seq(Entries)
    OBVIOUS
  <2>2. PICK l \in Seq(S) : l = ledger
    BY <1>1, <2>1
  <2>3. /\ Append(l, log) \in Seq(S) /\ Len(Append(l, log)) = Len(l) + 1 /\ Append(l, log)[Len(l) + 1] = log
        /\ \A t \in 1 .. Len(l) : Append(l, log)[t] = l[t]
    BY <1>14, <2>1, <2>2
  <2> QED
    BY <1>2, <1>8, <1>9, <2>1, <2>2, <2>3
<1>16. Current' = n + 1 /\ ledger'[Current'] = log
  BY <1>15 DEF Current
<1>17. Logged'
  <2>1. ASSUME NEW t \in 1 .. n + 1 PROVE LogIsSound(ledger'[t], blurred, cutOff)
    <3>1. t \in 1 .. n \/ t = n + 1
      OBVIOUS
    <3> QED
      BY <1>1, <1>2, <1>14, <1>15, <3>1
  <2>2. ledger' # <<>>
    BY <1>15
  <2> QED
    BY <1>10, <1>15, <2>1, <2>2 DEF Logged
<1>18. old[i].val \in Disks /\ \A m \in Commands \ blurred : Ran(old[i].val[m], m \in CompletedBefore(old, i), m, cutOff)
  <2>1. i \in 1 .. Len(old) /\ old[i].ev = "sandbox.checkpoint_created"
    BY <1>3, <1>10 DEF CheckpointsIn
  <2> QED
    BY <1>3, <2>1 DEF LogIsSound, Snapshots, Shows
<1>19. SessionTyped'
  <2>1. left' \in MixOfSessions
    <3>1. left \in MixOfSessions /\ left.resumes \in Nat
      BY DEF SessionInv, SessionTyped, MixOfSessions
    <3>2. left.resumes - 1 \in Nat
      BY <1>10, <3>1
    <3>3. left' = [left EXCEPT !.resumes = left.resumes - 1]
      BY <1>10
    <3> QED
      BY <3>1, <3>2, <3>3 DEF MixOfSessions
  <2>2. cache' \subseteq Commands
    <3>1. DOMAIN old = 1 .. Len(old)
      BY <1>3
    <3> QED
      BY <1>3, <1>10, <3>1 DEF CompletedBefore, LogIsSound, Began
  <2>3. config' \in [Kept -> Vals]
    BY <1>4, <1>7, <1>12
  <2>4. want' \in [Kept -> Vals]
    BY <1>10, <2>3 DEF SessionInv, SessionTyped
  <2>5. cmd' \in [Commands -> {"new", "cached", "issued", "started", "ran", "done", "failed"}]
    BY <1>10
  <2> QED
    BY <1>10, <1>18, <2>1, <2>2, <2>3, <2>4, <2>5 DEF SessionInv, SessionTyped
<1>20. RunOnce' /\ Waits'
  <2>1. \A m \in Commands : cmd'[m] = "new"
    BY <1>10
  <2>2. AllDone(ledger[Current])' = {}
    BY <1>14, <1>16
  <2> QED
    BY <1>10, <1>11, <1>18, <2>1, <2>2 DEF RunOnce, Waits, Ran
<1>21. Settled'
  <2>1. SUFFICES ASSUME NEW q \in Settings \ torn PROVE config'[q] = want'[q] /\ Reconstructed(log, q) = want'[q]
    BY <1>10, <1>11, <1>16 DEF Settled
  <2>2. q \in Kept /\ (q \in Hosts \/ q \in Creds)
    BY DEF Kept, Settings
  <2>3. Reconstructed(log, q) = now[q]
    BY <1>5, <1>6, <1>12, <1>14, <2>2, SessionConstants
  <2>4. config'[q] = now[q]
    BY <1>7
  <2>5. CASE s = Current
    <3>1. want[q] = Reconstructed(ledger[Current], q)
      BY <1>11 DEF SessionInv, Settled
    <3> QED
      BY <1>3, <1>10, <1>12, <2>2, <2>3, <2>4, <2>5, <3>1
  <2>6. CASE s # Current
    BY <1>10, <2>3, <2>4, <2>6
  <2> QED
    BY <2>5, <2>6
<1> QED
  BY <1>17, <1>19, <1>20, <1>21 DEF SessionInv

-----------------------------------------------------------------------------
LEMMA InitSession == SessionInit => SessionInv
<1>1. SUFFICES ASSUME SessionInit PROVE SessionInv
  OBVIOUS
<1>2. PICK first : first = Entry("sandbox.created", None, config)
  OBVIOUS
<1>3. /\ config \in [Kept -> Rules \cup {"none", "given"}]
      /\ \A k \in Creds : config[k] = "none"
  BY <1>1, SessionConstants DEF SessionInit, Kept, Settings
<1>4. config \in [Kept -> Vals]
  BY <1>3 DEF Vals
<1>5. first \in Entries /\ first.ev = "sandbox.created" /\ first.val = config
  BY <1>2, <1>4 DEF Entry, Entries, Events
<1>6. PICK log : log = <<first>>
  OBVIOUS
<1>7. log \in Seq(Entries) /\ Len(log) = 1 /\ log[1] = first /\ DOMAIN log = {1} /\ log # <<>>
  BY <1>5, <1>6
<1>8. LogIsSound(log, blurred, cutOff)
  <2>1. \A j \in 1 .. 1 : j = 1
    OBVIOUS
  <2> QED
    BY <1>3, <1>4, <1>5, <1>7, <2>1 DEF LogIsSound, Began, Snapshots
<1>9. ledger = <<log>>
  BY <1>1, <1>2, <1>6 DEF SessionInit
<1>10. ledger \in Seq(Seq(Entries)) /\ Len(ledger) = 1 /\ ledger[1] = log /\ ledger # <<>>
  BY <1>7, <1>9
<1>11. Logged
  <2>1. \A t \in 1 .. 1 : t = 1
    OBVIOUS
  <2> QED
    BY <1>8, <1>10, <2>1 DEF Logged
<1>12. ledger[Current] = log
  BY <1>10 DEF Current
<1>13. SessionTyped
  <2>1. left \in MixOfSessions
    BY <1>1, SessionConstants DEF SessionInit
  <2>2. cmd \in [Commands -> {"new", "cached", "issued", "started", "ran", "done", "failed"}] /\ disk \in Disks
    BY <1>1 DEF SessionInit, Afresh, Disks
  <2> QED
    BY <1>1, <1>4, <2>1, <2>2 DEF SessionInit, SessionTyped
<1>14. RunOnce /\ Waits
  <2>1. AllDone(log) = {}
    BY <1>5, <1>7 DEF AllDone, CompletedBefore
  <2>2. \A n \in Commands : cmd[n] = "new" /\ disk[n] = 0
    BY <1>1 DEF SessionInit, Afresh
  <2> QED
    BY <1>1, <1>12, <2>1, <2>2 DEF SessionInit, RunOnce, Waits, Ran
<1>15. Settled
  <2>1. \A k : Reconstructed(log, k) = config[k]
    BY <1>5, <1>7 DEF Reconstructed
  <2> QED
    BY <1>1, <1>12, <2>1 DEF SessionInit, Settled
<1> QED
  BY <1>11, <1>13, <1>14, <1>15 DEF SessionInv

LEMMA StepSession == SessionInv /\ [SessionNext]_sessionVars => SessionInv'
<1>1. SUFFICES ASSUME SessionInv, [SessionNext]_sessionVars PROVE SessionInv'
  OBVIOUS
<1>2. ASSUME NEW n \in Commands,
             Issue(n) \/ Start(n) \/ Runs(n) \/ Completes(n) \/ StreamCut(n) \/ Fails(n) \/ GoesOn(n)
      PROVE  SessionInv'
  BY <1>1, <1>2, IssueInv, StartInv, RunsInv, CompletesInv, StreamCutInv, FailsInv, GoesOnInv
<1>3. CASE SnapshotTaken \/ CheckpointLogged
  BY <1>1, <1>3, SnapshotTakenInv, CheckpointLoggedInv
<1>4. ASSUME NEW k \in Settings, NEW v \in Values(k) \cup {"none"}, Change(k, v) PROVE SessionInv'
  BY <1>1, <1>4, ChangeInv
<1>5. ASSUME NEW c \in changes, ChangeLogged(c) PROVE SessionInv'
  BY <1>1, <1>5, ChangeLoggedInv
<1>6. CASE Ends
  BY <1>1, <1>6, EndsInv
<1>7. ASSUME NEW s \in DOMAIN ledger, NEW i \in DOMAIN ledger[s], SessionResumes(s, i) PROVE SessionInv'
  BY <1>1, <1>7, ResumesInv
<1>8. CASE UNCHANGED sessionVars
  <2>1. Logged' /\ RunOnce' /\ Waits' /\ Settled'
    BY <1>1, <1>8, LoggedStays, CommandStays, RunStays, SettledStays DEF sessionVars, run, process
  <2>2. SessionTyped'
    BY <1>1, <1>8 DEF SessionInv, SessionTyped, sessionVars, run, process, settings
  <2> QED
    BY <2>1, <2>2 DEF SessionInv
<1> QED
  BY <1>1, <1>2, <1>3, <1>4, <1>5, <1>6, <1>7, <1>8 DEF SessionNext

LEMMA SessionInvariant == SessionSpec => []SessionInv
  BY InitSession, StepSession, PTL DEF SessionSpec

(* For any program, settings and number of sessions: what a resumed program  *)
(* is told has happened is on its disk, once, or not at all if its stream    *)
(* was cut, unless it was under way around a snapshot or failed halfway; and *)
(* its settings are what it last made of them, unless changes overlapped or  *)
(* were cut off (client.ts:354-595).                                         *)
THEOREM SessionsSurvive == SessionSpec => []SessionSurvives
<1>1. SessionInv => SessionSurvives
  <2>1. SUFFICES ASSUME SessionInv PROVE SessionSurvives
    OBVIOUS
  <2>2. AnswersMatchDisk
    BY <2>1 DEF SessionInv, RunOnce, Ran, AnswersMatchDisk
  <2>3. SettingsSurvive
    BY <2>1 DEF SessionInv, Settled, SettingsSurvive
  <2> QED
    BY <2>2, <2>3 DEF SessionSurvives
<1> QED
  BY <1>1, SessionInvariant, PTL

(* Every variable of the session has its type.                               *)
THEOREM SessionsTyped == SessionSpec => []SessionTypeOK
<1>1. SessionInv => SessionTypeOK
  <2>1. SUFFICES ASSUME SessionInv PROVE SessionTypeOK
    OBVIOUS
  <2>2. SessionTyped
    BY <2>1 DEF SessionInv
  <2>3. changes \subseteq Settings \X (Rules \cup {"on", "none"})
    BY <2>2 DEF SessionTyped
  <2> QED
    BY <2>2, <2>3 DEF SessionTyped, Disks, SessionTypeOK
<1> QED
  BY <1>1, SessionInvariant, PTL

-----------------------------------------------------------------------------
(* The facts of the memory (FactsAreKept and MemoryTypeOK of Memory), for     *)
(* any number of calls, facts, settings, crashes and failed writes.          *)
FactSteps == {"idle", "embed", "list", "summarize", "consolidate", "forget", "copy", "done", "failed"}

Fact == [scope : {"parent"} \cup Calls, at : Nat, of : SUBSET Calls]

FactsTyped ==
    /\ factMix \in MixOfMemory /\ factClock \in Nat
    /\ made \in Seq(Fact) /\ \A f \in DOMAIN made : made[f].at <= factClock
    /\ facts \subseteq DOMAIN made /\ index \subseteq DOMAIN made
    /\ vec \in BOOLEAN /\ sized \in BOOLEAN /\ factCount \in Nat
    /\ factPc \in [Calls -> FactSteps]
    /\ todo \in [Calls -> SUBSET DOMAIN made] /\ owed \in [Calls -> SUBSET Calls]
    /\ blanked \in BOOLEAN /\ factTorn \subseteq DOMAIN made

(* The facts of the parent there ever were. One may be dropped when enough   *)
(* others are as new, or it is too old; it has a heir when a later one holds  *)
(* what it holds.                                                            *)
Parents == {f \in DOMAIN made : made[f].scope = "parent"}

Younger(f) == {g \in Parents \ {f} : made[g].at >= made[f].at}

Droppable(f) ==
    \/ Cardinality(Younger(f)) >= factMix.maxFacts
    \/ factMix.maxAge > 0 /\ factClock - made[f].at > factMix.maxAge

Heir(f) == \E g \in Parents : g > f /\ made[f].of \subseteq made[g].of

(* What a compaction has listed may be dropped.                              *)
Chosen(c) ==
    /\ Kind(c) = "fork" => factPc[c] \notin {"embed", "summarize", "consolidate", "forget"}
    /\ factPc[c] \in {"summarize", "consolidate", "forget"} =>
          todo[c] \subseteq Parents /\ \A f \in todo[c] : Droppable(f)

DroppedWell == \A f \in Parents \ facts : Droppable(f)

(* With a summarizer what is dropped has a heir, and so has what is about to  *)
(* be; the heir may be dropped too, but has one of its own.                  *)
Inherited ==
    factMix.summarize /\ ~blanked =>
        /\ \A f \in Parents \ facts : Heir(f)
        /\ \A c \in Calls : factPc[c] = "forget" => \A f \in todo[c] : Heir(f)

(* What a fork owes was remembered, is on its list, and then in its copies.  *)
Forks(c) ==
    factMix.summarize /\ ~blanked /\ Kind(c) = "fork" =>
        /\ owed[c] \subseteq Holds(Parents)
        /\ factPc[c] = "copy" => owed[c] \subseteq Holds(todo[c])
        /\ factPc[c] = "done" => owed[c] \subseteq Holds(Facts(c))

FactInv ==
    /\ FactsTyped /\ IndexIsFacts /\ DroppedWell /\ Inherited
    /\ \A c \in Calls : Chosen(c) /\ Forks(c)

SameOptions ==
    /\ factMix' \in MixOfMemory
    /\ factMix'.kind = factMix.kind /\ factMix'.summarize = factMix.summarize
    /\ factMix'.maxFacts = factMix.maxFacts /\ factMix'.maxAge = factMix.maxAge

Grows ==
    /\ Len(made) <= Len(made') /\ \A f \in DOMAIN made : made'[f] = made[f]
    /\ factClock <= factClock' /\ SameOptions

(* Nothing is changed but what a call does with the tables.                  *)
LEMMA FaultKeepsOptions ==
    ASSUME factMix \in MixOfMemory, NEW f \in {"embed", "blank", "summarize", "crash", "unloaded"},
           FactFault(f)
    PROVE  SameOptions
<1>1. factMix' = [factMix EXCEPT !.faults = [factMix.faults EXCEPT ![f] = @ - 1]]
  BY DEF FactFault, MixOfMemory
<1>2. factMix.faults \in [{"embed", "blank", "summarize", "crash", "unloaded"} -> Nat]
  BY DEF MixOfMemory
<1>3. factMix.faults[f] > 0
  BY DEF FactFault
<1>4. [factMix.faults EXCEPT ![f] = @ - 1] \in [{"embed", "blank", "summarize", "crash", "unloaded"} -> Nat]
  BY <1>2, <1>3
<1> QED
  BY <1>1, <1>4 DEF SameOptions, MixOfMemory

LEMMA DomainOfMade ==
    ASSUME made \in Seq(Fact)
    PROVE  /\ Len(made) \in Nat /\ DOMAIN made = 1 .. Len(made)
           /\ \A f \in DOMAIN made : made[f] \in Fact
  OBVIOUS

LEMMA ParentsAreFinite ==
    ASSUME made \in Seq(Fact)
    PROVE  /\ IsFiniteSet(Parents) /\ \A fs \in SUBSET DOMAIN made : IsFiniteSet(fs)
           /\ \A f : IsFiniteSet(Younger(f))
<1>1. IsFiniteSet(1 .. Len(made))
  BY DomainOfMade, FS_Interval
<1>2. \A fs \in SUBSET DOMAIN made : IsFiniteSet(fs)
  BY <1>1, DomainOfMade, FS_Subset
<1>3. Parents \in SUBSET DOMAIN made /\ \A f : Younger(f) \in SUBSET DOMAIN made
  BY DEF Parents, Younger
<1> QED
  BY <1>2, <1>3

(* More facts, more time: what may be dropped still may, and heirs stay.     *)
LEMMA GrowsKeeps ==
    ASSUME FactsTyped, made' \in Seq(Fact), factClock' \in Nat, Grows
    PROVE  /\ DOMAIN made \subseteq DOMAIN made'
           /\ Parents \subseteq Parents' /\ Parents' \cap DOMAIN made \subseteq Parents
           /\ \A f \in Parents : (Droppable(f) => Droppable(f)') /\ (Heir(f) => Heir(f)')
<1>1. /\ Len(made) \in Nat /\ DOMAIN made = 1 .. Len(made) /\ DOMAIN made' = 1 .. Len(made')
      /\ Len(made') \in Nat /\ \A f \in DOMAIN made : made[f] \in Fact
  BY DEF FactsTyped
<1>2. DOMAIN made \subseteq DOMAIN made'
  BY <1>1 DEF Grows
<1>3. Parents \subseteq Parents' /\ Parents' \cap DOMAIN made \subseteq Parents
  BY <1>2 DEF Parents, Grows
<1>4. ASSUME NEW f \in Parents, Droppable(f) PROVE Droppable(f)'
  <2>1. Younger(f) \subseteq Younger(f)'
    BY <1>2, <1>3 DEF Younger, Grows, Parents
  <2>2. IsFiniteSet(Younger(f)) /\ IsFiniteSet(Younger(f)')
    <3>1. made \in Seq(Fact)
      BY DEF FactsTyped
    <3>2. \A g : IsFiniteSet(Younger(g))
      BY <3>1, ParentsAreFinite
    <3>3. IsFiniteSet(1 .. Len(made'))
      BY <1>1, FS_Interval
    <3>4. Younger(f)' \subseteq 1 .. Len(made')
      BY <1>1 DEF Younger, Parents
    <3> QED
      BY <3>2, <3>3, <3>4, FS_Subset
  <2>3. Cardinality(Younger(f)) <= Cardinality(Younger(f)')
    BY <2>1, <2>2, FS_Subset
  <2>4. Cardinality(Younger(f)) \in Nat /\ Cardinality(Younger(f)') \in Nat
    BY <2>2, FS_CardinalityType
  <2>5. factMix.maxFacts \in Nat /\ factMix.maxAge \in Nat /\ factMix'.maxFacts = factMix.maxFacts
        /\ factMix'.maxAge = factMix.maxAge
    BY DEF FactsTyped, MixOfMemory, Grows, SameOptions
  <2>6. made'[f] = made[f] /\ made[f].at \in Nat
    BY <1>1 DEF Grows, Parents, Fact
  <2>7. factClock \in Nat /\ factClock' \in Nat /\ factClock <= factClock'
    BY DEF FactsTyped, Grows
  <2>8. CASE Cardinality(Younger(f)) >= factMix.maxFacts
    <3>1. Cardinality(Younger(f)') >= factMix'.maxFacts
      BY <2>3, <2>4, <2>5, <2>8
    <3> QED
      BY <3>1 DEF Droppable
  <2>9. CASE factMix.maxAge > 0 /\ factClock - made[f].at > factMix.maxAge
    <3>1. factMix'.maxAge > 0 /\ factClock' - made'[f].at > factMix'.maxAge
      BY <2>5, <2>6, <2>7, <2>9
    <3> QED
      BY <3>1 DEF Droppable
  <2> QED
    BY <1>4, <2>8, <2>9 DEF Droppable
<1>5. ASSUME NEW f \in Parents, Heir(f) PROVE Heir(f)'
  <2>1. PICK g \in Parents : g > f /\ made[f].of \subseteq made[g].of
    BY <1>5 DEF Heir
  <2>2. g \in Parents' /\ made'[f] = made[f] /\ made'[g] = made[g]
    BY <1>3, <2>1 DEF Parents, Grows
  <2> QED
    BY <2>1, <2>2 DEF Heir
<1> QED
  BY <1>2, <1>3, <1>4, <1>5

(* What one call does with what it has on its list, and what it owes.        *)
Stands(c) == factPc'[c] = factPc[c] /\ todo'[c] = todo[c] /\ owed'[c] = owed[c]

Moves(c) ==
    /\ Chosen(c)' /\ Forks(c)'
    /\ (factMix.summarize /\ ~blanked /\ factPc[c] = "forget" => \A f \in todo[c] : Heir(f))'

Drops(f) == Droppable(f)' /\ ((factMix.summarize /\ ~blanked)' => Heir(f)')

LEMMA FactStep ==
    ASSUME FactInv, FactsTyped', IndexIsFacts', Grows, blanked => blanked',
           \A f \in Parents' \ facts' : f \in Parents \ facts \/ Drops(f),
           \A c \in Calls : Stands(c) \/ Moves(c),
           \A c \in Calls : Facts(c) \subseteq facts'
    PROVE  FactInv'
<1>1. /\ DOMAIN made \subseteq DOMAIN made' /\ Parents \subseteq Parents'
      /\ \A f \in Parents : (Droppable(f) => Droppable(f)') /\ (Heir(f) => Heir(f)')
  BY GrowsKeeps DEF FactInv, FactsTyped
<1>2. DroppedWell'
  BY <1>1 DEF FactInv, DroppedWell, Drops
<1>3. factMix'.summarize = factMix.summarize /\ (factMix'.summarize /\ ~blanked' => ~blanked)
      /\ factMix'.kind = factMix.kind
  BY DEF Grows, SameOptions, FactInv, FactsTyped
<1>4. ASSUME NEW c \in Calls PROVE Chosen(c)'
  <2>1. CASE Moves(c)
    BY <2>1 DEF Moves
  <2>2. CASE Stands(c)
    <3>1. Kind(c)' = Kind(c) /\ Chosen(c)
      BY <1>3 DEF Kind, FactInv
    <3> QED
      BY <1>1, <2>2, <3>1 DEF Stands, Chosen
  <2> QED
    BY <2>1, <2>2
<1>5. Inherited'
  <2>1. SUFFICES ASSUME factMix'.summarize, ~blanked'
                 PROVE  /\ \A f \in Parents' \ facts' : Heir(f)'
                        /\ \A c \in Calls : factPc'[c] = "forget" => \A f \in todo'[c] : Heir(f)'
    BY DEF Inherited
  <2>2. /\ \A f \in Parents \ facts : Heir(f)
        /\ \A c \in Calls : factPc[c] = "forget" => \A f \in todo[c] : Heir(f)
    BY <1>3, <2>1 DEF FactInv, Inherited
  <2>3. \A f \in Parents' \ facts' : Heir(f)'
    BY <1>1, <2>1, <2>2 DEF Drops
  <2>4. ASSUME NEW c \in Calls, factPc'[c] = "forget", NEW f \in todo'[c] PROVE Heir(f)'
    <3>1. CASE Moves(c)
      BY <2>1, <2>4, <3>1 DEF Moves
    <3>2. CASE Stands(c)
      <4>1. f \in todo[c] /\ Heir(f) /\ f \in Parents
        BY <2>2, <2>4, <3>2 DEF Stands, FactInv, Chosen
      <4> QED
        BY <1>1, <4>1
    <3> QED
      BY <3>1, <3>2
  <2> QED
    BY <2>3, <2>4
<1>6. ASSUME NEW c \in Calls PROVE Forks(c)'
  <2>1. CASE Moves(c)
    BY <2>1 DEF Moves
  <2>2. CASE Stands(c)
    <3>1. SUFFICES ASSUME factMix'.summarize, ~blanked', Kind(c)' = "fork"
                   PROVE  /\ owed'[c] \subseteq Holds(Parents)'
                          /\ factPc'[c] = "copy" => owed'[c] \subseteq Holds(todo[c])'
                          /\ factPc'[c] = "done" => owed'[c] \subseteq Holds(Facts(c))'
      BY DEF Forks
    <3>2. /\ owed[c] \subseteq Holds(Parents)
          /\ factPc[c] = "copy" => owed[c] \subseteq Holds(todo[c])
          /\ factPc[c] = "done" => owed[c] \subseteq Holds(Facts(c))
      BY <1>3, <3>1 DEF FactInv, Forks, Kind
    <3>3. todo[c] \subseteq DOMAIN made /\ facts \subseteq DOMAIN made
      BY DEF FactInv, FactsTyped
    <3>4. \A f \in DOMAIN made : made'[f] = made[f]
      BY DEF Grows
    <3>5. Holds(Parents) \subseteq Holds(Parents)'
      BY <1>1, <3>4 DEF Holds, Parents
    <3>6. Holds(todo[c]) \subseteq Holds(todo[c])'
      BY <2>2, <3>3, <3>4 DEF Holds, Stands
    <3>7. Facts(c) \subseteq Facts(c)'
      BY <3>3, <3>4 DEF Facts
    <3>8. Holds(Facts(c)) \subseteq Holds(Facts(c))'
      BY <3>3, <3>4, <3>7 DEF Holds, Facts
    <3> QED
      BY <2>2, <3>2, <3>5, <3>6, <3>8 DEF Stands
  <2> QED
    BY <2>1, <2>2
<1> QED
  BY <1>2, <1>4, <1>5, <1>6 DEF FactInv

-----------------------------------------------------------------------------
LEMMA WriteFacts ==
    ASSUME FactsTyped, NEW scope \in {"parent"} \cup Calls, NEW contents \in Seq(SUBSET Calls),
           Write(scope, contents)
    PROVE  /\ made' \in Seq(Fact) /\ Len(made') = Len(made) + Len(contents)
           /\ \A f \in DOMAIN made : made'[f] = made[f]
           /\ \A i \in 1 .. Len(contents) :
                 /\ Len(made) + i \in DOMAIN made' /\ Len(made) + i \in facts'
                 /\ made'[Len(made) + i] = [scope |-> scope, at |-> factClock, of |-> contents[i]]
           /\ facts \subseteq facts' /\ DOMAIN made' \ DOMAIN made \subseteq facts'
           /\ facts' \subseteq DOMAIN made' /\ index' \subseteq DOMAIN made'
           /\ \A f \in DOMAIN made' : made'[f].at <= factClock
           /\ sized' \in BOOLEAN /\ factTorn' \subseteq DOMAIN made'
           /\ IndexIsFacts => IndexIsFacts'
<1> DEFINE more == [i \in DOMAIN contents |-> [scope |-> scope, at |-> factClock, of |-> contents[i]]]
           new == (Len(made) + 1) .. (Len(made) + Len(contents))
<1>1. /\ made' = made \o more
      /\ facts' = facts \cup new
      /\ index' = IF vec THEN index \cup new ELSE index
      /\ sized' = (sized \/ (vec /\ new # {}))
      /\ factTorn' = IF vec THEN factTorn ELSE factTorn \cup new
  BY DEF Write
<1>2. /\ made \in Seq(Fact) /\ Len(made) \in Nat /\ DOMAIN made = 1 .. Len(made)
      /\ Len(contents) \in Nat /\ DOMAIN contents = 1 .. Len(contents) /\ factClock \in Nat
  BY DEF FactsTyped
<1>3. more \in Seq(Fact) /\ Len(more) = Len(contents)
  <2>1. \A i \in 1 .. Len(contents) : [scope |-> scope, at |-> factClock, of |-> contents[i]] \in Fact
    BY <1>2 DEF Fact
  <2>2. more \in [1 .. Len(contents) -> Fact]
    BY <1>2, <2>1
  <2> QED
    BY <1>2, <2>2
<1>4. \A i \in 1 .. Len(contents) : more[i] = [scope |-> scope, at |-> factClock, of |-> contents[i]]
  BY <1>2
<1> HIDE DEF more
<1>5. /\ made \o more \in Seq(Fact) /\ Len(made \o more) = Len(made) + Len(more)
      /\ \A i \in 1 .. Len(made) + Len(more) :
            (made \o more)[i] = IF i <= Len(made) THEN made[i] ELSE more[i - Len(made)]
  BY <1>2, <1>3, ConcatProperties
<1>6. made' \in Seq(Fact) /\ Len(made') = Len(made) + Len(contents)
      /\ DOMAIN made' = 1 .. (Len(made) + Len(contents))
  BY <1>1, <1>3, <1>5
<1>7. \A f \in DOMAIN made : made'[f] = made[f]
  BY <1>1, <1>2, <1>3, <1>5
<1>8. ASSUME NEW i \in 1 .. Len(contents)
      PROVE  /\ Len(made) + i \in DOMAIN made' /\ Len(made) + i \in new
             /\ made'[Len(made) + i] = [scope |-> scope, at |-> factClock, of |-> contents[i]]
  <2>1. Len(made) + i \in 1 .. (Len(made) + Len(contents)) /\ ~(Len(made) + i <= Len(made))
        /\ (Len(made) + i) - Len(made) = i /\ Len(made) + i \in new
    BY <1>2
  <2>2. (made \o more)[Len(made) + i] = more[i]
    BY <1>3, <1>5, <2>1
  <2> QED
    BY <1>1, <1>4, <1>6, <2>1, <2>2
<1>9. DOMAIN made' = DOMAIN made \cup new
  BY <1>2, <1>6
<1>10. \A f \in new : \E i \in 1 .. Len(contents) : f = Len(made) + i
  <2> TAKE f \in new
  <2>1. f - Len(made) \in 1 .. Len(contents) /\ f = Len(made) + (f - Len(made))
    BY <1>2
  <2> QED
    BY <2>1
<1>11. /\ facts \subseteq DOMAIN made /\ index \subseteq DOMAIN made /\ factTorn \subseteq DOMAIN made
       /\ \A f \in DOMAIN made : made[f].at <= factClock
  BY DEF FactsTyped
<1>12. \A f \in DOMAIN made' : made'[f].at <= factClock
  <2>1. ASSUME NEW f \in new PROVE made'[f].at <= factClock
    <3>1. PICK i \in 1 .. Len(contents) : f = Len(made) + i
      BY <1>10
    <3>2. made'[f] = [scope |-> scope, at |-> factClock, of |-> contents[i]]
      BY <1>8, <3>1
    <3> QED
      BY <1>2, <3>2
  <2> QED
    BY <1>7, <1>9, <1>11, <2>1
<1>13. IndexIsFacts => IndexIsFacts'
  <2> HIDE DEF new
  <2> QED
    BY <1>1, <1>9 DEF IndexIsFacts
<1> QED
  <2> HIDE DEF new
  <2>1. sized' \in BOOLEAN /\ factTorn' \subseteq DOMAIN made'
    BY <1>1, <1>9, <1>11
  <2>2. facts \subseteq facts' /\ DOMAIN made' \ DOMAIN made \subseteq facts' /\ new \subseteq facts'
    BY <1>1, <1>9
  <2>3. facts' \subseteq DOMAIN made' /\ index' \subseteq DOMAIN made'
    BY <1>1, <1>9, <1>11
  <2> QED
    BY <1>6, <1>7, <1>8, <1>12, <1>13, <2>1, <2>2, <2>3

(* What was remembered is held: the last fact that holds it was not dropped,  *)
(* for it has no heir.                                                       *)
LEMMA HeldAtLast ==
    ASSUME made \in Seq(Fact), \A f \in Parents \ facts : Heir(f)
    PROVE  Holds(Parents) \subseteq Holds(Facts("parent"))
<1>1. SUFFICES ASSUME NEW x \in Holds(Parents) PROVE x \in Holds(Facts("parent"))
  OBVIOUS
<1>2. PICK T : T = {f \in Parents : x \in made[f].of}
  OBVIOUS
<1>3. T \in SUBSET (1 .. Len(made)) /\ T # {} /\ Len(made) \in Nat
  BY <1>1, <1>2, DomainOfMade DEF Parents, Holds
<1>4. PICK m \in T : \A t \in T : m >= t
  BY <1>3, Greatest
<1>5. m \in Parents /\ x \in made[m].of
  BY <1>2, <1>4
<1>6. ASSUME Heir(m) PROVE FALSE
  <2>1. PICK g \in Parents : g > m /\ made[m].of \subseteq made[g].of
    BY <1>6 DEF Heir
  <2>2. g \in T
    BY <1>2, <1>5, <2>1
  <2>3. m >= g /\ g \in 1 .. Len(made) /\ m \in 1 .. Len(made)
    BY <1>3, <1>4, <2>2
  <2> QED
    BY <1>3, <2>1, <2>3
<1>7. m \in Facts("parent")
  BY <1>5, <1>6 DEF Facts, Parents
<1> QED
  BY <1>5, <1>7 DEF Holds

(* What rememberMany() is given: the contents of the facts, one by one.      *)
Upto(fs, f) == {g \in fs : g <= f}
RowsOf(fs) == [i \in 1..Cardinality(fs) |-> made[CHOOSE f \in fs : Cardinality(Upto(fs, f)) = i].of]

LEMMA RowsHoldAll ==
    ASSUME made \in Seq(Fact), NEW fs \in SUBSET DOMAIN made
    PROVE  /\ RowsOf(fs) \in Seq(SUBSET Calls)
           /\ \A f \in fs : \E i \in 1 .. Len(RowsOf(fs)) : RowsOf(fs)[i] = made[f].of
<1>1. IsFiniteSet(fs) /\ Cardinality(fs) \in Nat /\ fs \subseteq Nat
  BY ParentsAreFinite, FS_CardinalityType, DomainOfMade
<1>2. ASSUME NEW f \in fs
      PROVE  Cardinality(Upto(fs, f)) \in 1 .. Cardinality(fs)
  <2>1. Upto(fs, f) \in SUBSET fs /\ IsFiniteSet(Upto(fs, f)) /\ Cardinality(Upto(fs, f)) <= Cardinality(fs)
    <3>1. Upto(fs, f) \in SUBSET fs
      BY DEF Upto
    <3> QED
      BY <1>1, <3>1, FS_Subset
  <2>2. f \in Upto(fs, f)
    BY <1>1 DEF Upto
  <2>3. Cardinality(Upto(fs, f)) \in Nat /\ Cardinality(Upto(fs, f)) # 0
    BY <2>1, <2>2, FS_CardinalityType, FS_EmptySet
  <2> QED
    BY <1>1, <2>1, <2>3
<1>3. ASSUME NEW f \in fs, NEW g \in fs, f < g
      PROVE  Cardinality(Upto(fs, f)) # Cardinality(Upto(fs, g))
  <2>1. Upto(fs, f) \in SUBSET Upto(fs, g) /\ g \in Upto(fs, g) /\ g \notin Upto(fs, f)
    BY <1>1, <1>3 DEF Upto
  <2>2. IsFiniteSet(Upto(fs, g))
    BY <1>1, FS_Subset DEF Upto
  <2> QED
    BY <2>1, <2>2, FS_Subset
<1>4. \A f, g \in fs : Cardinality(Upto(fs, f)) = Cardinality(Upto(fs, g)) => f = g
  BY <1>1, <1>3
<1>5. ASSUME NEW f \in fs
      PROVE  (CHOOSE g \in fs : Cardinality(Upto(fs, g)) = Cardinality(Upto(fs, f))) = f
  BY <1>4
<1>6. Len(RowsOf(fs)) = Cardinality(fs) /\ DOMAIN RowsOf(fs) = 1 .. Cardinality(fs)
  BY <1>1 DEF RowsOf
<1>7. \A f \in fs : \E i \in 1 .. Len(RowsOf(fs)) : RowsOf(fs)[i] = made[f].of
  <2> TAKE f \in fs
  <2>1. PICK i \in 1 .. Cardinality(fs) : i = Cardinality(Upto(fs, f))
    BY <1>2
  <2>2. (CHOOSE g \in fs : Cardinality(Upto(fs, g)) = i) = f
    BY <1>5, <2>1
  <2>3. RowsOf(fs)[i] = made[f].of
    BY <2>2 DEF RowsOf
  <2> QED
    BY <1>6, <2>3
<1>8. RowsOf(fs) \in Seq(SUBSET Calls)
  <2>1. \A i \in 1 .. Cardinality(fs) : \E f \in fs : Cardinality(Upto(fs, f)) = i
    <3>1. PICK ranks : ranks = {Cardinality(Upto(fs, f)) : f \in fs}
      OBVIOUS
    <3>2. ranks \in SUBSET (1 .. Cardinality(fs))
      BY <1>2, <3>1
    <3>3. IsFiniteSet(1 .. Cardinality(fs)) /\ Cardinality(1 .. Cardinality(fs)) = Cardinality(fs)
      BY <1>1, FS_Interval
    <3>4. PICK rank : rank = [f \in fs |-> Cardinality(Upto(fs, f))]
      OBVIOUS
    <3>5. rank \in Bijection(fs, ranks)
      BY <1>4, <3>1, <3>4 DEF Bijection, Injection, Surjection, IsInjective
    <3>6. Cardinality(ranks) = Cardinality(fs)
      BY <1>1, <3>5, FS_Bijection DEF ExistsBijection
    <3>7. ranks = 1 .. Cardinality(fs)
      BY <3>2, <3>3, <3>6, FS_Subset
    <3> QED
      BY <3>1, <3>7
  <2>2. \A i \in 1 .. Cardinality(fs) :
          (CHOOSE f \in fs : Cardinality(Upto(fs, f)) = i) \in DOMAIN made
    BY <2>1
  <2>3. \A i \in 1 .. Cardinality(fs) :
          made[CHOOSE f \in fs : Cardinality(Upto(fs, f)) = i].of \in SUBSET Calls
    BY <2>2, DomainOfMade DEF Fact
  <2>4. RowsOf(fs) \in [1 .. Cardinality(fs) -> SUBSET Calls]
    BY <2>3 DEF RowsOf
  <2> QED
    BY <1>1, <2>4
<1> QED
  BY <1>7, <1>8

-----------------------------------------------------------------------------
(* A step that leaves the tables alone, and one that only adds to them.      *)
LEMMA QuietStep ==
    ASSUME FactInv, FactsTyped', made' = made, facts' = facts, index' = index, factTorn' = factTorn,
           SameOptions, factClock <= factClock', blanked => blanked',
           \A c \in Calls : Stands(c) \/ Moves(c)
    PROVE  FactInv'
<1>1. Grows
  BY DomainOfMade DEF Grows, FactInv, FactsTyped
<1>2. IndexIsFacts'
  BY DEF FactInv, IndexIsFacts
<1>3. \A f \in Parents' \ facts' : f \in Parents \ facts
  BY DEF Parents
<1>4. \A c \in Calls : Facts(c) \subseteq facts'
  BY DEF Facts
<1> QED
  BY <1>1, <1>2, <1>3, <1>4, FactStep

LEMMA WriteStep ==
    ASSUME FactInv, FactsTyped', NEW scope \in {"parent"} \cup Calls,
           NEW contents \in Seq(SUBSET Calls), Write(scope, contents),
           SameOptions, factClock' = factClock, blanked => blanked',
           \A c \in Calls : Stands(c) \/ Moves(c)
    PROVE  FactInv'
<1>1. /\ Len(made') = Len(made) + Len(contents) /\ \A f \in DOMAIN made : made'[f] = made[f]
      /\ facts \subseteq facts' /\ DOMAIN made' \ DOMAIN made \subseteq facts'
      /\ IndexIsFacts'
  BY WriteFacts DEF FactInv
<1>2. Len(made) \in Nat /\ Len(contents) \in Nat /\ factClock \in Nat
  BY DEF FactInv, FactsTyped
<1>3. Grows
  BY <1>1, <1>2 DEF Grows
<1>4. \A f \in Parents' \ facts' : f \in Parents \ facts
  BY <1>1 DEF Parents
<1>5. \A c \in Calls : Facts(c) \subseteq facts'
  BY <1>1 DEF Facts
<1> QED
  BY <1>1, <1>3, <1>4, <1>5, FactStep

LEMMA BeginsKeeps == ASSUME FactInv, NEW c \in Calls, FactBegins(c) PROVE FactInv'
<1>1. /\ factPc[c] = "idle" /\ UNCHANGED <<factMix, factClock, made, facts, index, sized, factTorn,
                                           vec, factCount, todo, blanked>>
      /\ factPc' = [factPc EXCEPT ![c] = IF Kind(c) = "remember" THEN "embed" ELSE "list"]
      /\ owed' = [owed EXCEPT ![c] = IF Kind(c) = "fork" THEN Holds(Facts("parent")) ELSE {}]
  BY DEF FactBegins, FactGoto, factStore
<1>2. /\ factPc \in [Calls -> FactSteps] /\ owed \in [Calls -> SUBSET Calls]
      /\ facts \subseteq DOMAIN made /\ \A f \in DOMAIN made : made[f].of \subseteq Calls
      /\ factMix \in MixOfMemory /\ factClock \in Nat
  BY DomainOfMade DEF FactInv, FactsTyped, Fact
<1>3. Holds(Facts("parent")) \subseteq Calls /\ Holds(Facts("parent")) \subseteq Holds(Parents)
  BY <1>2 DEF Holds, Facts, Parents
<1>4. owed' \in [Calls -> SUBSET Calls] /\ factPc' \in [Calls -> FactSteps]
  BY <1>1, <1>2, <1>3 DEF FactSteps
<1>5. FactsTyped'
  <2>1. FactsTyped
    BY DEF FactInv
  <2> QED
    BY <1>1, <1>4, <2>1 DEF FactsTyped
<1>6. SameOptions
  BY <1>1, <1>2 DEF SameOptions
<1>7. \A d \in Calls \ {c} : Stands(d)
  BY <1>1, <1>2 DEF Stands
<1>8. Moves(c)
  <2>1. factPc'[c] = (IF Kind(c) = "remember" THEN "embed" ELSE "list") /\ Kind(c)' = Kind(c)
        /\ Holds(Parents)' = Holds(Parents)
        /\ owed'[c] = IF Kind(c) = "fork" THEN Holds(Facts("parent")) ELSE {}
    BY <1>1, <1>2 DEF Kind, Holds, Parents
  <2> QED
    BY <1>3, <2>1 DEF Moves, Chosen, Forks
<1> QED
  BY <1>1, <1>2, <1>5, <1>6, <1>7, <1>8, QuietStep

LEMMA CountedSteps ==
    ASSUME FactInv, NEW c \in Calls, Counted(c)
    PROVE  /\ factCount' \in Nat /\ factPc' \in [Calls -> FactSteps]
           /\ factPc'[c] \in {"list", "done"} /\ \A d \in Calls \ {c} : factPc'[d] = factPc[d]
<1>1. factPc \in [Calls -> FactSteps] /\ factCount \in Nat
  BY DEF FactInv, FactsTyped
<1>2. factCount' \in Nat
  BY <1>1 DEF Counted
<1>3. PICK at \in {"list", "done"} : factPc' = [factPc EXCEPT ![c] = at]
  BY DEF Counted, FactGoto
<1> QED
  BY <1>1, <1>2, <1>3 DEF FactSteps

LEMMA RememberedKeeps == ASSUME FactInv, NEW c \in Calls, Remembered(c) PROVE FactInv'
<1>1. factPc[c] = "embed" /\ Counted(c) /\ UNCHANGED <<factClock, vec, todo, owed, blanked>>
  BY DEF Remembered
<1>2. /\ factCount' \in Nat /\ factPc' \in [Calls -> FactSteps]
      /\ factPc'[c] \in {"list", "done"} /\ \A d \in Calls \ {c} : factPc'[d] = factPc[d]
  BY <1>1, CountedSteps
<1>3. FactsTyped /\ factMix \in MixOfMemory /\ factClock \in Nat /\ Chosen(c)
  BY DEF FactInv, FactsTyped
<1>4. \A d \in Calls \ {c} : Stands(d)
  BY <1>1, <1>2 DEF Stands
<1>5. ASSUME SameOptions PROVE Moves(c)
  <2>1. Kind(c)' = Kind(c) /\ Kind(c) # "fork"
    BY <1>1, <1>3, <1>5 DEF Chosen, Kind, SameOptions
  <2> QED
    BY <1>2, <2>1 DEF Moves, Chosen, Forks
<1>6. CASE Write("parent", << {c} >>) /\ UNCHANGED factMix
  <2>1. << {c} >> \in Seq(SUBSET Calls)
    OBVIOUS
  <2>2. SameOptions
    BY <1>3, <1>6 DEF SameOptions
  <2>3. FactsTyped'
    <3>1. /\ made' \in Seq(Fact) /\ Len(made') = Len(made) + Len(<< {c} >>)
          /\ facts' \subseteq DOMAIN made' /\ index' \subseteq DOMAIN made'
          /\ \A f \in DOMAIN made' : made'[f].at <= factClock
          /\ sized' \in BOOLEAN /\ factTorn' \subseteq DOMAIN made'
      BY <1>3, <1>6, <2>1, WriteFacts
    <3>2. DOMAIN made \subseteq DOMAIN made'
      BY <1>3, <3>1 DEF FactsTyped
    <3>3. todo \in [Calls -> SUBSET DOMAIN made']
      BY <1>3, <3>2 DEF FactsTyped
    <3> QED
      BY <1>1, <1>2, <1>3, <1>6, <3>1, <3>3 DEF FactsTyped
  <2> QED
    BY <1>1, <1>4, <1>5, <1>6, <2>1, <2>2, <2>3, WriteStep
<1>7. CASE FactFault("blank") /\ UNCHANGED factStore
  <2>1. SameOptions
    BY <1>3, <1>7, FaultKeepsOptions
  <2>2. UNCHANGED <<made, facts, index, sized, factTorn>>
    BY <1>7 DEF factStore
  <2>3. FactsTyped'
    BY <1>1, <1>2, <1>3, <2>1, <2>2 DEF FactsTyped, SameOptions
  <2> QED
    BY <1>1, <1>3, <1>4, <1>5, <2>1, <2>2, <2>3, QuietStep
<1> QED
  BY <1>6, <1>7 DEF Remembered

(* Aside from what is too old, a compaction lists what is over maxFacts and  *)
(* no newer than the rest.                                                   *)
LEMMA ExcessIsDroppable ==
    ASSUME FactsTyped, NEW fs \in SUBSET Parents, NEW excess \in Oldest(fs), NEW f \in excess
    PROVE  f \in fs /\ Droppable(f)
<1>1. /\ excess \subseteq fs
      /\ Cardinality(fs \ excess) = Min({factMix.maxFacts, Cardinality(fs)})
      /\ \A g \in fs \ excess : made[f].at <= made[g].at
  BY DEF Oldest
<1>2. IsFiniteSet(Parents) /\ IsFiniteSet(Younger(f))
  BY ParentsAreFinite DEF FactsTyped
<1>3. IsFiniteSet(fs) /\ fs \ excess \in SUBSET fs /\ fs \ excess # fs
  BY <1>1, <1>2, FS_Subset
<1>4. Cardinality(fs \ excess) # Cardinality(fs) /\ Cardinality(fs \ excess) \in Nat /\ Cardinality(fs) \in Nat
  BY <1>3, FS_Subset, FS_CardinalityType
<1>5. factMix.maxFacts \in Nat
  BY DEF FactsTyped, MixOfMemory
<1>6. Min({factMix.maxFacts, Cardinality(fs)}) \in {factMix.maxFacts, Cardinality(fs)}
  <2>1. \E x \in {factMix.maxFacts, Cardinality(fs)} : \A y \in {factMix.maxFacts, Cardinality(fs)} : x <= y
    BY <1>4, <1>5
  <2> QED
    BY <2>1 DEF Min
<1>7. Cardinality(fs \ excess) = factMix.maxFacts
  BY <1>1, <1>4, <1>6
<1>8. fs \ excess \in SUBSET Younger(f)
  <2> SUFFICES ASSUME NEW g \in fs \ excess PROVE g \in Younger(f)
    OBVIOUS
  <2>1. g \in Parents /\ g # f /\ made[f].at <= made[g].at /\ f \in Parents
    BY <1>1
  <2>2. made[g].at \in Nat /\ made[f].at \in Nat
    BY <2>1, DomainOfMade DEF Parents, Fact, FactsTyped
  <2> QED
    BY <2>1, <2>2 DEF Younger
<1>9. Cardinality(fs \ excess) <= Cardinality(Younger(f)) /\ Cardinality(Younger(f)) \in Nat
  BY <1>2, <1>8, FS_Subset, FS_CardinalityType
<1>10. Cardinality(Younger(f)) >= factMix.maxFacts
  BY <1>5, <1>7, <1>9
<1> QED
  BY <1>1, <1>10 DEF Droppable

LEMMA ListedKeeps == ASSUME FactInv, NEW c \in Calls, Listed(c) PROVE FactInv'
<1>1. PICK excess \in Oldest(Facts("parent") \ Aged(Facts("parent"))) :
        /\ todo' = [todo EXCEPT ![c] = Aged(Facts("parent")) \cup excess]
        /\ FactGoto(c, IF todo'[c] = {} THEN "done"
                       ELSE IF factMix.summarize THEN "summarize" ELSE "forget")
  BY DEF Listed
<1>2. /\ Kind(c) # "fork"
      /\ UNCHANGED <<factMix, factClock, made, facts, index, sized, factTorn, vec, factCount, owed, blanked>>
  BY DEF Listed, factStore
<1>3. FactsTyped /\ factPc \in [Calls -> FactSteps] /\ todo \in [Calls -> SUBSET DOMAIN made]
      /\ factMix \in MixOfMemory /\ factClock \in Nat /\ facts \subseteq DOMAIN made
  BY DEF FactInv, FactsTyped
<1>4. Facts("parent") \subseteq Parents
  BY <1>3 DEF Facts, Parents
<1>5. \A f \in Aged(Facts("parent")) \cup excess : f \in Parents /\ Droppable(f)
  <2>1. \A f \in Aged(Facts("parent")) : f \in Parents /\ Droppable(f)
    BY <1>4 DEF Aged, Droppable
  <2>2. Facts("parent") \ Aged(Facts("parent")) \in SUBSET Parents
    BY <1>4
  <2>3. \A f \in excess : f \in Parents /\ Droppable(f)
    BY <1>1, <1>3, <2>2, ExcessIsDroppable
  <2> QED
    BY <2>1, <2>3
<1>6. todo'[c] = Aged(Facts("parent")) \cup excess /\ todo'[c] \subseteq Parents
  BY <1>1, <1>3, <1>5
<1>7. PICK at \in {"done", "summarize", "forget"} :
        /\ factPc' = [factPc EXCEPT ![c] = at]
        /\ factMix.summarize => at # "forget"
  BY <1>1 DEF FactGoto
<1>8. FactsTyped'
  <2>1. factPc' \in [Calls -> FactSteps]
    BY <1>3, <1>7 DEF FactSteps
  <2>2. todo'[c] \subseteq DOMAIN made
    BY <1>6 DEF Parents
  <2>3. todo' \in [Calls -> SUBSET DOMAIN made]
    BY <1>1, <1>3, <1>6, <2>2
  <2> QED
    BY <1>2, <1>3, <2>1, <2>3 DEF FactsTyped
<1>9. SameOptions
  BY <1>2, <1>3 DEF SameOptions
<1>10. \A d \in Calls \ {c} : Stands(d)
  BY <1>1, <1>2, <1>3, <1>7 DEF Stands
<1>11. Moves(c)
  <2>1. factPc'[c] = at /\ Kind(c)' = Kind(c) /\ Parents' = Parents
    BY <1>2, <1>3, <1>7 DEF Kind, Parents
  <2>2. \A f \in todo'[c] : Droppable(f)'
    <3>1. \A f : Droppable(f)' = Droppable(f)
      BY <1>2, <2>1 DEF Droppable, Younger
    <3> QED
      BY <1>5, <1>6, <3>1
  <2>3. Chosen(c)' /\ Forks(c)'
    BY <1>2, <1>6, <2>1, <2>2 DEF Chosen, Forks
  <2> QED
    BY <1>2, <1>7, <2>1, <2>3 DEF Moves
<1> QED
  BY <1>2, <1>3, <1>8, <1>9, <1>10, <1>11, QuietStep

(* A step of one call that does no more than go on, or fail.                 *)
LEMMA GoesKeeps ==
    ASSUME FactInv, NEW c \in Calls, SameOptions,
           NEW at \in {"consolidate", "failed"}, factPc' = [factPc EXCEPT ![c] = at],
           at = "consolidate" => factPc[c] = "summarize",
           UNCHANGED <<factClock, factStore, vec, factCount, todo, owed, blanked>>
    PROVE  FactInv'
<1>1. UNCHANGED <<factClock, made, facts, index, sized, factTorn, vec, factCount, todo, owed, blanked>>
  BY DEF factStore
<1>2. FactsTyped /\ factPc \in [Calls -> FactSteps] /\ factMix' \in MixOfMemory /\ factClock \in Nat
      /\ Chosen(c)
  BY DEF FactInv, FactsTyped, SameOptions
<1>3. factPc' \in [Calls -> FactSteps] /\ factPc'[c] = at
  BY <1>2 DEF FactSteps
<1>4. FactsTyped'
  BY <1>1, <1>2, <1>3 DEF FactsTyped
<1>5. \A d \in Calls \ {c} : Stands(d)
  BY <1>1, <1>2 DEF Stands
<1>6. Moves(c)
  <2>1. Kind(c)' = Kind(c) /\ Parents' = Parents /\ \A f : Droppable(f)' = Droppable(f)
    BY <1>1 DEF Kind, SameOptions, Parents, Droppable, Younger
  <2>2. at # "forget" /\ at # "copy" /\ at # "done" /\ factPc'[c] = at /\ todo'[c] = todo[c] /\ owed'[c] = owed[c]
    BY <1>1, <1>3
  <2>3. Chosen(c)'
    BY <1>2, <2>1, <2>2 DEF Chosen
  <2>4. Forks(c)'
    <3>1. Holds(Parents)' = Holds(Parents) /\ Forks(c) /\ factMix'.summarize = factMix.summarize
          /\ blanked' = blanked
      BY <1>1, <2>1 DEF Holds, FactInv, SameOptions
    <3> QED
      BY <2>1, <2>2, <3>1 DEF Forks
  <2> QED
    BY <2>2, <2>3, <2>4 DEF Moves
<1> QED
  BY <1>1, <1>2, <1>4, <1>5, <1>6, QuietStep

LEMMA SummarizedKeeps == ASSUME FactInv, NEW c \in Calls, Summarized(c) PROVE FactInv'
<1>1. SameOptions
  BY DEF Summarized, SameOptions, FactInv, FactsTyped
<1> QED
  BY <1>1, GoesKeeps DEF Summarized, FactGoto

LEMMA FailsKeeps == ASSUME FactInv, NEW c \in Calls, FactFails(c) PROVE FactInv'
<1>1. SameOptions
  BY FaultKeepsOptions DEF FactFails, FactInv, FactsTyped
<1> QED
  BY <1>1, GoesKeeps DEF FactFails, FactGoto

(* The summary is the heir of all it was made of.                            *)
LEMMA ConsolidatedKeeps == ASSUME FactInv, NEW c \in Calls, Consolidated(c) PROVE FactInv'
<1>1. /\ factPc[c] = "consolidate" /\ factPc' = [factPc EXCEPT ![c] = "forget"]
      /\ UNCHANGED <<factClock, vec, factCount, todo, owed>>
  BY DEF Consolidated, FactGoto
<1>2. FactsTyped /\ factPc \in [Calls -> FactSteps] /\ factMix \in MixOfMemory /\ factClock \in Nat
      /\ made \in Seq(Fact) /\ blanked \in BOOLEAN
  BY DEF FactInv, FactsTyped
<1>3. Kind(c) # "fork" /\ todo[c] \subseteq Parents /\ \A f \in todo[c] : Droppable(f)
  BY <1>1 DEF FactInv, Chosen
<1>4. factPc' \in [Calls -> FactSteps] /\ factPc'[c] = "forget"
  BY <1>1, <1>2 DEF FactSteps
<1>5. \A d \in Calls \ {c} : Stands(d)
  BY <1>1, <1>2 DEF Stands
<1>6. CASE Write("parent", << Holds(todo[c]) >>) /\ UNCHANGED <<factMix, blanked>>
  <2>1. << Holds(todo[c]) >> \in Seq(SUBSET Calls)
    <3>1. \A f \in Parents : made[f].of \subseteq Calls
      BY <1>2, DomainOfMade DEF Parents, Fact
    <3>2. Holds(todo[c]) \in SUBSET Calls
      BY <1>3, <3>1 DEF Holds
    <3> QED
      BY <3>2
  <2>2. /\ made' \in Seq(Fact) /\ Len(made') = Len(made) + 1
        /\ \A f \in DOMAIN made : made'[f] = made[f]
        /\ Len(made) + 1 \in DOMAIN made' /\ Len(made) + 1 \in facts'
        /\ made'[Len(made) + 1] = [scope |-> "parent", at |-> factClock, of |-> Holds(todo[c])]
        /\ facts' \subseteq DOMAIN made' /\ index' \subseteq DOMAIN made'
        /\ \A f \in DOMAIN made' : made'[f].at <= factClock
        /\ sized' \in BOOLEAN /\ factTorn' \subseteq DOMAIN made'
    <3>1. Len(<< Holds(todo[c]) >>) = 1 /\ << Holds(todo[c]) >>[1] = Holds(todo[c]) /\ 1 \in 1 .. 1
      OBVIOUS
    <3>2. \A i \in 1 .. 1 :
            /\ Len(made) + i \in DOMAIN made' /\ Len(made) + i \in facts'
            /\ made'[Len(made) + i] = [scope |-> "parent", at |-> factClock,
                                       of |-> << Holds(todo[c]) >>[i]]
      BY <1>2, <1>6, <2>1, <3>1, WriteFacts
    <3>3. /\ made' \in Seq(Fact) /\ Len(made') = Len(made) + Len(<< Holds(todo[c]) >>)
          /\ \A f \in DOMAIN made : made'[f] = made[f]
          /\ facts' \subseteq DOMAIN made' /\ index' \subseteq DOMAIN made'
          /\ \A f \in DOMAIN made' : made'[f].at <= factClock
          /\ sized' \in BOOLEAN /\ factTorn' \subseteq DOMAIN made'
      BY <1>2, <1>6, <2>1, WriteFacts
    <3> QED
      BY <3>1, <3>2, <3>3
  <2>3. SameOptions
    BY <1>2, <1>6 DEF SameOptions
  <2>4. Grows
    BY <1>1, <1>2, <2>2, <2>3, DomainOfMade DEF Grows
  <2>5. /\ DOMAIN made \subseteq DOMAIN made' /\ Parents \subseteq Parents'
        /\ \A f \in Parents : Droppable(f) => Droppable(f)'
    BY <1>1, <1>2, <2>2, <2>4, GrowsKeeps
  <2>6. FactsTyped'
    <3>1. todo \in [Calls -> SUBSET DOMAIN made']
      BY <1>2, <2>5 DEF FactsTyped
    <3> QED
      BY <1>1, <1>2, <1>4, <1>6, <2>2, <3>1 DEF FactsTyped
  <2>7. \A f \in todo[c] : Heir(f)'
    <3> SUFFICES ASSUME NEW f \in todo[c] PROVE Heir(f)'
      OBVIOUS
    <3>1. f \in DOMAIN made /\ made'[f] = made[f] /\ Len(made) \in Nat /\ f \in 1 .. Len(made)
      BY <1>2, <1>3, <2>2, DomainOfMade DEF Parents
    <3>2. Len(made) + 1 \in Parents' /\ Len(made) + 1 > f
      BY <2>2, <3>1 DEF Parents
    <3>3. made[f].of \subseteq made'[Len(made) + 1].of
      BY <2>2 DEF Holds
    <3> QED
      BY <3>1, <3>2, <3>3 DEF Heir
  <2>8. Moves(c)
    <3>1. Kind(c)' # "fork" /\ todo'[c] = todo[c]
      BY <1>1, <1>3, <1>6 DEF Kind
    <3>2. Chosen(c)' /\ Forks(c)'
      BY <1>3, <1>4, <2>5, <3>1 DEF Chosen, Forks
    <3> QED
      BY <2>7, <3>1, <3>2 DEF Moves
  <2> QED
    BY <1>1, <1>5, <1>6, <2>1, <2>3, <2>6, <2>8, WriteStep
<1>7. CASE FactFault("blank") /\ blanked' = TRUE /\ UNCHANGED factStore
  <2>1. SameOptions
    BY <1>2, <1>7, FaultKeepsOptions
  <2>2. UNCHANGED <<made, facts, index, sized, factTorn>>
    BY <1>7 DEF factStore
  <2>3. FactsTyped'
    BY <1>1, <1>2, <1>4, <1>7, <2>1, <2>2 DEF FactsTyped, SameOptions
  <2>4. Moves(c)
    <3>1. Kind(c)' = Kind(c) /\ Parents' = Parents /\ \A f : Droppable(f)' = Droppable(f)
      BY <1>1, <2>1, <2>2 DEF Kind, SameOptions, Parents, Droppable, Younger
    <3> QED
      BY <1>1, <1>3, <1>7, <3>1 DEF Moves, Chosen, Forks
  <2> QED
    BY <1>1, <1>2, <1>5, <1>7, <2>1, <2>2, <2>3, <2>4, QuietStep
<1> QED
  BY <1>6, <1>7 DEF Consolidated

(* What is forgotten was listed: it may be dropped, and has a heir.          *)
LEMMA ForgottenKeeps == ASSUME FactInv, NEW c \in Calls, "parent" \notin Calls, Forgotten(c) PROVE FactInv'
<1>1. /\ factPc[c] = "forget" /\ factPc' = [factPc EXCEPT ![c] = "done"]
      /\ todo' = [todo EXCEPT ![c] = {}]
      /\ facts' = facts \ todo[c]
      /\ index' = IF vec THEN index \ (todo[c] \cap facts) ELSE index
      /\ factTorn' = IF vec THEN factTorn ELSE factTorn \cup (todo[c] \cap facts)
      /\ UNCHANGED <<factMix, factClock, made, sized, vec, factCount, owed, blanked>>
  BY DEF Forgotten, Forget, FactGoto
<1>2. FactsTyped /\ factPc \in [Calls -> FactSteps] /\ factMix \in MixOfMemory /\ factClock \in Nat
      /\ made \in Seq(Fact) /\ todo \in [Calls -> SUBSET DOMAIN made] /\ facts \subseteq DOMAIN made
      /\ index \subseteq DOMAIN made /\ factTorn \subseteq DOMAIN made
  BY DEF FactInv, FactsTyped
<1>3. Kind(c) # "fork" /\ todo[c] \subseteq Parents /\ \A f \in todo[c] : Droppable(f)
  BY <1>1 DEF FactInv, Chosen
<1>4. factPc' \in [Calls -> FactSteps] /\ factPc'[c] = "done" /\ todo'[c] = {}
      /\ todo' \in [Calls -> SUBSET DOMAIN made]
  BY <1>1, <1>2 DEF FactSteps
<1>5. \A d \in Calls \ {c} : Stands(d)
  BY <1>1, <1>2 DEF Stands
<1>6. FactsTyped'
  <2>1. facts' \subseteq DOMAIN made /\ index' \subseteq DOMAIN made
    BY <1>1, <1>2
  <2>2. factTorn' \subseteq DOMAIN made'
    BY <1>1, <1>2
  <2> QED
    BY <1>1, <1>2, <1>4, <2>1, <2>2 DEF FactsTyped
<1>7. Grows
  BY <1>1, <1>2 DEF Grows, SameOptions
<1>8. IndexIsFacts'
  BY <1>1 DEF FactInv, IndexIsFacts
<1>9. Moves(c)
  BY <1>1, <1>3, <1>4 DEF Moves, Chosen, Forks, Kind
<1>10. ASSUME NEW f \in Parents' \ facts' PROVE f \in Parents \ facts \/ Drops(f)
  <2>1. f \in Parents \ facts \/ f \in todo[c]
    BY <1>1, <1>10 DEF Parents
  <2>2. CASE f \in todo[c]
    <3>1. Droppable(f)'
      BY <1>1, <1>2, <1>3, <1>7, <2>2, GrowsKeeps
    <3>2. factMix.summarize /\ ~blanked => Heir(f)
      BY <1>1, <2>2 DEF FactInv, Inherited
    <3>3. (factMix.summarize /\ ~blanked)' => Heir(f)'
      BY <1>1, <3>2 DEF Heir, Parents
    <3> QED
      BY <3>1, <3>3 DEF Drops
  <2> QED
    BY <2>1, <2>2
<1>11. \A d \in Calls : Facts(d) \subseteq facts'
  BY <1>1, <1>3 DEF Facts, Parents
<1> QED
  BY <1>1, <1>5, <1>6, <1>7, <1>8, <1>9, <1>10, <1>11, FactStep

LEMMA ForkListedKeeps == ASSUME FactInv, NEW c \in Calls, ForkListed(c) PROVE FactInv'
<1>1. /\ Kind(c) = "fork" /\ factPc' = [factPc EXCEPT ![c] = "copy"]
      /\ todo' = [todo EXCEPT ![c] = Facts("parent")]
      /\ UNCHANGED <<factMix, factClock, made, facts, index, sized, factTorn, vec, factCount, owed, blanked>>
  BY DEF ForkListed, FactGoto, factStore
<1>2. FactsTyped /\ factPc \in [Calls -> FactSteps] /\ factMix \in MixOfMemory /\ factClock \in Nat
      /\ made \in Seq(Fact) /\ todo \in [Calls -> SUBSET DOMAIN made] /\ facts \subseteq DOMAIN made
  BY DEF FactInv, FactsTyped
<1>3. factPc' \in [Calls -> FactSteps] /\ factPc'[c] = "copy" /\ todo'[c] = Facts("parent")
      /\ todo' \in [Calls -> SUBSET DOMAIN made]
  BY <1>1, <1>2 DEF FactSteps, Facts
<1>4. \A d \in Calls \ {c} : Stands(d)
  BY <1>1, <1>2 DEF Stands
<1>5. FactsTyped'
  BY <1>1, <1>2, <1>3 DEF FactsTyped
<1>6. SameOptions
  BY <1>1, <1>2 DEF SameOptions
<1>7. factMix.summarize /\ ~blanked =>
        owed[c] \subseteq Holds(Parents) /\ Holds(Parents) \subseteq Holds(Facts("parent"))
  BY <1>1, <1>2, HeldAtLast DEF FactInv, Forks, Inherited
<1>8. Moves(c)
  <2>1. Kind(c)' = "fork" /\ Holds(Parents)' = Holds(Parents) /\ Holds(todo[c])' = Holds(Facts("parent"))
    BY <1>1, <1>3 DEF Kind, Holds, Parents
  <2>2. Chosen(c)'
    BY <1>3 DEF Chosen
  <2>3. Forks(c)'
    BY <1>1, <1>3, <1>7, <2>1 DEF Forks
  <2> QED
    BY <1>3, <2>2, <2>3 DEF Moves
<1> QED
  BY <1>1, <1>2, <1>4, <1>5, <1>6, <1>8, QuietStep

LEMMA CopiedKeeps == ASSUME FactInv, NEW c \in Calls, Copied(c) PROVE FactInv'
<1>1. /\ factPc' = [factPc EXCEPT ![c] = "done"] /\ todo' = [todo EXCEPT ![c] = {}]
      /\ factPc[c] = "copy" /\ UNCHANGED <<factClock, vec, factCount, owed>>
  BY DEF Copied, FactGoto
<1>2. FactsTyped /\ factPc \in [Calls -> FactSteps] /\ factMix \in MixOfMemory /\ factClock \in Nat
      /\ made \in Seq(Fact) /\ todo \in [Calls -> SUBSET DOMAIN made] /\ facts \subseteq DOMAIN made
      /\ blanked \in BOOLEAN
  BY DEF FactInv, FactsTyped
<1>3. PICK fs \in {todo[c]} \cup {todo[c] \ {f} : f \in todo[c]} :
        /\ IF fs = todo[c] THEN UNCHANGED <<factMix, blanked>> ELSE FactFault("blank") /\ blanked' = TRUE
        /\ Write(c, RowsOf(fs))
  BY DEF Copied, RowsOf, Upto
<1>4. fs \in SUBSET DOMAIN made
  BY <1>2, <1>3
<1>5. /\ RowsOf(fs) \in Seq(SUBSET Calls)
      /\ \A f \in fs : \E i \in 1 .. Len(RowsOf(fs)) : RowsOf(fs)[i] = made[f].of
  BY <1>2, <1>4, RowsHoldAll
<1>6. SameOptions
  <2>1. CASE fs = todo[c]
    BY <1>2, <1>3, <2>1 DEF SameOptions
  <2>2. CASE fs # todo[c]
    BY <1>2, <1>3, <2>2, FaultKeepsOptions
  <2> QED
    BY <2>1, <2>2
<1>7. blanked => blanked'
  BY <1>3
<1>8. blanked' \in BOOLEAN
  BY <1>2, <1>3
<1>9. /\ made' \in Seq(Fact) /\ Len(made') = Len(made) + Len(RowsOf(fs))
      /\ \A f \in DOMAIN made : made'[f] = made[f]
      /\ facts' \subseteq DOMAIN made' /\ index' \subseteq DOMAIN made'
      /\ \A f \in DOMAIN made' : made'[f].at <= factClock
      /\ sized' \in BOOLEAN /\ factTorn' \subseteq DOMAIN made'
  BY <1>2, <1>3, <1>5, WriteFacts
<1>10. \A i \in 1 .. Len(RowsOf(fs)) :
          /\ Len(made) + i \in DOMAIN made' /\ Len(made) + i \in facts'
          /\ made'[Len(made) + i] = [scope |-> c, at |-> factClock, of |-> RowsOf(fs)[i]]
  BY <1>2, <1>3, <1>5, WriteFacts
<1>11. Len(made) \in Nat /\ Len(RowsOf(fs)) \in Nat
  BY <1>2, <1>5
<1>12. Grows
  BY <1>1, <1>2, <1>6, <1>9, <1>11 DEF Grows
<1>13. DOMAIN made \subseteq DOMAIN made' /\ Parents \subseteq Parents'
  BY <1>1, <1>2, <1>9, <1>12, GrowsKeeps
<1>14. factPc' \in [Calls -> FactSteps] /\ factPc'[c] = "done" /\ todo'[c] = {}
       /\ todo' \in [Calls -> SUBSET DOMAIN made']
  BY <1>1, <1>2, <1>13 DEF FactSteps
<1>15. FactsTyped'
  BY <1>1, <1>2, <1>6, <1>8, <1>9, <1>14 DEF FactsTyped, SameOptions
<1>16. \A d \in Calls \ {c} : Stands(d)
  BY <1>1, <1>2 DEF Stands
<1>17. Moves(c)
  <2>1. Chosen(c)'
    BY <1>14 DEF Chosen
  <2>2. Forks(c)'
    <3>1. SUFFICES ASSUME factMix'.summarize, ~blanked', Kind(c)' = "fork"
                   PROVE  owed'[c] \subseteq Holds(Parents)' /\ owed'[c] \subseteq Holds(Facts(c))'
      BY <1>14 DEF Forks
    <3>2. fs = todo[c] /\ ~blanked /\ factMix.summarize /\ Kind(c) = "fork"
      BY <1>3, <1>6, <1>7, <3>1 DEF SameOptions, Kind
    <3>3. owed[c] \subseteq Holds(Parents) /\ owed[c] \subseteq Holds(fs)
      BY <1>1, <3>2 DEF FactInv, Forks
    <3>4. Holds(Parents) \subseteq Holds(Parents)'
      BY <1>9, <1>13 DEF Holds, Parents
    <3>5. Holds(fs) \subseteq Holds(Facts(c))'
      <4>1. SUFFICES ASSUME NEW f \in fs PROVE \E g \in Facts(c)' : made'[g].of = made[f].of
        BY DEF Holds
      <4>2. PICK i \in 1 .. Len(RowsOf(fs)) : RowsOf(fs)[i] = made[f].of
        BY <1>5
      <4>3. Len(made) + i \in facts' /\ made'[Len(made) + i].scope = c
            /\ made'[Len(made) + i].of = made[f].of
        <5>1. Len(made) + i \in facts'
              /\ made'[Len(made) + i] = [scope |-> c, at |-> factClock, of |-> RowsOf(fs)[i]]
          BY <1>10
        <5>2. [scope |-> c, at |-> factClock, of |-> RowsOf(fs)[i]].scope = c
              /\ [scope |-> c, at |-> factClock, of |-> RowsOf(fs)[i]].of = RowsOf(fs)[i]
          OBVIOUS
        <5> QED
          BY <4>2, <5>1, <5>2
      <4> QED
        BY <4>3 DEF Facts
    <3> QED
      BY <1>1, <3>3, <3>4, <3>5
  <2> QED
    BY <1>14, <2>1, <2>2 DEF Moves
<1> QED
  BY <1>1, <1>3, <1>5, <1>6, <1>7, <1>15, <1>16, <1>17, WriteStep

(* A crash between the two statements of remember() tears the one new fact.  *)
LEMMA TornWriteFacts ==
    ASSUME FactsTyped, NEW of \in SUBSET Calls, TornWrite(of)
    PROVE  /\ made' \in Seq(Fact) /\ Len(made) <= Len(made') /\ \A f \in DOMAIN made : made'[f] = made[f]
           /\ facts \subseteq facts' /\ DOMAIN made' \ DOMAIN made \subseteq facts'
           /\ facts' \subseteq DOMAIN made' /\ \A f \in DOMAIN made' : made'[f].at <= factClock
           /\ index' \subseteq DOMAIN made' /\ factTorn' \subseteq DOMAIN made'
           /\ (IndexIsFacts => IndexIsFacts')
<1>1. /\ made' = Append(made, [scope |-> "parent", at |-> factClock, of |-> of])
      /\ facts' = facts \cup {Len(made) + 1} /\ factTorn' = factTorn \cup {Len(made) + 1}
      /\ index' = index
  BY DEF TornWrite
<1>2. /\ made \in Seq(Fact) /\ factClock \in Nat /\ facts \subseteq DOMAIN made /\ index \subseteq DOMAIN made
      /\ factTorn \subseteq DOMAIN made /\ \A f \in DOMAIN made : made[f].at <= factClock
  BY DEF FactsTyped
<1>3. [scope |-> "parent", at |-> factClock, of |-> of] \in Fact
  BY <1>2 DEF Fact
<1>4. /\ made' \in Seq(Fact) /\ Len(made') = Len(made) + 1
      /\ \A f \in 1 .. Len(made) : made'[f] = made[f]
      /\ made'[Len(made) + 1] = [scope |-> "parent", at |-> factClock, of |-> of]
  BY <1>1, <1>2, <1>3, AppendProperties
<1>5. Len(made) \in Nat /\ DOMAIN made = 1 .. Len(made) /\ DOMAIN made' = 1 .. (Len(made) + 1)
  BY <1>2, <1>4, DomainOfMade
<1>6. DOMAIN made' = DOMAIN made \cup {Len(made) + 1}
  BY <1>5
<1>7. \A f \in DOMAIN made' : made'[f].at <= factClock
  BY <1>2, <1>4, <1>5, <1>6
<1>8. IndexIsFacts => IndexIsFacts'
  BY <1>1, <1>6 DEF IndexIsFacts
<1> QED
  BY <1>1, <1>2, <1>4, <1>5, <1>6, <1>7, <1>8

(* A crash ends every call; it leaves the facts, but maybe one more, and of  *)
(* the index what it had, or less.                                           *)
LEMMA FactCrashKeeps == ASSUME FactInv, FactCrash PROVE FactInv'
<1>1. /\ FactFault("crash") /\ (vec' = TRUE \/ vec' = FALSE) /\ sized' = FALSE /\ factCount' = 0
      /\ factPc' = [c \in Calls |-> IF factPc[c] \in {"idle", "done", "failed"} THEN factPc[c] ELSE "failed"]
      /\ UNCHANGED <<factClock, todo, owed, blanked>>
  BY DEF FactCrash
<1>2. FactsTyped /\ factPc \in [Calls -> FactSteps] /\ factMix \in MixOfMemory /\ factClock \in Nat
      /\ made \in Seq(Fact) /\ todo \in [Calls -> SUBSET DOMAIN made] /\ facts \subseteq DOMAIN made
      /\ index \subseteq DOMAIN made /\ factTorn \subseteq DOMAIN made
      /\ \A f \in DOMAIN made : made[f].at <= factClock
  BY DEF FactInv, FactsTyped
<1>3. SameOptions
  BY <1>1, <1>2, FaultKeepsOptions
<1>4. factPc' \in [Calls -> FactSteps]
  BY <1>1, <1>2 DEF FactSteps
<1>5. /\ made' \in Seq(Fact) /\ Len(made) <= Len(made') /\ \A f \in DOMAIN made : made'[f] = made[f]
      /\ facts \subseteq facts' /\ DOMAIN made' \ DOMAIN made \subseteq facts'
      /\ facts' \subseteq DOMAIN made' /\ \A f \in DOMAIN made' : made'[f].at <= factClock
      /\ index' \subseteq DOMAIN made' /\ factTorn' \subseteq DOMAIN made'
      /\ (IndexIsFacts => IndexIsFacts')
  <2>1. CASE UNCHANGED <<made, facts, index, factTorn>>
    <3>1. IndexIsFacts => IndexIsFacts'
      BY <2>1 DEF IndexIsFacts
    <3> QED
      BY <1>2, <2>1, <3>1, DomainOfMade
  <2>2. ASSUME NEW c \in Calls, TornForget(c)
        PROVE  /\ UNCHANGED <<made, facts>> /\ index' \subseteq index
               /\ factTorn' \subseteq DOMAIN made /\ (IndexIsFacts => IndexIsFacts')
    BY <1>2, <2>2 DEF TornForget, IndexIsFacts
  <2>3. ASSUME NEW c \in Calls, TornForget(c)
        PROVE  /\ made' \in Seq(Fact) /\ Len(made) <= Len(made') /\ \A f \in DOMAIN made : made'[f] = made[f]
               /\ facts \subseteq facts' /\ DOMAIN made' \ DOMAIN made \subseteq facts'
               /\ facts' \subseteq DOMAIN made' /\ \A f \in DOMAIN made' : made'[f].at <= factClock
               /\ index' \subseteq DOMAIN made' /\ factTorn' \subseteq DOMAIN made'
    BY <1>2, <2>2, <2>3, DomainOfMade
  <2>4. ASSUME NEW c \in Calls PROVE {c} \in SUBSET Calls /\ Holds(todo[c]) \in SUBSET Calls
    <3>1. todo[c] \subseteq DOMAIN made /\ \A f \in DOMAIN made : made[f].of \subseteq Calls
      BY <1>2, <2>4, DomainOfMade DEF Fact
    <3> QED
      BY <3>1 DEF Holds
  <2> HIDE DEF IndexIsFacts
  <2> QED
    <3>1. \/ UNCHANGED <<made, facts, index, factTorn>>
          \/ \E of \in SUBSET Calls : TornWrite(of)
          \/ \E c \in Calls : TornForget(c)
      BY <2>4 DEF FactCrash
    <3>2. CASE \E of \in SUBSET Calls : TornWrite(of)
      BY <1>2, <3>2, TornWriteFacts
    <3>3. CASE \E c \in Calls : TornForget(c)
      BY <2>2, <2>3, <3>3
    <3> QED
      BY <2>1, <3>1, <3>2, <3>3
<1>6. Grows
  BY <1>1, <1>2, <1>3, <1>5 DEF Grows
<1>7. DOMAIN made \subseteq DOMAIN made'
  BY <1>1, <1>2, <1>5, <1>6, GrowsKeeps
<1>8. FactsTyped'
  <2>1. todo' \in [Calls -> SUBSET DOMAIN made']
    BY <1>1, <1>2, <1>7
  <2> QED
    BY <1>1, <1>2, <1>3, <1>4, <1>5, <2>1 DEF FactsTyped, SameOptions
<1>9. IndexIsFacts'
  BY <1>5 DEF FactInv
<1>10. \A f \in Parents' \ facts' : f \in Parents \ facts
  BY <1>5 DEF Parents
<1>11. \A d \in Calls : Facts(d) \subseteq facts'
  BY <1>5 DEF Facts
<1>12. ASSUME NEW d \in Calls PROVE Stands(d) \/ Moves(d)
  <2>1. CASE factPc[d] \in {"idle", "done", "failed"}
    BY <1>1, <2>1 DEF Stands
  <2>2. CASE factPc[d] \notin {"idle", "done", "failed"}
    <3>1. factPc'[d] = "failed"
      BY <1>1, <2>2
    <3>2. Chosen(d)'
      BY <3>1 DEF Chosen
    <3>3. Forks(d)'
      <4>1. Holds(Parents) \subseteq Holds(Parents)'
        BY <1>5, <1>7 DEF Holds, Parents
      <4>2. Forks(d) /\ Kind(d)' = Kind(d) /\ factMix'.summarize = factMix.summarize
            /\ blanked' = blanked /\ owed'[d] = owed[d]
        BY <1>1, <1>3 DEF FactInv, Kind, SameOptions
      <4> QED
        BY <3>1, <4>1, <4>2 DEF Forks
    <3> QED
      BY <3>1, <3>2, <3>3 DEF Moves
  <2> QED
    BY <2>1, <2>2
<1> QED
  BY <1>1, <1>6, <1>8, <1>9, <1>10, <1>11, <1>12, FactStep

LEMMA FactTickKeeps == ASSUME FactInv, FactTick PROVE FactInv'
<1>1. /\ factMix' = [factMix EXCEPT !.ticks = @ - 1] /\ factMix.ticks > 0 /\ factClock' = factClock + 1
      /\ UNCHANGED <<made, facts, index, sized, factTorn, vec, factCount, factPc, todo, owed, blanked>>
  BY DEF FactTick, factStore
<1>2. FactsTyped /\ factMix \in MixOfMemory /\ factClock \in Nat /\ made \in Seq(Fact)
  BY DEF FactInv, FactsTyped
<1>3. SameOptions
  <2>1. factMix.ticks \in Nat /\ factMix.ticks - 1 \in Nat
    BY <1>1, <1>2 DEF MixOfMemory
  <2>2. factMix' = [factMix EXCEPT !.ticks = factMix.ticks - 1]
    BY <1>1
  <2>3. factMix' \in MixOfMemory
    BY <1>2, <2>1, <2>2 DEF MixOfMemory
  <2> QED
    BY <1>2, <2>2, <2>3 DEF SameOptions, MixOfMemory
<1>4. \A f \in DOMAIN made : made[f].at <= factClock'
  <2>1. \A f \in DOMAIN made : made[f].at \in Nat /\ made[f].at <= factClock
    BY <1>2, DomainOfMade DEF FactsTyped, Fact
  <2> QED
    BY <1>1, <1>2, <2>1
<1>5. FactsTyped'
  BY <1>1, <1>2, <1>3, <1>4 DEF FactsTyped, SameOptions
<1>6. \A d \in Calls : Stands(d)
  BY <1>1 DEF Stands
<1> QED
  BY <1>1, <1>2, <1>3, <1>5, <1>6, QuietStep

LEMMA FactInit == ASSUME MemoryConstants, MemoryInit PROVE FactInv
<1>1. FactsTyped
  <2>1. made = <<>> /\ DOMAIN made = {} /\ made \in Seq(Fact)
    BY DEF MemoryInit
  <2>2. factMix \in MixOfMemory
    BY DEF MemoryConstants, MemoryInit
  <2>3. /\ factClock \in Nat /\ factCount \in Nat /\ facts = {} /\ index = {}
        /\ vec \in BOOLEAN /\ sized \in BOOLEAN /\ blanked \in BOOLEAN /\ factTorn \subseteq DOMAIN made
    BY DEF MemoryInit
  <2>4. factPc \in [Calls -> FactSteps]
    BY DEF MemoryInit, FactSteps
  <2>5. todo \in [Calls -> SUBSET DOMAIN made] /\ owed \in [Calls -> SUBSET Calls]
    BY DEF MemoryInit
  <2> QED
    BY <2>1, <2>2, <2>3, <2>4, <2>5 DEF FactsTyped
<1>2. Parents = {} /\ IndexIsFacts
  BY DEF MemoryInit, Parents, IndexIsFacts
<1>3. \A c \in Calls : Chosen(c) /\ Forks(c)
  BY DEF MemoryInit, Chosen, Forks
<1>4. Inherited /\ DroppedWell
  BY <1>2 DEF Inherited, DroppedWell, MemoryInit
<1> QED
  BY <1>1, <1>2, <1>3, <1>4 DEF FactInv

LEMMA FactNext == ASSUME MemoryConstants, FactInv, [MemoryNext]_memoryVars PROVE FactInv'
<1>1. CASE UNCHANGED memoryVars
  BY <1>1 DEF memoryVars, factStore, FactInv, FactsTyped, IndexIsFacts, DroppedWell, Inherited,
     Chosen,
              Forks, Parents, Younger, Droppable, Heir, Holds, Facts, Kind
<1>2. CASE MemoryNext
  <2>1. CASE FactCrash \/ FactTick
    BY <2>1, FactCrashKeeps, FactTickKeeps
  <2>2. ASSUME NEW c \in Calls,
               \/ FactBegins(c) \/ Remembered(c) \/ Listed(c) \/ Summarized(c) \/ Consolidated(c)
               \/ Forgotten(c) \/ ForkListed(c) \/ Copied(c) \/ FactFails(c)
        PROVE  FactInv'
    BY <2>2, BeginsKeeps, RememberedKeeps, ListedKeeps, SummarizedKeeps, ConsolidatedKeeps,
       ForgottenKeeps, ForkListedKeeps, CopiedKeeps, FailsKeeps DEF MemoryConstants
  <2> QED
    BY <1>2, <2>1, <2>2 DEF MemoryNext
<1> QED
  BY <1>1, <1>2

LEMMA FactsFollow == ASSUME FactInv PROVE MemoryTypeOK /\ FactsAreKept
<1>1. FactsTyped /\ made \in Seq(Fact)
  BY DEF FactInv, FactsTyped
<1>2. MemoryTypeOK
  <2>1. \A f \in DOMAIN made :
           made[f] \in [scope : {"parent"} \cup Calls, at : 0..factClock, of : SUBSET Calls]
    <3> SUFFICES ASSUME NEW f \in DOMAIN made
                 PROVE  made[f] \in [scope : {"parent"} \cup Calls, at : 0..factClock, of : SUBSET Calls]
      OBVIOUS
    <3>1. made[f] \in Fact /\ made[f].at <= factClock /\ factClock \in Nat
      BY <1>1, DomainOfMade DEF FactsTyped
    <3>2. made[f].at \in 0 .. factClock
      BY <3>1 DEF Fact
    <3> QED
      BY <3>1, <3>2 DEF Fact
  <2> QED
    BY <1>1, <2>1 DEF MemoryTypeOK, FactsTyped, FactSteps
<1>3. NewestAreKept
  BY DEF FactInv, DroppedWell, Droppable, Younger, Parents, NewestAreKept
<1>4. NothingIsLost
  <2>1. SUFFICES ASSUME factMix.summarize, ~blanked
                 PROVE  /\ Holds(Parents) \subseteq Holds(Facts("parent"))
                        /\ \A c \in Calls : Kind(c) = "fork" /\ factPc[c] = "done" => owed[c] \subseteq Holds(Facts(c))
    BY DEF NothingIsLost, Parents
  <2>2. Holds(Parents) \subseteq Holds(Facts("parent"))
    BY <1>1, <2>1, HeldAtLast DEF FactInv, Inherited
  <2> QED
    BY <2>1, <2>2 DEF FactInv, Forks
<1> QED
  BY <1>2, <1>3, <1>4 DEF FactsAreKept, FactInv

(* However remember(), compactions and forks of one resource overlap, fail   *)
(* and die, the newest facts are kept, with a summarizer nothing is lost,    *)
(* and the index has the facts there are (compaction.ts:61-110).             *)
THEOREM FactsKept == MemorySpec => []FactsAreKept
<1>1. MemoryInit => FactInv
  BY MemoryAssumption, FactInit
<1>2. FactInv /\ [MemoryNext]_memoryVars => FactInv'
  BY MemoryAssumption, FactNext
<1>3. FactInv => FactsAreKept
  BY FactsFollow
<1> QED
  BY <1>1, <1>2, <1>3, PTL DEF MemorySpec

(* The types of the facts, their index and the calls (semantic.ts:83-309).   *)
THEOREM FactsTypeOK == MemorySpec => []MemoryTypeOK
<1>1. MemoryInit => FactInv
  BY MemoryAssumption, FactInit
<1>2. FactInv /\ [MemoryNext]_memoryVars => FactInv'
  BY MemoryAssumption, FactNext
<1>3. FactInv => MemoryTypeOK
  BY FactsFollow
<1> QED
  BY <1>1, <1>2, <1>3, PTL DEF MemorySpec

-----------------------------------------------------------------------------
(* The off-box backups (BackupsAreWhole and BackupTypeOK of Backup), for any *)
(* number of jobs, faults and restores, and any grace and --keep.            *)
JobSteps == {"idle", "db", "work", "rename", "prune", "put", "list", "doom", "delete", "done", "failed"}
UploadFiles == Parts \cup {Manifest}
Directory == [there : BOOLEAN, at : Nat, has : Contents]
Key == AllNames \X UploadFiles
Blob == [key : Key, at : Nat, has : Nat]

JobsTyped ==
    /\ jobMix \in MixOfBackups /\ \E m \in JobMixes : jobMix.name = m.name
    /\ jobClock \in Nat /\ daemon \in Contents
    /\ jobPc \in [Jobs -> JobSteps] /\ since \in [Jobs -> Nat]
    /\ file \in [Jobs -> UploadFiles \cup {"done"}]
    /\ \A j \in Jobs : since[j] <= jobClock
    /\ \A j \in Jobs : jobPc[j] # "idle" => Name(j) # 0
    /\ \A j \in Jobs : jobPc[j] = "put" => file[j] # "done"

DirsTyped ==
    /\ staging \in [AllNames -> Directory] /\ local \in [AllNames -> Directory]
    /\ \A n \in AllNames : staging[n].at <= jobClock /\ local[n].at <= jobClock

StoreTyped ==
    /\ stored \subseteq Blob /\ \A b \in stored : b.at <= jobClock
    /\ listed \in [Jobs -> SUBSET AllNames] /\ doomed \in [Jobs -> SUBSET Key]
    /\ taken \in [AllNames -> Contents]

RestoreTyped ==
    restore \in [at : {"idle", "done", "failed"} \cup UploadFiles, name : {restore.name}, got : Contents]

BackupsTyped == JobsTyped /\ DirsTyped /\ StoreTyped /\ RestoreTyped

-----------------------------------------------------------------------------
(* The directories: of a job that copies it is there, young, and consistent as *)
(* far as it is.                                                             *)
CopySound(j) ==
    LET s == staging[Name(j)]
    IN  Copying(j) =>
            /\ s.there /\ since[j] <= s.at /\ jobClock <= since[j] + Grace
            /\ jobPc[j] = "work" => 0 < s.has["db"] /\ s.has["db"] <= daemon["db"] + 1
            /\ jobPc[j] = "rename" => Consistent(s.has)

DirsSound ==
    /\ daemon["db"] <= daemon["work"]
    /\ \A j \in Jobs : CopySound(j)
    /\ \A n \in AllNames : local[n].there => Consistent(local[n].has)

(* Who finished its upload, and is not the newest that did.                  *)
Uploaded(j) == file[j] = "done"
Finished == {Name(j) : j \in {j \in Jobs : Uploaded(j)}}
Outdone(n) == \E m \in Finished : m > n

OfJob(j) == {b \in stored : b.key[1] = Name(j)}
HasIn(n, p) == {b.has : b \in At(n, p)} = {taken[n][p]}

(* How far an upload is.                                                     *)
EarlySound(j) ==
    jobPc[j] \in {"idle", "db", "work", "rename", "prune"} => file[j] = "db" /\ OfJob(j) = {}

PutSound(j) ==
    jobPc[j] = "put" =>
        /\ ~Uploaded(j) /\ jobClock <= since[j] + Grace /\ \A b \in OfJob(j) : since[j] <= b.at
        /\ file[j] # "db" => HasIn(Name(j), "db")
        /\ file[j] = "work" /\ local[Name(j)].there => taken[Name(j)]["db"] = local[Name(j)].has["db"]
        /\ file[j] = Manifest => HasIn(Name(j), "work") /\ Consistent(taken[Name(j)])

UploadedSound(j) ==
    /\ jobPc[j] \in {"list", "doom", "delete", "done"} => Uploaded(j)
    /\ Uploaded(j) =>
          /\ jobPc[j] \in {"list", "doom", "delete", "done", "failed"}
          /\ Consistent(taken[Name(j)])
          /\ \A p \in Parts : \A b \in At(Name(j), p) : b.has = taken[Name(j)][p]
          /\ Outdone(Name(j)) \/ (InStore(Name(j)) /\ At(Name(j), Manifest) # {})

UploadSound(j) == EarlySound(j) /\ PutSound(j) /\ UploadedSound(j)

(* What a job may delete: of those that failed, or that another outdid.      *)
Lost(k) == (jobPc[k] = "failed" /\ ~Uploaded(k)) \/ (Uploaded(k) /\ Outdone(Name(k)))

PruneSound(i, k) ==
    /\ jobPc[i] = "doom" /\ Uploaded(k) /\ Name(k) \notin listed[i] =>
          Outdone(Name(k)) \/ \A b \in OfJob(k) : since[i] <= b.at + Grace
    /\ \A key \in doomed[i] : key[1] = Name(k) => Lost(k)

StoreSound ==
    /\ \A j \in Jobs : UploadSound(j)
    /\ \A i, k \in Jobs : PruneSound(i, k)
    /\ Complete \subseteq Finished /\ \A i \in Jobs : listed[i] \subseteq Finished

(* A restore has read what was uploaded of one backup.                       *)
RestoreSound ==
    restore.at \notin {"idle", "failed"} =>
        /\ restore.name \in Finished
        /\ restore.at \in {"work", "done"} => restore.got["db"] = taken[restore.name]["db"]
        /\ restore.at = "done" => restore.got["work"] = taken[restore.name]["work"]

BackupInv == BackupsTyped /\ (Distinct => DirsSound /\ StoreSound /\ RestoreSound)

-----------------------------------------------------------------------------
SameJobs ==
    jobMix' \in MixOfBackups /\ jobMix'.name = jobMix.name /\ jobMix'.keep = jobMix.keep

LEMMA JobFaultKeeps ==
    ASSUME jobMix \in MixOfBackups, NEW f \in {"copy", "store", "crash"}, JobFault(f)
    PROVE  SameJobs
<1>1. jobMix' = [jobMix EXCEPT !.faults = [jobMix.faults EXCEPT ![f] = @ - 1]]
  BY DEF JobFault, MixOfBackups
<1>2. jobMix.faults \in [{"copy", "store", "crash"} -> Nat] /\ jobMix.faults[f] > 0
  BY DEF MixOfBackups, JobFault
<1>3. [jobMix.faults EXCEPT ![f] = @ - 1] \in [{"copy", "store", "crash"} -> Nat]
  BY <1>2
<1> QED
  BY <1>1, <1>3 DEF SameJobs, MixOfBackups

LEMMA CountersKeep ==
    ASSUME jobMix \in MixOfBackups,
           \/ jobMix.writes > 0 /\ jobMix' = [jobMix EXCEPT !.writes = @ - 1]
           \/ jobMix.restores > 0 /\ jobMix' = [jobMix EXCEPT !.restores = @ - 1]
           \/ jobMix.ticks > 0 /\ jobMix' = [jobMix EXCEPT !.ticks = @ - 1]
           \/ jobMix' = jobMix
    PROVE  SameJobs
<1>1. jobMix.writes \in Nat /\ jobMix.restores \in Nat /\ jobMix.ticks \in Nat
  BY DEF MixOfBackups
<1>2. CASE jobMix.writes > 0 /\ jobMix' = [jobMix EXCEPT !.writes = jobMix.writes - 1]
  <2>1. jobMix.writes - 1 \in Nat
    BY <1>1, <1>2
  <2> QED
    BY <1>2, <2>1 DEF SameJobs, MixOfBackups
<1>3. CASE jobMix.restores > 0 /\ jobMix' = [jobMix EXCEPT !.restores = jobMix.restores - 1]
  <2>1. jobMix.restores - 1 \in Nat
    BY <1>1, <1>3
  <2> QED
    BY <1>3, <2>1 DEF SameJobs, MixOfBackups
<1>4. CASE jobMix.ticks > 0 /\ jobMix' = [jobMix EXCEPT !.ticks = jobMix.ticks - 1]
  <2>1. jobMix.ticks - 1 \in Nat
    BY <1>1, <1>4
  <2> QED
    BY <1>4, <2>1 DEF SameJobs, MixOfBackups
<1>5. CASE jobMix' = jobMix
  BY <1>5 DEF SameJobs
<1> QED
  BY <1>2, <1>3, <1>4, <1>5

LEMMA NamesThereAre ==
    ASSUME JobsTyped, NEW j \in Jobs, Name(j) # 0
    PROVE  Name(j) \in AllNames /\ Name(j) \in Nat
<1>1. PICK m \in JobMixes : jobMix.name = m.name
  BY DEF JobsTyped
<1>2. PICK names : names = {m.name[i] : i \in Jobs}
  OBVIOUS
<1>3. Name(j) \in names
  BY <1>1, <1>2 DEF Name
<1>4. PICK sets : sets = {{q.name[i] : i \in Jobs} : q \in JobMixes}
  OBVIOUS
<1>5. names \in sets
  BY <1>2, <1>4
<1>6. AllNames = (UNION sets) \ {0}
  BY <1>4 DEF AllNames
<1>7. Name(j) \in AllNames
  BY <1>3, <1>5, <1>6
<1>8. Name(j) \in Nat
  BY DEF Name, JobsTyped, MixOfBackups
<1> QED
  BY <1>7, <1>8

(* A job goes on.                                                            *)
LEMMA JobGoesOn ==
    ASSUME JobsTyped, NEW j \in Jobs, NEW at \in JobSteps, JobGoto(j, at)
    PROVE  /\ jobPc' \in [Jobs -> JobSteps] /\ jobPc'[j] = at
           /\ \A i \in Jobs \ {j} : jobPc'[i] = jobPc[i]
  BY DEF JobsTyped, JobGoto

(* A step of one job keeps the types of the jobs.                            *)
LEMMA JobTypes ==
    ASSUME JobsTyped, NEW j \in Jobs, NEW at \in JobSteps, JobGoto(j, at), Name(j) # 0, SameJobs,
           jobClock' = jobClock, daemon' = daemon,
           since' = since \/ since' = [since EXCEPT ![j] = jobClock],
           file' \in [Jobs -> UploadFiles \cup {"done"}], at = "put" => file'[j] # "done",
           \A i \in Jobs \ {j} : file'[i] = file[i]
    PROVE  JobsTyped'
<1>1. /\ jobPc' \in [Jobs -> JobSteps] /\ \A i \in Jobs \ {j} : jobPc'[i] = jobPc[i]
  BY JobGoesOn
<1>2. since' \in [Jobs -> Nat] /\ \A i \in Jobs : since'[i] <= jobClock
  BY DEF JobsTyped
<1>3. \A i \in Jobs : Name(i)' = Name(i)
  BY DEF SameJobs, Name
<1>4. \E m \in JobMixes : jobMix'.name = m.name
  BY DEF JobsTyped, SameJobs
<1>5. \A i \in Jobs : jobPc'[i] # "idle" => Name(i)' # 0
  BY <1>1, <1>3 DEF JobsTyped
<1>6. \A i \in Jobs : jobPc'[i] = "put" => file'[i] # "done"
  BY <1>1, JobGoesOn DEF JobsTyped
<1> QED
  BY <1>1, <1>2, <1>4, <1>5, <1>6 DEF JobsTyped, SameJobs

(* One that does nothing but go on, keeps all types.                         *)
LEMMA QuietTypes ==
    ASSUME BackupsTyped, NEW j \in Jobs, NEW at \in JobSteps, JobGoto(j, at), Name(j) # 0, SameJobs,
           at # "put",
           UNCHANGED <<jobClock, daemon, since, file, dirs, stored, listed, doomed, restore, taken>>
    PROVE  BackupsTyped'
<1>1. UNCHANGED <<jobClock, daemon, since, file, staging, local, stored, listed, doomed, restore, taken>>
  BY DEF dirs
<1>2. file' \in [Jobs -> UploadFiles \cup {"done"}] /\ file' = file
  BY <1>1 DEF BackupsTyped, JobsTyped
<1>3. JobsTyped'
  BY <1>1, <1>2, JobTypes DEF BackupsTyped
<1> QED
  BY <1>1, <1>3 DEF BackupsTyped, DirsTyped, StoreTyped, RestoreTyped

LEMMA NothingThere ==
    ASSUME jobClock \in Nat
    PROVE  /\ Absent \in Directory /\ Absent.at = 0 /\ ~Absent.there
           /\ Empty \in Directory /\ Empty.at = jobClock /\ Empty.there /\ Nothing \in Contents
<1>1. Nothing \in Contents
  BY DEF Nothing, Contents
<1> QED
  BY <1>1 DEF Absent, Empty, Directory

LEMMA BeginsTypes == ASSUME BackupsTyped, NEW j \in Jobs, JobBegins(j) PROVE BackupsTyped'
<1>1. /\ Name(j) # 0
      /\ UNCHANGED <<jobMix, jobClock, daemon, file, local, stored, listed, doomed, restore, taken>>
  BY DEF JobBegins
<1>2. JobsTyped /\ DirsTyped /\ jobClock \in Nat /\ Name(j) \in AllNames
  BY <1>1, NamesThereAre DEF BackupsTyped, JobsTyped
<1>3. PICK at \in {"failed", "db"} : JobGoto(j, at)
  BY DEF JobBegins
<1>4. since' = since \/ since' = [since EXCEPT ![j] = jobClock]
  BY DEF JobBegins
<1>5. JobsTyped'
  <2>1. SameJobs /\ file' \in [Jobs -> UploadFiles \cup {"done"}] /\ file' = file
    BY <1>1, <1>2 DEF JobsTyped, SameJobs
  <2>2. at \in JobSteps /\ at # "put"
    BY DEF JobSteps
  <2> QED
    BY <1>1, <1>2, <1>3, <1>4, <2>1, <2>2, JobTypes
<1>6. DirsTyped'
  <2>1. staging' = staging \/ staging' = [staging EXCEPT ![Name(j)] = Empty]
    BY DEF JobBegins
  <2>2. staging' \in [AllNames -> Directory] /\ \A n \in AllNames : staging'[n].at <= jobClock
    BY <1>2, <2>1, NothingThere DEF DirsTyped
  <2> QED
    BY <1>1, <1>2, <2>2 DEF DirsTyped
<1> QED
  BY <1>1, <1>5, <1>6 DEF BackupsTyped, StoreTyped, RestoreTyped

(* What a copy of one part leaves in its directory.                          *)
CopyOf(n, part) ==
    [there |-> TRUE, at |-> jobClock, has |-> [staging[n].has EXCEPT ![part] = daemon[part] + 1]]

LEMMA CopiedIs ==
    ASSUME BackupsTyped, NEW n \in AllNames, NEW part \in Parts
    PROVE  /\ CopyOf(n, part) \in Directory /\ CopyOf(n, part).there /\ CopyOf(n, part).at = jobClock
           /\ CopyOf(n, part).has[part] = daemon[part] + 1
           /\ \A p \in Parts \ {part} : CopyOf(n, part).has[p] = staging[n].has[p]
<1>1. staging[n].has \in Contents /\ daemon \in Contents /\ jobClock \in Nat
  BY DEF BackupsTyped, JobsTyped, DirsTyped, Directory
<1>2. PICK has : has = [staging[n].has EXCEPT ![part] = daemon[part] + 1]
  OBVIOUS
<1>3. has \in Contents /\ has[part] = daemon[part] + 1 /\ \A p \in Parts \ {part} : has[p] = staging[n].has[p]
  BY <1>1, <1>2 DEF Contents
<1>4. CopyOf(n, part) = [there |-> TRUE, at |-> jobClock, has |-> has]
  BY <1>2 DEF CopyOf
<1> QED
  BY <1>1, <1>3, <1>4 DEF Directory

LEMMA CopiesTypes == ASSUME BackupsTyped, NEW j \in Jobs, Copies(j) PROVE BackupsTyped'
<1>1. /\ jobPc[j] \in Parts
      /\ UNCHANGED <<jobMix, jobClock, daemon, since, file, local, stored, listed, doomed, restore, taken>>
      /\ staging' = staging \/ staging' = [staging EXCEPT ![Name(j)] = CopyOf(Name(j), jobPc[j])]
  BY DEF Copies, CopyOf
<1>2. JobsTyped /\ DirsTyped /\ jobClock \in Nat /\ Name(j) # 0 /\ Name(j) \in AllNames
  BY <1>1, NamesThereAre DEF BackupsTyped, JobsTyped, Parts
<1>3. PICK at \in {"failed", "work", "rename"} : JobGoto(j, at)
  BY DEF Copies
<1>4. JobsTyped'
  <2>1. SameJobs /\ file' \in [Jobs -> UploadFiles \cup {"done"}] /\ file' = file
    BY <1>1, <1>2 DEF JobsTyped, SameJobs
  <2>2. at \in JobSteps /\ at # "put"
    BY DEF JobSteps
  <2> QED
    BY <1>1, <1>2, <1>3, <2>1, <2>2, JobTypes
<1>5. DirsTyped'
  <2>1. CopyOf(Name(j), jobPc[j]) \in Directory /\ CopyOf(Name(j), jobPc[j]).at = jobClock
    BY <1>1, <1>2, CopiedIs
  <2>2. staging' \in [AllNames -> Directory] /\ \A n \in AllNames : staging'[n].at <= jobClock
    BY <1>1, <1>2, <2>1 DEF DirsTyped
  <2> QED
    BY <1>1, <1>2, <2>2 DEF DirsTyped
<1> QED
  BY <1>1, <1>4, <1>5 DEF BackupsTyped, StoreTyped, RestoreTyped

LEMMA RenamesTypes == ASSUME BackupsTyped, NEW j \in Jobs, Renames(j) PROVE BackupsTyped'
<1>1. /\ jobPc[j] = "rename" /\ staging' = [staging EXCEPT ![Name(j)] = Absent]
      /\ UNCHANGED <<jobMix, jobClock, daemon, since, file, stored, listed, doomed, restore, taken>>
      /\ local' = local \/ local' = [local EXCEPT ![Name(j)] = [staging[Name(j)] EXCEPT !.at = 0]]
  BY DEF Renames
<1>2. JobsTyped /\ DirsTyped /\ jobClock \in Nat /\ Name(j) # 0 /\ Name(j) \in AllNames
  BY <1>1, NamesThereAre DEF BackupsTyped, JobsTyped
<1>3. PICK at \in {"failed", "prune"} : JobGoto(j, at)
  BY DEF Renames
<1>4. JobsTyped'
  <2>1. SameJobs /\ file' \in [Jobs -> UploadFiles \cup {"done"}] /\ file' = file
    BY <1>1, <1>2 DEF JobsTyped, SameJobs
  <2>2. at \in JobSteps /\ at # "put"
    BY DEF JobSteps
  <2> QED
    BY <1>1, <1>2, <1>3, <2>1, <2>2, JobTypes
<1>5. DirsTyped'
  <2>1. staging' \in [AllNames -> Directory] /\ \A n \in AllNames : staging'[n].at <= jobClock
    BY <1>1, <1>2, NothingThere DEF DirsTyped
  <2>2. PICK moved : moved = [staging[Name(j)] EXCEPT !.at = 0]
    OBVIOUS
  <2>3. moved \in Directory /\ moved.at = 0
    BY <1>2, <2>2 DEF DirsTyped, Directory
  <2>4. local' = local \/ local' = [local EXCEPT ![Name(j)] = moved]
    BY <1>1, <2>2
  <2>5. local' \in [AllNames -> Directory] /\ \A n \in AllNames : local'[n].at <= jobClock
    BY <1>2, <2>3, <2>4 DEF DirsTyped
  <2> QED
    BY <1>1, <1>2, <2>1, <2>5 DEF DirsTyped
<1> QED
  BY <1>1, <1>4, <1>5 DEF BackupsTyped, StoreTyped, RestoreTyped

LEMMA CopyFailsTypes == ASSUME BackupsTyped, NEW j \in Jobs, CopyFails(j) PROVE BackupsTyped'
<1>1. /\ jobPc[j] \in {"db", "work"} /\ JobFault("copy")
      /\ staging' = [staging EXCEPT ![Name(j)] = Absent]
      /\ JobGoto(j, "failed")
      /\ UNCHANGED <<jobClock, daemon, since, file, local, stored, listed, doomed, restore, taken>>
  BY DEF CopyFails
<1>2. JobsTyped /\ DirsTyped /\ jobClock \in Nat /\ Name(j) # 0 /\ Name(j) \in AllNames
      /\ jobMix \in MixOfBackups
  BY <1>1, NamesThereAre DEF BackupsTyped, JobsTyped
<1>3. SameJobs
  BY <1>1, <1>2, JobFaultKeeps
<1>4. JobsTyped'
  <2>1. file' \in [Jobs -> UploadFiles \cup {"done"}] /\ file' = file /\ "failed" \in JobSteps
    BY <1>1, <1>2 DEF JobsTyped, JobSteps
  <2> QED
    BY <1>1, <1>2, <1>3, <2>1, JobTypes
<1>5. DirsTyped'
  <2>1. staging' \in [AllNames -> Directory] /\ \A n \in AllNames : staging'[n].at <= jobClock
    BY <1>1, <1>2, NothingThere DEF DirsTyped
  <2> QED
    BY <1>1, <1>2, <2>1 DEF DirsTyped
<1> QED
  BY <1>1, <1>4, <1>5 DEF BackupsTyped, StoreTyped, RestoreTyped

LEMMA PrunesTypes == ASSUME BackupsTyped, NEW j \in Jobs, Prunes(j) PROVE BackupsTyped'
<1>1. /\ jobPc[j] = "prune" /\ JobGoto(j, "put")
      /\ since' = [since EXCEPT ![j] = jobClock] /\ file' = [file EXCEPT ![j] = "db"]
      /\ UNCHANGED <<jobMix, jobClock, daemon, stored, listed, doomed, restore, taken>>
  BY DEF Prunes
<1>2. PICK old, stale : /\ local' = [n \in AllNames |-> IF n \in old THEN Absent ELSE local[n]]
                        /\ staging' = [n \in AllNames |-> IF n \in stale THEN Absent ELSE staging[n]]
  BY DEF Prunes
<1>3. JobsTyped /\ DirsTyped /\ jobClock \in Nat /\ Name(j) # 0
  BY <1>1 DEF BackupsTyped, JobsTyped
<1>4. JobsTyped'
  <2>1. /\ SameJobs /\ file' \in [Jobs -> UploadFiles \cup {"done"}] /\ "put" \in JobSteps
        /\ file'[j] # "done" /\ \A i \in Jobs \ {j} : file'[i] = file[i]
    BY <1>1, <1>3 DEF JobsTyped, SameJobs, JobSteps, UploadFiles, Parts
  <2> QED
    BY <1>1, <1>3, <2>1, JobTypes
<1>5. DirsTyped'
  <2>1. staging' \in [AllNames -> Directory] /\ \A n \in AllNames : staging'[n].at <= jobClock
    BY <1>2, <1>3, NothingThere DEF DirsTyped
  <2>2. local' \in [AllNames -> Directory] /\ \A n \in AllNames : local'[n].at <= jobClock
    BY <1>2, <1>3, NothingThere DEF DirsTyped
  <2> QED
    BY <1>1, <1>3, <2>1, <2>2 DEF DirsTyped
<1> QED
  BY <1>1, <1>4, <1>5 DEF BackupsTyped, StoreTyped, RestoreTyped

(* What an upload does: nothing, for a file that is gone, one part, or the end. *)
UploadsPart(j, p) ==
    /\ file[j] = p /\ local[Name(j)].there /\ JobGoto(j, "put")
    /\ file' = [file EXCEPT ![j] = IF p = "db" THEN "work" ELSE Manifest]
    /\ stored' = Put(Name(j), p, local[Name(j)].has[p])
    /\ taken' = [taken EXCEPT ![Name(j)][p] = local[Name(j)].has[p]]
    /\ since' = since

UploadsLast(j) ==
    /\ file[j] = Manifest /\ file' = [file EXCEPT ![j] = "done"]
    /\ stored' = Put(Name(j), Manifest, 0) /\ taken' = taken
    /\ since' = [since EXCEPT ![j] = jobClock]
    /\ \E at \in {"list", "done"} : JobGoto(j, at)

LEMMA UploadCases ==
    ASSUME BackupsTyped, NEW j \in Jobs, Uploads(j)
    PROVE  /\ jobPc[j] = "put" /\ Name(j) # 0 /\ Name(j) \in AllNames /\ Name(j) \in Nat
           /\ UNCHANGED <<jobMix, jobClock, daemon, staging, local, listed, doomed, restore>>
           /\ \/ JobGoto(j, "failed") /\ UNCHANGED <<since, file, stored, taken>>
              \/ \E p \in Parts : UploadsPart(j, p)
              \/ UploadsLast(j)
<1>1. /\ jobPc[j] = "put" /\ UNCHANGED <<jobMix, jobClock, daemon, staging, local, listed, doomed, restore>>
  BY DEF Uploads, dirs
<1>2. Name(j) # 0 /\ Name(j) \in AllNames /\ Name(j) \in Nat /\ file[j] \in UploadFiles
  BY <1>1, NamesThereAre DEF BackupsTyped, JobsTyped
<1>3. PICK f : f = file[j]
  OBVIOUS
<1>4. CASE f # Manifest /\ ~local[Name(j)].there
  BY <1>1, <1>2, <1>3, <1>4 DEF Uploads
<1>5. CASE f # Manifest /\ local[Name(j)].there
  <2>1. f \in Parts /\ f # Manifest /\ NextFile(f) = (IF f = "db" THEN "work" ELSE Manifest) /\ NextFile(f) # "done"
    BY <1>2, <1>3, <1>5 DEF UploadFiles, Parts, Manifest, NextFile
  <2>2. PICK next : next = NextFile(f)
    OBVIOUS
  <2>3. /\ stored' = Put(Name(j), f, local[Name(j)].has[f])
        /\ taken' = [taken EXCEPT ![Name(j)][f] = local[Name(j)].has[f]]
        /\ file' = [file EXCEPT ![j] = next] /\ since' = since
    BY <1>3, <1>5, <2>1, <2>2 DEF Uploads
  <2>4. JobGoto(j, "put")
    BY <1>3, <1>5, <2>1 DEF Uploads
  <2>5. UploadsPart(j, f)
    BY <1>3, <1>5, <2>1, <2>2, <2>3, <2>4 DEF UploadsPart
  <2> QED
    BY <1>1, <1>2, <2>1, <2>5
<1>6. CASE f = Manifest
  <2>1. NextFile(f) = "done"
    BY <1>6 DEF NextFile, Manifest
  <2>2. UploadsLast(j)
    BY <1>3, <1>6, <2>1 DEF Uploads, UploadsLast
  <2> QED
    BY <1>1, <1>2, <2>2
<1> QED
  BY <1>4, <1>5, <1>6

LEMMA PutTypes ==
    ASSUME StoreTyped, jobClock \in Nat, NEW n \in AllNames, NEW f \in UploadFiles, NEW what \in Nat
    PROVE  Put(n, f, what) \subseteq Blob /\ \A b \in Put(n, f, what) : b.at <= jobClock
<1>1. <<n, f>> \in Key
  BY DEF Key
<1>2. [key |-> <<n, f>>, at |-> jobClock, has |-> what] \in Blob
  BY <1>1 DEF Blob
<1> QED
  BY <1>2 DEF Put, StoreTyped

LEMMA UploadsTypes == ASSUME BackupsTyped, NEW j \in Jobs, Uploads(j) PROVE BackupsTyped'
<1>1. /\ jobPc[j] = "put" /\ Name(j) # 0 /\ Name(j) \in AllNames
      /\ UNCHANGED <<jobMix, jobClock, daemon, staging, local, listed, doomed, restore>>
  BY UploadCases
<1>2. JobsTyped /\ DirsTyped /\ StoreTyped /\ RestoreTyped /\ jobClock \in Nat /\ SameJobs
  BY <1>1 DEF BackupsTyped, JobsTyped, SameJobs
<1>3. DirsTyped' /\ RestoreTyped'
  BY <1>1, <1>2 DEF DirsTyped, RestoreTyped
<1>4. JobsTyped' /\ StoreTyped'
  <2>1. CASE JobGoto(j, "failed") /\ UNCHANGED <<since, file, stored, taken>>
    <3>1. "failed" \in JobSteps /\ file \in [Jobs -> UploadFiles \cup {"done"}]
      BY <1>2 DEF JobSteps, JobsTyped
    <3>2. JobsTyped'
      BY <1>1, <1>2, <2>1, <3>1, JobTypes
    <3> QED
      BY <1>1, <1>2, <2>1, <3>2 DEF StoreTyped
  <2>2. ASSUME NEW p \in Parts, UploadsPart(j, p) PROVE JobsTyped' /\ StoreTyped'
    <3>1. PICK next : next = IF p = "db" THEN "work" ELSE Manifest
      OBVIOUS
    <3>2. next \in UploadFiles /\ next # "done"
      BY <3>1 DEF UploadFiles, Parts, Manifest
    <3>3. /\ file' = [file EXCEPT ![j] = next] /\ "put" \in JobSteps
          /\ JobGoto(j, "put") /\ since' = since
      BY <2>2, <3>1 DEF UploadsPart, JobSteps
    <3>4. /\ file' \in [Jobs -> UploadFiles \cup {"done"}] /\ file'[j] # "done"
          /\ \A i \in Jobs \ {j} : file'[i] = file[i]
      BY <1>2, <3>2, <3>3 DEF JobsTyped
    <3>5. JobsTyped'
      BY <1>1, <1>2, <3>3, <3>4, JobTypes
    <3>6. PICK h : h = local[Name(j)].has[p]
      OBVIOUS
    <3>7. h \in Nat
      BY <1>1, <1>2, <3>6 DEF DirsTyped, Directory, Contents
    <3>8. /\ stored' = Put(Name(j), p, h) /\ p \in UploadFiles
          /\ taken' = [taken EXCEPT ![Name(j)] = [taken[Name(j)] EXCEPT ![p] = h]]
      BY <1>1, <1>2, <2>2, <3>6 DEF UploadsPart, UploadFiles, StoreTyped
    <3>9. stored' \subseteq Blob /\ \A b \in stored' : b.at <= jobClock
      BY <1>1, <1>2, <3>7, <3>8, PutTypes
    <3>10. taken' \in [AllNames -> Contents]
      <4>1. [taken[Name(j)] EXCEPT ![p] = h] \in Contents
        BY <1>1, <1>2, <3>7 DEF StoreTyped, Contents
      <4> QED
        BY <1>1, <1>2, <3>8, <4>1 DEF StoreTyped
    <3> QED
      BY <1>1, <1>2, <3>5, <3>9, <3>10 DEF StoreTyped
  <2>3. CASE UploadsLast(j)
    <3>1. PICK at \in {"list", "done"} : JobGoto(j, at)
      BY <2>3 DEF UploadsLast
    <3>2. at \in JobSteps /\ at # "put"
      BY DEF JobSteps
    <3>3. /\ file' = [file EXCEPT ![j] = "done"] /\ since' = [since EXCEPT ![j] = jobClock]
          /\ stored' = Put(Name(j), Manifest, 0) /\ taken' = taken
      BY <2>3 DEF UploadsLast
    <3>4. file' \in [Jobs -> UploadFiles \cup {"done"}] /\ \A i \in Jobs \ {j} : file'[i] = file[i]
      BY <1>2, <3>3 DEF JobsTyped
    <3>5. JobsTyped'
      BY <1>1, <1>2, <3>1, <3>2, <3>3, <3>4, JobTypes
    <3>6. Manifest \in UploadFiles /\ 0 \in Nat
      BY DEF UploadFiles
    <3>7. stored' \subseteq Blob /\ \A b \in stored' : b.at <= jobClock
      BY <1>1, <1>2, <3>3, <3>6, PutTypes
    <3> QED
      BY <1>1, <1>2, <3>3, <3>5, <3>7 DEF StoreTyped
  <2> QED
    BY <2>1, <2>2, <2>3, UploadCases
<1> QED
  BY <1>3, <1>4 DEF BackupsTyped

LEMMA ListsTypes == ASSUME BackupsTyped, NEW j \in Jobs, Lists(j) PROVE BackupsTyped'
<1>1. /\ jobPc[j] = "list" /\ listed' = [listed EXCEPT ![j] = Complete] /\ JobGoto(j, "doom")
      /\ UNCHANGED <<jobMix, jobClock, daemon, since, file, staging, local, stored, doomed, restore, taken>>
  BY DEF Lists, dirs
<1>2. JobsTyped /\ DirsTyped /\ StoreTyped /\ RestoreTyped /\ SameJobs /\ Name(j) # 0 /\ "doom" \in JobSteps
  BY <1>1 DEF BackupsTyped, JobsTyped, SameJobs, JobSteps
<1>3. file' \in [Jobs -> UploadFiles \cup {"done"}] /\ file' = file
  BY <1>1, <1>2 DEF JobsTyped
<1>4. JobsTyped'
  BY <1>1, <1>2, <1>3, JobTypes
<1>5. listed' \in [Jobs -> SUBSET AllNames]
  BY <1>1, <1>2 DEF StoreTyped, Complete
<1> QED
  BY <1>1, <1>2, <1>4, <1>5 DEF BackupsTyped, DirsTyped, StoreTyped, RestoreTyped

(* The keys a job deletes are of what there was.                             *)
LEMMA DoomsIs ==
    ASSUME NEW j \in Jobs, Dooms(j)
    PROVE  /\ jobPc[j] = "doom" /\ JobGoto(j, "delete")
           /\ UNCHANGED <<jobMix, jobClock, daemon, since, file, staging, local, stored, listed, restore, taken>>
           /\ \E keys : /\ doomed' = [doomed EXCEPT ![j] = keys]
                       /\ \A key \in keys : \E b \in stored :
                             key = b.key /\ (b.key[1] \in Beyond(listed[j]) \/ Abandoned(j, b))
<1>1. PICK gone : gone = {b \in stored : b.key[1] \in Beyond(listed[j]) \/ Abandoned(j, b)}
  OBVIOUS
<1>2. PICK keys : keys = {g.key : g \in gone}
  OBVIOUS
<1>3. doomed' = [doomed EXCEPT ![j] = keys]
  BY <1>1, <1>2 DEF Dooms
<1>4. \A key \in keys : \E b \in stored :
          key = b.key /\ (b.key[1] \in Beyond(listed[j]) \/ Abandoned(j, b))
  BY <1>1, <1>2
<1>5. /\ jobPc[j] = "doom" /\ JobGoto(j, "delete")
      /\ UNCHANGED <<jobMix, jobClock, daemon, since, file, staging, local, stored, listed, restore, taken>>
  BY DEF Dooms, dirs
<1> QED
  BY <1>3, <1>4, <1>5

LEMMA DoomsTypes == ASSUME BackupsTyped, NEW j \in Jobs, Dooms(j) PROVE BackupsTyped'
<1>1. /\ jobPc[j] = "doom" /\ JobGoto(j, "delete")
      /\ UNCHANGED <<jobMix, jobClock, daemon, since, file, staging, local, stored, listed, restore, taken>>
  BY DoomsIs
<1>2. JobsTyped /\ DirsTyped /\ StoreTyped /\ RestoreTyped /\ SameJobs /\ Name(j) # 0 /\ "delete" \in JobSteps
  BY <1>1 DEF BackupsTyped, JobsTyped, SameJobs, JobSteps
<1>3. file' \in [Jobs -> UploadFiles \cup {"done"}] /\ file' = file
  BY <1>1, <1>2 DEF JobsTyped
<1>4. JobsTyped'
  BY <1>1, <1>2, <1>3, JobTypes
<1>5. PICK keys : /\ doomed' = [doomed EXCEPT ![j] = keys]
                  /\ \A key \in keys : \E b \in stored :
                        key = b.key /\ (b.key[1] \in Beyond(listed[j]) \/ Abandoned(j, b))
  BY DoomsIs
<1>6. keys \in SUBSET Key
  BY <1>2, <1>5 DEF StoreTyped, Blob
<1>7. doomed' \in [Jobs -> SUBSET Key]
  BY <1>2, <1>5, <1>6 DEF StoreTyped
<1> QED
  BY <1>1, <1>2, <1>4, <1>7 DEF BackupsTyped, DirsTyped, StoreTyped, RestoreTyped

(* One that deletes takes a key of its own away, or is done.                 *)
DeletesOne(j, key) ==
    /\ stored' = {b \in stored : b.key # key}
    /\ doomed' = [doomed EXCEPT ![j] = doomed[j] \ {key}]
    /\ jobPc' = jobPc

LEMMA DeleteCases ==
    ASSUME BackupsTyped, NEW j \in Jobs, Deletes(j)
    PROVE  /\ jobPc[j] = "delete"
           /\ UNCHANGED <<jobMix, jobClock, daemon, since, file, staging, local, listed, restore, taken>>
           /\ \/ JobGoto(j, "done") /\ UNCHANGED <<stored, doomed>>
              \/ \E key \in doomed[j] : DeletesOne(j, key)
<1>1. /\ jobPc[j] = "delete"
      /\ UNCHANGED <<jobMix, jobClock, daemon, since, file, staging, local, listed, restore, taken>>
  BY DEF Deletes, dirs
<1>2. CASE doomed[j] = {}
  BY <1>1, <1>2 DEF Deletes
<1>3. CASE doomed[j] # {}
  <2>1. PICK key \in doomed[j] : /\ stored' = {b \in stored : b.key # key}
                                 /\ doomed' = [doomed EXCEPT ![j] = @ \ {key}]
                                 /\ UNCHANGED jobPc
    BY <1>3 DEF Deletes
  <2>2. DeletesOne(j, key)
    BY <2>1 DEF DeletesOne
  <2> QED
    BY <1>1, <2>2
<1> QED
  BY <1>2, <1>3

LEMMA DeletesTypes == ASSUME BackupsTyped, NEW j \in Jobs, Deletes(j) PROVE BackupsTyped'
<1>1. /\ jobPc[j] = "delete"
      /\ UNCHANGED <<jobMix, jobClock, daemon, since, file, staging, local, listed, restore, taken>>
  BY DeleteCases
<1>2. JobsTyped /\ DirsTyped /\ StoreTyped /\ RestoreTyped /\ SameJobs /\ Name(j) # 0 /\ "done" \in JobSteps
  BY <1>1 DEF BackupsTyped, JobsTyped, SameJobs, JobSteps
<1>3. file' \in [Jobs -> UploadFiles \cup {"done"}] /\ file' = file
  BY <1>1, <1>2 DEF JobsTyped
<1>4. CASE JobGoto(j, "done") /\ UNCHANGED <<stored, doomed>>
  <2>1. JobsTyped'
    BY <1>1, <1>2, <1>3, <1>4, JobTypes
  <2> QED
    BY <1>1, <1>2, <1>4, <2>1 DEF BackupsTyped, DirsTyped, StoreTyped, RestoreTyped
<1>5. ASSUME NEW key \in doomed[j], DeletesOne(j, key) PROVE BackupsTyped'
  <2>1. JobsTyped'
    BY <1>1, <1>2, <1>5 DEF DeletesOne, JobsTyped, Name
  <2>2. stored' \subseteq stored /\ doomed' \in [Jobs -> SUBSET Key]
    BY <1>2, <1>5 DEF DeletesOne, StoreTyped
  <2>3. StoreTyped'
    BY <1>1, <1>2, <2>2 DEF StoreTyped
  <2> QED
    BY <1>1, <1>2, <2>1, <2>3 DEF BackupsTyped, DirsTyped, RestoreTyped
<1> QED
  BY <1>4, <1>5, DeleteCases

(* What a job does that fails or dies: nothing more.                         *)
Quits(j) ==
    /\ jobPc[j] \notin {"idle", "done", "failed"} /\ JobGoto(j, "failed") /\ SameJobs
    /\ UNCHANGED <<jobClock, daemon, since, file, staging, local, stored, listed, doomed, restore, taken>>

LEMMA QuitsIs == ASSUME BackupsTyped, NEW j \in Jobs, StoreFails(j) \/ Dies(j) PROVE Quits(j)
<1>1. jobMix \in MixOfBackups
  BY DEF BackupsTyped, JobsTyped
<1>2. CASE StoreFails(j)
  <2>1. SameJobs
    BY <1>1, <1>2, JobFaultKeeps DEF StoreFails
  <2> QED
    BY <1>2, <2>1 DEF StoreFails, Quits, dirs
<1>3. CASE Dies(j)
  <2>1. SameJobs
    BY <1>1, <1>3, JobFaultKeeps DEF Dies
  <2> QED
    BY <1>3, <2>1 DEF Dies, Quits, dirs
<1> QED
  BY <1>2, <1>3

LEMMA QuitsTypes == ASSUME BackupsTyped, NEW j \in Jobs, Quits(j) PROVE BackupsTyped'
<1>1. Name(j) # 0 /\ "failed" \in JobSteps
  BY DEF BackupsTyped, JobsTyped, Quits, JobSteps
<1>2. JobGoto(j, "failed") /\ SameJobs
  BY DEF Quits
<1>3. UNCHANGED <<jobClock, daemon, since, file, dirs, stored, listed, doomed, restore, taken>>
  BY DEF Quits, dirs
<1> QED
  BY <1>1, <1>2, <1>3, QuietTypes

(* Where nothing but the machine, a restore or the clock moves.              *)
LEMMA IdleTypes ==
    ASSUME JobsTyped, SameJobs, jobClock' \in Nat, jobClock <= jobClock', daemon' \in Contents,
           UNCHANGED <<jobPc, since, file>>
    PROVE  JobsTyped'
<1>1. \A i \in Jobs : since'[i] <= jobClock'
  BY DEF JobsTyped
<1>2. \A i \in Jobs : jobPc'[i] # "idle" => Name(i)' # 0
  BY DEF JobsTyped, SameJobs, Name
<1> QED
  BY <1>1, <1>2 DEF JobsTyped, SameJobs

LEMMA WritesIs ==
    ASSUME BackupsTyped, Writes
    PROVE  /\ SameJobs /\ daemon' \in Contents /\ \A p \in Parts : daemon[p] <= daemon'[p]
           /\ daemon["db"] <= daemon["work"] => daemon'["db"] <= daemon'["work"]
           /\ UNCHANGED <<jobClock, jobPc, since, file, staging, local, stored, listed, doomed, restore, taken>>
<1>1. SameJobs
  BY CountersKeep DEF BackupsTyped, JobsTyped, Writes
<1>2. UNCHANGED <<jobClock, jobPc, since, file, staging, local, stored, listed, doomed, restore, taken>>
  BY DEF Writes, dirs
<1>3. /\ daemon \in [Parts -> Nat] /\ daemon["db"] \in Nat /\ daemon["work"] \in Nat
      /\ "db" \in Parts /\ "work" \in Parts /\ \A p \in Parts : p = "db" \/ p = "work"
  BY DEF BackupsTyped, JobsTyped, Contents, Parts
<1>4. CASE daemon' = [daemon EXCEPT !["work"] = daemon["work"] + 1]
  BY <1>1, <1>2, <1>3, <1>4 DEF Contents
<1>5. CASE daemon["db"] < daemon["work"] /\ daemon' = [daemon EXCEPT !["db"] = daemon["db"] + 1]
  BY <1>1, <1>2, <1>3, <1>5 DEF Contents
<1> QED
  BY <1>3, <1>4, <1>5 DEF Writes

LEMMA WritesTypes == ASSUME BackupsTyped, Writes PROVE BackupsTyped'
<1>1. JobsTyped'
  BY WritesIs, IdleTypes DEF BackupsTyped, JobsTyped
<1> QED
  BY <1>1, WritesIs DEF BackupsTyped, DirsTyped, StoreTyped, RestoreTyped

LEMMA TickIs ==
    ASSUME BackupsTyped, JobTick
    PROVE  /\ SameJobs /\ jobClock' = jobClock + 1 /\ jobClock' \in Nat
           /\ \A j \in Jobs : Copying(j) \/ jobPc[j] = "put" => jobClock - since[j] < Grace
           /\ UNCHANGED <<daemon, jobPc, since, file, staging, local, stored, listed, doomed, restore, taken>>
<1>1. SameJobs /\ jobClock \in Nat
  BY CountersKeep DEF BackupsTyped, JobsTyped, JobTick
<1> QED
  BY <1>1 DEF JobTick, dirs

LEMMA TickTypes == ASSUME BackupsTyped, JobTick PROVE BackupsTyped'
<1>1. jobClock \in Nat /\ jobClock <= jobClock' /\ jobClock' \in Nat
  BY TickIs DEF BackupsTyped, JobsTyped
<1>2. JobsTyped'
  BY <1>1, TickIs, IdleTypes DEF BackupsTyped, JobsTyped
<1>3. DirsTyped'
  <2>1. \A n \in AllNames : staging[n].at \in Nat /\ local[n].at \in Nat
    BY DEF BackupsTyped, DirsTyped, Directory
  <2> QED
    BY <1>1, <2>1, TickIs DEF BackupsTyped, DirsTyped
<1>4. StoreTyped'
  <2>1. \A b \in stored : b.at \in Nat
    BY DEF BackupsTyped, StoreTyped, Blob
  <2> QED
    BY <1>1, <2>1, TickIs DEF BackupsTyped, StoreTyped
<1> QED
  BY <1>2, <1>3, <1>4, TickIs DEF BackupsTyped, RestoreTyped

(* A restore: it begins with the newest, reads, or fails.                    *)
ReadsPart(p) ==
    /\ restore.at = p /\ restore'.at = (IF p = "db" THEN "work" ELSE "done")
    /\ \A q \in Parts \ {p} : restore'.got[q] = restore.got[q]
    /\ \E b \in At(restore.name, p) : restore'.got[p] = b.has

LEMMA ReadCases ==
    ASSUME BackupsTyped, RestoreReads
    PROVE  /\ RestoreTyped' /\ restore'.name = restore.name
           /\ UNCHANGED <<jobMix, jobClock, daemon, jobPc, since, file, staging, local, stored, listed,
                          doomed, taken>>
           /\ \/ restore'.at = "failed"
              \/ restore.at = Manifest /\ restore'.at = "db"
              \/ \E p \in Parts : ReadsPart(p)
<1>1. /\ restore.at \in UploadFiles
      /\ UNCHANGED <<jobMix, jobClock, daemon, jobPc, since, file, staging, local, stored, listed, doomed, taken>>
  BY DEF RestoreReads, dirs, UploadFiles
<1>2. /\ restore \in [at : {"idle", "done", "failed"} \cup UploadFiles, name : {restore.name}, got : Contents]
      /\ restore.got \in Contents
  BY DEF BackupsTyped, RestoreTyped
<1>3. PICK found : found = At(restore.name, restore.at)
  OBVIOUS
<1>4. CASE found = {}
  <2>1. restore' = [restore EXCEPT !.at = "failed"]
    BY <1>3, <1>4 DEF RestoreReads
  <2> QED
    BY <1>1, <1>2, <2>1 DEF RestoreTyped
<1>5. CASE found # {} /\ restore.at = Manifest
  <2>1. restore' = [restore EXCEPT !.at = "db"] /\ "db" \in UploadFiles
    BY <1>3, <1>5 DEF RestoreReads, UploadFiles, Parts
  <2> QED
    BY <1>1, <1>2, <1>5, <2>1 DEF RestoreTyped
<1>6. CASE found # {} /\ restore.at # Manifest
  <2>1. PICK p \in Parts : p = restore.at
    BY <1>1, <1>6 DEF UploadFiles
  <2>2. PICK b \in found : b = CHOOSE c \in found : TRUE
    BY <1>6
  <2>3. b.has \in Nat
    BY <1>3 DEF BackupsTyped, StoreTyped, Blob, At
  <2>4. PICK got : got = [restore.got EXCEPT ![p] = b.has]
    OBVIOUS
  <2>5. got \in Contents /\ got[p] = b.has /\ \A q \in Parts \ {p} : got[q] = restore.got[q]
    BY <1>2, <2>3, <2>4 DEF Contents
  <2>6. PICK next : next = IF p = "db" THEN "work" ELSE "done"
    OBVIOUS
  <2>7. next \in {"idle", "done", "failed"} \cup UploadFiles
    BY <2>6 DEF UploadFiles, Parts
  <2>8. restore' = [restore EXCEPT !.got = got, !.at = next]
    <3>1. restore' = [restore EXCEPT !.got[restore.at] = (CHOOSE c \in found : TRUE).has,
                                     !.at = IF restore.at = "db" THEN "work" ELSE "done"]
      BY <1>3, <1>6 DEF RestoreReads
    <3> QED
      BY <1>2, <2>1, <2>2, <2>4, <2>6, <3>1
  <2>9. RestoreTyped' /\ restore'.name = restore.name /\ restore'.got = got /\ restore'.at = next
    BY <1>2, <2>5, <2>7, <2>8 DEF RestoreTyped
  <2>10. ReadsPart(p)
    BY <1>3, <2>1, <2>5, <2>6, <2>9 DEF ReadsPart
  <2> QED
    BY <1>1, <2>9, <2>10
<1> QED
  BY <1>4, <1>5, <1>6

LEMMA RestBegins ==
    ASSUME BackupsTyped, RestoreBegins
    PROVE  /\ RestoreTyped' /\ SameJobs
           /\ UNCHANGED <<jobClock, daemon, jobPc, since, file, staging, local, stored, listed, doomed, taken>>
           /\ \/ restore'.at = "failed"
              \/ restore'.at = Manifest /\ restore'.name = Max(Complete) /\ Complete # {}
<1>1. SameJobs
  BY CountersKeep DEF BackupsTyped, JobsTyped, RestoreBegins
<1>2. UNCHANGED <<jobClock, daemon, jobPc, since, file, staging, local, stored, listed, doomed, taken>>
  BY DEF RestoreBegins, dirs
<1>3. PICK at, name : /\ restore' = [at |-> at, got |-> Nothing, name |-> name]
                      /\ at = (IF Complete = {} THEN "failed" ELSE Manifest)
                      /\ name = (IF Complete = {} THEN 0 ELSE Max(Complete))
  BY DEF RestoreBegins
<1>4. at \in {"idle", "done", "failed"} \cup UploadFiles /\ Nothing \in Contents
  BY <1>3, NothingThere DEF UploadFiles, BackupsTyped, JobsTyped
<1>5. RestoreTyped' /\ restore'.at = at /\ restore'.name = name
  BY <1>3, <1>4 DEF RestoreTyped
<1> QED
  BY <1>1, <1>2, <1>3, <1>5

LEMMA RestAgain ==
    ASSUME BackupsTyped, RestoreAgain
    PROVE  /\ RestoreTyped' /\ restore'.at = "idle"
           /\ UNCHANGED <<jobMix, jobClock, daemon, jobPc, since, file, staging, local, stored, listed,
                          doomed, taken>>
  BY DEF BackupsTyped, RestoreTyped, RestoreAgain, dirs

(* A step of a restore leaves the rest as it is.                             *)
LEMMA RestTypes ==
    ASSUME BackupsTyped, RestoreTyped', SameJobs,
           UNCHANGED <<jobClock, daemon, jobPc, since, file, staging, local, stored, listed, doomed, taken>>
    PROVE  BackupsTyped'
<1>1. JobsTyped'
  BY IdleTypes DEF BackupsTyped, JobsTyped
<1> QED
  BY <1>1 DEF BackupsTyped, DirsTyped, StoreTyped

LEMMA SameMix == ASSUME BackupsTyped, jobMix' = jobMix PROVE SameJobs
  BY DEF BackupsTyped, JobsTyped, SameJobs

LEMMA StepKeepsTypes == ASSUME BackupsTyped, [BackupNext]_backupVars PROVE BackupsTyped'
<1>1. CASE Writes
  BY <1>1, WritesTypes
<1>2. CASE JobTick
  BY <1>2, TickTypes
<1>3. ASSUME NEW j \in Jobs,
             \/ JobBegins(j) \/ Copies(j) \/ Renames(j) \/ CopyFails(j) \/ Prunes(j)
             \/ Uploads(j) \/ Lists(j) \/ Dooms(j) \/ Deletes(j) \/ StoreFails(j) \/ Dies(j)
      PROVE  BackupsTyped'
  BY <1>3, BeginsTypes, CopiesTypes, RenamesTypes, CopyFailsTypes, PrunesTypes, UploadsTypes,
     ListsTypes,
     DoomsTypes, DeletesTypes, QuitsIs, QuitsTypes
<1>4. CASE RestoreBegins
  BY <1>4, RestBegins, RestTypes
<1>5. CASE RestoreReads
  BY <1>5, ReadCases, SameMix, RestTypes
<1>6. CASE RestoreAgain
  BY <1>6, RestAgain, SameMix, RestTypes
<1>7. CASE UNCHANGED backupVars
  BY <1>7 DEF backupVars, dirs, BackupsTyped, JobsTyped, DirsTyped, StoreTyped, RestoreTyped, Name
<1> QED
  BY <1>1, <1>2, <1>3, <1>4, <1>5, <1>6, <1>7 DEF BackupNext

LEMMA InitTypes == ASSUME BackupConstants, BackupInit PROVE BackupsTyped
<1>1. /\ jobMix \in JobMixes /\ jobClock = 0 /\ daemon = Nothing
      /\ jobPc = [j \in Jobs |-> "idle"] /\ since = [j \in Jobs |-> 0] /\ file = [j \in Jobs |-> "db"]
  BY DEF BackupInit
<1>2. Nothing \in Contents /\ Absent \in Directory /\ Absent.at = 0
  BY <1>1, NothingThere
<1>3. JobsTyped
  <2>1. jobMix \in MixOfBackups
    BY <1>1 DEF BackupConstants
  <2> QED
    BY <1>1, <1>2, <2>1 DEF JobsTyped, JobSteps, UploadFiles, Parts
<1>4. DirsTyped
  BY <1>1, <1>2 DEF BackupInit, DirsTyped
<1>5. StoreTyped
  BY <1>2 DEF BackupInit, StoreTyped
<1>6. RestoreTyped
  BY <1>2 DEF BackupInit, RestoreTyped
<1> QED
  BY <1>3, <1>4, <1>5, <1>6 DEF BackupsTyped

-----------------------------------------------------------------------------
LEMMA SameNames ==
    ASSUME SameJobs
    PROVE  /\ \A i \in Jobs : Name(i)' = Name(i)
           /\ Distinct' <=> Distinct
           /\ \A names : Beyond(names)' = Beyond(names)
<1>1. \A i \in Jobs : Name(i)' = Name(i)
  BY DEF SameJobs, Name
<1>2. \A names : Beyond(names)' = Beyond(names)
  BY DEF SameJobs, Beyond
<1> QED
  BY <1>1, <1>2 DEF Distinct

LEMMA OwnNames ==
    ASSUME Distinct, NEW i \in Jobs, NEW j \in Jobs \ {i}, Name(i) # 0
    PROVE  Name(i) # Name(j)
  BY DEF Distinct

(* The directory of a job that copies is no other job's.                     *)
LEMMA OthersCopy ==
    ASSUME JobsTyped, Distinct, SameJobs, jobClock' = jobClock, daemon' = daemon,
           NEW j \in Jobs, NEW i \in Jobs \ {j}, jobPc'[i] = jobPc[i], since'[i] = since[i],
           \A n \in AllNames \ {Name(j)} : staging'[n] = staging[n], CopySound(i)
    PROVE  CopySound(i)'
<1>1. Copying(i)' <=> Copying(i)
  BY DEF Copying
<1>2. CASE ~Copying(i)
  BY <1>1, <1>2 DEF CopySound
<1>3. CASE Copying(i)
  <2>1. Name(i) # 0
    BY <1>3 DEF Copying, JobsTyped
  <2>2. Name(i) \in AllNames /\ Name(i) # Name(j) /\ Name(i)' = Name(i)
    BY <2>1, NamesThereAre, OwnNames, SameNames
  <2>3. staging'[Name(i)'] = staging[Name(i)]
    BY <2>2
  <2> QED
    BY <1>1, <2>3 DEF CopySound, Consistent
<1> QED
  BY <1>2, <1>3

(* A step of a job that changes no directory but its own.                    *)
LEMMA OwnDirs ==
    ASSUME BackupsTyped, Distinct, DirsSound, SameJobs, jobClock' = jobClock, daemon' = daemon,
           NEW j \in Jobs, NEW at \in JobSteps, JobGoto(j, at),
           \A i \in Jobs \ {j} : since'[i] = since[i],
           \A n \in AllNames \ {Name(j)} : staging'[n] = staging[n],
           CopySound(j)', \A n \in AllNames : local'[n].there => Consistent(local'[n].has)
    PROVE  DirsSound'
<1>1. JobsTyped /\ \A i \in Jobs \ {j} : jobPc'[i] = jobPc[i]
  BY JobGoesOn DEF BackupsTyped
<1>2. \A i \in Jobs \ {j} : CopySound(i)'
  BY <1>1, OthersCopy DEF DirsSound
<1> QED
  BY <1>2 DEF DirsSound, Consistent

(* One that changes none at all, and does not copy when it is done.          *)
LEMMA SameDirs ==
    ASSUME BackupsTyped, Distinct, DirsSound, SameJobs, jobClock' = jobClock, daemon' = daemon,
           NEW j \in Jobs, NEW at \in JobSteps, JobGoto(j, at), at \notin {"db", "work", "rename"},
           \A i \in Jobs \ {j} : since'[i] = since[i],
           \A n \in AllNames \ {Name(j)} : staging'[n] = staging[n],
           local' = local
    PROVE  DirsSound'
<1>1. CopySound(j)'
  BY JobGoesOn DEF CopySound, Copying, BackupsTyped
<1>2. \A n \in AllNames : local'[n].there => Consistent(local'[n].has)
  BY DEF DirsSound
<1> QED
  BY <1>1, <1>2, OwnDirs

LEMMA BeginsDirs ==
    ASSUME BackupsTyped, Distinct, DirsSound, Grace \in Nat, NEW j \in Jobs, JobBegins(j)
    PROVE  DirsSound'
<1>1. /\ Name(j) # 0 /\ UNCHANGED <<jobMix, jobClock, daemon, local>>
  BY DEF JobBegins
<1>2. SameJobs /\ jobClock \in Nat /\ Name(j) \in AllNames /\ JobsTyped
  BY <1>1, SameMix, NamesThereAre DEF BackupsTyped, JobsTyped
<1>3. CASE local[Name(j)].there
  <2>1. JobGoto(j, "failed") /\ UNCHANGED <<since, staging>> /\ "failed" \in JobSteps
    BY <1>3 DEF JobBegins, JobSteps
  <2> QED
    BY <1>1, <1>2, <2>1, SameDirs
<1>4. CASE ~local[Name(j)].there
  <2>1. /\ JobGoto(j, "db") /\ since' = [since EXCEPT ![j] = jobClock] /\ "db" \in JobSteps
        /\ staging' = [staging EXCEPT ![Name(j)] = Empty]
    BY <1>4 DEF JobBegins, JobSteps
  <2>2. /\ staging'[Name(j)] = Empty /\ \A n \in AllNames \ {Name(j)} : staging'[n] = staging[n]
        /\ since'[j] = jobClock /\ \A i \in Jobs \ {j} : since'[i] = since[i]
    BY <1>2, <2>1 DEF BackupsTyped, DirsTyped, JobsTyped
  <2>3. jobPc'[j] = "db"
    BY <1>2, <2>1, JobGoesOn
  <2>4. CopySound(j)'
    <3>1. Name(j)' = Name(j) /\ Empty.there /\ Empty.at = jobClock
      BY <1>2, NothingThere, SameNames
    <3> QED
      BY <1>1, <1>2, <2>2, <2>3, <3>1 DEF CopySound
  <2>5. \A n \in AllNames : local'[n].there => Consistent(local'[n].has)
    BY <1>1 DEF DirsSound
  <2> QED
    BY <1>1, <1>2, <2>1, <2>2, <2>4, <2>5, OwnDirs
<1> QED
  BY <1>3, <1>4

LEMMA CopiesDirs ==
    ASSUME BackupsTyped, Distinct, DirsSound, Grace \in Nat, NEW j \in Jobs, Copies(j)
    PROVE  DirsSound'
<1>1. /\ jobPc[j] \in Parts /\ UNCHANGED <<jobMix, jobClock, daemon, local, since>>
  BY DEF Copies
<1>2. SameJobs /\ jobClock \in Nat /\ JobsTyped /\ Name(j) # 0 /\ Name(j) \in AllNames
  BY <1>1, SameMix, NamesThereAre DEF BackupsTyped, JobsTyped, Parts
<1>3. PICK part \in Parts : part = jobPc[j]
  BY <1>1
<1>4. /\ staging[Name(j)].there /\ jobClock <= since[j] + Grace
      /\ part = "work" => 0 < staging[Name(j)].has["db"] /\ staging[Name(j)].has["db"] <= daemon["db"] + 1
  BY <1>3 DEF DirsSound, CopySound, Copying, Parts
<1>5. /\ JobGoto(j, IF part = "db" THEN "work" ELSE "rename")
      /\ staging' = [staging EXCEPT ![Name(j)] = CopyOf(Name(j), part)]
  BY <1>3, <1>4 DEF Copies, CopyOf
<1>6. PICK at \in {"work", "rename"} : at = (IF part = "db" THEN "work" ELSE "rename")
  OBVIOUS
<1>7. at \in JobSteps /\ JobGoto(j, at)
  BY <1>5, <1>6 DEF JobSteps
<1>8. jobPc'[j] = at
  BY <1>2, <1>7, JobGoesOn
<1>9. /\ staging'[Name(j)] = CopyOf(Name(j), part)
      /\ \A n \in AllNames \ {Name(j)} : staging'[n] = staging[n]
  BY <1>2, <1>5 DEF BackupsTyped, DirsTyped
<1>10. PICK s : s = CopyOf(Name(j), part)
  OBVIOUS
<1>11. /\ s.there /\ s.at = jobClock /\ s.has[part] = daemon[part] + 1
       /\ \A p \in Parts \ {part} : s.has[p] = staging[Name(j)].has[p]
  BY <1>2, <1>10, CopiedIs
<1>12. /\ daemon["db"] \in Nat /\ daemon["work"] \in Nat /\ daemon["db"] <= daemon["work"]
       /\ since[j] \in Nat /\ since[j] <= jobClock
  BY <1>2 DEF JobsTyped, Contents, Parts, DirsSound
<1>13. at = "work" => 0 < s.has["db"] /\ s.has["db"] <= daemon["db"] + 1
  BY <1>6, <1>11, <1>12
<1>14. at = "rename" => Consistent(s.has)
  <2>1. CASE part = "work"
    <3>1. s.has["work"] = daemon["work"] + 1 /\ s.has["db"] = staging[Name(j)].has["db"]
      BY <1>11, <2>1 DEF Parts
    <3>2. staging[Name(j)].has["db"] \in Nat
      BY <1>2 DEF BackupsTyped, DirsTyped, Directory, Contents, Parts
    <3> QED
      BY <1>4, <1>12, <2>1, <3>1, <3>2 DEF Consistent
  <2> QED
    BY <1>6, <2>1 DEF Parts
<1>15. CopySound(j)'
  <2>1. staging'[Name(j)'] = s
    BY <1>2, <1>9, <1>10, SameNames
  <2>2. Consistent(s.has)' <=> Consistent(s.has)
    BY DEF Consistent
  <2> QED
    BY <1>1, <1>4, <1>8, <1>11, <1>12, <1>13, <1>14, <2>1, <2>2 DEF CopySound
<1>16. \A n \in AllNames : local'[n].there => Consistent(local'[n].has)
  BY <1>1 DEF DirsSound
<1> QED
  BY <1>1, <1>2, <1>7, <1>9, <1>15, <1>16, OwnDirs

LEMMA RenamesDirs ==
    ASSUME BackupsTyped, Distinct, DirsSound, NEW j \in Jobs, Renames(j)
    PROVE  DirsSound'
<1>1. /\ jobPc[j] = "rename" /\ staging' = [staging EXCEPT ![Name(j)] = Absent]
      /\ UNCHANGED <<jobMix, jobClock, daemon, since>>
      /\ local' = local \/ local' = [local EXCEPT ![Name(j)] = [staging[Name(j)] EXCEPT !.at = 0]]
  BY DEF Renames
<1>2. SameJobs /\ JobsTyped /\ Name(j) # 0 /\ Name(j) \in AllNames
  BY <1>1, SameMix, NamesThereAre DEF BackupsTyped, JobsTyped
<1>3. PICK at \in {"failed", "prune"} : JobGoto(j, at)
  BY DEF Renames
<1>4. at \in JobSteps /\ \A n \in AllNames \ {Name(j)} : staging'[n] = staging[n]
  BY <1>1, <1>2 DEF JobSteps, BackupsTyped, DirsTyped
<1>5. CopySound(j)'
  BY <1>2, <1>3, <1>4, JobGoesOn DEF CopySound, Copying
<1>6. \A n \in AllNames : local'[n].there => Consistent(local'[n].has)
  <2>1. Consistent(staging[Name(j)].has)
    BY <1>1 DEF DirsSound, CopySound, Copying
  <2>2. PICK moved : moved = [staging[Name(j)] EXCEPT !.at = 0]
    OBVIOUS
  <2>3. moved.has = staging[Name(j)].has
    BY <1>2, <2>2 DEF BackupsTyped, DirsTyped, Directory
  <2>4. \A n \in AllNames : local'[n] = local[n] \/ local'[n] = moved
    BY <1>1, <1>2, <2>2 DEF BackupsTyped, DirsTyped
  <2> QED
    BY <2>1, <2>3, <2>4 DEF DirsSound
<1> QED
  BY <1>1, <1>2, <1>3, <1>4, <1>5, <1>6, OwnDirs

LEMMA CopyFailsDirs ==
    ASSUME BackupsTyped, Distinct, DirsSound, NEW j \in Jobs, CopyFails(j)
    PROVE  DirsSound'
<1>1. /\ jobPc[j] \in {"db", "work"} /\ JobFault("copy") /\ JobGoto(j, "failed")
      /\ staging' = [staging EXCEPT ![Name(j)] = Absent] /\ UNCHANGED <<jobClock, daemon, since, local>>
  BY DEF CopyFails
<1>2. SameJobs /\ "failed" \in JobSteps
  BY <1>1, JobFaultKeeps DEF BackupsTyped, JobsTyped, JobSteps
<1>3. \A n \in AllNames \ {Name(j)} : staging'[n] = staging[n]
  BY <1>1 DEF BackupsTyped, DirsTyped
<1> QED
  BY <1>1, <1>2, <1>3, SameDirs

LEMMA PrunesDirs ==
    ASSUME BackupsTyped, Distinct, DirsSound, Grace \in Nat, NEW j \in Jobs, Prunes(j)
    PROVE  DirsSound'
<1>1. /\ jobPc[j] = "prune" /\ JobGoto(j, "put") /\ since' = [since EXCEPT ![j] = jobClock]
      /\ UNCHANGED <<jobMix, jobClock, daemon>>
  BY DEF Prunes
<1>2. PICK old, stale :
         /\ local' = [n \in AllNames |-> IF n \in old THEN Absent ELSE local[n]]
         /\ staging' = [n \in AllNames |-> IF n \in stale THEN Absent ELSE staging[n]]
         /\ stale = {n \in AllNames : jobMix.keep > 0 /\ jobClock - staging[n].at > Grace}
  BY DEF Prunes
<1>3. SameJobs /\ JobsTyped /\ DirsTyped /\ jobClock \in Nat /\ "put" \in JobSteps
  BY <1>1, SameMix DEF BackupsTyped, JobsTyped, JobSteps
<1>4. jobPc'[j] = "put" /\ \A i \in Jobs \ {j} : jobPc'[i] = jobPc[i] /\ since'[i] = since[i]
  BY <1>1, <1>3, JobGoesOn DEF JobsTyped
<1>5. ASSUME NEW i \in Jobs PROVE CopySound(i)'
  <2>1. CASE i = j \/ ~Copying(i)
    BY <1>4, <2>1 DEF CopySound, Copying
  <2>2. CASE i # j /\ Copying(i)
    <3>1. Name(i) # 0 /\ Name(i) \in AllNames /\ Name(i)' = Name(i)
      BY <1>3, <2>2, NamesThereAre, SameNames DEF Copying, JobsTyped
    <3>2. PICK n \in AllNames : n = Name(i)
      BY <3>1
    <3>3. CopySound(i) /\ since[i] \in Nat /\ staging[n].at \in Nat /\ staging[n].at <= jobClock
      BY <1>3, <3>2 DEF DirsSound, DirsTyped, Directory, JobsTyped
    <3>4. since[i] <= staging[n].at /\ jobClock <= since[i] + Grace
      BY <2>2, <3>2, <3>3 DEF CopySound
    <3>5. ~(jobClock - staging[n].at > Grace)
      BY <1>3, <3>3, <3>4
    <3>6. n \notin stale
      BY <1>2, <3>5
    <3>7. staging'[Name(i)'] = staging[Name(i)]
      BY <1>2, <3>1, <3>2, <3>6
    <3> QED
      BY <1>1, <1>4, <2>2, <3>3, <3>7 DEF CopySound, Copying, Consistent
  <2> QED
    BY <2>1, <2>2
<1>6. \A n \in AllNames : local'[n].there => Consistent(local'[n].has)
  BY <1>2, <1>3, NothingThere DEF DirsSound
<1>7. \A n \in AllNames : (local[n].there => Consistent(local[n].has))'
  BY <1>6 DEF Consistent
<1> QED
  BY <1>1, <1>5, <1>7 DEF DirsSound

LEMMA StoreStepDirs ==
    ASSUME BackupsTyped, Distinct, DirsSound, NEW j \in Jobs,
           Uploads(j) \/ Lists(j) \/ Dooms(j) \/ Deletes(j) \/ Quits(j)
    PROVE  DirsSound'
<1>1. CASE Uploads(j)
  <2>1. UNCHANGED <<jobMix, jobClock, daemon, staging, local>>
    BY <1>1, UploadCases
  <2>2. PICK at \in {"failed", "put", "list", "done"} : JobGoto(j, at)
    BY <1>1, UploadCases DEF UploadsPart, UploadsLast
  <2>3. \A i \in Jobs \ {j} : since'[i] = since[i]
    BY <1>1, UploadCases DEF UploadsPart, UploadsLast, BackupsTyped, JobsTyped
  <2>4. SameJobs /\ at \in JobSteps /\ at \notin {"db", "work", "rename"}
    BY <2>1, SameMix DEF JobSteps
  <2> QED
    BY <2>1, <2>2, <2>3, <2>4, SameDirs
<1>2. CASE Lists(j)
  <2>1. UNCHANGED <<jobMix, jobClock, daemon, staging, local, since>> /\ JobGoto(j, "doom")
    BY <1>2 DEF Lists, dirs
  <2>2. SameJobs /\ "doom" \in JobSteps
    BY <2>1, SameMix DEF JobSteps
  <2> QED
    BY <2>1, <2>2, SameDirs
<1>3. CASE Dooms(j)
  <2>1. UNCHANGED <<jobMix, jobClock, daemon, staging, local, since>> /\ JobGoto(j, "delete")
    BY <1>3 DEF Dooms, dirs
  <2>2. SameJobs /\ "delete" \in JobSteps
    BY <2>1, SameMix DEF JobSteps
  <2> QED
    BY <2>1, <2>2, SameDirs
<1>4. CASE Deletes(j)
  <2>1. /\ UNCHANGED <<jobMix, jobClock, daemon, staging, local, since>> /\ jobPc[j] = "delete"
        /\ JobGoto(j, "done") \/ jobPc' = jobPc
    BY <1>4, DeleteCases DEF DeletesOne
  <2>2. SameJobs /\ "done" \in JobSteps
    BY <2>1, SameMix DEF JobSteps
  <2>3. CASE JobGoto(j, "done")
    BY <2>1, <2>2, <2>3, SameDirs
  <2>4. CASE jobPc' = jobPc
    <3>1. JobGoto(j, "delete") /\ "delete" \in JobSteps
      BY <2>1, <2>4 DEF JobGoto, BackupsTyped, JobsTyped, JobSteps
    <3> QED
      BY <2>1, <2>2, <3>1, SameDirs
  <2> QED
    BY <2>1, <2>3, <2>4
<1>5. CASE Quits(j)
  <2>1. /\ UNCHANGED <<jobClock, daemon, staging, local, since>> /\ JobGoto(j, "failed") /\ SameJobs
        /\ "failed" \in JobSteps
    BY <1>5 DEF Quits, JobSteps
  <2> QED
    BY <2>1, SameDirs
<1> QED
  BY <1>1, <1>2, <1>3, <1>4, <1>5

LEMMA RestDirs ==
    ASSUME DirsSound, SameJobs, UNCHANGED <<jobClock, daemon, jobPc, since, staging, local>>
    PROVE  DirsSound'
<1>1. \A i \in Jobs : CopySound(i)'
  BY SameNames DEF DirsSound, CopySound, Copying, Consistent
<1> QED
  BY <1>1 DEF DirsSound, Consistent

LEMMA WritesDirs == ASSUME BackupsTyped, DirsSound, Writes PROVE DirsSound'
<1>1. /\ SameJobs /\ UNCHANGED <<jobClock, jobPc, since, staging, local>>
      /\ daemon'["db"] <= daemon'["work"] /\ daemon["db"] <= daemon'["db"]
      /\ daemon["db"] \in Nat /\ daemon'["db"] \in Nat
  BY WritesIs DEF DirsSound, Parts, Contents, BackupsTyped, JobsTyped
<1>2. ASSUME NEW i \in Jobs PROVE CopySound(i)'
  <2>1. CASE ~Copying(i)
    BY <1>1, <2>1 DEF CopySound, Copying
  <2>2. CASE Copying(i)
    <3>1. Name(i) \in AllNames /\ Name(i)' = Name(i)
      BY <1>1, <2>2, NamesThereAre, SameNames DEF Copying, BackupsTyped, JobsTyped
    <3>2. PICK s : s = staging[Name(i)]
      OBVIOUS
    <3>3. s.has["db"] \in Nat
      BY <3>1, <3>2 DEF BackupsTyped, DirsTyped, Directory, Contents, Parts
    <3>4. /\ s.there /\ since[i] <= s.at /\ jobClock <= since[i] + Grace
          /\ jobPc[i] = "work" => 0 < s.has["db"] /\ s.has["db"] <= daemon["db"] + 1
          /\ jobPc[i] = "rename" => Consistent(s.has)
      BY <2>2, <3>2 DEF DirsSound, CopySound
    <3>5. jobPc[i] = "work" => s.has["db"] <= daemon'["db"] + 1
      BY <1>1, <3>3, <3>4
    <3>6. s = staging'[Name(i)']
      BY <1>1, <3>1, <3>2
    <3> QED
      BY <1>1, <3>4, <3>5, <3>6 DEF CopySound, Consistent
  <2> QED
    BY <2>1, <2>2
<1> QED
  BY <1>1, <1>2 DEF DirsSound, Consistent

LEMMA TickDirs == ASSUME BackupsTyped, DirsSound, Grace \in Nat, JobTick PROVE DirsSound'
<1>1. /\ SameJobs /\ jobClock' = jobClock + 1 /\ jobClock \in Nat
      /\ \A j \in Jobs : Copying(j) => jobClock - since[j] < Grace
      /\ UNCHANGED <<daemon, jobPc, since, staging, local>>
  BY TickIs DEF BackupsTyped, JobsTyped
<1>2. ASSUME NEW i \in Jobs PROVE CopySound(i)'
  <2>1. since[i] \in Nat /\ (Copying(i) => jobClock - since[i] < Grace)
    BY <1>1 DEF BackupsTyped, JobsTyped
  <2>2. Copying(i) => jobClock' <= since[i] + Grace
    BY <1>1, <2>1
  <2>3. Name(i)' = Name(i) /\ CopySound(i)
    BY <1>1, SameNames DEF DirsSound
  <2> QED
    BY <1>1, <2>2, <2>3 DEF CopySound, Copying, Consistent
<1> QED
  BY <1>1, <1>2 DEF DirsSound, Consistent

LEMMA StepDirs ==
    ASSUME BackupsTyped, Distinct, DirsSound, Grace \in Nat, [BackupNext]_backupVars
    PROVE  DirsSound'
<1>1. CASE Writes
  BY <1>1, WritesDirs
<1>2. CASE JobTick
  BY <1>2, TickDirs
<1>3. ASSUME NEW j \in Jobs,
             \/ JobBegins(j) \/ Copies(j) \/ Renames(j) \/ CopyFails(j) \/ Prunes(j)
             \/ Uploads(j) \/ Lists(j) \/ Dooms(j) \/ Deletes(j) \/ StoreFails(j) \/ Dies(j)
      PROVE  DirsSound'
  BY <1>3, BeginsDirs, CopiesDirs, RenamesDirs, CopyFailsDirs, PrunesDirs, QuitsIs, StoreStepDirs
<1>4. CASE RestoreBegins
  BY <1>4, RestBegins, RestDirs
<1>5. CASE RestoreReads
  BY <1>5, ReadCases, SameMix, RestDirs
<1>6. CASE RestoreAgain
  BY <1>6, RestAgain, SameMix, RestDirs
<1>7. CASE UNCHANGED backupVars
  BY <1>7, SameMix, RestDirs DEF backupVars, dirs
<1> QED
  BY <1>1, <1>2, <1>3, <1>4, <1>5, <1>6, <1>7 DEF BackupNext

LEMMA InitDirs == ASSUME BackupInit PROVE DirsSound
<1>1. /\ daemon = Nothing /\ jobPc = [j \in Jobs |-> "idle"] /\ local = [n \in AllNames |-> Absent]
      /\ jobClock = 0
  BY DEF BackupInit
<1>2. daemon["db"] = 0 /\ daemon["work"] = 0 /\ ~Absent.there
  BY <1>1 DEF Nothing, Parts, Absent
<1> QED
  BY <1>1, <1>2 DEF DirsSound, CopySound, Copying

-----------------------------------------------------------------------------
LEMMA FinishedIs == \A n : n \in Finished <=> \E j \in Jobs : Uploaded(j) /\ n = Name(j)
<1>1. PICK done : done = {j \in Jobs : Uploaded(j)}
  OBVIOUS
<1>2. Finished = {Name(j) : j \in done}
  BY <1>1 DEF Finished
<1> QED
  BY <1>1, <1>2

LEMMA FinishedIsThen == \A n : n \in Finished' <=> \E j \in Jobs : Uploaded(j)' /\ n = Name(j)'
<1>1. PICK done : done = {j \in Jobs : Uploaded(j)'}
  OBVIOUS
<1>2. Finished' = {Name(j)' : j \in done}
  BY <1>1 DEF Finished
<1> QED
  BY <1>1, <1>2

(* Who finished stays finished, and who was outdone, outdone.                *)
LEMMA FinishedGrows ==
    ASSUME SameJobs, \A i \in Jobs : Uploaded(i) => Uploaded(i)'
    PROVE  Finished \subseteq Finished' /\ \A n : Outdone(n) => Outdone(n)'
<1>1. \A n : n \in Finished => n \in Finished'
  <2>1. ASSUME NEW n, n \in Finished PROVE n \in Finished'
    <3>1. PICK j \in Jobs : Uploaded(j) /\ n = Name(j)
      BY <2>1, FinishedIs
    <3>2. Uploaded(j)' /\ n = Name(j)'
      BY <3>1, SameNames
    <3> QED
      BY <3>2, FinishedIsThen
  <2> QED
    BY <2>1
<1> QED
  BY <1>1 DEF Outdone

LEMMA FinishedStays ==
    ASSUME SameJobs, file' = file
    PROVE  /\ Finished' = Finished /\ \A n : Outdone(n)' <=> Outdone(n)
           /\ \A i \in Jobs : Uploaded(i)' <=> Uploaded(i)
<1>1. \A i \in Jobs : Uploaded(i)' <=> Uploaded(i)
  BY DEF Uploaded
<1>2. Finished' = Finished
  BY <1>1, SameNames DEF Finished
<1> QED
  BY <1>1, <1>2 DEF Outdone

(* Of one name the store has what it had.                                    *)
SameKeys(n) == \A b : (b \in stored \/ b \in stored') /\ b.key[1] = n => (b \in stored' <=> b \in stored)

LEMMA KeysStay ==
    ASSUME SameJobs, NEW k \in Jobs, SameKeys(Name(k))
    PROVE  /\ OfJob(k)' = OfJob(k)
           /\ \A f : At(Name(k), f)' = At(Name(k), f)
<1>1. Name(k)' = Name(k)
  BY SameNames
<1>2. OfJob(k)' = OfJob(k)
  BY <1>1 DEF OfJob, SameKeys
<1>3. ASSUME NEW f PROVE At(Name(k), f)' = At(Name(k), f)
  <2>1. \A b : b.key = <<Name(k), f>> => b.key[1] = Name(k)
    OBVIOUS
  <2> QED
    BY <1>1, <2>1 DEF At, SameKeys
<1> QED
  BY <1>2, <1>3

(* A job none of whose things changed.                                       *)
Untouched(k) ==
    /\ jobPc'[k] = jobPc[k] /\ file'[k] = file[k] /\ since'[k] = since[k]
    /\ SameKeys(Name(k))
    /\ Name(k) # 0 => taken'[Name(k)] = taken[Name(k)]
    /\ Name(k) # 0 /\ local'[Name(k)].there => local[Name(k)].there /\ local'[Name(k)].has = local[Name(k)].has

LEMMA UntouchedIsSound ==
    ASSUME JobsTyped, SameJobs, jobClock' = jobClock, NEW k \in Jobs, Untouched(k),
           \A n : Outdone(n) => Outdone(n)', UploadSound(k)
    PROVE  UploadSound(k)'
<1>1. /\ Name(k)' = Name(k) /\ OfJob(k)' = OfJob(k)
      /\ \A f : At(Name(k), f)' = At(Name(k), f)
  BY SameNames, KeysStay DEF Untouched
<1>2. EarlySound(k)'
  BY <1>1 DEF UploadSound, EarlySound, Untouched
<1>3. PutSound(k)'
  <2>1. CASE jobPc[k] # "put"
    BY <2>1 DEF PutSound, Untouched
  <2>2. CASE jobPc[k] = "put"
    <3>1. Name(k) # 0 /\ PutSound(k)
      BY <2>2 DEF JobsTyped, UploadSound
    <3>2. \A p : HasIn(Name(k), p)' <=> HasIn(Name(k), p)
      BY <1>1, <3>1 DEF HasIn, Untouched
    <3>3. Consistent(taken[Name(k)])' <=> Consistent(taken[Name(k)])
      BY <1>1, <3>1 DEF Consistent, Untouched
    <3>4. Uploaded(k)' <=> Uploaded(k)
      BY DEF Uploaded, Untouched
    <3> QED
      BY <1>1, <2>2, <3>1, <3>2, <3>3, <3>4 DEF PutSound, Untouched
  <2> QED
    BY <2>1, <2>2
<1>4. UploadedSound(k)'
  <2>1. Uploaded(k)' <=> Uploaded(k)
    BY DEF Uploaded, Untouched
  <2>2. UploadedSound(k)
    BY DEF UploadSound
  <2>3. CASE ~Uploaded(k)
    BY <2>1, <2>2, <2>3 DEF UploadedSound, Untouched
  <2>4. CASE Uploaded(k)
    <3>1. Name(k) # 0
      BY <2>2, <2>4 DEF JobsTyped, UploadedSound
    <3>2. InStore(Name(k))' <=> InStore(Name(k))
      <4>1. ASSUME NEW p \in Parts
            PROVE  {b.has : b \in At(Name(k), p)' } = {b.has : b \in At(Name(k), p)}
        BY <1>1
      <4> QED
        BY <1>1, <3>1, <4>1 DEF InStore, Untouched
    <3>3. Consistent(taken[Name(k)])' <=> Consistent(taken[Name(k)])
      BY <1>1, <3>1 DEF Consistent, Untouched
    <3>4. \A p \in Parts : \A b \in At(Name(k), p)' : b.has = taken'[Name(k)'][p]
      BY <1>1, <2>2, <2>4, <3>1 DEF UploadedSound, Untouched
    <3>5. Outdone(Name(k)) => Outdone(Name(k))'
      BY <1>1
    <3>6. Outdone(Name(k))' \/ (InStore(Name(k))' /\ At(Name(k), Manifest)' # {})
      BY <1>1, <2>2, <2>4, <3>2, <3>5 DEF UploadedSound
    <3> QED
      BY <2>1, <2>2, <2>4, <3>3, <3>4, <3>6 DEF UploadedSound, Untouched
  <2> QED
    BY <2>3, <2>4
<1> QED
  BY <1>2, <1>3, <1>4 DEF UploadSound

(* What a job may delete, where it learns nothing new and nothing is uploaded. *)
LEMMA PruneStays ==
    ASSUME SameJobs, NEW i \in Jobs, NEW k \in Jobs, PruneSound(i, k), Lost(k) => Lost(k)',
           Outdone(Name(k)) => Outdone(Name(k))',
           \A key \in doomed'[i] : key \in doomed[i],
           jobPc'[i] = "doom" => jobPc[i] = "doom" /\ since'[i] = since[i] /\ listed'[i] = listed[i],
           Uploaded(k)' => Uploaded(k), \A b \in OfJob(k)' : b \in OfJob(k)
    PROVE  PruneSound(i, k)'
<1>1. Name(k)' = Name(k)
  BY SameNames
<1>2. \A key \in doomed'[i] : key[1] = Name(k) => Lost(k)'
  BY DEF PruneSound
<1>3. ASSUME jobPc'[i] = "doom", Uploaded(k)', Name(k) \notin listed'[i]
      PROVE  Outdone(Name(k))' \/ \A b \in OfJob(k)' : since'[i] <= b.at + Grace
  <2>1. Outdone(Name(k)) \/ \A b \in OfJob(k) : since[i] <= b.at + Grace
    BY <1>3 DEF PruneSound
  <2>2. since'[i] = since[i]
    BY <1>3
  <2> QED
    BY <1>1, <2>1, <2>2
<1> QED
  BY <1>1, <1>2, <1>3 DEF PruneSound

(* The jobs but one, where it alone moves and changes only what is its own.  *)
OthersUntouched(j) == \A k \in Jobs \ {j} : Untouched(k)

LEMMA StoreOf ==
    ASSUME BackupsTyped, StoreSound, SameJobs, jobClock' = jobClock, NEW j \in Jobs, OthersUntouched(j),
           \A n : Outdone(n) => Outdone(n)', UploadSound(j)',
           \A i, k \in Jobs : PruneSound(i, k)',
           Complete' \subseteq Finished' /\ \A i \in Jobs : (listed[i] \subseteq Finished)'
    PROVE  StoreSound'
<1>1. \A k \in Jobs \ {j} : UploadSound(k)'
  BY UntouchedIsSound DEF StoreSound, BackupsTyped, OthersUntouched
<1> QED
  BY <1>1 DEF StoreSound

(* A job goes on, and the store and what it knows of it stay as they are.    *)
EarlySteps == {"idle", "db", "work", "rename", "prune"}

LEMMA QuietOnes ==
    ASSUME BackupsTyped, StoreSound, SameJobs, UNCHANGED <<jobClock, file, stored, listed, doomed, taken>>,
           NEW j \in Jobs, NEW at \in JobSteps, JobGoto(j, at), at # "doom",
           \A i \in Jobs \ {j} : since'[i] = since[i],
           \A n \in AllNames \ {Name(j)} :
                local'[n].there => local[n].there /\ local'[n].has = local[n].has,
           jobPc[j] = "failed" => at = "failed", Distinct, UploadSound(j)'
    PROVE  StoreSound'
<1>1. /\ JobsTyped /\ jobPc'[j] = at /\ \A i \in Jobs \ {j} : jobPc'[i] = jobPc[i]
      /\ \A i \in Jobs : Name(i)' = Name(i)
  BY JobGoesOn, SameNames DEF BackupsTyped
<1>2. /\ Finished' = Finished /\ \A n : Outdone(n)' <=> Outdone(n)
      /\ \A i \in Jobs : Uploaded(i)' <=> Uploaded(i)
  BY FinishedStays
<1>3. OthersUntouched(j)
  <2>1. ASSUME NEW k \in Jobs \ {j} PROVE Untouched(k)
    <3>1. Name(k) # 0 => Name(k) \in AllNames \ {Name(j)}
      BY <1>1, NamesThereAre, OwnNames
    <3>2. SameKeys(Name(k))
      BY DEF SameKeys
    <3> QED
      BY <1>1, <3>1, <3>2 DEF Untouched
  <2> QED
    BY <2>1 DEF OthersUntouched
<1>4. ASSUME NEW i \in Jobs, NEW k \in Jobs PROVE PruneSound(i, k)'
  <2>1. PruneSound(i, k)
    BY DEF StoreSound
  <2>2. Lost(k) => Lost(k)'
    BY <1>1, <1>2 DEF Lost
  <2>3. OfJob(k)' = OfJob(k)
    BY <1>1 DEF OfJob
  <2>4. Outdone(Name(k)) => Outdone(Name(k))'
    BY <1>1, <1>2
  <2> QED
    BY <1>1, <1>2, <2>1, <2>2, <2>3, <2>4, PruneStays
<1>5. Complete' \subseteq Finished' /\ \A i \in Jobs : (listed[i] \subseteq Finished)'
  <2>1. Complete' = Complete
    BY DEF Complete, At
  <2> QED
    BY <1>2, <2>1 DEF StoreSound
<1> QED
  BY <1>2, <1>3, <1>4, <1>5, StoreOf

LEMMA EarlyStep ==
    ASSUME BackupsTyped, StoreSound, SameJobs, UNCHANGED <<jobClock, file, stored, listed, doomed, taken>>,
           NEW j \in Jobs, NEW at \in JobSteps, JobGoto(j, at), jobPc[j] \in EarlySteps,
           at \in EarlySteps \cup {"failed", "put"}, at = "put" => since'[j] = jobClock, Grace \in Nat
    PROVE  UploadSound(j)'
<1>1. /\ jobPc'[j] = at /\ Name(j)' = Name(j) /\ jobClock \in Nat
  BY JobGoesOn, SameNames DEF BackupsTyped, JobsTyped
<1>2. file[j] = "db" /\ OfJob(j) = {}
  BY DEF StoreSound, UploadSound, EarlySound, EarlySteps
<1>3. OfJob(j)' = OfJob(j) /\ ~Uploaded(j)'
  BY <1>1, <1>2 DEF OfJob, Uploaded
<1>4. EarlySound(j)'
  BY <1>1, <1>2, <1>3 DEF EarlySound
<1>5. PutSound(j)'
  BY <1>1, <1>2, <1>3 DEF PutSound, Manifest
<1>6. UploadedSound(j)'
  BY <1>1, <1>3 DEF UploadedSound, EarlySteps
<1> QED
  BY <1>4, <1>5, <1>6 DEF UploadSound

LEMMA FailedIsSound ==
    ASSUME BackupsTyped, StoreSound, SameJobs, UNCHANGED <<jobClock, file, stored, listed, doomed, taken>>,
           NEW j \in Jobs, JobGoto(j, "failed")
    PROVE  UploadSound(j)'
<1>1. jobPc'[j] = "failed" /\ Name(j)' = Name(j)
  BY JobGoesOn, SameNames DEF BackupsTyped, JobSteps
<1>2. EarlySound(j)' /\ PutSound(j)'
  BY <1>1 DEF EarlySound, PutSound
<1>3. UploadedSound(j)'
  <2>1. UploadedSound(j) /\ (Uploaded(j)' <=> Uploaded(j))
    BY DEF StoreSound, UploadSound, Uploaded
  <2>2. /\ \A f : At(Name(j), f)' = At(Name(j), f)
        /\ Outdone(Name(j))' <=> Outdone(Name(j))
    BY <1>1, FinishedStays DEF At
  <2>3. InStore(Name(j))' <=> InStore(Name(j))
    BY <1>1 DEF InStore, At
  <2>4. Consistent(taken[Name(j)])' <=> Consistent(taken[Name(j)])
    BY <1>1 DEF Consistent
  <2> QED
    BY <1>1, <2>1, <2>2, <2>3, <2>4 DEF UploadedSound
<1> QED
  BY <1>2, <1>3 DEF UploadSound

(* The steps before an upload.                                               *)
LEMMA EarlyStore ==
    ASSUME BackupsTyped, Distinct, StoreSound, Grace \in Nat, NEW j \in Jobs,
           JobBegins(j) \/ Copies(j) \/ Renames(j) \/ CopyFails(j)
    PROVE  StoreSound'
<1>1. /\ UNCHANGED <<jobClock, file, stored, listed, doomed, taken>> /\ SameJobs
      /\ jobPc[j] \in EarlySteps /\ Name(j) # 0
  <2>1. CASE JobBegins(j)
    BY <2>1, SameMix DEF JobBegins, EarlySteps
  <2>2. CASE Copies(j)
    BY <2>2, SameMix DEF Copies, EarlySteps, Parts, BackupsTyped, JobsTyped
  <2>3. CASE Renames(j)
    BY <2>3, SameMix DEF Renames, EarlySteps, BackupsTyped, JobsTyped
  <2>4. CASE CopyFails(j)
    BY <2>4, JobFaultKeeps DEF CopyFails, EarlySteps, BackupsTyped, JobsTyped
  <2> QED
    BY <2>1, <2>2, <2>3, <2>4
<1>2. PICK at \in {"failed", "db", "work", "rename", "prune"} : JobGoto(j, at)
  BY DEF JobBegins, Copies, Renames, CopyFails
<1>3. \A i \in Jobs \ {j} : since'[i] = since[i]
  BY DEF JobBegins, Copies, Renames, CopyFails, BackupsTyped, JobsTyped
<1>4. \A n \in AllNames \ {Name(j)} : local'[n] = local[n]
  BY DEF JobBegins, Copies, Renames, CopyFails, BackupsTyped, DirsTyped
<1>5. at \in JobSteps /\ at \in EarlySteps \cup {"failed", "put"} /\ at # "put" /\ at # "doom"
  BY DEF JobSteps, EarlySteps
<1>6. UploadSound(j)'
  BY <1>1, <1>2, <1>5, EarlyStep
<1>7. jobPc[j] # "failed"
  BY <1>1 DEF EarlySteps
<1> QED
  BY <1>1, <1>2, <1>3, <1>4, <1>5, <1>6, <1>7, QuietOnes

LEMMA PrunesStore ==
    ASSUME BackupsTyped, Distinct, StoreSound, Grace \in Nat, NEW j \in Jobs, Prunes(j)
    PROVE  StoreSound'
<1>1. /\ jobPc[j] = "prune" /\ JobGoto(j, "put") /\ since' = [since EXCEPT ![j] = jobClock]
      /\ file' = [file EXCEPT ![j] = "db"] /\ UNCHANGED <<jobMix, jobClock, stored, listed, doomed, taken>>
  BY DEF Prunes
<1>2. PICK old : local' = [n \in AllNames |-> IF n \in old THEN Absent ELSE local[n]]
  BY DEF Prunes
<1>3. SameJobs /\ JobsTyped /\ jobClock \in Nat /\ "put" \in JobSteps /\ ~Absent.there
  BY <1>1, SameMix, NothingThere DEF BackupsTyped, JobsTyped, JobSteps
<1>4. file' = file
  <2>1. file[j] = "db"
    BY <1>1 DEF StoreSound, UploadSound, EarlySound
  <2> QED
    BY <1>1, <1>3, <2>1 DEF JobsTyped
<1>5. since'[j] = jobClock /\ \A i \in Jobs \ {j} : since'[i] = since[i]
  BY <1>1, <1>3 DEF JobsTyped
<1>6. \A n \in AllNames : local'[n].there => local[n].there /\ local'[n].has = local[n].has
  BY <1>2, <1>3
<1>7. jobPc[j] \in EarlySteps
  BY <1>1 DEF EarlySteps
<1>8. UploadSound(j)'
  BY <1>1, <1>3, <1>4, <1>5, <1>7, EarlyStep
<1> QED
  BY <1>1, <1>3, <1>4, <1>5, <1>6, <1>8, QuietOnes

LEMMA QuitsStore ==
    ASSUME BackupsTyped, Distinct, StoreSound, NEW j \in Jobs, Quits(j)
    PROVE  StoreSound'
<1>1. /\ JobGoto(j, "failed") /\ SameJobs /\ "failed" \in JobSteps
      /\ UNCHANGED <<jobClock, since, file, local, stored, listed, doomed, taken>>
  BY DEF Quits, JobSteps
<1>2. UploadSound(j)'
  BY <1>1, FailedIsSound
<1> QED
  BY <1>1, <1>2, QuietOnes

(* A step to another of the last steps leaves an upload that is done as it is. *)
LEMMA LateStep ==
    ASSUME BackupsTyped, StoreSound, SameJobs, UNCHANGED <<file, stored, taken>>,
           NEW j \in Jobs, NEW at \in {"doom", "delete", "done"}, JobGoto(j, at),
           jobPc[j] \in {"list", "doom", "delete"}
    PROVE  UploadSound(j)' /\ Uploaded(j)
<1>1. jobPc'[j] = at /\ Name(j)' = Name(j)
  BY JobGoesOn, SameNames DEF BackupsTyped, JobSteps
<1>2. EarlySound(j)' /\ PutSound(j)'
  BY <1>1 DEF EarlySound, PutSound
<1>3. UploadedSound(j) /\ Uploaded(j) /\ (Uploaded(j)' <=> Uploaded(j))
  BY DEF StoreSound, UploadSound, UploadedSound, Uploaded
<1>4. UploadedSound(j)'
  <2>1. /\ \A f : At(Name(j), f)' = At(Name(j), f)
        /\ Outdone(Name(j))' <=> Outdone(Name(j))
    BY <1>1, FinishedStays DEF At
  <2>2. InStore(Name(j))' <=> InStore(Name(j))
    BY <1>1 DEF InStore, At
  <2>3. Consistent(taken[Name(j)])' <=> Consistent(taken[Name(j)])
    BY <1>1 DEF Consistent
  <2> QED
    BY <1>1, <1>3, <2>1, <2>2, <2>3 DEF UploadedSound
<1> QED
  BY <1>2, <1>3, <1>4 DEF UploadSound

(* Nothing of the others changes when the store and the directories do not.  *)
LEMMA NobodyTouched ==
    ASSUME BackupsTyped, NEW j \in Jobs, NEW at \in JobSteps, JobGoto(j, at),
           UNCHANGED <<since, file, local, stored, taken>>
    PROVE  OthersUntouched(j)
<1>1. \A k \in Jobs \ {j} : jobPc'[k] = jobPc[k] /\ SameKeys(Name(k))
  BY JobGoesOn DEF BackupsTyped, SameKeys
<1> QED
  BY <1>1 DEF OthersUntouched, Untouched

LEMMA ListsStore ==
    ASSUME BackupsTyped, Distinct, StoreSound, NEW j \in Jobs, Lists(j)
    PROVE  StoreSound'
<1>1. /\ jobPc[j] = "list" /\ listed' = [listed EXCEPT ![j] = Complete] /\ JobGoto(j, "doom")
      /\ UNCHANGED <<jobMix, jobClock, since, file, local, stored, doomed, taken>>
  BY DEF Lists, dirs
<1>2. /\ SameJobs /\ "doom" \in JobSteps /\ JobsTyped /\ StoreTyped /\ \A i \in Jobs : Name(i)' = Name(i)
  BY <1>1, SameMix, SameNames DEF JobSteps, BackupsTyped
<1>3. jobPc'[j] = "doom" /\ \A i \in Jobs \ {j} : jobPc'[i] = jobPc[i]
  BY <1>1, <1>2, JobGoesOn
<1>4. /\ Finished' = Finished /\ \A n : Outdone(n)' <=> Outdone(n)
      /\ \A i \in Jobs : Uploaded(i)' <=> Uploaded(i)
  BY <1>1, <1>2, FinishedStays
<1>5. UploadSound(j)'
  BY <1>1, <1>2, LateStep
<1>6. listed'[j] = Complete /\ \A i \in Jobs \ {j} : listed'[i] = listed[i]
  BY <1>1, <1>2 DEF StoreTyped
<1>7. ASSUME NEW i \in Jobs, NEW k \in Jobs PROVE PruneSound(i, k)'
  <2>1. PruneSound(i, k) /\ OfJob(k)' = OfJob(k)
    BY <1>1, <1>2 DEF StoreSound, OfJob
  <2>2. Lost(k) => Lost(k)'
    BY <1>1, <1>2, <1>3, <1>4 DEF Lost
  <2>3. Outdone(Name(k)) => Outdone(Name(k))'
    BY <1>2, <1>4
  <2>4. CASE i # j
    BY <1>1, <1>2, <1>3, <1>4, <1>6, <2>1, <2>2, <2>3, <2>4, PruneStays
  <2>5. CASE i = j
    <3>1. ASSUME Uploaded(k), Name(k) \notin Complete PROVE Outdone(Name(k))
      <4>1. UploadedSound(k)
        BY DEF StoreSound, UploadSound
      <4>2. Name(k) \in AllNames
        BY <1>2, <3>1, <4>1, NamesThereAre DEF UploadedSound, JobsTyped
      <4>3. At(Name(k), Manifest) = {}
        BY <3>1, <4>2 DEF Complete
      <4> QED
        BY <3>1, <4>1, <4>3 DEF UploadedSound
    <3>2. Uploaded(k)' /\ Name(k)' \notin listed'[i] => Outdone(Name(k))'
      BY <1>2, <1>4, <1>6, <2>3, <2>5, <3>1
    <3>3. \A key \in doomed'[i] : key[1] = Name(k)' => Lost(k)'
      BY <1>1, <1>2, <2>1, <2>2 DEF PruneSound
    <3> QED
      BY <3>2, <3>3 DEF PruneSound
  <2> QED
    BY <2>4, <2>5
<1>8. Complete' \subseteq Finished' /\ \A i \in Jobs : (listed[i] \subseteq Finished)'
  <2>1. Complete' = Complete
    BY <1>1, <1>2 DEF Complete, At
  <2>2. \A i \in Jobs : listed'[i] \subseteq Finished
    BY <1>6 DEF StoreSound
  <2> QED
    BY <1>4, <2>1, <2>2 DEF StoreSound
<1>9. OthersUntouched(j)
  BY <1>1, <1>2, NobodyTouched
<1> QED
  BY <1>1, <1>2, <1>4, <1>5, <1>7, <1>8, <1>9, StoreOf

(* Of a set of names, those beyond what is kept are below another.           *)
LEMMA BeyondIsBelow ==
    ASSUME jobMix \in MixOfBackups, NEW names, NEW n \in Beyond(names)
    PROVE  n \in names /\ \E m \in names : m > n
<1>1. n \in names /\ jobMix.keep > 0 /\ Cardinality({m \in names : m > n}) >= jobMix.keep
  BY DEF Beyond
<1>2. jobMix.keep \in Nat
  BY DEF MixOfBackups
<1>3. {m \in names : m > n} # {}
  <2>1. ASSUME {m \in names : m > n} = {} PROVE FALSE
    <3>1. Cardinality({}) = 0
      BY FS_EmptySet
    <3>2. Cardinality({m \in names : m > n}) = 0
      BY <2>1, <3>1
    <3> QED
      BY <1>1, <1>2, <3>2
  <2> QED
    BY <2>1
<1> QED
  BY <1>1, <1>3

LEMMA FinishedOnce ==
    ASSUME JobsTyped, Distinct, StoreSound, NEW k \in Jobs, Name(k) \in Finished, Name(k) # 0
    PROVE  Uploaded(k)
<1>1. PICK j \in Jobs : Uploaded(j) /\ Name(k) = Name(j)
  BY FinishedIs
<1>2. j = k
  BY <1>1, OwnNames
<1> QED
  BY <1>1, <1>2

(* What the second listing dooms is of a job that failed, or was outdone.    *)
LEMMA DoomedAreLost ==
    ASSUME BackupsTyped, Distinct, StoreSound, Grace \in Nat, NEW j \in Jobs, jobPc[j] = "doom",
           NEW k \in Jobs, Name(k) # 0, NEW b \in OfJob(k),
           b.key[1] \in Beyond(listed[j]) \/ Abandoned(j, b)
    PROVE  Lost(k)
<1>1. b \in stored /\ b.key[1] = Name(k) /\ JobsTyped /\ StoreTyped
  BY DEF OfJob, BackupsTyped
<1>2. CASE Name(k) \in Beyond(listed[j])
  <2>1. Name(k) \in listed[j] /\ \E m \in listed[j] : m > Name(k)
    BY <1>1, <1>2, BeyondIsBelow DEF JobsTyped
  <2>2. Name(k) \in Finished /\ Outdone(Name(k))
    BY <2>1 DEF StoreSound, Outdone
  <2> QED
    BY <1>1, <2>2, FinishedOnce DEF Lost
<1>3. CASE Name(k) \notin listed[j] /\ since[j] - b.at > Grace
  <2>1. since[j] \in Nat /\ since[j] <= jobClock /\ b.at \in Nat /\ jobClock \in Nat /\ since[k] \in Nat
    BY <1>1 DEF JobsTyped, StoreTyped, Blob
  <2>2. ~(since[j] <= b.at + Grace)
    BY <1>3, <2>1
  <2>3. CASE Uploaded(k)
    <3>1. Outdone(Name(k)) \/ \A c \in OfJob(k) : since[j] <= c.at + Grace
      BY <1>3, <2>3 DEF StoreSound, PruneSound
    <3>2. Outdone(Name(k))
      BY <2>2, <3>1
    <3> QED
      BY <2>3, <3>2 DEF Lost
  <2>4. CASE ~Uploaded(k)
    <3>1. jobPc[k] \notin {"list", "doom", "delete", "done"}
      BY <2>4 DEF StoreSound, UploadSound, UploadedSound
    <3>2. jobPc[k] \notin EarlySteps
      BY DEF StoreSound, UploadSound, EarlySound, EarlySteps
    <3>3. jobPc[k] # "put"
      <4>1. ASSUME jobPc[k] = "put" PROVE FALSE
        <5>1. PutSound(k)
          BY DEF StoreSound, UploadSound
        <5>2. jobClock <= since[k] + Grace /\ since[k] <= b.at
          BY <4>1, <5>1 DEF PutSound
        <5> QED
          BY <2>1, <2>2, <5>2
      <4> QED
        BY <4>1
    <3>4. jobPc[k] = "failed"
      BY <1>1, <3>1, <3>2, <3>3 DEF JobsTyped, JobSteps, EarlySteps
    <3> QED
      BY <2>4, <3>4 DEF Lost
  <2> QED
    BY <2>3, <2>4
<1> QED
  BY <1>1, <1>2, <1>3 DEF Abandoned

LEMMA DoomsStore ==
    ASSUME BackupsTyped, Distinct, StoreSound, Grace \in Nat, NEW j \in Jobs, Dooms(j)
    PROVE  StoreSound'
<1>1. /\ jobPc[j] = "doom" /\ JobGoto(j, "delete")
      /\ UNCHANGED <<jobMix, jobClock, since, file, local, stored, listed, taken>>
  BY DoomsIs
<1>2. PICK keys : /\ doomed' = [doomed EXCEPT ![j] = keys]
                  /\ \A key \in keys : \E b \in stored :
                        key = b.key /\ (b.key[1] \in Beyond(listed[j]) \/ Abandoned(j, b))
  BY DoomsIs
<1>3. /\ SameJobs /\ "delete" \in JobSteps /\ JobsTyped /\ StoreTyped
      /\ \A i \in Jobs : Name(i)' = Name(i)
  BY <1>1, SameMix, SameNames DEF JobSteps, BackupsTyped
<1>4. jobPc'[j] = "delete" /\ \A i \in Jobs \ {j} : jobPc'[i] = jobPc[i]
  BY <1>1, <1>3, JobGoesOn
<1>5. /\ Finished' = Finished /\ \A n : Outdone(n)' <=> Outdone(n)
      /\ \A i \in Jobs : Uploaded(i)' <=> Uploaded(i)
  BY <1>1, <1>3, FinishedStays
<1>6. UploadSound(j)'
  BY <1>1, <1>3, LateStep
<1>7. ASSUME NEW i \in Jobs, NEW k \in Jobs PROVE PruneSound(i, k)'
  <2>1. PruneSound(i, k) /\ OfJob(k)' = OfJob(k)
    BY <1>1, <1>3 DEF StoreSound, OfJob
  <2>2. Lost(k) => Lost(k)'
    BY <1>1, <1>3, <1>4, <1>5 DEF Lost
  <2>3. Outdone(Name(k)) => Outdone(Name(k))'
    BY <1>3, <1>5
  <2>4. CASE i # j
    <3>1. doomed'[i] = doomed[i]
      BY <1>2, <1>3, <2>4 DEF StoreTyped
    <3> QED
      BY <1>1, <1>3, <1>4, <1>5, <2>1, <2>2, <2>3, <2>4, <3>1, PruneStays
  <2>5. CASE i = j
    <3>1. doomed'[i] = keys
      BY <1>2, <1>3, <2>5 DEF StoreTyped
    <3>2. ASSUME NEW key \in keys, key[1] = Name(k) PROVE Lost(k)
      <4>1. PICK b \in stored : key = b.key /\ (b.key[1] \in Beyond(listed[j]) \/ Abandoned(j, b))
        BY <1>2
      <4>2. b \in OfJob(k) /\ Name(k) # 0
        <5>1. b.key \in Key
          BY <1>3 DEF StoreTyped, Blob
        <5>2. b.key[1] \in AllNames
          BY <5>1 DEF Key
        <5> QED
          BY <3>2, <4>1, <5>2 DEF OfJob, AllNames
      <4> QED
        BY <1>1, <4>1, <4>2, DoomedAreLost
    <3>3. \A key \in doomed'[i] : key[1] = Name(k)' => Lost(k)'
      BY <1>3, <2>2, <3>1, <3>2
    <3> QED
      BY <1>4, <2>5, <3>3 DEF PruneSound
  <2> QED
    BY <2>4, <2>5
<1>8. Complete' \subseteq Finished' /\ \A i \in Jobs : (listed[i] \subseteq Finished)'
  <2>1. Complete' = Complete
    BY <1>1, <1>3 DEF Complete, At
  <2> QED
    BY <1>1, <1>5, <2>1 DEF StoreSound
<1>9. OthersUntouched(j)
  BY <1>1, <1>3, NobodyTouched
<1> QED
  BY <1>1, <1>3, <1>5, <1>6, <1>7, <1>8, <1>9, StoreOf

(* A key is deleted of a job that failed, or was outdone: of the others the  *)
(* store has what it had.                                                    *)
LEMMA DeletedIsSound ==
    ASSUME BackupsTyped, StoreSound, SameJobs, UNCHANGED <<jobClock, jobPc, since, file, local, taken>>,
           NEW key, stored' = {b \in stored : b.key # key},
           NEW k \in Jobs, key[1] = Name(k) => Lost(k)
    PROVE  UploadSound(k)'
<1>1. Name(k)' = Name(k) /\ UploadSound(k)
  BY SameNames DEF StoreSound
<1>2. /\ \A n : Outdone(n)' <=> Outdone(n)
      /\ \A i \in Jobs : Uploaded(i)' <=> Uploaded(i)
  BY FinishedStays
<1>3. CASE ~Lost(k)
  <2>1. SameKeys(Name(k))
    BY <1>3 DEF SameKeys
  <2>2. Untouched(k)
    BY <2>1 DEF Untouched
  <2> QED
    BY <1>1, <1>2, <2>2, UntouchedIsSound DEF BackupsTyped
<1>4. CASE Lost(k)
  <2>1. \A b \in OfJob(k)' : b \in OfJob(k)
    BY <1>1 DEF OfJob
  <2>2. EarlySound(k)'
    BY <1>1, <2>1 DEF UploadSound, EarlySound
  <2>3. PutSound(k)'
    <3>1. jobPc[k] # "put"
      BY <1>1, <1>4 DEF Lost, UploadSound, PutSound
    <3> QED
      BY <3>1 DEF PutSound
  <2>4. UploadedSound(k)'
    <3>1. UploadedSound(k)
      BY <1>1 DEF UploadSound
    <3>2. CASE ~Uploaded(k)
      BY <1>2, <3>1, <3>2 DEF UploadedSound
    <3>3. CASE Uploaded(k)
      <4>1. Outdone(Name(k))' /\ Uploaded(k)'
        BY <1>1, <1>2, <1>4, <3>3 DEF Lost
      <4>2. \A p \in Parts : \A b \in At(Name(k), p)' : b.has = taken'[Name(k)'][p]
        BY <1>1, <3>1, <3>3 DEF UploadedSound, At
      <4>3. Consistent(taken[Name(k)])'
        BY <1>1, <3>1, <3>3 DEF UploadedSound, Consistent
      <4> QED
        BY <3>1, <3>3, <4>1, <4>2, <4>3 DEF UploadedSound
    <3> QED
      BY <3>2, <3>3
  <2> QED
    BY <2>2, <2>3, <2>4 DEF UploadSound
<1> QED
  BY <1>3, <1>4

LEMMA DeletesStore ==
    ASSUME BackupsTyped, Distinct, StoreSound, NEW j \in Jobs, Deletes(j)
    PROVE  StoreSound'
<1>1. /\ jobPc[j] = "delete" /\ UNCHANGED <<jobMix, jobClock, since, file, local, listed, taken>>
  BY DeleteCases
<1>2. /\ SameJobs /\ "done" \in JobSteps /\ JobsTyped /\ StoreTyped /\ \A i \in Jobs : Name(i)' = Name(i)
  BY <1>1, SameMix, SameNames DEF JobSteps, BackupsTyped
<1>3. CASE JobGoto(j, "done") /\ UNCHANGED <<stored, doomed>>
  <2>1. UploadSound(j)'
    BY <1>1, <1>2, <1>3, LateStep
  <2> QED
    BY <1>1, <1>2, <1>3, <2>1, QuietOnes
<1>4. ASSUME NEW key \in doomed[j], DeletesOne(j, key) PROVE StoreSound'
  <2>1. stored' = {b \in stored : b.key # key} /\ jobPc' = jobPc
    BY <1>4 DEF DeletesOne
  <2>2. doomed'[j] = doomed[j] \ {key} /\ \A i \in Jobs \ {j} : doomed'[i] = doomed[i]
    BY <1>2, <1>4 DEF DeletesOne, StoreTyped
  <2>3. /\ Finished' = Finished /\ \A n : Outdone(n)' <=> Outdone(n)
        /\ \A i \in Jobs : Uploaded(i)' <=> Uploaded(i)
    BY <1>1, <1>2, FinishedStays
  <2>4. ASSUME NEW k \in Jobs PROVE UploadSound(k)'
    <3>1. key[1] = Name(k) => Lost(k)
      BY <1>4 DEF StoreSound, PruneSound
    <3> QED
      BY <1>1, <1>2, <2>1, <3>1, DeletedIsSound
  <2>5. ASSUME NEW i \in Jobs, NEW k \in Jobs PROVE PruneSound(i, k)'
    <3>1. PruneSound(i, k) /\ \A b \in OfJob(k)' : b \in OfJob(k)
      BY <1>2, <2>1 DEF StoreSound, OfJob
    <3>2. Lost(k) => Lost(k)'
      BY <1>2, <2>1, <2>3 DEF Lost
    <3>3. \A c \in doomed'[i] : c \in doomed[i]
      BY <2>2
    <3>4. Outdone(Name(k)) => Outdone(Name(k))'
      BY <1>2, <2>3
    <3> QED
      BY <1>1, <1>2, <2>1, <2>3, <3>1, <3>2, <3>3, <3>4, PruneStays
  <2>6. Complete' \subseteq Finished' /\ \A i \in Jobs : (listed[i] \subseteq Finished)'
    <3>1. Complete' \subseteq Complete
      BY <1>1, <2>1 DEF Complete, At, AllNames
    <3> QED
      BY <1>1, <2>3, <3>1 DEF StoreSound
  <2> QED
    BY <2>4, <2>5, <2>6 DEF StoreSound
<1> QED
  BY <1>3, <1>4, DeleteCases

(* What is put is of its key alone.                                          *)
LEMMA PutIs ==
    ASSUME NEW n, NEW f, NEW what, stored' = Put(n, f, what)
    PROVE  /\ \A m : m # n => SameKeys(m)
           /\ \A g : g # f => {b \in stored' : b.key = <<n, g>>} = At(n, g)
           /\ {b \in stored' : b.key = <<n, f>>} = {[key |-> <<n, f>>, at |-> jobClock, has |-> what]}
           /\ \A b \in stored' : b \in stored \/ (b.at = jobClock /\ b.key = <<n, f>>)
<1>1. PICK new : new = [key |-> <<n, f>>, at |-> jobClock, has |-> what]
  OBVIOUS
<1>2. stored' = {b \in stored : b.key # <<n, f>>} \cup {new}
  BY <1>1 DEF Put
<1>3. new.key = <<n, f>> /\ new.at = jobClock /\ <<n, f>>[1] = n
  BY <1>1
<1>4. \A g : g # f => <<n, g>> # <<n, f>>
  OBVIOUS
<1>5. \A m : m # n => SameKeys(m)
  BY <1>2, <1>3 DEF SameKeys
<1>6. \A g : g # f => {b \in stored' : b.key = <<n, g>>} = At(n, g)
  BY <1>2, <1>3, <1>4 DEF At
<1>7. {b \in stored' : b.key = <<n, f>>} = {new}
  BY <1>2, <1>3
<1>8. \A b \in stored' : b \in stored \/ (b.at = jobClock /\ b.key = <<n, f>>)
  BY <1>2, <1>3
<1> QED
  BY <1>1, <1>5, <1>6, <1>7, <1>8

LEMMA PutTouchesOne ==
    ASSUME JobsTyped, Distinct, NEW j \in Jobs, Name(j) # 0, NEW f, NEW what, stored' = Put(Name(j), f, what),
           \A i \in Jobs \ {j} : jobPc'[i] = jobPc[i] /\ file'[i] = file[i] /\ since'[i] = since[i],
           local' = local, \A n \in AllNames \ {Name(j)} : taken'[n] = taken[n]
    PROVE  OthersUntouched(j)
<1>1. ASSUME NEW k \in Jobs \ {j} PROVE Untouched(k)
  <2>1. Name(k) # Name(j) /\ SameKeys(Name(k))
    BY OwnNames, PutIs
  <2>2. Name(k) # 0 => Name(k) \in AllNames \ {Name(j)}
    BY <2>1, NamesThereAre
  <2> QED
    BY <2>1, <2>2 DEF Untouched
<1> QED
  BY <1>1 DEF OthersUntouched

(* A part is uploaded: the store has of it what was read.                    *)
LEMMA PartSound ==
    ASSUME BackupsTyped, Distinct, DirsSound, StoreSound, SameJobs, jobClock' = jobClock, local' = local,
           NEW j \in Jobs, jobPc[j] = "put", jobPc'[j] = "put", Name(j) \in AllNames,
           NEW p \in Parts, UploadsPart(j, p)
    PROVE  PutSound(j)'
<1>1. PICK n \in AllNames : n = Name(j) /\ n = Name(j)'
  BY SameNames
<1>2. JobsTyped /\ DirsTyped /\ StoreTyped
  BY DEF BackupsTyped
<1>3. PICK h : h = local[n].has[p]
  OBVIOUS
<1>4. PICK next : next = IF p = "db" THEN "work" ELSE Manifest
  OBVIOUS
<1>5. /\ file[j] = p /\ local[n].there /\ stored' = Put(n, p, h) /\ since' = since
      /\ file' = [file EXCEPT ![j] = next] /\ taken' = [taken EXCEPT ![n][p] = h]
  BY <1>1, <1>3, <1>4 DEF UploadsPart
<1>6. file'[j] = next /\ next # "done" /\ next # "db"
  BY <1>2, <1>4, <1>5 DEF JobsTyped, Manifest
<1>7. /\ taken'[n][p] = h /\ \A q \in Parts \ {p} : taken'[n][q] = taken[n][q]
  BY <1>2, <1>5 DEF StoreTyped, Contents
<1>8. /\ \A g : g # p => At(n, g)' = At(n, g)
      /\ At(n, p)' = {[key |-> <<n, p>>, at |-> jobClock, has |-> h]}
      /\ \A b \in stored' : b \in stored \/ b.at = jobClock
  BY <1>5, PutIs DEF At
<1>9. PutSound(j) /\ since[j] <= jobClock
  BY <1>2 DEF StoreSound, UploadSound, JobsTyped
<1>10. HasIn(n, p)'
  <2>1. PICK new : new = [key |-> <<n, p>>, at |-> jobClock, has |-> h]
    OBVIOUS
  <2>2. new.has = h /\ At(n, p)' = {new}
    BY <1>8, <2>1
  <2>3. {b.has : b \in At(n, p)'} = {h}
    BY <2>2
  <2> QED
    BY <1>7, <2>3 DEF HasIn
<1>11. \A b \in OfJob(j)' : since'[j] <= b.at
  BY <1>1, <1>5, <1>8, <1>9 DEF OfJob, PutSound
<1>12. CASE p = "db"
  <2>1. next = "work" /\ taken'[n]["db"] = local[n].has["db"]
    BY <1>3, <1>4, <1>7, <1>12
  <2>2. HasIn(n, "db")'
    BY <1>10, <1>12
  <2> QED
    BY <1>1, <1>5, <1>6, <1>9, <1>11, <2>1, <2>2 DEF PutSound, Uploaded, Manifest
<1>13. CASE p = "work"
  <2>1. next = Manifest /\ file[j] = "work"
    BY <1>4, <1>5, <1>13
  <2>2. HasIn(n, "work")'
    BY <1>10, <1>13
  <2>3. HasIn(n, "db") /\ taken[n]["db"] = local[n].has["db"]
    BY <1>1, <1>5, <1>9, <2>1 DEF PutSound
  <2>4. taken'[n]["db"] = taken[n]["db"] /\ taken'[n]["work"] = local[n].has["work"]
    BY <1>3, <1>7, <1>13 DEF Parts
  <2>5. At(n, "db")' = At(n, "db")
    BY <1>8, <1>13
  <2>6. HasIn(n, "db")'
    BY <2>3, <2>4, <2>5 DEF HasIn
  <2>7. Consistent(local[n].has)
    BY <1>5 DEF DirsSound
  <2>8. Consistent(taken[n])'
    BY <2>3, <2>4, <2>7 DEF Consistent
  <2> QED
    BY <1>1, <1>5, <1>6, <1>9, <1>11, <2>1, <2>2, <2>6, <2>8 DEF PutSound, Uploaded, Manifest
<1> QED
  BY <1>12, <1>13 DEF Parts

LEMMA PartStore ==
    ASSUME BackupsTyped, Distinct, DirsSound, StoreSound, NEW j \in Jobs, Uploads(j),
           NEW p \in Parts, UploadsPart(j, p)
    PROVE  StoreSound'
<1>1. /\ jobPc[j] = "put" /\ Name(j) # 0 /\ Name(j) \in AllNames
      /\ UNCHANGED <<jobMix, jobClock, local, listed, doomed>>
  BY UploadCases
<1>2. /\ SameJobs /\ "put" \in JobSteps /\ JobsTyped /\ StoreTyped /\ \A i \in Jobs : Name(i)' = Name(i)
  BY <1>1, SameMix, SameNames DEF JobSteps, BackupsTyped
<1>3. PICK h : h = local[Name(j)].has[p]
  OBVIOUS
<1>4. PICK next : next = IF p = "db" THEN "work" ELSE Manifest
  OBVIOUS
<1>5. /\ stored' = Put(Name(j), p, h) /\ taken' = [taken EXCEPT ![Name(j)][p] = h]
      /\ file' = [file EXCEPT ![j] = next] /\ next # "done" /\ next # "db"
      /\ since' = since /\ JobGoto(j, "put") /\ file[j] = p
  BY <1>3, <1>4 DEF UploadsPart, Manifest
<1>6. jobPc'[j] = "put" /\ jobPc' = jobPc
  BY <1>1, <1>2, <1>5 DEF JobGoto, JobsTyped
<1>7. /\ file'[j] = next /\ \A i \in Jobs \ {j} : file'[i] = file[i]
      /\ \A n \in AllNames \ {Name(j)} : taken'[n] = taken[n]
  BY <1>2, <1>5 DEF JobsTyped, StoreTyped
<1>8. ~Uploaded(j) /\ \A i \in Jobs : Uploaded(i)' <=> Uploaded(i)
  BY <1>5, <1>7 DEF Uploaded, Parts
<1>9. Finished' = Finished /\ \A n : Outdone(n)' <=> Outdone(n)
  <2>1. Finished' = Finished
    BY <1>2, <1>8 DEF Finished
  <2> QED
    BY <2>1 DEF Outdone
<1>10. OthersUntouched(j)
  BY <1>1, <1>2, <1>5, <1>6, <1>7, PutTouchesOne
<1>11. UploadSound(j)'
  <2>1. PutSound(j)'
    BY <1>1, <1>2, <1>6, PartSound
  <2>2. EarlySound(j)'
    BY <1>6 DEF EarlySound
  <2>3. UploadedSound(j)'
    BY <1>6, <1>8 DEF UploadedSound
  <2> QED
    BY <2>1, <2>2, <2>3 DEF UploadSound
<1>12. ASSUME NEW i \in Jobs, NEW k \in Jobs PROVE PruneSound(i, k)'
  <2>1. PruneSound(i, k)
    BY DEF StoreSound
  <2>2. Lost(k) => Lost(k)'
    BY <1>2, <1>6, <1>8, <1>9 DEF Lost
  <2>3. Outdone(Name(k)) => Outdone(Name(k))'
    BY <1>2, <1>9
  <2>4. CASE k # j
    <3>1. OfJob(k)' = OfJob(k)
      BY <1>2, <1>10, <2>4, KeysStay DEF OthersUntouched, Untouched
    <3> QED
      BY <1>1, <1>2, <1>5, <1>6, <1>8, <2>1, <2>2, <2>3, <3>1, PruneStays
  <2>5. CASE k = j
    <3>1. ~Uploaded(k)' /\ \A key \in doomed'[i] : key[1] = Name(k)' => Lost(k)'
      BY <1>1, <1>2, <1>8, <2>1, <2>2, <2>5 DEF PruneSound
    <3> QED
      BY <3>1 DEF PruneSound
  <2> QED
    BY <2>4, <2>5
<1>13. Complete' \subseteq Finished' /\ \A i \in Jobs : (listed[i] \subseteq Finished)'
  <2>1. \A m : At(m, Manifest)' = At(m, Manifest)
    <3>1. Manifest # p
      BY DEF Manifest, Parts
    <3>2. \A m : At(m, Manifest) = {b \in stored : b.key = <<m, Manifest>>}
      BY DEF At
    <3>3. \A m : m # Name(j) => At(m, Manifest)' = At(m, Manifest)
      <4>1. \A m, b : b.key = <<m, Manifest>> => b.key[1] = m
        OBVIOUS
      <4> QED
        BY <1>5, <4>1, PutIs DEF At, SameKeys
    <3>4. {b \in stored' : b.key = <<Name(j), Manifest>>} = At(Name(j), Manifest)
      BY <1>5, <3>1, PutIs
    <3>5. \A m : m = Name(j) => At(m, Manifest)' = At(m, Manifest)
      BY <3>4 DEF At
    <3> QED
      BY <3>3, <3>5
  <2>2. Complete' = Complete
    <3>1. AllNames' = AllNames
      BY DEF AllNames
    <3> QED
      BY <2>1, <3>1 DEF Complete
  <2> QED
    BY <1>1, <1>9, <2>2 DEF StoreSound
<1> QED
  BY <1>1, <1>2, <1>9, <1>10, <1>11, <1>12, <1>13, StoreOf

(* The manifest is uploaded: the backup is in the store, and finished.       *)
LEMMA LastSound ==
    ASSUME BackupsTyped, StoreSound, SameJobs, NEW j \in Jobs, jobPc[j] = "put", Name(j) \in AllNames,
           UploadsLast(j), NEW at \in {"list", "done"}, jobPc'[j] = at
    PROVE  UploadSound(j)' /\ Uploaded(j)'
<1>1. PICK n \in AllNames : n = Name(j) /\ n = Name(j)'
  BY SameNames
<1>2. PutSound(j) /\ JobsTyped
  BY DEF StoreSound, UploadSound, BackupsTyped
<1>3. /\ file[j] = Manifest /\ file' = [file EXCEPT ![j] = "done"]
      /\ stored' = Put(n, Manifest, 0) /\ taken' = taken
  BY <1>1 DEF UploadsLast
<1>4. Uploaded(j)'
  BY <1>2, <1>3 DEF Uploaded, JobsTyped
<1>5. HasIn(n, "db") /\ HasIn(n, "work") /\ Consistent(taken[n])
  BY <1>1, <1>2, <1>3 DEF PutSound, Manifest
<1>6. \A p \in Parts : At(n, p)' = At(n, p)
  <2>1. \A p \in Parts : p # Manifest
    BY DEF Parts, Manifest
  <2> QED
    BY <1>3, <2>1, PutIs DEF At
<1>7. At(n, Manifest)' # {}
  <2>1. PICK new : new = [key |-> <<n, Manifest>>, at |-> jobClock, has |-> 0]
    OBVIOUS
  <2>2. {b \in stored' : b.key = <<n, Manifest>>} = {new}
    BY <1>3, <2>1, PutIs
  <2>3. At(n, Manifest)' = {new}
    BY <2>2 DEF At
  <2> QED
    BY <2>3
<1>8. \A p \in Parts : HasIn(n, p)
  BY <1>5 DEF Parts
<1>9. \A p \in Parts : HasIn(n, p)'
  BY <1>3, <1>6, <1>8 DEF HasIn
<1>10. InStore(n)'
  BY <1>9 DEF InStore, HasIn
<1>11. \A p \in Parts : \A b \in At(n, p)' : b.has = taken'[n][p]
  <2>1. ASSUME NEW p \in Parts, NEW b \in At(n, p)' PROVE b.has = taken'[n][p]
    <3>1. {c.has : c \in At(n, p)'} = {taken'[n][p]}
      BY <1>9 DEF HasIn
    <3>2. b.has \in {c.has : c \in At(n, p)'}
      OBVIOUS
    <3> QED
      BY <3>1, <3>2
  <2> QED
    BY <2>1
<1>12. Consistent(taken[n])'
  BY <1>3, <1>5 DEF Consistent
<1>13. EarlySound(j)' /\ PutSound(j)'
  BY DEF EarlySound, PutSound
<1>14. UploadedSound(j)'
  BY <1>1, <1>4, <1>7, <1>10, <1>11, <1>12 DEF UploadedSound
<1> QED
  BY <1>4, <1>13, <1>14 DEF UploadSound

LEMMA LastStore ==
    ASSUME BackupsTyped, Distinct, StoreSound, Grace \in Nat, NEW j \in Jobs, Uploads(j), UploadsLast(j)
    PROVE  StoreSound'
<1>1. /\ jobPc[j] = "put" /\ Name(j) # 0 /\ Name(j) \in AllNames
      /\ UNCHANGED <<jobMix, jobClock, local, listed, doomed>>
  BY UploadCases
<1>2. /\ SameJobs /\ JobsTyped /\ StoreTyped /\ \A i \in Jobs : Name(i)' = Name(i)
  BY <1>1, SameMix, SameNames DEF BackupsTyped
<1>3. /\ stored' = Put(Name(j), Manifest, 0) /\ taken' = taken /\ file' = [file EXCEPT ![j] = "done"]
      /\ since' = [since EXCEPT ![j] = jobClock]
  BY DEF UploadsLast
<1>4. PICK at \in {"list", "done"} : JobGoto(j, at)
  BY DEF UploadsLast
<1>5. jobPc'[j] = at /\ \A i \in Jobs \ {j} : jobPc'[i] = jobPc[i]
  BY <1>2, <1>4, JobGoesOn DEF JobSteps
<1>6. /\ \A i \in Jobs \ {j} : file'[i] = file[i]
      /\ \A i \in Jobs \ {j} : since'[i] = since[i]
  BY <1>2, <1>3 DEF JobsTyped
<1>7. UploadSound(j)' /\ Uploaded(j)'
  BY <1>1, <1>2, <1>5, LastSound
<1>8. /\ ~Uploaded(j) /\ \A i \in Jobs \ {j} : Uploaded(i)' <=> Uploaded(i)
  BY <1>1, <1>6 DEF Uploaded, StoreSound, UploadSound, PutSound
<1>9. Finished \subseteq Finished' /\ \A n : Outdone(n) => Outdone(n)'
  BY <1>2, <1>7, <1>8, FinishedGrows
<1>10. OthersUntouched(j)
  BY <1>1, <1>2, <1>3, <1>5, <1>6, PutTouchesOne
<1>11. \A b \in OfJob(j)' : b \in OfJob(j) \/ b.at = jobClock
  BY <1>2, <1>3, PutIs DEF OfJob
<1>12. ASSUME NEW i \in Jobs, NEW k \in Jobs PROVE PruneSound(i, k)'
  <2>1. PruneSound(i, k)
    BY DEF StoreSound
  <2>2. CASE k # j
    <3>1. OfJob(k)' = OfJob(k)
      BY <1>2, <1>10, <2>2, KeysStay DEF OthersUntouched, Untouched
    <3>2. Lost(k) => Lost(k)'
      BY <1>2, <1>5, <1>8, <1>9, <2>2 DEF Lost
    <3>3. Outdone(Name(k)) => Outdone(Name(k))'
      BY <1>2, <1>9
    <3>4. jobPc'[i] = "doom" => jobPc[i] = "doom" /\ since'[i] = since[i] /\ listed'[i] = listed[i]
      BY <1>1, <1>5, <1>6
    <3>5. Uploaded(k)' => Uploaded(k)
      BY <1>8, <2>2
    <3> QED
      BY <1>1, <1>2, <2>1, <3>1, <3>2, <3>3, <3>4, <3>5, PruneStays
  <2>3. CASE k = j
    <3>1. ~Lost(j)
      BY <1>1, <1>8 DEF Lost
    <3>2. \A key \in doomed'[i] : key[1] # Name(k)'
      BY <1>1, <1>2, <2>1, <2>3, <3>1 DEF PruneSound
    <3>3. ASSUME jobPc'[i] = "doom" PROVE \A b \in OfJob(k)' : since'[i] <= b.at + Grace
      <4>1. i # j /\ since'[i] = since[i]
        BY <1>5, <1>6, <3>3
      <4>2. /\ since[i] \in Nat /\ since[i] <= jobClock /\ jobClock \in Nat /\ since[j] \in Nat
            /\ jobClock <= since[j] + Grace /\ \A b \in OfJob(j) : since[j] <= b.at
        BY <1>1, <1>2 DEF JobsTyped, StoreSound, UploadSound, PutSound
      <4>3. ASSUME NEW b \in OfJob(j)' PROVE since[i] <= b.at + Grace
        <5>1. CASE b.at = jobClock
          BY <4>2, <5>1
        <5>2. CASE b \in OfJob(j)
          <6>1. since[j] <= b.at /\ b.at \in Nat
            BY <1>2, <4>2, <5>2 DEF OfJob, StoreTyped, Blob
          <6>2. /\ since[i] \in Nat /\ since[i] <= jobClock /\ jobClock \in Nat /\ since[j] \in Nat
                /\ jobClock <= since[j] + Grace
            BY <4>2
          <6> QED
            BY <6>1, <6>2
        <5> QED
          BY <1>11, <5>1, <5>2
      <4> QED
        BY <2>3, <4>1, <4>3
    <3> QED
      BY <3>2, <3>3 DEF PruneSound
  <2> QED
    BY <2>2, <2>3
<1>13. Complete' \subseteq Finished' /\ \A i \in Jobs : (listed[i] \subseteq Finished)'
  <2>1. \A i \in Jobs : listed'[i] \subseteq Finished'
    BY <1>1, <1>9 DEF StoreSound
  <2>2. ASSUME NEW m \in Complete' PROVE m \in Finished'
    <3>1. CASE m = Name(j)
      BY <1>2, <1>7, <3>1, FinishedIsThen
    <3>2. CASE m # Name(j)
      <4>1. \A b : b.key = <<m, Manifest>> => b.key[1] = m
        OBVIOUS
      <4>2. At(m, Manifest)' = At(m, Manifest)
        BY <1>3, <3>2, <4>1, PutIs DEF At, SameKeys
      <4>3. m \in Complete
        BY <4>2 DEF Complete, AllNames
      <4> QED
        BY <1>9, <4>3 DEF StoreSound
    <3> QED
      BY <3>1, <3>2
  <2> QED
    BY <2>1, <2>2
<1> QED
  BY <1>1, <1>2, <1>7, <1>9, <1>10, <1>12, <1>13, StoreOf

LEMMA UploadsStore ==
    ASSUME BackupsTyped, Distinct, DirsSound, StoreSound, Grace \in Nat, NEW j \in Jobs, Uploads(j)
    PROVE  StoreSound'
<1>1. CASE JobGoto(j, "failed") /\ UNCHANGED <<since, file, stored, taken>>
  <2>1. Quits(j)
    <3>1. UNCHANGED <<jobMix, jobClock, daemon, staging, local, listed, doomed, restore>> /\ jobPc[j] = "put"
      BY UploadCases
    <3> QED
      BY <1>1, <3>1, SameMix DEF Quits
  <2> QED
    BY <2>1, QuitsStore
<1>2. ASSUME NEW p \in Parts, UploadsPart(j, p) PROVE StoreSound'
  BY <1>2, PartStore
<1>3. CASE UploadsLast(j)
  BY <1>3, LastStore
<1> QED
  BY <1>1, <1>2, <1>3, UploadCases

(* The clock, the daemon and a restore leave it all as it is.                *)
LEMMA RestStore ==
    ASSUME StoreSound, SameJobs, UNCHANGED <<jobPc, since, file, local, stored, listed, doomed, taken>>,
           \A k \in Jobs : jobPc[k] = "put" => jobClock' <= since[k] + Grace
    PROVE  StoreSound'
<1>1. \A i \in Jobs : Name(i)' = Name(i)
  BY SameNames
<1>2. /\ Finished' = Finished /\ \A n : Outdone(n)' <=> Outdone(n)
      /\ \A i \in Jobs : Uploaded(i)' <=> Uploaded(i)
  BY FinishedStays
<1>3. /\ \A i \in Jobs : OfJob(i)' = OfJob(i)
      /\ \A n, f : At(n, f)' = At(n, f)
  BY <1>1 DEF OfJob, At
<1>4. /\ \A n : InStore(n)' <=> InStore(n)
      /\ \A n, p : HasIn(n, p)' <=> HasIn(n, p)
      /\ \A n : Consistent(taken[n])' <=> Consistent(taken[n])
  BY DEF InStore, HasIn, At, Consistent
<1>5. ASSUME NEW k \in Jobs PROVE UploadSound(k)'
  <2>1. EarlySound(k)'
    BY <1>1, <1>3 DEF StoreSound, UploadSound, EarlySound
  <2>2. PutSound(k)'
    BY <1>1, <1>2, <1>3, <1>4 DEF StoreSound, UploadSound, PutSound
  <2>3. UploadedSound(k)'
    <3>1. UploadedSound(k)
      BY DEF StoreSound, UploadSound
    <3> QED
      BY <1>1, <1>2, <1>3, <1>4, <3>1 DEF UploadedSound
  <2> QED
    BY <2>1, <2>2, <2>3 DEF UploadSound
<1>6. ASSUME NEW i \in Jobs, NEW k \in Jobs PROVE PruneSound(i, k)'
  <2>1. PruneSound(i, k) /\ (Lost(k) => Lost(k)')
    BY <1>1, <1>2 DEF StoreSound, Lost
  <2>2. Outdone(Name(k)) => Outdone(Name(k))'
    BY <1>1, <1>2
  <2> QED
    BY <1>2, <1>3, <2>1, <2>2, PruneStays
<1>7. Complete' \subseteq Finished' /\ \A i \in Jobs : (listed[i] \subseteq Finished)'
  <2>1. Complete' = Complete
    BY DEF Complete, At
  <2> QED
    BY <1>2, <2>1 DEF StoreSound
<1> QED
  BY <1>5, <1>6, <1>7 DEF StoreSound

LEMMA ClockBound ==
    ASSUME StoreSound, jobClock' = jobClock
    PROVE  \A k \in Jobs : jobPc[k] = "put" => jobClock' <= since[k] + Grace
  BY DEF StoreSound, UploadSound, PutSound

LEMMA TickStore == ASSUME BackupsTyped, StoreSound, Grace \in Nat, JobTick PROVE StoreSound'
<1>1. \A k \in Jobs : jobPc[k] = "put" => jobClock' <= since[k] + Grace
  <2>1. ASSUME NEW k \in Jobs, jobPc[k] = "put" PROVE jobClock' <= since[k] + Grace
    <3>1. /\ jobClock - since[k] < Grace /\ since[k] \in Nat /\ jobClock \in Nat /\ jobClock' = jobClock + 1
      BY <2>1, TickIs DEF BackupsTyped, JobsTyped
    <3> QED
      BY <3>1
  <2> QED
    BY <2>1
<1> QED
  BY <1>1, TickIs, RestStore

LEMMA StepStore ==
    ASSUME BackupsTyped, Distinct, DirsSound, StoreSound, Grace \in Nat, [BackupNext]_backupVars
    PROVE  StoreSound'
<1>1. CASE Writes
  BY <1>1, WritesIs, ClockBound, RestStore
<1>2. CASE JobTick
  BY <1>2, TickStore
<1>3. ASSUME NEW j \in Jobs,
             \/ JobBegins(j) \/ Copies(j) \/ Renames(j) \/ CopyFails(j) \/ Prunes(j)
             \/ Uploads(j) \/ Lists(j) \/ Dooms(j) \/ Deletes(j) \/ StoreFails(j) \/ Dies(j)
      PROVE  StoreSound'
  BY <1>3, EarlyStore, PrunesStore, UploadsStore, ListsStore, DoomsStore, DeletesStore, QuitsIs,
     QuitsStore
<1>4. CASE RestoreBegins
  BY <1>4, RestBegins, ClockBound, RestStore
<1>5. CASE RestoreReads
  BY <1>5, ReadCases, SameMix, ClockBound, RestStore
<1>6. CASE RestoreAgain
  BY <1>6, RestAgain, SameMix, ClockBound, RestStore
<1>7. CASE UNCHANGED backupVars
  BY <1>7, SameMix, ClockBound, RestStore DEF backupVars, dirs
<1> QED
  BY <1>1, <1>2, <1>3, <1>4, <1>5, <1>6, <1>7 DEF BackupNext

LEMMA InitStore == ASSUME BackupInit PROVE StoreSound
<1>1. /\ jobPc = [j \in Jobs |-> "idle"] /\ file = [j \in Jobs |-> "db"] /\ stored = {}
      /\ listed = [j \in Jobs |-> {}] /\ doomed = [j \in Jobs |-> {}]
  BY DEF BackupInit
<1>2. \A j \in Jobs : UploadSound(j)
  BY <1>1 DEF UploadSound, EarlySound, PutSound, UploadedSound, Uploaded, OfJob
<1>3. \A i, k \in Jobs : PruneSound(i, k)
  BY <1>1 DEF PruneSound
<1>4. Complete = {}
  BY <1>1 DEF Complete, At
<1> QED
  BY <1>1, <1>2, <1>3, <1>4 DEF StoreSound

-----------------------------------------------------------------------------
(* Of finitely many jobs one has the greatest name.                          *)
LEMMA GreatestName ==
    ASSUME JobsTyped, IsFiniteSet(Jobs), NEW U \in SUBSET Jobs, U # {}
    PROVE  \E j \in U : \A i \in U : Name(j) >= Name(i)
<1>1. PICK f : f = [j \in U |-> Name(j)]
  OBVIOUS
<1>2. f \in [U -> Nat] /\ \A j \in U : f[j] = Name(j) /\ Name(j) \in Nat
  BY <1>1 DEF Name, JobsTyped, MixOfBackups
<1>3. PICK j \in U : \A i \in U : f[i] <= f[j]
  BY <1>2, Topmost, FS_Subset
<1>4. \A i \in U : Name(j) >= Name(i)
  BY <1>2, <1>3
<1> QED
  BY <1>4

(* The newest that finished is in the store, and the newest that is offered. *)
LEMMA NewestIsIn ==
    ASSUME BackupsTyped, IsFiniteSet(Jobs), Distinct, StoreSound, Finished # {}
    PROVE  /\ Complete # {} /\ Max(Complete) \in Finished
           /\ InStore(Max(Complete)) /\ Consistent(taken[Max(Complete)])
<1>1. PICK U \in SUBSET Jobs : U = {j \in Jobs : Uploaded(j)}
  OBVIOUS
<1>2. U # {}
  BY <1>1, FinishedIs
<1>3. PICK j \in U : \A i \in U : Name(j) >= Name(i)
  BY <1>2, GreatestName DEF BackupsTyped
<1>4. JobsTyped /\ \A i \in Jobs : Name(i) \in Nat
  BY DEF BackupsTyped, JobsTyped, Name, MixOfBackups
<1>5. \A n \in Finished : n \in Nat /\ Name(j) >= n
  BY <1>1, <1>3, <1>4, FinishedIs
<1>6. ~Outdone(Name(j))
  BY <1>4, <1>5 DEF Outdone
<1>7. /\ InStore(Name(j)) /\ At(Name(j), Manifest) # {} /\ Consistent(taken[Name(j)])
      /\ jobPc[j] \in {"list", "doom", "delete", "done", "failed"}
  BY <1>1, <1>6 DEF StoreSound, UploadSound, UploadedSound
<1>8. Name(j) \in Complete
  BY <1>4, <1>7, NamesThereAre DEF Complete, JobsTyped
<1>9. \A n \in Complete : n \in Nat /\ Name(j) >= n
  BY <1>5 DEF StoreSound
<1>10. Max(Complete) = Name(j)
  <2>1. \A m \in Complete : (\A n \in Complete : m >= n) => m = Name(j)
    BY <1>4, <1>8, <1>9
  <2>2. \E m \in Complete : \A n \in Complete : m >= n
    BY <1>8, <1>9
  <2> QED
    BY <2>1, <2>2 DEF Max
<1>11. Name(j) \in Finished
  BY <1>1, FinishedIs
<1> QED
  BY <1>7, <1>8, <1>10, <1>11

-----------------------------------------------------------------------------
(* What was uploaded of a backup that is finished is never uploaded again.   *)
FinishedRests == Finished \subseteq Finished' /\ \A n \in Finished : taken'[n] = taken[n]

LEMMA FilesRest == ASSUME SameJobs, file' = file, taken' = taken PROVE FinishedRests
  BY FinishedStays DEF FinishedRests

LEMMA UploadRests ==
    ASSUME BackupsTyped, Distinct, StoreSound, NEW j \in Jobs, Uploads(j)
    PROVE  FinishedRests /\ restore' = restore
<1>1. /\ jobPc[j] = "put" /\ Name(j) # 0 /\ restore' = restore /\ SameJobs
  BY UploadCases, SameMix
<1>2. ~Uploaded(j) /\ Name(j) \notin Finished
  <2>1. ~Uploaded(j)
    BY <1>1 DEF StoreSound, UploadSound, PutSound
  <2> QED
    BY <1>1, <2>1, FinishedOnce DEF BackupsTyped
<1>3. \A i \in Jobs \ {j} : file'[i] = file[i]
  BY UploadCases DEF UploadsPart, UploadsLast, BackupsTyped, JobsTyped
<1>4. Finished \subseteq Finished'
  BY <1>1, <1>2, <1>3, FinishedGrows DEF Uploaded
<1>5. ASSUME NEW n \in Finished PROVE taken'[n] = taken[n]
  <2>1. PICK k \in Jobs : Uploaded(k) /\ n = Name(k)
    BY FinishedIs
  <2>2. jobPc[k] # "idle"
    BY <2>1 DEF StoreSound, UploadSound, UploadedSound
  <2>3. n \in AllNames /\ n # Name(j)
    BY <1>2, <2>1, <2>2, NamesThereAre DEF BackupsTyped, JobsTyped
  <2> QED
    BY <2>3, UploadCases DEF UploadsPart, UploadsLast, BackupsTyped, StoreTyped
<1> QED
  BY <1>1, <1>4, <1>5 DEF FinishedRests

LEMMA JobsRest ==
    ASSUME BackupsTyped, Distinct, StoreSound, NEW j \in Jobs,
           \/ JobBegins(j) \/ Copies(j) \/ Renames(j) \/ CopyFails(j) \/ Prunes(j)
           \/ Uploads(j) \/ Lists(j) \/ Dooms(j) \/ Deletes(j) \/ Quits(j)
    PROVE  FinishedRests /\ restore' = restore
<1>1. CASE Uploads(j)
  BY <1>1, UploadRests
<1>2. CASE JobBegins(j) \/ Copies(j) \/ Renames(j)
  BY <1>2, SameMix, FilesRest DEF JobBegins, Copies, Renames
<1>3. CASE CopyFails(j)
  <2>1. SameJobs
    BY <1>3, JobFaultKeeps DEF CopyFails, BackupsTyped, JobsTyped
  <2> QED
    BY <1>3, <2>1, FilesRest DEF CopyFails
<1>4. CASE Prunes(j)
  <2>1. file[j] = "db" /\ file' = [file EXCEPT ![j] = "db"] /\ UNCHANGED <<jobMix, taken, restore>>
    BY <1>4 DEF Prunes, StoreSound, UploadSound, EarlySound
  <2>2. file' = file /\ SameJobs
    BY <2>1, SameMix DEF BackupsTyped, JobsTyped
  <2> QED
    BY <2>1, <2>2, FilesRest
<1>5. CASE Lists(j)
  BY <1>5, SameMix, FilesRest DEF Lists
<1>6. CASE Dooms(j)
  BY <1>6, SameMix, FilesRest, DoomsIs
<1>7. CASE Deletes(j)
  BY <1>7, SameMix, FilesRest, DeleteCases
<1>8. CASE Quits(j)
  BY <1>8, FilesRest DEF Quits
<1> QED
  BY <1>1, <1>2, <1>3, <1>4, <1>5, <1>6, <1>7, <1>8

LEMMA RestoreRests == ASSUME RestoreSound, FinishedRests, restore' = restore PROVE RestoreSound'
  BY DEF RestoreSound, FinishedRests

LEMMA ReadsSound ==
    ASSUME BackupsTyped, Distinct, StoreSound, RestoreSound, RestoreReads
    PROVE  RestoreSound'
<1>1. /\ restore'.name = restore.name /\ UNCHANGED <<jobMix, file, taken, stored>> /\ restore.at \in UploadFiles
  BY ReadCases DEF RestoreReads, UploadFiles
<1>2. Finished' = Finished
  BY <1>1, SameMix, FinishedStays
<1>3. /\ restore.name \in Finished
      /\ restore.at = "work" => restore.got["db"] = taken[restore.name]["db"]
  BY <1>1 DEF RestoreSound, UploadFiles, Parts, Manifest
<1>4. CASE restore'.at = "failed"
  BY <1>4 DEF RestoreSound
<1>5. CASE restore'.at = "db"
  BY <1>1, <1>2, <1>3, <1>5 DEF RestoreSound
<1>6. ASSUME NEW p \in Parts, ReadsPart(p) PROVE RestoreSound'
  <2>1. PICK b \in At(restore.name, p) : restore'.got[p] = b.has
    BY <1>6 DEF ReadsPart
  <2>2. PICK k \in Jobs : Uploaded(k) /\ restore.name = Name(k)
    BY <1>3, FinishedIs
  <2>3. b.has = taken[restore.name][p]
    BY <2>1, <2>2 DEF StoreSound, UploadSound, UploadedSound
  <2>4. CASE p = "db"
    <3>1. restore'.at = "work" /\ restore'.got["db"] = taken'[restore'.name]["db"]
      BY <1>1, <1>6, <2>1, <2>3, <2>4 DEF ReadsPart
    <3> QED
      BY <1>1, <1>2, <1>3, <3>1 DEF RestoreSound
  <2>5. CASE p = "work"
    <3>1. /\ restore'.at = "done" /\ restore'.got["work"] = taken'[restore'.name]["work"]
          /\ restore.at = "work" /\ restore'.got["db"] = restore.got["db"]
      BY <1>1, <1>6, <2>1, <2>3, <2>5 DEF ReadsPart, Parts
    <3> QED
      BY <1>1, <1>2, <1>3, <3>1 DEF RestoreSound
  <2> QED
    BY <2>4, <2>5 DEF Parts
<1> QED
  BY <1>4, <1>5, <1>6, ReadCases

LEMMA StepRestore ==
    ASSUME BackupsTyped, IsFiniteSet(Jobs), Distinct, StoreSound, RestoreSound, [BackupNext]_backupVars
    PROVE  RestoreSound'
<1>1. CASE Writes
  BY <1>1, WritesIs, FilesRest, RestoreRests
<1>2. CASE JobTick
  BY <1>2, TickIs, FilesRest, RestoreRests
<1>3. ASSUME NEW j \in Jobs,
             \/ JobBegins(j) \/ Copies(j) \/ Renames(j) \/ CopyFails(j) \/ Prunes(j)
             \/ Uploads(j) \/ Lists(j) \/ Dooms(j) \/ Deletes(j) \/ StoreFails(j) \/ Dies(j)
      PROVE  RestoreSound'
  BY <1>3, QuitsIs, JobsRest, RestoreRests
<1>4. CASE RestoreBegins
  <2>1. CASE restore'.at = "failed"
    BY <2>1 DEF RestoreSound
  <2>2. CASE restore'.at = Manifest /\ restore'.name = Max(Complete) /\ Complete # {}
    <3>1. Finished # {}
      BY <2>2 DEF StoreSound
    <3>2. restore'.name \in Finished
      BY <2>2, <3>1, NewestIsIn
    <3>3. Finished' = Finished
      BY <1>4, RestBegins, FinishedStays
    <3> QED
      BY <2>2, <3>2, <3>3 DEF RestoreSound, Manifest
  <2> QED
    BY <1>4, <2>1, <2>2, RestBegins
<1>5. CASE RestoreReads
  BY <1>5, ReadsSound
<1>6. CASE RestoreAgain
  BY <1>6, RestAgain DEF RestoreSound
<1>7. CASE UNCHANGED backupVars
  BY <1>7, SameMix, FilesRest, RestoreRests DEF backupVars
<1> QED
  BY <1>1, <1>2, <1>3, <1>4, <1>5, <1>6, <1>7 DEF BackupNext

-----------------------------------------------------------------------------
LEMMA BackupStarts == ASSUME BackupConstants, BackupInit PROVE BackupInv
<1>1. RestoreSound
  BY DEF BackupInit, RestoreSound
<1> QED
  BY <1>1, InitTypes, InitDirs, InitStore DEF BackupInv

LEMMA NamesAreFixed == ASSUME BackupsTyped, [BackupNext]_backupVars PROVE Distinct' => Distinct
<1>1. SameJobs
  <2>1. CASE \E j \in Jobs : CopyFails(j)
    BY <2>1, JobFaultKeeps DEF CopyFails, BackupsTyped, JobsTyped
  <2>2. CASE \E j \in Jobs : StoreFails(j) \/ Dies(j)
    BY <2>2, QuitsIs DEF Quits
  <2>3. CASE Writes \/ JobTick \/ RestoreBegins
    BY <2>3, WritesIs, TickIs, RestBegins
  <2>4. CASE jobMix' = jobMix
    BY <2>4, SameMix
  <2>5. ASSUME NEW j \in Jobs, JobBegins(j) \/ Copies(j) \/ Renames(j) \/ Prunes(j)
        PROVE  jobMix' = jobMix
    BY <2>5 DEF JobBegins, Copies, Renames, Prunes
  <2>6. ASSUME NEW j \in Jobs, Uploads(j) \/ Lists(j) \/ Dooms(j) \/ Deletes(j) PROVE jobMix' = jobMix
    BY <2>6 DEF Uploads, Lists, Dooms, Deletes
  <2>7. CASE RestoreReads \/ RestoreAgain \/ UNCHANGED backupVars
    BY <2>7, <2>4 DEF RestoreReads, RestoreAgain, backupVars
  <2> QED
    BY <2>1, <2>2, <2>3, <2>4, <2>5, <2>6, <2>7 DEF BackupNext
<1> QED
  BY <1>1, SameNames

LEMMA BackupSteps == ASSUME BackupConstants, BackupInv, [BackupNext]_backupVars PROVE BackupInv'
<1>1. IsFiniteSet(Jobs) /\ Grace \in Nat /\ BackupsTyped
  BY DEF BackupConstants, BackupInv
<1>2. BackupsTyped'
  BY <1>1, StepKeepsTypes
<1>3. ASSUME Distinct' PROVE DirsSound' /\ StoreSound' /\ RestoreSound'
  <2>1. Distinct /\ DirsSound /\ StoreSound /\ RestoreSound
    BY <1>1, <1>3, NamesAreFixed DEF BackupInv
  <2> QED
    BY <1>1, <2>1, StepDirs, StepStore, StepRestore
<1> QED
  BY <1>2, <1>3 DEF BackupInv

LEMMA BackupsFollow == ASSUME BackupConstants, BackupInv PROVE BackupTypeOK /\ BackupsAreWhole
<1>1. BackupsTyped /\ JobsTyped /\ DirsTyped /\ StoreTyped /\ RestoreTyped /\ jobClock \in Nat
      /\ IsFiniteSet(Jobs)
  BY DEF BackupInv, BackupsTyped, JobsTyped, BackupConstants
<1>2. BackupTypeOK
  <2>1. ASSUME NEW n \in AllNames
        PROVE  {staging[n], local[n]} \subseteq [there : BOOLEAN, at : 0..jobClock, has : Contents]
    <3>1. staging[n] \in Directory /\ local[n] \in Directory
      BY <1>1 DEF DirsTyped
    <3>2. staging[n].at \in 0..jobClock /\ local[n].at \in 0..jobClock
      BY <1>1, <3>1 DEF DirsTyped, Directory
    <3> QED
      BY <3>1, <3>2 DEF Directory
  <2>2. ASSUME NEW b \in stored PROVE b.key \in AllNames \X (Parts \cup {Manifest}) /\ b.at \in 0..jobClock
    <3>1. b \in Blob /\ b.at <= jobClock
      BY <1>1 DEF StoreTyped
    <3> QED
      BY <1>1, <3>1 DEF Blob, Key, UploadFiles
  <2>3. jobClock \in Nat /\ daemon \in Contents /\ jobPc \in [Jobs -> JobSteps]
    BY <1>1 DEF JobsTyped
  <2>4. listed \in [Jobs -> SUBSET AllNames] /\ taken \in [AllNames -> Contents]
    BY <1>1 DEF StoreTyped
  <2>5. restore.at \in {"idle", Manifest, "db", "work", "done", "failed"}
    BY <1>1 DEF RestoreTyped, UploadFiles, Parts
  <2> QED
    BY <2>1, <2>2, <2>3, <2>4, <2>5 DEF BackupTypeOK, JobSteps
<1>3. ASSUME Distinct PROVE DirsSound /\ StoreSound /\ RestoreSound
  BY <1>3 DEF BackupInv
<1>4. VisibleIsWhole
  BY <1>3 DEF VisibleIsWhole, DirsSound
<1>5. NewestIsWhole
  <2>1. ASSUME Distinct, Complete # {} PROVE InStore(Max(Complete)) /\ Consistent(taken[Max(Complete)])
    <3>1. Finished # {}
      BY <1>3, <2>1 DEF StoreSound
    <3> QED
      BY <1>1, <1>3, <2>1, <3>1, NewestIsIn
  <2>2. ASSUME Distinct, NEW j \in Jobs, jobPc[j] \in {"list", "doom", "delete", "done"}
        PROVE  Complete # {}
    <3>1. Uploaded(j)
      BY <1>3, <2>2 DEF StoreSound, UploadSound, UploadedSound
    <3>2. Finished # {}
      BY <3>1, FinishedIs
    <3> QED
      BY <1>1, <1>3, <2>2, <3>2, NewestIsIn
  <2> QED
    BY <2>1, <2>2 DEF NewestIsWhole
<1>6. RestoredIsOne
  <2>1. ASSUME Distinct, restore.at = "done"
        PROVE  restore.got = taken[restore.name] /\ Consistent(restore.got)
    <3>1. /\ restore.name \in Finished
          /\ restore.got["db"] = taken[restore.name]["db"]
          /\ restore.got["work"] = taken[restore.name]["work"]
      BY <1>3, <2>1 DEF RestoreSound
    <3>2. PICK k \in Jobs : Uploaded(k) /\ restore.name = Name(k)
      BY <3>1, FinishedIs
    <3>3. Consistent(taken[restore.name]) /\ jobPc[k] # "idle"
      BY <1>3, <2>1, <3>2 DEF StoreSound, UploadSound, UploadedSound
    <3>4. restore.name \in AllNames
      BY <1>1, <3>2, <3>3, NamesThereAre DEF JobsTyped
    <3>5. restore.got \in [Parts -> Nat] /\ taken[restore.name] \in [Parts -> Nat]
      BY <1>1, <3>4 DEF RestoreTyped, StoreTyped, Contents
    <3>6. \A p \in Parts : restore.got[p] = taken[restore.name][p]
      BY <3>1 DEF Parts
    <3>7. restore.got = taken[restore.name]
      BY <3>5, <3>6
    <3> QED
      BY <3>3, <3>7
  <2> QED
    BY <2>1 DEF RestoredIsOne
<1> QED
  BY <1>2, <1>4, <1>5, <1>6 DEF BackupsAreWhole

LEMMA BackupInvariant == BackupSpec => []BackupInv
<1>1. BackupInit => BackupInv
  BY BackupAssumption, BackupStarts
<1>2. BackupInv /\ [BackupNext]_backupVars => BackupInv'
  BY BackupAssumption, BackupSteps
<1> QED
  BY <1>1, <1>2, PTL DEF BackupSpec

(* However backups, uploads, prunes and restores overlap, fail and die, what *)
(* is there of a directory is whole, the newest that is offered is, and a    *)
(* restore that ends brings one backup back (offsite.ts:31-100).             *)
THEOREM BackupsWhole == BackupSpec => []BackupsAreWhole
<1>1. BackupInv => BackupsAreWhole
  BY BackupAssumption, BackupsFollow
<1> QED
  BY <1>1, BackupInvariant, PTL

(* The types of the directories, the store and the jobs (backup.ts:155-251). *)
THEOREM BackupsTypeOK == BackupSpec => []BackupTypeOK
<1>1. BackupInv => BackupTypeOK
  BY BackupAssumption, BackupsFollow
<1> QED
  BY <1>1, BackupInvariant, PTL

(***************************************************************************)
(* The checkpoints of an agent.                                            *)
(***************************************************************************)
CkptSteps ==
    {"none", "queued", "skipped", "reading", "uploading", "logging", "pruning", "done", "failed"}
Unread == {"none", "queued", "skipped", "reading"}

CkptTyped ==
    /\ ckptMix \in MixOfCheckpoints /\ ckptClock \in Nat
    /\ sandbox \in Nat \ {0} /\ (conv = Gone \/ conv \in SUBSET Turns)
    /\ turnsStarted \in 0..MaxTurns /\ inTurn \in BOOLEAN /\ (inTurn => turnsStarted \in Turns)
    /\ ckptPc \in [Turns -> CkptSteps]
    /\ sandboxOf \in [Turns -> Nat] /\ tarball \in [Turns -> SUBSET Turns]
    /\ files \in [Turns -> Nat] /\ blobs \in [Turns -> Nat]
    /\ remoteRef \in SUBSET Turns
    /\ entries \in Seq(Turns) /\ shipped \in 0..Len(entries)
    /\ sameDisk \in BOOLEAN /\ promised \in SUBSET Turns /\ mixed \in SUBSET Turns

(* How far the checkpoint of a turn is, and what there is of it.             *)
NotBegun(t) == t > turnsStarted \/ (t = turnsStarted /\ inTurn)
StageOf(t) ==
    /\ NotBegun(t) => ckptPc[t] = "none"
    /\ ckptPc[t] \in Unread => files[t] = 0
    /\ ckptPc[t] \in Unread \cup {"uploading"} => blobs[t] = 0 /\ t \notin remoteRef
    /\ ckptPc[t] \in Unread \cup {"uploading", "logging"} => t \notin In(entries)
    /\ ckptPc[t] = "pruning" => t \in In(entries)
Stages == \A t \in Turns : StageOf(t)

(* It is of the sandbox there is while it is under way, and the conversation *)
(* has all the turns of that.                                                *)
InSandbox(t) ==
    /\ sandboxOf[t] <= sandbox
    /\ t \in UnderWay => conv # Gone /\ sandboxOf[t] = sandbox
    /\ conv # Gone /\ sandboxOf[t] = sandbox => t \in conv
Sandboxes == \A t \in Turns : InSandbox(t)

(* A copy that was made is there, or `retain' of its sandbox are.            *)
Peers(copies, t) == {u \in There(copies) : sandboxOf[u] = sandboxOf[t]}
KeptIn(copies, t) == t \in There(copies) \/ Cardinality(Peers(copies, t)) >= Retain
FilesKept ==
    sameDisk => \A t \in Turns : t \in In(entries) \/ ckptPc[t] \in {"uploading", "logging"}
                                    => KeptIn(files, t)
BlobsKept == \A t \in remoteRef : KeptIn(blobs, t)

(* A checkpoint that met no other and no turn is later than those before it, *)
(* its tarball has all the turns of its sandbox up to its own, and until it  *)
(* is through its file is there, the newest.                                 *)
Apart == \A t \in Busy : \A u \in Busy \cup In(entries) : u > t => t \in mixed /\ u \in mixed
InOrder ==
    \A i, j \in DOMAIN entries :
       i < j /\ entries[i] \notin mixed /\ entries[j] \notin mixed => entries[i] < entries[j]
HasAll(t) ==
    t \in In(entries) \/ ckptPc[t] \in {"uploading", "logging", "pruning"} =>
       \A u \in Turns : u <= t /\ sandboxOf[u] = sandboxOf[t] => u \in tarball[t]
Whole == \A t \in Turns \ mixed : HasAll(t)
OnTop ==
    sameDisk => \A t \in Busy \ mixed : ckptPc[t] # "reading" =>
                   t \in There(files) /\ \A u \in Turns : files[u] <= files[t]
LastIsThere ==
    sameDisk /\ Named(entries) \cap mixed = {} =>
        \A m \in Named(entries) : (\A u \in Named(entries) : u <= m) => m \in There(files)

(* What was promised is what the ledger names.                               *)
WasNamed ==
    conv = Gone =>
        \/ promised = Named(entries)
        \/ ~sameDisk /\ promised = Named(entries) \cap remoteRef /\ There(files) = {}

CkptInv ==
    /\ CkptTyped /\ Stages /\ Sandboxes /\ FilesKept /\ BlobsKept
    /\ Apart /\ InOrder /\ Whole /\ OnTop /\ LastIsThere /\ WasNamed

-----------------------------------------------------------------------------
LEMMA TurnsAreFinite ==
    ASSUME NEW T \in SUBSET Turns PROVE IsFiniteSet(T) /\ Cardinality(T) \in Nat
<1>1. IsFiniteSet(1 .. MaxTurns)
  BY CheckpointAssumption, FS_Interval DEF CheckpointConstants
<1> QED
  BY <1>1, FS_Subset, FS_CardinalityType DEF Turns

(* The copy that is made last is the newest.                                 *)
LEMMA NewestIs ==
    ASSUME NEW copies \in [Turns -> Nat]
    PROVE  Newest(copies) \in Nat /\ \A t \in Turns : copies[t] <= Newest(copies)
<1>1. PICK T : T = {0} \cup {copies[t] : t \in Turns}
  OBVIOUS
<1>2. PICK x \in T : \A y \in T : y <= x
  <2>1. CASE Turns = {}
    BY <1>1, <2>1
  <2>2. CASE Turns # {}
    <3>1. PICK t \in Turns : \A u \in Turns : copies[u] <= copies[t]
      BY <2>2, Topmost, TurnsAreFinite
    <3>2. copies[t] \in Nat /\ copies[t] \in T
      BY <1>1
    <3>3. \A y \in T : y <= copies[t]
      BY <1>1, <3>1, <3>2
    <3> QED
      BY <3>2, <3>3
  <2> QED
    BY <2>1, <2>2
<1>3. x \in Nat /\ \A y \in T : y \in Nat /\ x >= y
  <2>1. \A y \in T : y \in Nat
    BY <1>1
  <2> QED
    BY <1>2, <2>1
<1>4. \E z \in T : \A y \in T : z >= y
  BY <1>3
<1>5. Max(T) \in T /\ \A y \in T : Max(T) >= y
  BY <1>4 DEF Max
<1>6. \A y \in T : y <= Max(T)
  BY <1>3, <1>5
<1>7. Newest(copies) = Max(T)
  BY <1>1 DEF Newest
<1> QED
  BY <1>1, <1>3, <1>5, <1>6, <1>7

LEMMA WithIs ==
    ASSUME NEW copies \in [Turns -> Nat], NEW t \in Turns
    PROVE  /\ With(copies, t) \in [Turns -> Nat]
           /\ \A u \in Turns \ {t} : With(copies, t)[u] = copies[u]
           /\ \A u \in Turns : With(copies, t)[u] <= With(copies, t)[t]
           /\ There(With(copies, t)) = There(copies) \cup {t}
<1>1. PICK n \in Nat : n = Newest(copies) /\ \A u \in Turns : copies[u] <= n
  BY NewestIs
<1>2. PICK after : after = [copies EXCEPT ![t] = n + 1]
  OBVIOUS
<1>3. With(copies, t) = after
  BY <1>1, <1>2 DEF With
<1>4. after \in [Turns -> Nat] /\ after[t] = n + 1 /\ \A u \in Turns \ {t} : after[u] = copies[u]
  BY <1>2
<1>5. \A u \in Turns : after[u] <= after[t]
  <2>1. ASSUME NEW u \in Turns PROVE after[u] <= after[t]
    <3>1. CASE u = t
      BY <1>4, <3>1
    <3>2. CASE u # t
      <4>1. after[u] = copies[u] /\ copies[u] <= n /\ copies[u] \in Nat
        BY <1>1, <1>4, <3>2
      <4> QED
        BY <1>4, <4>1
    <3> QED
      BY <3>1, <3>2
  <2> QED
    BY <2>1
<1>6. There(after) = There(copies) \cup {t}
  <2>1. after[t] > 0
    BY <1>4
  <2> QED
    BY <1>4, <2>1 DEF There
<1> QED
  BY <1>3, <1>4, <1>5, <1>6

LEMMA WithoutIs ==
    ASSUME NEW copies \in [Turns -> Nat], NEW gone
    PROVE  /\ Without(copies, gone) \in [Turns -> Nat]
           /\ \A u \in Turns : Without(copies, gone)[u] = IF u \in gone THEN 0 ELSE copies[u]
           /\ There(Without(copies, gone)) = There(copies) \ gone
  BY DEF Without, There

(* A copy more takes none away; and what is pruned leaves `retain'.          *)
LEMMA WithKeeps ==
    ASSUME NEW copies \in [Turns -> Nat], NEW t \in Turns, NEW u \in Turns,
           KeptIn(copies, u) \/ u = t
    PROVE  KeptIn(With(copies, t), u)
<1>1. PICK after \in [Turns -> Nat] : after = With(copies, t) /\ There(after) = There(copies) \cup {t}
  BY WithIs
<1>2. CASE u \in There(copies) \/ u = t
  BY <1>1, <1>2 DEF KeptIn
<1>3. CASE Cardinality(Peers(copies, u)) >= Retain
  <2>1. Peers(copies, u) \in SUBSET Peers(after, u) /\ Peers(after, u) \in SUBSET Turns
    BY <1>1 DEF Peers, There
  <2>2. PICK A, B : A = Peers(copies, u) /\ B = Peers(after, u)
    OBVIOUS
  <2>3. Cardinality(A) \in Nat /\ Cardinality(B) \in Nat /\ Cardinality(A) <= Cardinality(B)
    BY <2>1, <2>2, TurnsAreFinite, FS_Subset
  <2>4. Retain \in Nat
    BY CheckpointAssumption DEF CheckpointConstants
  <2>5. Cardinality(B) >= Retain
    BY <1>3, <2>2, <2>3, <2>4
  <2> QED
    BY <1>1, <2>2, <2>5 DEF KeptIn
<1> QED
  BY <1>2, <1>3 DEF KeptIn

LEMMA PruneKeeps ==
    ASSUME NEW copies \in [Turns -> Nat], NEW g, NEW gone \in SUBSET BeyondRetention(copies, g),
           NEW u \in Turns, KeptIn(copies, u)
    PROVE  KeptIn(Without(copies, gone), u)
<1>1. PICK after \in [Turns -> Nat] : /\ after = Without(copies, gone)
                                      /\ There(after) = There(copies) \ gone
  BY WithoutIs
<1>2. gone \in SUBSET Turns /\ \A t \in gone : sandboxOf[t] = g
  BY DEF BeyondRetention, There
<1>3. CASE gone = {} \/ sandboxOf[u] # g
  <2>1. u \in There(copies) => u \in There(after)
    BY <1>1, <1>2, <1>3
  <2>2. Peers(after, u) = Peers(copies, u)
    BY <1>1, <1>2, <1>3 DEF Peers
  <2> QED
    BY <1>1, <2>1, <2>2 DEF KeptIn
<1>4. CASE gone # {} /\ sandboxOf[u] = g
  <2>1. PICK f \in [gone -> Nat] : f = [t \in gone |-> copies[t]]
    BY <1>2
  <2>2. PICK x \in gone : \A y \in gone : f[y] <= f[x]
    BY <1>2, <1>4, Topmost, TurnsAreFinite
  <2>3. \A y \in gone : copies[y] <= copies[x]
    BY <2>1, <2>2
  <2>4. x \in There(copies) /\ sandboxOf[x] = g /\ Cardinality(Newer(copies, x)) >= Retain
    BY DEF BeyondRetention
  <2>5. PICK A, B : A = Newer(copies, x) /\ B = Peers(after, u)
    OBVIOUS
  <2>6. \A y \in A : y \in Turns /\ y \in There(copies) /\ sandboxOf[y] = g /\ y \notin gone
    <3>1. ASSUME NEW y \in A PROVE y \in There(copies) /\ y \in Turns /\ sandboxOf[y] = g /\ copies[y] > copies[x]
      BY <2>4, <2>5 DEF Newer, There
    <3>2. ASSUME NEW y \in A, y \in gone PROVE FALSE
      <4>1. copies[y] <= copies[x] /\ copies[y] > copies[x] /\ copies[x] \in Nat /\ copies[y] \in Nat
        BY <1>2, <2>3, <3>1, <3>2
      <4> QED
        BY <4>1
    <3> QED
      BY <3>1, <3>2
  <2>7. A \in SUBSET B /\ B \in SUBSET Turns
    BY <1>1, <1>4, <2>5, <2>6 DEF Peers, There
  <2>8. Cardinality(A) \in Nat /\ Cardinality(B) \in Nat /\ Cardinality(A) <= Cardinality(B)
    BY <2>7, TurnsAreFinite, FS_Subset
  <2>9. Retain \in Nat
    BY CheckpointAssumption DEF CheckpointConstants
  <2>10. Cardinality(B) >= Retain
    BY <2>4, <2>5, <2>8, <2>9
  <2> QED
    BY <1>1, <2>5, <2>10 DEF KeptIn
<1> QED
  BY <1>3, <1>4

(* The newest of all is not pruned.                                          *)
LEMMA NewestStays ==
    ASSUME NEW copies \in [Turns -> Nat], NEW t \in There(copies), NEW g,
           \A u \in Turns : copies[u] <= copies[t]
    PROVE  t \notin BeyondRetention(copies, g)
<1>1. Newer(copies, t) = {}
  <2>1. ASSUME NEW u \in Newer(copies, t) PROVE FALSE
    <3>1. u \in Turns /\ t \in Turns /\ copies[u] > copies[t]
      BY DEF Newer, There
    <3>2. copies[u] \in Nat /\ copies[t] \in Nat /\ copies[u] <= copies[t]
      BY <3>1
    <3> QED
      BY <3>1, <3>2
  <2> QED
    BY <2>1
<1>2. Cardinality(Newer(copies, t)) = 0
  BY <1>1, FS_EmptySet
<1>3. Retain \in Nat \ {0}
  BY CheckpointAssumption DEF CheckpointConstants
<1>4. ~(Cardinality(Newer(copies, t)) >= Retain)
  BY <1>2, <1>3
<1> QED
  BY <1>4 DEF BeyondRetention

LEMMA InIs ==
    ASSUME NEW s \in Seq(Turns)
    PROVE  /\ In(s) \in SUBSET Turns
           /\ \A t \in Turns : Append(s, t) \in Seq(Turns) /\ In(Append(s, t)) = In(s) \cup {t}
           /\ \A n \in 0 .. Len(s) : /\ SubSeq(s, 1, n) \in Seq(Turns) /\ Len(SubSeq(s, 1, n)) = n
                                     /\ \A i \in 1 .. n : SubSeq(s, 1, n)[i] = s[i]
                                     /\ In(SubSeq(s, 1, n)) \in SUBSET In(s)
<1>1. DOMAIN s = 1 .. Len(s) /\ Len(s) \in Nat /\ \A i \in DOMAIN s : s[i] \in Turns
  OBVIOUS
<1>2. In(s) \in SUBSET Turns
  BY <1>1 DEF In
<1>3. ASSUME NEW t \in Turns
      PROVE  Append(s, t) \in Seq(Turns) /\ In(Append(s, t)) = In(s) \cup {t}
  <2>0. Append(s, t) \in Seq(Turns)
    BY AppendProperties
  <2>1. PICK r \in Seq(Turns) : r = Append(s, t)
    BY <2>0
  <2>2. /\ DOMAIN r = 1 .. Len(s) + 1 /\ r[Len(s) + 1] = t
        /\ \A i \in 1 .. Len(s) : r[i] = s[i]
    BY <2>1, AppendProperties
  <2>3. ASSUME NEW u \in In(r) PROVE u \in In(s) \cup {t}
    BY <1>1, <2>2, <2>3 DEF In
  <2>4. ASSUME NEW u \in In(s) PROVE u \in In(r)
    BY <1>1, <2>2, <2>4 DEF In
  <2>5. t \in In(r)
    BY <1>1, <2>2 DEF In
  <2> QED
    BY <2>1, <2>3, <2>4, <2>5
<1>4. ASSUME NEW n \in 0 .. Len(s)
      PROVE  /\ SubSeq(s, 1, n) \in Seq(Turns) /\ Len(SubSeq(s, 1, n)) = n
             /\ \A i \in 1 .. n : SubSeq(s, 1, n)[i] = s[i]
             /\ In(SubSeq(s, 1, n)) \in SUBSET In(s)
  <2>1. PICK r : r = SubSeq(s, 1, n)
    OBVIOUS
  <2>2. r = [i \in 1 .. n |-> s[i]]
    BY <1>1, <2>1
  <2>3. r \in [1 .. n -> Turns] /\ n \in Nat
    BY <1>1, <2>2
  <2>4. r \in Seq(Turns) /\ Len(r) = n /\ DOMAIN r = 1 .. n
    BY <2>3
  <2>5. In(r) \in SUBSET In(s)
    BY <1>1, <2>2, <2>4 DEF In
  <2> QED
    BY <2>1, <2>2, <2>4, <2>5
<1> QED
  BY <1>2, <1>3, <1>4

(* One that met no other is alone, and the last.                             *)
LEMMA AloneIs ==
    ASSUME CkptInv, NEW t \in Busy, t \notin mixed
    PROVE  Busy = {t} /\ \A u \in In(entries) : u <= t
<1>1. Busy \in SUBSET Turns /\ In(entries) \in SUBSET Turns /\ Turns \in SUBSET Nat
  BY InIs DEF Busy, CkptInv, CkptTyped, Turns
<1>2. ASSUME NEW u \in Busy, u # t PROVE FALSE
  <2>1. u > t \/ t > u
    BY <1>1, <1>2
  <2> QED
    BY <2>1 DEF CkptInv, Apart
<1>3. ASSUME NEW u \in In(entries), ~(u <= t) PROVE FALSE
  <2>1. u > t
    <3>1. u \in Nat /\ t \in Nat
      BY <1>1, <1>3
    <3> QED
      BY <1>3, <3>1
  <2> QED
    BY <2>1 DEF CkptInv, Apart
<1> QED
  BY <1>2, <1>3

(* What is under way, or was, is of a turn that is over.                     *)
LEMMA BegunIs ==
    ASSUME CkptInv, NEW t \in Turns, ckptPc[t] # "none" \/ t \in In(entries)
    PROVE  t <= turnsStarted /\ ~(t = turnsStarted /\ inTurn) /\ ckptPc[t] # "none"
<1>1. ckptPc[t] # "none"
  BY DEF CkptInv, Stages, StageOf, Unread
<1>2. ~NotBegun(t)
  BY <1>1 DEF CkptInv, Stages, StageOf
<1>3. t \in Nat /\ turnsStarted \in Nat
  BY DEF CkptInv, CkptTyped, Turns
<1> QED
  BY <1>1, <1>2, <1>3 DEF NotBegun

LEMMA UnderWayIs ==
    ASSUME CkptInv, NEW t \in UnderWay
    PROVE  /\ t \in Turns /\ conv # Gone /\ conv \in SUBSET Turns /\ sandboxOf[t] = sandbox
           /\ ckptPc[t] # "none"
  BY DEF CkptInv, CkptTyped, Sandboxes, InSandbox, UnderWay

-----------------------------------------------------------------------------
(* Steps that make or remove no copy; and that begin and log no checkpoint.  *)
LEMMA QuietCopies ==
    ASSUME CkptInv, UNCHANGED <<sandboxOf, files, blobs, remoteRef, entries, sameDisk>>,
           \A t \in Turns : ckptPc'[t] \in {"uploading", "logging"} =>
                               ckptPc[t] \in {"uploading", "logging"}
    PROVE  FilesKept' /\ BlobsKept'
<1>1. \A t : (KeptIn(files, t)' <=> KeptIn(files, t)) /\ (KeptIn(blobs, t)' <=> KeptIn(blobs, t))
  BY DEF KeptIn, Peers, There
<1>2. FilesKept'
  BY <1>1 DEF CkptInv, FilesKept
<1>3. BlobsKept'
  BY <1>1 DEF CkptInv, BlobsKept
<1> QED
  BY <1>2, <1>3

LEMMA QuietOrder ==
    ASSUME CkptInv, UNCHANGED <<entries, sandboxOf, sandbox, tarball, files, sameDisk>>,
           mixed \subseteq mixed', \A t \in Busy' : t \in Busy /\ ckptPc'[t] = ckptPc[t],
           \A t \in Turns : ckptPc'[t] \in {"uploading", "logging", "pruning"} =>
                               ckptPc'[t] = ckptPc[t]
    PROVE  Apart' /\ InOrder' /\ Whole' /\ OnTop' /\ LastIsThere'
<1>1. In(entries)' = In(entries) /\ There(files)' = There(files)
  BY DEF In, There
<1>2. Named(entries)' = Named(entries)
  BY <1>1 DEF Named
<1>3. Apart'
  BY <1>1 DEF CkptInv, Apart
<1>4. InOrder'
  BY DEF CkptInv, InOrder
<1>5. Whole'
  BY <1>1 DEF CkptInv, Whole, HasAll
<1>6. OnTop'
  BY <1>1 DEF CkptInv, OnTop
<1>7. LastIsThere'
  <2>1. ASSUME sameDisk', Named(entries)' \cap mixed' = {}, NEW m \in Named(entries)',
               \A u \in Named(entries)' : u <= m
        PROVE  m \in There(files)'
    <3>1. sameDisk /\ Named(entries) \cap mixed = {}
      BY <1>2, <2>1
    <3> QED
      BY <1>1, <1>2, <2>1, <3>1 DEF CkptInv, LastIsThere
  <2> QED
    BY <2>1 DEF LastIsThere
<1> QED
  BY <1>3, <1>4, <1>5, <1>6, <1>7

LEMMA CkptFaultKeeps ==
    ASSUME CkptInv, NEW f \in {"unclean", "upload", "emit", "prune", "crash", "reboot", "disk"},
           CkptFault(f)
    PROVE  ckptMix' \in MixOfCheckpoints
<1>1. ckptMix \in MixOfCheckpoints /\ ckptMix.faults[f] > 0
      /\ ckptMix' = [ckptMix EXCEPT !.faults[f] = @ - 1]
  BY DEF CkptInv, CkptTyped, CkptFault
<1>2. PICK rest : rest = [ckptMix.faults EXCEPT ![f] = @ - 1]
  OBVIOUS
<1>3. rest \in [{"unclean", "upload", "emit", "prune", "crash", "reboot", "disk"} -> Nat]
  BY <1>1, <1>2 DEF MixOfCheckpoints
<1>4. ckptMix' = [ckptMix EXCEPT !.faults = rest]
  BY <1>1, <1>2 DEF MixOfCheckpoints
<1> QED
  BY <1>1, <1>3, <1>4 DEF MixOfCheckpoints

LEMMA TurnStartsKeeps == ASSUME CkptInv, TurnStarts PROVE CkptInv'
<1>1. /\ conv # Gone /\ turnsStarted' = turnsStarted + 1 /\ inTurn' = TRUE /\ ~inTurn
      /\ mixed' = mixed \cup {t \in Turns : ckptPc[t] = "reading"}
      /\ UNCHANGED <<ckptMix, ckptClock, sandbox, conv, ckptPc, sandboxOf, tarball, files, blobs, remoteRef,
                     entries, shipped, sameDisk, promised>>
  BY DEF TurnStarts, copyVars, entryVars
<1>2. CkptTyped'
  <2>1. turnsStarted' \in 0 .. MaxTurns /\ turnsStarted' \in Turns
    <3>1. turnsStarted < MaxTurns
      <4>1. ckptMix.turns \in 0 .. MaxTurns /\ turnsStarted \in Nat /\ MaxTurns \in Nat
        BY CheckpointAssumption DEF CkptInv, CkptTyped, MixOfCheckpoints, CheckpointConstants
      <4>2. turnsStarted < ckptMix.turns
        BY DEF TurnStarts
      <4> QED
        BY <4>1, <4>2
    <3> QED
      BY <1>1, <3>1, CheckpointAssumption DEF CkptInv, CkptTyped, Turns, CheckpointConstants
  <2> QED
    BY <1>1, <2>1 DEF CkptInv, CkptTyped
<1>3. Stages'
  <2>1. In(entries)' = In(entries)
    BY <1>1 DEF In
  <2>2. ASSUME NEW t \in Turns, NotBegun(t)' PROVE ckptPc'[t] = "none"
    <3>1. NotBegun(t)
      BY <1>1, <2>2 DEF NotBegun, CkptInv, CkptTyped, Turns
    <3> QED
      BY <1>1, <3>1 DEF CkptInv, Stages, StageOf
  <2> QED
    BY <1>1, <2>1, <2>2 DEF CkptInv, Stages, StageOf
<1>4. Sandboxes'
  BY <1>1 DEF CkptInv, Sandboxes, InSandbox, UnderWay
<1>5. FilesKept' /\ BlobsKept'
  BY <1>1, QuietCopies
<1>6. Apart' /\ InOrder' /\ Whole' /\ OnTop' /\ LastIsThere'
  <2>1. Busy' = Busy
    BY <1>1 DEF Busy
  <2> QED
    BY <1>1, <2>1, QuietOrder
<1>7. WasNamed'
  BY <1>1 DEF WasNamed
<1> QED
  BY <1>2, <1>3, <1>4, <1>5, <1>6, <1>7 DEF CkptInv

LEMMA TurnOverKeeps == ASSUME CkptInv, TurnOver PROVE CkptInv'
<1>1. PICK n : n = turnsStarted
  OBVIOUS
<1>2. /\ conv # Gone /\ inTurn /\ inTurn' = FALSE /\ conv' = conv \cup {n}
      /\ ckptPc' \in {ckptPc, [ckptPc EXCEPT ![n] = "queued"]}
      /\ sandboxOf' = [sandboxOf EXCEPT ![n] = sandbox]
      /\ UNCHANGED <<ckptClock, sandbox, turnsStarted, tarball, files, blobs, remoteRef,
                     entries, shipped, sameDisk, promised, mixed>>
  BY <1>1 DEF TurnOver, CkptGoto, copyVars, entryVars, historyVars
<1>3. n \in Turns /\ n \in Nat /\ NotBegun(n) /\ conv \in SUBSET Turns
  BY <1>1, <1>2 DEF CkptInv, CkptTyped, NotBegun, Turns
<1>4. ckptPc[n] = "none" /\ files[n] = 0 /\ blobs[n] = 0 /\ n \notin remoteRef /\ n \notin In(entries)
  BY <1>3 DEF CkptInv, Stages, StageOf, Unread
<1>5. /\ ckptPc' \in [Turns -> CkptSteps] /\ ckptPc'[n] \in {"none", "queued"}
      /\ \A t \in Turns \ {n} : ckptPc'[t] = ckptPc[t]
      /\ sandboxOf' \in [Turns -> Nat] /\ sandboxOf'[n] = sandbox
      /\ \A t \in Turns \ {n} : sandboxOf'[t] = sandboxOf[t]
  BY <1>2, <1>3, <1>4 DEF CkptInv, CkptTyped, CkptSteps
<1>6. conv' \in SUBSET Turns /\ conv' # Gone
  BY <1>2, <1>3, CheckpointAssumption DEF CheckpointConstants
<1>7. CkptTyped'
  <2>1. ckptMix' \in MixOfCheckpoints
    BY CkptFaultKeeps DEF TurnOver, CkptInv, CkptTyped
  <2> QED
    BY <1>2, <1>5, <1>6, <2>1 DEF CkptInv, CkptTyped
<1>8. In(entries)' = In(entries) /\ There(files)' = There(files) /\ There(blobs)' = There(blobs)
  BY <1>2 DEF In, There
<1>9. Stages'
  <2>1. ASSUME NEW t \in Turns, NotBegun(t)' PROVE ckptPc'[t] = "none"
    <3>1. NotBegun(t) /\ t # n
      BY <1>1, <1>2, <1>3, <2>1 DEF NotBegun, Turns
    <3> QED
      BY <1>5, <3>1 DEF CkptInv, Stages, StageOf
  <2>2. ASSUME NEW t \in Turns PROVE StageOf(t)'
    <3>1. CASE t = n
      BY <1>2, <1>4, <1>5, <1>8, <2>1, <3>1 DEF StageOf
    <3>2. CASE t # n
      BY <1>2, <1>5, <1>8, <2>1, <3>2 DEF CkptInv, Stages, StageOf
    <3> QED
      BY <3>1, <3>2
  <2> QED
    BY <2>2 DEF Stages
<1>10. Sandboxes'
  <2>1. ASSUME NEW t \in Turns PROVE InSandbox(t)'
    <3>1. CASE t = n
      BY <1>2, <1>5, <1>6, <3>1 DEF CkptInv, CkptTyped, InSandbox
    <3>2. CASE t # n
      BY <1>2, <1>5, <1>6, <3>2 DEF CkptInv, Sandboxes, InSandbox, UnderWay
    <3> QED
      BY <3>1, <3>2
  <2> QED
    BY <2>1 DEF Sandboxes
<1>11. \A t \in Turns \ {n} : /\ KeptIn(files, t)' <=> KeptIn(files, t)
                              /\ KeptIn(blobs, t)' <=> KeptIn(blobs, t)
  <2>1. n \notin There(files) /\ n \notin There(blobs)
    BY <1>4 DEF There
  <2>2. ASSUME NEW t \in Turns \ {n}
        PROVE  Peers(files, t)' = Peers(files, t) /\ Peers(blobs, t)' = Peers(blobs, t)
    <3>1. \A u \in There(files) \cup There(blobs) : sandboxOf'[u] = sandboxOf[u]
      BY <1>5, <2>1 DEF There
    <3> QED
      BY <1>5, <1>8, <3>1 DEF Peers
  <2> QED
    BY <1>8, <2>2 DEF KeptIn
<1>12. FilesKept'
  BY <1>2, <1>4, <1>5, <1>8, <1>11 DEF CkptInv, FilesKept
<1>13. BlobsKept'
  BY <1>2, <1>4, <1>11 DEF CkptInv, CkptTyped, BlobsKept
<1>14. Busy' = Busy /\ \A t \in Busy : ckptPc'[t] = ckptPc[t]
  <2>1. ASSUME NEW t \in Turns PROVE (t \in Busy' <=> t \in Busy) /\ (t \in Busy => ckptPc'[t] = ckptPc[t])
    <3>1. CASE t = n
      BY <1>4, <1>5, <3>1 DEF Busy
    <3>2. CASE t # n
      BY <1>5, <3>2 DEF Busy
    <3> QED
      BY <3>1, <3>2
  <2>2. Busy' \in SUBSET Turns /\ Busy \in SUBSET Turns
    BY DEF Busy
  <2> QED
    BY <2>1, <2>2
<1>15. Apart' /\ InOrder'
  BY <1>2, <1>8, <1>14 DEF CkptInv, Apart, InOrder
<1>16. Whole'
  <2>1. ASSUME NEW t \in Turns \ mixed, t \in In(entries) \/ ckptPc'[t] \in {"uploading", "logging", "pruning"},
               NEW u \in Turns, u <= t, sandboxOf'[u] = sandboxOf'[t]
        PROVE  u \in tarball[t]
    <3>1. t # n
      BY <1>4, <1>5, <2>1
    <3>2. ckptPc'[t] = ckptPc[t] /\ sandboxOf'[t] = sandboxOf[t]
      BY <1>5, <3>1
    <3>3. t <= n
      BY <1>1, <2>1, <3>2, BegunIs
    <3>4. u # n
      BY <1>3, <2>1, <3>1, <3>3 DEF Turns
    <3> QED
      BY <1>5, <2>1, <3>2, <3>4 DEF CkptInv, Whole, HasAll
  <2> QED
    BY <1>2, <1>8, <2>1 DEF Whole, HasAll
<1>17. OnTop'
  BY <1>2, <1>8, <1>14 DEF CkptInv, OnTop
<1>18. LastIsThere'
  <2>1. \A t \in In(entries) : sandboxOf'[t] = sandboxOf[t]
    BY <1>4, <1>5, InIs DEF CkptInv, CkptTyped
  <2>2. Named(entries)' = Named(entries)
    BY <1>2, <1>8, <2>1 DEF Named
  <2> QED
    BY <1>2, <1>8, <2>2 DEF CkptInv, LastIsThere
<1>19. WasNamed'
  BY <1>6 DEF WasNamed
<1> QED
  BY <1>7, <1>9, <1>10, <1>12, <1>13, <1>15, <1>16, <1>17, <1>18, <1>19 DEF CkptInv

LEMMA AcquireKeeps == ASSUME CkptInv, NEW t \in Turns, Acquire(t) PROVE CkptInv'
<1>1. /\ ckptPc[t] = "queued" /\ mixed \subseteq mixed' /\ mixed' \subseteq mixed \cup Busy \cup {t}
      /\ \/ ckptPc' = [ckptPc EXCEPT ![t] = "skipped"]
         \/ /\ ckptPc' = [ckptPc EXCEPT ![t] = "reading"] /\ turnsStarted = t
            /\ Busy # {} => mixed' = mixed \cup Busy \cup {t}
      /\ UNCHANGED <<ckptMix, ckptClock, sandbox, conv, turnsStarted, inTurn, sandboxOf, tarball,
                     files, blobs, remoteRef, entries, shipped, sameDisk, promised>>
  BY DEF Acquire, CkptGoto, agentVars, copyVars, entryVars
<1>2. t \notin Busy /\ t \in UnderWay /\ Busy \in SUBSET Turns
  BY <1>1 DEF Busy, UnderWay
<1>3. /\ ckptPc' \in [Turns -> CkptSteps] /\ ckptPc'[t] \in {"skipped", "reading"}
      /\ \A u \in Turns \ {t} : ckptPc'[u] = ckptPc[u]
  BY <1>1 DEF CkptInv, CkptTyped, CkptSteps
<1>4. CkptTyped'
  <2>1. mixed' \in SUBSET Turns
    BY <1>1, <1>2 DEF CkptInv, CkptTyped
  <2> QED
    BY <1>1, <1>3, <2>1 DEF CkptInv, CkptTyped
<1>5. In(entries)' = In(entries) /\ There(files)' = There(files)
  BY <1>1 DEF In, There
<1>6. Stages'
  <2>1. ~NotBegun(t)
    BY <1>1 DEF CkptInv, Stages, StageOf
  <2>2. ASSUME NEW u \in Turns PROVE StageOf(u)'
    <3>1. CASE u = t
      <4>1. files[t] = 0 /\ blobs[t] = 0 /\ t \notin remoteRef /\ t \notin In(entries)
        BY <1>1 DEF CkptInv, Stages, StageOf, Unread
      <4>2. ~NotBegun(t)'
        BY <1>1, <2>1 DEF NotBegun
      <4> QED
        BY <1>1, <1>3, <1>5, <3>1, <4>1, <4>2 DEF StageOf
    <3>2. CASE u # t
      <4>1. NotBegun(u)' <=> NotBegun(u)
        BY <1>1 DEF NotBegun
      <4> QED
        BY <1>1, <1>3, <1>5, <3>2, <4>1 DEF CkptInv, Stages, StageOf
    <3> QED
      BY <3>1, <3>2
  <2> QED
    BY <2>2 DEF Stages
<1>7. Sandboxes'
  <2>1. \A u \in Turns : u \in UnderWay' => u \in UnderWay
    BY <1>2, <1>3 DEF UnderWay
  <2> QED
    BY <1>1, <2>1 DEF CkptInv, Sandboxes, InSandbox
<1>8. FilesKept' /\ BlobsKept'
  <2>1. \A u \in Turns : ckptPc'[u] \in {"uploading", "logging"} => ckptPc[u] \in {"uploading", "logging"}
    BY <1>3
  <2> QED
    BY <1>1, <2>1, QuietCopies
<1>9. Busy' \subseteq Busy \cup {t} /\ \A u \in Busy' : u # t => ckptPc'[u] = ckptPc[u]
  BY <1>3 DEF Busy
<1>10. Apart'
  <2>1. ASSUME NEW a \in Busy', NEW b \in Busy' \cup In(entries), b > a
        PROVE  a \in mixed' /\ b \in mixed'
    <3>1. CASE a \in Busy /\ b \in Busy \cup In(entries)
      BY <1>1, <2>1, <3>1 DEF CkptInv, Apart
    <3>2. CASE a = t /\ t \in Busy' /\ b \in In(entries)
      <4>1. b \in Turns /\ b <= turnsStarted
        BY <3>2, BegunIs, InIs DEF CkptInv, CkptTyped
      <4>2. turnsStarted = t
        BY <1>1, <1>3, <3>2 DEF Busy, CkptInv, CkptTyped
      <4> QED
        BY <2>1, <3>2, <4>1, <4>2 DEF Turns
    <3>3. CASE t \in Busy' /\ ((a = t /\ b \in Busy) \/ (b = t /\ a \in Busy))
      <4>1. mixed' = mixed \cup Busy \cup {t}
        BY <1>1, <1>3, <3>3 DEF Busy, CkptInv, CkptTyped
      <4> QED
        BY <3>3, <4>1
    <3>4. CASE a = t /\ b = t
      BY <2>1, <3>4 DEF Turns
    <3> QED
      BY <1>9, <2>1, <3>1, <3>2, <3>3, <3>4
  <2> QED
    BY <1>5, <2>1 DEF Apart
<1>11. InOrder'
  BY <1>1 DEF CkptInv, InOrder
<1>12. Whole'
  <2>1. \A u \in Turns : ckptPc'[u] \in {"uploading", "logging", "pruning"} => ckptPc'[u] = ckptPc[u]
    BY <1>3
  <2> QED
    BY <1>1, <1>5, <2>1 DEF CkptInv, Whole, HasAll
<1>13. OnTop'
  <2>1. ASSUME NEW u \in Busy' \ mixed', ckptPc'[u] # "reading"
        PROVE  u \in Busy \ mixed /\ ckptPc[u] # "reading"
    <3>1. u # t
      BY <1>3, <2>1 DEF Busy
    <3> QED
      BY <1>1, <1>9, <2>1, <3>1
  <2> QED
    BY <1>1, <1>5, <2>1 DEF CkptInv, OnTop
<1>14. LastIsThere'
  <2>1. Named(entries)' = Named(entries)
    BY <1>1, <1>5 DEF Named
  <2>2. ASSUME sameDisk', Named(entries)' \cap mixed' = {}, NEW m \in Named(entries)',
               \A u \in Named(entries)' : u <= m
        PROVE  m \in There(files)'
    <3>1. sameDisk /\ Named(entries) \cap mixed = {}
      BY <1>1, <2>1, <2>2
    <3> QED
      BY <1>5, <2>1, <2>2, <3>1 DEF CkptInv, LastIsThere
  <2> QED
    BY <2>2 DEF LastIsThere
<1>15. WasNamed'
  <2>1. conv # Gone
    BY <1>2, UnderWayIs
  <2> QED
    BY <1>1, <2>1 DEF WasNamed
<1> QED
  BY <1>4, <1>6, <1>7, <1>8, <1>10, <1>11, <1>12, <1>13, <1>14, <1>15 DEF CkptInv

(* Steps of a checkpoint that is under way: what becomes of the others.      *)
LEMMA GoesTo ==
    ASSUME CkptInv, NEW t \in UnderWay, NEW where \in CkptSteps \ {"none", "queued"}, CkptGoto(t, where),
           UNCHANGED <<sandbox, conv, turnsStarted, inTurn, sandboxOf, sameDisk, promised, mixed>>
    PROVE  /\ ckptPc' \in [Turns -> CkptSteps] /\ ckptPc'[t] = where
           /\ \A u \in Turns \ {t} : ckptPc'[u] = ckptPc[u]
           /\ \A u \in Turns : NotBegun(u)' => u # t /\ NotBegun(u)
           /\ Sandboxes' /\ WasNamed'
           /\ \A u : /\ KeptIn(files, u)' <=> KeptIn(files', u)
                     /\ KeptIn(blobs, u)' <=> KeptIn(blobs', u)
<1>1. t \in Turns /\ conv # Gone /\ ckptPc[t] # "none"
  BY UnderWayIs
<1>2. /\ ckptPc' \in [Turns -> CkptSteps] /\ ckptPc'[t] = where
      /\ \A u \in Turns \ {t} : ckptPc'[u] = ckptPc[u]
  BY <1>1 DEF CkptGoto, CkptInv, CkptTyped
<1>3. ~NotBegun(t) /\ \A u : NotBegun(u)' <=> NotBegun(u)
  BY <1>1 DEF NotBegun, CkptInv, Stages, StageOf
<1>4. Sandboxes'
  <2>1. \A u \in Turns : u \in UnderWay' => u \in UnderWay
    BY <1>2 DEF UnderWay
  <2> QED
    BY <2>1 DEF CkptInv, Sandboxes, InSandbox
<1>5. WasNamed'
  BY <1>1 DEF WasNamed
<1>6. \A u : /\ KeptIn(files, u)' <=> KeptIn(files', u)
             /\ KeptIn(blobs, u)' <=> KeptIn(blobs', u)
  BY DEF KeptIn, Peers, There
<1> QED
  BY <1>2, <1>3, <1>4, <1>5, <1>6

LEMMA ReadKeeps == ASSUME CkptInv, NEW t \in Turns, Read(t) PROVE CkptInv'
<1>1. ckptPc[t] = "reading" /\ t \in UnderWay /\ t \in Busy
  BY DEF Read, UnderWay, Busy
<1>2. conv # Gone /\ conv \in SUBSET Turns /\ sandboxOf[t] = sandbox
  BY <1>1, UnderWayIs
<1>3. PICK where \in {"uploading", "logging"} : CkptGoto(t, where)
  BY <1>2 DEF Read
<1>4. PICK got : /\ got = conv \/ (got = {} /\ t \in mixed)
                 /\ tarball' = [tarball EXCEPT ![t] = got]
  BY <1>2 DEF Read
<1>5. /\ files' = With(files, t)
      /\ UNCHANGED <<ckptMix, ckptClock, sandbox, conv, turnsStarted, inTurn, sandboxOf, blobs,
                     remoteRef, entries, shipped, sameDisk, promised, mixed>>
  BY <1>2 DEF Read, agentVars, entryVars, historyVars
<1>6. where \in CkptSteps \ {"none", "queued"}
  BY DEF CkptSteps
<1>7. /\ ckptPc' \in [Turns -> CkptSteps] /\ ckptPc'[t] = where
      /\ \A u \in Turns \ {t} : ckptPc'[u] = ckptPc[u]
      /\ \A u \in Turns : NotBegun(u)' => u # t /\ NotBegun(u)
      /\ Sandboxes' /\ WasNamed'
      /\ \A u : /\ KeptIn(files, u)' <=> KeptIn(files', u)
                /\ KeptIn(blobs, u)' <=> KeptIn(blobs', u)
  BY <1>1, <1>3, <1>5, <1>6, GoesTo
<1>8. /\ files' \in [Turns -> Nat] /\ \A u \in Turns \ {t} : files'[u] = files[u]
      /\ \A u \in Turns : files'[u] <= files'[t]
      /\ There(files)' = There(files) \cup {t}
  <2>1. /\ With(files, t) \in [Turns -> Nat] /\ \A u \in Turns \ {t} : With(files, t)[u] = files[u]
        /\ \A u \in Turns : With(files, t)[u] <= With(files, t)[t]
        /\ There(With(files, t)) = There(files) \cup {t}
    BY WithIs DEF CkptInv, CkptTyped
  <2>2. There(files)' = There(files')
    BY DEF There
  <2> QED
    BY <1>5, <2>1, <2>2
<1>9. /\ tarball' \in [Turns -> SUBSET Turns] /\ tarball'[t] = got
      /\ \A u \in Turns \ {t} : tarball'[u] = tarball[u]
  BY <1>2, <1>4 DEF CkptInv, CkptTyped
<1>10. CkptTyped'
  BY <1>5, <1>7, <1>8, <1>9 DEF CkptInv, CkptTyped
<1>11. In(entries)' = In(entries)
  BY <1>5 DEF In
<1>12. Stages'
  <2>1. ASSUME NEW u \in Turns PROVE StageOf(u)'
    <3>1. CASE u = t
      <4>1. blobs[t] = 0 /\ t \notin remoteRef /\ t \notin In(entries)
        BY <1>1 DEF CkptInv, Stages, StageOf, Unread
      <4> QED
        BY <1>5, <1>7, <1>11, <3>1, <4>1 DEF StageOf, Unread
    <3>2. CASE u # t
      BY <1>5, <1>7, <1>8, <1>11, <3>2 DEF CkptInv, Stages, StageOf
    <3> QED
      BY <3>1, <3>2
  <2> QED
    BY <2>1 DEF Stages
<1>13. FilesKept'
  <2>1. ASSUME sameDisk, NEW u \in Turns, u \in In(entries) \/ ckptPc'[u] \in {"uploading", "logging"}
        PROVE  KeptIn(files', u)
    <3>1. KeptIn(files, u) \/ u = t
      BY <1>7, <2>1 DEF CkptInv, FilesKept
    <3> QED
      BY <1>5, <3>1, WithKeeps DEF CkptInv, CkptTyped
  <2> QED
    BY <1>5, <1>7, <1>11, <2>1 DEF FilesKept
<1>14. BlobsKept'
  BY <1>5, <1>7 DEF CkptInv, BlobsKept
<1>15. Busy' = Busy
  BY <1>1, <1>7 DEF Busy
<1>16. Apart' /\ InOrder'
  BY <1>5, <1>11, <1>15 DEF CkptInv, Apart, InOrder
<1>17. Whole'
  <2>1. ASSUME NEW u \in Turns \ mixed, u \in In(entries) \/ ckptPc'[u] \in {"uploading", "logging", "pruning"},
               NEW v \in Turns, v <= u, sandboxOf[v] = sandboxOf[u]
        PROVE  v \in tarball'[u]
    <3>1. CASE u = t
      BY <1>2, <1>4, <1>9, <2>1, <3>1 DEF CkptInv, Sandboxes, InSandbox
    <3>2. CASE u # t
      BY <1>7, <1>9, <2>1, <3>2 DEF CkptInv, Whole, HasAll
    <3> QED
      BY <3>1, <3>2
  <2> QED
    BY <1>5, <1>11, <2>1 DEF Whole, HasAll
<1>18. OnTop'
  <2>1. ASSUME NEW u \in Busy \ mixed PROVE u = t
    BY <1>1, <2>1, AloneIs
  <2> QED
    BY <1>5, <1>8, <1>15, <2>1 DEF OnTop
<1>19. LastIsThere'
  <2>1. Named(entries)' = Named(entries)
    BY <1>5, <1>11 DEF Named
  <2> QED
    BY <1>5, <1>8, <2>1 DEF CkptInv, LastIsThere
<1> QED
  BY <1>7, <1>10, <1>12, <1>13, <1>14, <1>16, <1>17, <1>18, <1>19 DEF CkptInv

LEMMA UploadKeeps == ASSUME CkptInv, NEW t \in Turns, Upload(t) PROVE CkptInv'
<1>1. ckptPc[t] = "uploading" /\ t \in UnderWay /\ t \in Busy /\ CkptGoto(t, "logging")
  BY DEF Upload, UnderWay, Busy
<1>2. /\ \/ /\ blobs' = With(blobs, t) /\ remoteRef' = remoteRef \cup {t} /\ ckptMix' = ckptMix
         \/ CkptFault("upload") /\ UNCHANGED <<blobs, remoteRef>>
      /\ UNCHANGED <<ckptClock, sandbox, conv, turnsStarted, inTurn, sandboxOf, tarball, files,
                     entries, shipped, sameDisk, promised, mixed>>
  BY DEF Upload, agentVars, historyVars
<1>3. /\ ckptPc' \in [Turns -> CkptSteps] /\ ckptPc'[t] = "logging"
      /\ \A u \in Turns \ {t} : ckptPc'[u] = ckptPc[u]
      /\ \A u \in Turns : NotBegun(u)' => u # t /\ NotBegun(u)
      /\ Sandboxes' /\ WasNamed'
      /\ \A u : /\ KeptIn(files, u)' <=> KeptIn(files', u)
                /\ KeptIn(blobs, u)' <=> KeptIn(blobs', u)
  <2>1. "logging" \in CkptSteps \ {"none", "queued"}
    BY DEF CkptSteps
  <2> QED
    BY <1>1, <1>2, <2>1, GoesTo
<1>4. /\ blobs' \in [Turns -> Nat] /\ \A u \in Turns \ {t} : blobs'[u] = blobs[u]
  <2>1. /\ With(blobs, t) \in [Turns -> Nat] /\ \A u \in Turns \ {t} : With(blobs, t)[u] = blobs[u]
    BY WithIs DEF CkptInv, CkptTyped
  <2> QED
    BY <1>2, <2>1 DEF CkptInv, CkptTyped
<1>5. remoteRef' \in SUBSET Turns /\ \A u \in Turns \ {t} : u \in remoteRef' <=> u \in remoteRef
  BY <1>2 DEF CkptInv, CkptTyped
<1>6. CkptTyped'
  <2>1. ckptMix' \in MixOfCheckpoints
    BY <1>2, CkptFaultKeeps DEF CkptInv, CkptTyped
  <2> QED
    BY <1>2, <1>3, <1>4, <1>5, <2>1 DEF CkptInv, CkptTyped
<1>7. In(entries)' = In(entries) /\ There(files)' = There(files)
  BY <1>2 DEF In, There
<1>8. Stages'
  <2>1. ASSUME NEW u \in Turns PROVE StageOf(u)'
    <3>1. CASE u = t
      <4>1. t \notin In(entries)
        BY <1>1 DEF CkptInv, Stages, StageOf
      <4> QED
        BY <1>2, <1>3, <1>7, <3>1, <4>1 DEF StageOf, Unread
    <3>2. CASE u # t
      BY <1>2, <1>3, <1>4, <1>5, <1>7, <3>2 DEF CkptInv, Stages, StageOf
    <3> QED
      BY <3>1, <3>2
  <2> QED
    BY <2>1 DEF Stages
<1>9. \A u \in Turns : /\ ckptPc'[u] \in {"uploading", "logging"} <=> ckptPc[u] \in {"uploading", "logging"}
                       /\ ckptPc'[u] \in {"uploading", "logging", "pruning"}
                             <=> ckptPc[u] \in {"uploading", "logging", "pruning"}
                       /\ ckptPc'[u] = "reading" <=> ckptPc[u] = "reading"
                       /\ u \in Busy' <=> u \in Busy
  <2>1. ASSUME NEW u \in Turns
        PROVE  \/ ckptPc'[u] = ckptPc[u]
               \/ ckptPc'[u] = "logging" /\ ckptPc[u] = "uploading"
    BY <1>1, <1>3
  <2> QED
    BY <2>1 DEF Busy
<1>10. Busy' = Busy
  BY <1>9 DEF Busy
<1>11. FilesKept'
  BY <1>2, <1>3, <1>7, <1>9 DEF CkptInv, FilesKept
<1>12. BlobsKept'
  <2>1. CASE blobs' = With(blobs, t) /\ remoteRef' = remoteRef \cup {t}
    <3>1. ASSUME NEW u \in remoteRef' PROVE KeptIn(blobs', u)
      <4>1. u \in Turns /\ (KeptIn(blobs, u) \/ u = t)
        BY <1>5, <2>1, <3>1 DEF CkptInv, BlobsKept
      <4> QED
        BY <2>1, <4>1, WithKeeps DEF CkptInv, CkptTyped
    <3> QED
      BY <1>3, <3>1 DEF BlobsKept
  <2>2. CASE UNCHANGED <<blobs, remoteRef>>
    BY <1>3, <2>2 DEF CkptInv, BlobsKept
  <2> QED
    BY <1>2, <2>1, <2>2
<1>13. Apart' /\ InOrder'
  BY <1>2, <1>7, <1>10 DEF CkptInv, Apart, InOrder
<1>14. Whole'
  BY <1>2, <1>7, <1>9 DEF CkptInv, Whole, HasAll
<1>15. OnTop'
  <2>1. Busy \in SUBSET Turns
    BY DEF Busy
  <2> QED
    BY <1>2, <1>7, <1>9, <1>10, <2>1 DEF CkptInv, OnTop
<1>16. LastIsThere'
  <2>1. Named(entries)' = Named(entries)
    BY <1>2, <1>7 DEF Named
  <2> QED
    BY <1>2, <1>7, <2>1 DEF CkptInv, LastIsThere
<1> QED
  BY <1>3, <1>6, <1>8, <1>11, <1>12, <1>13, <1>14, <1>15, <1>16 DEF CkptInv

LEMMA EmitKeeps == ASSUME CkptInv, NEW t \in Turns, Emit(t) PROVE CkptInv'
<1>1. /\ ckptPc[t] = "logging" /\ t \in UnderWay /\ t \in Busy /\ t \notin In(entries)
  BY DEF Emit, UnderWay, Busy, CkptInv, Stages, StageOf
<1>2. /\ \/ /\ entries' = Append(entries, t) /\ CkptGoto(t, "pruning") /\ ckptMix' = ckptMix
         \/ /\ CkptFault("emit") /\ CkptGoto(t, "failed") /\ entries' = entries
      /\ UNCHANGED <<ckptClock, sandbox, conv, turnsStarted, inTurn, sandboxOf, tarball, files,
                     blobs, remoteRef, shipped, sameDisk, promised, mixed>>
  BY DEF Emit, agentVars, copyVars, historyVars
<1>3. PICK where \in {"pruning", "failed"} : CkptGoto(t, where) /\ (where = "pruning" <=> entries' # entries)
  <2>1. Append(entries, t) # entries
    BY <1>1, InIs DEF CkptInv, CkptTyped
  <2> QED
    BY <1>2, <2>1
<1>4. /\ ckptPc' \in [Turns -> CkptSteps] /\ ckptPc'[t] = where
      /\ \A u \in Turns \ {t} : ckptPc'[u] = ckptPc[u]
      /\ \A u \in Turns : NotBegun(u)' => u # t /\ NotBegun(u)
      /\ Sandboxes' /\ WasNamed'
      /\ \A u : /\ KeptIn(files, u)' <=> KeptIn(files', u)
                /\ KeptIn(blobs, u)' <=> KeptIn(blobs', u)
  <2>1. where \in CkptSteps \ {"none", "queued"}
    BY DEF CkptSteps
  <2> QED
    BY <1>1, <1>2, <1>3, <2>1, GoesTo
<1>5. There(files)' = There(files)
  BY <1>2 DEF There
<1>6. CkptTyped'
  <2>1. ckptMix' \in MixOfCheckpoints
    BY <1>2, CkptFaultKeeps DEF CkptInv, CkptTyped
  <2>2. entries' \in Seq(Turns) /\ Len(entries') >= Len(entries) /\ Len(entries') \in Nat
    <3>1. entries \in Seq(Turns) /\ Len(entries) \in Nat
      BY LenProperties DEF CkptInv, CkptTyped
    <3>2. Append(entries, t) \in Seq(Turns) /\ Len(Append(entries, t)) = Len(entries) + 1
      BY <3>1, AppendProperties
    <3> QED
      BY <1>2, <3>1, <3>2
  <2>3. shipped \in 0 .. Len(entries) /\ Len(entries) \in Nat
    BY LenProperties DEF CkptInv, CkptTyped
  <2>4. shipped' \in 0 .. Len(entries')
    BY <1>2, <2>2, <2>3
  <2> QED
    BY <1>2, <1>4, <2>1, <2>2, <2>4 DEF CkptInv, CkptTyped
<1>7. In(entries)' = IF where = "pruning" THEN In(entries) \cup {t} ELSE In(entries)
  <2>1. In(entries)' = In(entries')
    BY DEF In
  <2> QED
    BY <1>2, <1>3, <2>1, InIs DEF CkptInv, CkptTyped
<1>8. Stages'
  <2>1. ASSUME NEW u \in Turns PROVE StageOf(u)'
    <3>1. CASE u = t
      BY <1>4, <1>7, <3>1 DEF StageOf, Unread
    <3>2. CASE u # t
      BY <1>2, <1>4, <1>7, <3>2 DEF CkptInv, Stages, StageOf
    <3> QED
      BY <3>1, <3>2
  <2> QED
    BY <2>1 DEF Stages
<1>9. \A u \in Turns : /\ u \in Busy' => u \in Busy
                       /\ ckptPc'[u] = "reading" <=> ckptPc[u] = "reading"
                       /\ u \in In(entries)' \/ ckptPc'[u] \in {"uploading", "logging"} =>
                             u \in In(entries) \/ ckptPc[u] \in {"uploading", "logging"}
                       /\ u \in In(entries)' \/ ckptPc'[u] \in {"uploading", "logging", "pruning"} =>
                             u \in In(entries) \/ ckptPc[u] \in {"uploading", "logging", "pruning"}
  <2>1. ASSUME NEW u \in Turns
        PROVE  \/ ckptPc'[u] = ckptPc[u] /\ (u \in In(entries)' <=> u \in In(entries))
               \/ u = t /\ ckptPc'[u] \in {"pruning", "failed"} /\ ckptPc[u] = "logging"
    BY <1>1, <1>4, <1>7
  <2> QED
    BY <2>1 DEF Busy
<1>10. Busy' \subseteq Busy /\ Busy \subseteq Turns /\ In(entries)' \subseteq In(entries) \cup {t}
  BY <1>7, <1>9 DEF Busy
<1>11. FilesKept'
  BY <1>2, <1>4, <1>9 DEF CkptInv, FilesKept
<1>12. BlobsKept'
  BY <1>2, <1>4 DEF CkptInv, BlobsKept
<1>13. Apart'
  BY <1>1, <1>2, <1>10 DEF CkptInv, Apart
<1>14. InOrder'
  <2>1. CASE entries' = entries
    BY <1>2, <2>1 DEF CkptInv, InOrder
  <2>2. CASE entries' = Append(entries, t)
    <3>1. PICK n \in Nat : n = Len(entries) /\ DOMAIN entries = 1 .. n /\ DOMAIN entries' = 1 .. n + 1
      BY <2>2, AppendProperties, LenProperties DEF CkptInv, CkptTyped
    <3>2. entries'[n + 1] = t /\ \A i \in 1 .. n : entries'[i] = entries[i]
      BY <2>2, <3>1, AppendProperties DEF CkptInv, CkptTyped
    <3>3. ASSUME NEW i \in 1 .. n + 1, NEW j \in 1 .. n + 1, i < j, entries'[i] \notin mixed, entries'[j] \notin mixed
          PROVE  entries'[i] < entries'[j]
      <4>1. i \in 1 .. n
        BY <3>3
      <4>2. CASE j \in 1 .. n
        BY <3>1, <3>2, <3>3, <4>1, <4>2 DEF CkptInv, InOrder
      <4>3. CASE j = n + 1
        <5>1. PICK u : u = entries[i] /\ u = entries'[i] /\ u \in In(entries)
          BY <3>1, <3>2, <4>1 DEF In
        <5>2. u \in Turns /\ u <= t /\ u # t
          BY <1>1, <3>2, <3>3, <4>3, <5>1, AloneIs, InIs DEF CkptInv, CkptTyped
        <5>3. u < t
          BY <5>2 DEF Turns
        <5> QED
          BY <3>2, <4>3, <5>1, <5>3
      <4> QED
        BY <4>2, <4>3
    <3> QED
      BY <1>2, <3>1, <3>3 DEF InOrder
  <2> QED
    BY <1>2, <2>1, <2>2
<1>15. Whole'
  BY <1>2, <1>9 DEF CkptInv, Whole, HasAll
<1>16. OnTop'
  BY <1>2, <1>5, <1>9, <1>10 DEF CkptInv, OnTop
<1>17. LastIsThere'
  <2>1. CASE where = "failed"
    <3>1. Named(entries)' = Named(entries)
      BY <1>2, <1>7, <2>1 DEF Named
    <3> QED
      BY <1>2, <1>5, <3>1 DEF CkptInv, LastIsThere
  <2>2. CASE where = "pruning"
    <3>1. Named(entries)' = Named(entries) \cup {t}
      <4>1. sandboxOf[t] = sandbox
        BY <1>1, UnderWayIs
      <4> QED
        BY <1>2, <1>7, <2>2, <4>1 DEF Named
    <3>2. ASSUME sameDisk, (Named(entries) \cup {t}) \cap mixed = {}, NEW m \in Named(entries) \cup {t},
                 \A u \in Named(entries) \cup {t} : u <= m
          PROVE  m \in There(files)
      <4>1. t \notin mixed /\ t <= m
        BY <3>2
      <4>2. m = t \/ m \in In(entries)
        BY <3>2 DEF Named
      <4>3. m \in Turns
        BY <4>2, InIs DEF CkptInv, CkptTyped
      <4>4. m <= t
        BY <1>1, <4>1, <4>2, <4>3, AloneIs DEF Turns
      <4>5. m = t
        BY <4>1, <4>3, <4>4 DEF Turns
      <4> QED
        BY <1>1, <3>2, <4>1, <4>5 DEF CkptInv, OnTop
    <3> QED
      BY <1>2, <1>5, <3>1, <3>2 DEF LastIsThere
  <2> QED
    BY <2>1, <2>2
<1> QED
  BY <1>4, <1>6, <1>8, <1>11, <1>12, <1>13, <1>14, <1>15, <1>16, <1>17 DEF CkptInv

LEMMA PruneInv == ASSUME CkptInv, NEW t \in Turns, Prune(t) PROVE CkptInv'
<1>1. /\ ckptPc[t] = "pruning" /\ t \in UnderWay /\ t \in Busy /\ t \in In(entries)
      /\ CkptGoto(t, "done")
  BY DEF Prune, UnderWay, Busy, CkptInv, Stages, StageOf
<1>2. /\ ckptMix' = ckptMix \/ CkptFault("prune")
      /\ UNCHANGED <<ckptClock, sandbox, conv, turnsStarted, inTurn, sandboxOf, tarball,
                     remoteRef, entries, shipped, sameDisk, promised, mixed>>
  BY DEF Prune, agentVars, entryVars, historyVars
<1>3. PICK g : g = sandboxOf[t]
  OBVIOUS
<1>4. PICK gone \in SUBSET BeyondRetention(files, g) : files' = Without(files, gone)
  BY <1>3 DEF Prune
<1>5. PICK dropped \in SUBSET BeyondRetention(blobs, g) : blobs' = Without(blobs, dropped)
  <2>1. PICK aged : aged = IF t \notin remoteRef THEN {}
                           ELSE {b \in BeyondRetention(blobs, g) : ckptClock - putAt[b] >= MinAge}
    OBVIOUS
  <2>2. aged \in SUBSET BeyondRetention(blobs, g)
    BY <2>1
  <2>3. \E d \in SUBSET aged : blobs' = Without(blobs, d)
    BY <1>3, <2>1 DEF Prune
  <2> QED
    BY <2>2, <2>3
<1>6. /\ ckptPc' \in [Turns -> CkptSteps] /\ ckptPc'[t] = "done"
      /\ \A u \in Turns \ {t} : ckptPc'[u] = ckptPc[u]
      /\ \A u \in Turns : NotBegun(u)' => u # t /\ NotBegun(u)
      /\ Sandboxes' /\ WasNamed'
      /\ \A u : /\ KeptIn(files, u)' <=> KeptIn(files', u)
                /\ KeptIn(blobs, u)' <=> KeptIn(blobs', u)
  <2>1. "done" \in CkptSteps \ {"none", "queued"}
    BY DEF CkptSteps
  <2> QED
    BY <1>1, <1>2, <2>1, GoesTo
<1>7. /\ files' \in [Turns -> Nat] /\ \A u \in Turns : files'[u] = 0 \/ files'[u] = files[u]
      /\ blobs' \in [Turns -> Nat] /\ \A u \in Turns : blobs'[u] = 0 \/ blobs'[u] = blobs[u]
  <2>1. files \in [Turns -> Nat] /\ blobs \in [Turns -> Nat]
    BY DEF CkptInv, CkptTyped
  <2> QED
    BY <1>4, <1>5, <2>1, WithoutIs
<1>8. CkptTyped'
  <2>1. ckptMix' \in MixOfCheckpoints
    BY <1>2, CkptFaultKeeps DEF CkptInv, CkptTyped
  <2> QED
    BY <1>2, <1>6, <1>7, <2>1 DEF CkptInv, CkptTyped
<1>9. In(entries)' = In(entries)
  BY <1>2 DEF In
<1>10. Stages'
  <2>1. ASSUME NEW u \in Turns PROVE StageOf(u)'
    <3>1. CASE u = t
      BY <1>6, <3>1 DEF StageOf, Unread
    <3>2. CASE u # t
      BY <1>2, <1>6, <1>7, <1>9, <3>2 DEF CkptInv, Stages, StageOf
    <3> QED
      BY <3>1, <3>2
  <2> QED
    BY <2>1 DEF Stages
<1>11. FilesKept'
  <2>1. ASSUME sameDisk, NEW u \in Turns, u \in In(entries) \/ ckptPc'[u] \in {"uploading", "logging"}
        PROVE  KeptIn(files', u)
    <3>1. KeptIn(files, u)
      BY <1>1, <1>6, <2>1 DEF CkptInv, FilesKept
    <3> QED
      BY <1>4, <3>1, PruneKeeps DEF CkptInv, CkptTyped
  <2> QED
    BY <1>2, <1>6, <1>9, <2>1 DEF FilesKept
<1>12. BlobsKept'
  <2>1. ASSUME NEW u \in remoteRef PROVE KeptIn(blobs', u)
    <3>1. KeptIn(blobs, u) /\ u \in Turns
      BY <2>1 DEF CkptInv, CkptTyped, BlobsKept
    <3> QED
      BY <1>5, <3>1, PruneKeeps DEF CkptInv, CkptTyped
  <2> QED
    BY <1>2, <1>6, <2>1 DEF BlobsKept
<1>13. Busy' = Busy \ {t}
  BY <1>6 DEF Busy
<1>14. Apart' /\ InOrder'
  BY <1>2, <1>9, <1>13 DEF CkptInv, Apart, InOrder
<1>15. Whole'
  <2>1. \A u \in Turns : u \in In(entries) \/ ckptPc'[u] \in {"uploading", "logging", "pruning"} =>
                            u \in In(entries) \/ ckptPc[u] \in {"uploading", "logging", "pruning"}
    BY <1>1, <1>6
  <2> QED
    BY <1>2, <1>9, <2>1 DEF CkptInv, Whole, HasAll
<1>16. OnTop'
  <2>1. ASSUME NEW u \in Busy \ {t}, u \notin mixed PROVE FALSE
    BY <1>1, <2>1, AloneIs
  <2> QED
    BY <1>2, <1>13, <2>1 DEF OnTop
<1>17. LastIsThere'
  <2>1. Named(entries)' = Named(entries) /\ t \in Named(entries)
    <3>1. sandboxOf[t] = sandbox
      BY <1>1, UnderWayIs
    <3> QED
      BY <1>1, <1>2, <1>9, <3>1 DEF Named
  <2>2. ASSUME sameDisk, Named(entries) \cap mixed = {}, NEW m \in Named(entries),
               \A u \in Named(entries) : u <= m
        PROVE  m \in There(files)'
    <3>1. t \notin mixed /\ t <= m
      BY <2>1, <2>2
    <3>2. m \in In(entries) /\ m \in Turns
      BY <2>2, InIs DEF Named, CkptInv, CkptTyped
    <3>3. m <= t
      BY <1>1, <3>1, <3>2, AloneIs
    <3>4. m = t
      BY <3>1, <3>2, <3>3 DEF Turns
    <3>5. t \in There(files) /\ \A u \in Turns : files[u] <= files[t]
      BY <1>1, <2>2, <3>1 DEF CkptInv, OnTop
    <3>6. files \in [Turns -> Nat]
      BY DEF CkptInv, CkptTyped
    <3>7. t \notin gone
      BY <1>4, <3>5, <3>6, NewestStays
    <3>8. There(Without(files, gone)) = There(files) \ gone
      BY <3>6, WithoutIs
    <3>9. There(files)' = There(files')
      BY DEF There
    <3> QED
      BY <1>4, <3>4, <3>5, <3>7, <3>8, <3>9
  <2> QED
    BY <1>2, <2>1, <2>2 DEF LastIsThere
<1> QED
  BY <1>6, <1>8, <1>10, <1>11, <1>12, <1>14, <1>15, <1>16, <1>17 DEF CkptInv

-----------------------------------------------------------------------------
(* The losses: no checkpoint is under way any more.                          *)
LEMMA JobsDieIs ==
    ASSUME CkptInv, JobsDie
    PROVE  /\ ckptPc' \in [Turns -> CkptSteps] /\ UnderWay' = {} /\ Busy' = {}
           /\ \A t \in Turns : ckptPc'[t] = ckptPc[t] \/ (ckptPc'[t] = "failed" /\ ckptPc[t] # "none")
           /\ \A t \in Turns : ckptPc'[t] \notin {"uploading", "logging", "pruning"}
<1>1. ASSUME NEW t \in Turns
      PROVE  /\ ckptPc'[t] \in {"none", "skipped", "failed", "done"}
             /\ ckptPc'[t] = ckptPc[t] \/ (ckptPc'[t] = "failed" /\ ckptPc[t] # "none")
  BY DEF JobsDie, UnderWay
<1>2. ckptPc' = [t \in Turns |-> ckptPc'[t]]
  BY DEF JobsDie
<1>3. ckptPc' \in [Turns -> CkptSteps]
  BY <1>1, <1>2 DEF CkptSteps
<1>4. UnderWay' = {} /\ Busy' = {}
  BY <1>1 DEF UnderWay, Busy
<1> QED
  BY <1>1, <1>3, <1>4

LEMMA LossStages ==
    ASSUME CkptInv, JobsDie, inTurn' \in {inTurn, FALSE}, In(entries)' \subseteq In(entries),
           files' = files \/ files' = [t \in Turns |-> 0],
           UNCHANGED <<turnsStarted, blobs, remoteRef>>
    PROVE  Stages'
<1>1. ASSUME NEW t \in Turns PROVE StageOf(t)'
  <2>1. ckptPc'[t] = ckptPc[t] \/ (ckptPc'[t] = "failed" /\ ckptPc[t] # "none")
    BY JobsDieIs
  <2>2. NotBegun(t)' => NotBegun(t)
    BY DEF NotBegun, CkptInv, CkptTyped
  <2>3. files'[t] = files[t] \/ files'[t] = 0
    OBVIOUS
  <2>4. ckptPc'[t] \notin {"uploading", "logging", "pruning"}
    BY JobsDieIs
  <2>5. StageOf(t)
    BY DEF CkptInv, Stages
  <2> QED
    BY <2>1, <2>2, <2>3, <2>4, <2>5 DEF StageOf, Unread
<1> QED
  BY <1>1 DEF Stages

LEMMA DaemonDiesKeeps == ASSUME CkptInv, DaemonDies PROVE CkptInv'
<1>1. /\ CkptFault("crash") /\ JobsDie
      /\ UNCHANGED <<ckptClock, sandbox, conv, turnsStarted, inTurn, sandboxOf, tarball, files, blobs,
                     remoteRef, entries, shipped, sameDisk, promised, mixed>>
  BY DEF DaemonDies, agentVars, copyVars, entryVars, historyVars
<1>2. /\ ckptPc' \in [Turns -> CkptSteps] /\ UnderWay' = {} /\ Busy' = {}
      /\ \A t \in Turns : ckptPc'[t] \notin {"uploading", "logging", "pruning"}
  BY <1>1, JobsDieIs
<1>3. CkptTyped'
  <2>1. ckptMix' \in MixOfCheckpoints
    BY <1>1, CkptFaultKeeps
  <2> QED
    BY <1>1, <1>2, <2>1 DEF CkptInv, CkptTyped
<1>4. Stages'
  <2>1. In(entries)' = In(entries)
    BY <1>1 DEF In
  <2> QED
    BY <1>1, <2>1, LossStages
<1>5. Sandboxes'
  BY <1>1, <1>2 DEF CkptInv, Sandboxes, InSandbox
<1>6. FilesKept' /\ BlobsKept'
  BY <1>1, <1>2, QuietCopies
<1>7. Apart' /\ InOrder' /\ Whole' /\ OnTop' /\ LastIsThere'
  BY <1>1, <1>2, QuietOrder
<1>8. WasNamed'
  <2>1. Named(entries)' = Named(entries) /\ There(files)' = There(files)
    BY <1>1 DEF Named, In, There
  <2> QED
    BY <1>1, <2>1 DEF CkptInv, WasNamed
<1> QED
  BY <1>3, <1>4, <1>5, <1>6, <1>7, <1>8 DEF CkptInv

LEMMA HostRebootsKeeps == ASSUME CkptInv, HostReboots PROVE CkptInv'
<1>1. /\ CkptFault("reboot") /\ JobsDie /\ conv' = Gone /\ inTurn' = FALSE
      /\ promised' = Named(entries)
      /\ UNCHANGED <<ckptClock, sandbox, turnsStarted, sandboxOf, tarball, files, blobs,
                     remoteRef, entries, shipped, sameDisk, mixed>>
  BY DEF HostReboots, ContainerGone, copyVars, entryVars
<1>2. /\ ckptPc' \in [Turns -> CkptSteps] /\ UnderWay' = {} /\ Busy' = {}
      /\ \A t \in Turns : ckptPc'[t] \notin {"uploading", "logging", "pruning"}
  BY <1>1, JobsDieIs
<1>3. CkptTyped'
  <2>1. ckptMix' \in MixOfCheckpoints
    BY <1>1, CkptFaultKeeps
  <2>2. promised' \in SUBSET Turns
    BY <1>1, InIs DEF Named, CkptInv, CkptTyped
  <2> QED
    BY <1>1, <1>2, <2>1, <2>2 DEF CkptInv, CkptTyped
<1>4. Stages'
  <2>1. In(entries)' = In(entries)
    BY <1>1 DEF In
  <2> QED
    BY <1>1, <2>1, LossStages
<1>5. Sandboxes'
  BY <1>1, <1>2 DEF CkptInv, Sandboxes, InSandbox
<1>6. FilesKept' /\ BlobsKept'
  BY <1>1, <1>2, QuietCopies
<1>7. Apart' /\ InOrder' /\ Whole' /\ OnTop' /\ LastIsThere'
  BY <1>1, <1>2, QuietOrder
<1>8. WasNamed'
  <2>1. Named(entries)' = Named(entries)
    BY <1>1 DEF Named, In
  <2> QED
    BY <1>1, <2>1 DEF WasNamed
<1> QED
  BY <1>3, <1>4, <1>5, <1>6, <1>7, <1>8 DEF CkptInv

LEMMA DiskLostKeeps == ASSUME CkptInv, DiskLost PROVE CkptInv'
<1>1. /\ CkptFault("disk") /\ JobsDie /\ conv' = Gone /\ inTurn' = FALSE /\ sameDisk' = FALSE
      /\ files' = [t \in Turns |-> 0] /\ entries' = SubSeq(entries, 1, shipped)
      /\ promised' = Named(entries') \cap remoteRef
      /\ UNCHANGED <<ckptClock, sandbox, turnsStarted, sandboxOf, tarball, blobs, remoteRef,
                     shipped, mixed>>
  BY DEF DiskLost, ContainerGone
<1>2. /\ ckptPc' \in [Turns -> CkptSteps] /\ UnderWay' = {} /\ Busy' = {}
      /\ \A t \in Turns : ckptPc'[t] \notin {"uploading", "logging", "pruning"}
  BY <1>1, JobsDieIs
<1>3. /\ entries' \in Seq(Turns) /\ Len(entries') = shipped /\ In(entries') \in SUBSET In(entries)
      /\ \A i \in 1 .. shipped : entries'[i] = entries[i]
  BY <1>1, InIs DEF CkptInv, CkptTyped
<1>4. CkptTyped'
  <2>1. ckptMix' \in MixOfCheckpoints
    BY <1>1, CkptFaultKeeps
  <2>2. promised' \in SUBSET Turns
    BY <1>1 DEF CkptInv, CkptTyped
  <2>3. shipped' \in 0 .. Len(entries')
    <3>1. shipped \in Nat
      BY LenProperties DEF CkptInv, CkptTyped
    <3> QED
      BY <1>1, <1>3, <3>1
  <2> QED
    BY <1>1, <1>2, <1>3, <2>1, <2>2, <2>3 DEF CkptInv, CkptTyped
<1>5. In(entries)' = In(entries')
  BY DEF In
<1>6. Stages'
  BY <1>1, <1>3, <1>5, LossStages
<1>7. Sandboxes'
  BY <1>1, <1>2 DEF CkptInv, Sandboxes, InSandbox
<1>8. FilesKept' /\ OnTop' /\ LastIsThere'
  BY <1>1 DEF FilesKept, OnTop, LastIsThere
<1>9. BlobsKept'
  <2>1. \A u : KeptIn(blobs, u)' <=> KeptIn(blobs, u)
    BY <1>1 DEF KeptIn, Peers, There
  <2> QED
    BY <1>1, <2>1 DEF CkptInv, BlobsKept
<1>10. Apart'
  BY <1>2 DEF Apart
<1>11. InOrder'
  <2>1. DOMAIN entries' = 1 .. shipped /\ DOMAIN entries = 1 .. Len(entries) /\ Len(entries) \in Nat
    BY <1>3, LenProperties DEF CkptInv, CkptTyped
  <2>2. 1 .. shipped \subseteq DOMAIN entries
    BY <2>1 DEF CkptInv, CkptTyped
  <2>3. ASSUME NEW i \in 1 .. shipped, NEW j \in 1 .. shipped, i < j,
               entries'[i] \notin mixed, entries'[j] \notin mixed
        PROVE  entries'[i] < entries'[j]
    BY <1>3, <2>2, <2>3 DEF CkptInv, InOrder
  <2> QED
    BY <1>1, <2>1, <2>3 DEF InOrder
<1>12. Whole'
  BY <1>1, <1>2, <1>3, <1>5 DEF CkptInv, Whole, HasAll
<1>13. WasNamed'
  <2>1. Named(entries)' = Named(entries') /\ There(files)' = {}
    BY <1>1 DEF Named, In, There
  <2> QED
    BY <1>1, <2>1 DEF WasNamed
<1> QED
  BY <1>4, <1>6, <1>7, <1>8, <1>9, <1>10, <1>11, <1>12, <1>13 DEF CkptInv

LEMMA RestoreKeeps == ASSUME CkptInv, Restore PROVE CkptInv'
<1>1. /\ conv = Gone /\ conv' = UNION {tarball[t] : t \in Picked(entries)} /\ sandbox' = sandbox + 1
      /\ UNCHANGED <<ckptMix, ckptClock, turnsStarted, inTurn, ckptPc, sandboxOf, tarball, files, blobs,
                     remoteRef, entries, shipped, sameDisk, promised, mixed>>
  BY DEF Restore, copyVars, entryVars, historyVars
<1>2. UnderWay' = {} /\ Busy' = {} /\ Busy = {}
      /\ \A t \in Turns : ckptPc[t] \notin {"uploading", "logging", "pruning"}
  <2>1. UnderWay = {}
    BY <1>1, UnderWayIs
  <2> QED
    BY <1>1, <2>1 DEF UnderWay, Busy
<1>3. conv' \in SUBSET Turns /\ conv' # Gone
  <2>1. Picked(entries) \in SUBSET Turns
    <3>1. PICK at : at = {i \in DOMAIN entries : sandboxOf[entries[i]] = sandbox /\ CanRead(entries[i])}
      OBVIOUS
    <3>2. CASE at = {}
      BY <3>1, <3>2 DEF Picked
    <3>3. CASE at # {}
      <4>1. PICK n \in Nat : n = Len(entries) /\ DOMAIN entries = 1 .. n
        BY LenProperties DEF CkptInv, CkptTyped
      <4>2. at \in SUBSET (1 .. n)
        BY <3>1, <4>1
      <4>3. Max(at) \in 1 .. n
        BY <3>3, <4>2, Greatest
      <4>4. entries[Max(at)] \in Turns
        BY <4>1, <4>3 DEF CkptInv, CkptTyped
      <4> QED
        BY <3>1, <3>3, <4>4 DEF Picked
    <3> QED
      BY <3>2, <3>3
  <2>2. \A t \in Picked(entries) : tarball[t] \in SUBSET Turns
    BY <2>1 DEF CkptInv, CkptTyped
  <2>3. conv' \in SUBSET Turns
    BY <1>1, <2>2
  <2> QED
    BY <2>3, CheckpointAssumption DEF CheckpointConstants
<1>4. CkptTyped'
  <2>1. sandbox' \in Nat \ {0}
    BY <1>1 DEF CkptInv, CkptTyped
  <2> QED
    BY <1>1, <1>3, <2>1 DEF CkptInv, CkptTyped
<1>5. In(entries)' = In(entries)
  BY <1>1 DEF In
<1>6. Stages'
  BY <1>1, <1>5 DEF CkptInv, Stages, StageOf, NotBegun
<1>7. \A t \in Turns : sandboxOf[t] <= sandbox /\ sandboxOf[t] \in Nat /\ sandbox \in Nat
  BY DEF CkptInv, CkptTyped, Sandboxes, InSandbox
<1>8. Sandboxes'
  <2>1. \A t \in Turns : sandboxOf[t] <= sandbox + 1 /\ sandboxOf[t] # sandbox + 1
    BY <1>7
  <2> QED
    BY <1>1, <1>2, <2>1 DEF Sandboxes, InSandbox
<1>9. FilesKept' /\ BlobsKept'
  BY <1>1, QuietCopies
<1>10. Apart' /\ InOrder' /\ OnTop'
  BY <1>1, <1>2 DEF CkptInv, Apart, InOrder, OnTop
<1>11. Whole'
  BY <1>1, <1>5 DEF CkptInv, Whole, HasAll
<1>12. LastIsThere'
  <2>1. \A t \in In(entries) : sandboxOf[t] # sandbox + 1
    <3>1. In(entries) \in SUBSET Turns
      BY InIs DEF CkptInv, CkptTyped
    <3> QED
      BY <1>7, <3>1
  <2>2. Named(entries)' = {}
    BY <1>1, <1>5, <2>1 DEF Named
  <2> QED
    BY <2>2 DEF LastIsThere
<1>13. WasNamed'
  BY <1>3 DEF WasNamed
<1> QED
  BY <1>4, <1>6, <1>8, <1>9, <1>10, <1>11, <1>12, <1>13 DEF CkptInv

(* The replica, the clock, and no step at all.                               *)
LEMMA RestKeeps ==
    ASSUME CkptInv, shipped' \in 0 .. Len(entries), ckptClock' \in Nat,
           UNCHANGED <<ckptMix, agentVars, ckptPc, sandboxOf, tarball, files, blobs, remoteRef, entries,
                       sameDisk, historyVars>>
    PROVE  CkptInv'
<1>1. UNCHANGED <<ckptMix, sandbox, conv, turnsStarted, inTurn, ckptPc, sandboxOf, tarball, files, blobs,
                  remoteRef, entries, sameDisk, promised, mixed>>
  BY DEF agentVars, historyVars
<1>2. In(entries)' = In(entries) /\ There(files)' = There(files) /\ Busy' = Busy /\ UnderWay' = UnderWay
  BY <1>1 DEF In, There, Busy, UnderWay
<1>3. CkptTyped'
  BY <1>1 DEF CkptInv, CkptTyped
<1>4. Stages'
  BY <1>1, <1>2 DEF CkptInv, Stages, StageOf, NotBegun
<1>5. Sandboxes'
  BY <1>1, <1>2 DEF CkptInv, Sandboxes, InSandbox
<1>6. FilesKept' /\ BlobsKept'
  BY <1>1, QuietCopies
<1>7. Apart' /\ InOrder' /\ Whole' /\ OnTop' /\ LastIsThere'
  BY <1>1, <1>2, QuietOrder
<1>8. WasNamed'
  <2>1. Named(entries)' = Named(entries)
    BY <1>1, <1>2 DEF Named
  <2> QED
    BY <1>1, <1>2, <2>1 DEF CkptInv, WasNamed
<1> QED
  BY <1>3, <1>4, <1>5, <1>6, <1>7, <1>8 DEF CkptInv

LEMMA CkptInitInv == CheckpointInit => CkptInv
<1> SUFFICES ASSUME CheckpointInit PROVE CkptInv
  OBVIOUS
<1>1. /\ sandbox = 1 /\ conv = {} /\ turnsStarted = 0 /\ inTurn = FALSE
      /\ ckptPc = [t \in Turns |-> "none"] /\ sandboxOf = [t \in Turns |-> 0]
      /\ tarball = [t \in Turns |-> {}] /\ files = [t \in Turns |-> 0] /\ blobs = [t \in Turns |-> 0]
      /\ remoteRef = {} /\ entries = <<>> /\ shipped = 0 /\ promised = {} /\ mixed = {}
  BY DEF CheckpointInit
<1>2. DOMAIN entries = {} /\ Len(entries) = 0 /\ entries \in Seq(Turns)
  BY <1>1, EmptySeq
<1>3. In(entries) = {} /\ Named(entries) = {} /\ Busy = {} /\ UnderWay = {}
  BY <1>1, <1>2 DEF In, Named, Busy, UnderWay
<1>4. {} # Gone /\ MaxTurns \in Nat
  BY CheckpointAssumption DEF CheckpointConstants
<1>5. CkptTyped
  <2>1. ckptMix \in MixOfCheckpoints /\ ckptClock = 0 /\ sameDisk = TRUE
    BY CheckpointAssumption DEF CheckpointInit, CheckpointConstants
  <2>2. ckptPc \in [Turns -> CkptSteps] /\ tarball \in [Turns -> SUBSET Turns]
    BY <1>1 DEF CkptSteps
  <2>3. sandboxOf \in [Turns -> Nat] /\ files \in [Turns -> Nat] /\ blobs \in [Turns -> Nat]
    BY <1>1
  <2>4. shipped \in 0 .. Len(entries) /\ turnsStarted \in 0 .. MaxTurns /\ sandbox \in Nat \ {0}
    BY <1>1, <1>2, <1>4
  <2> QED
    BY <1>1, <1>2, <2>1, <2>2, <2>3, <2>4 DEF CkptTyped
<1>6. Stages
  BY <1>1, <1>3 DEF Stages, StageOf, Unread
<1>7. Sandboxes
  BY <1>1, <1>3, <1>4 DEF Sandboxes, InSandbox
<1>8. FilesKept /\ BlobsKept
  BY <1>1, <1>3 DEF FilesKept, BlobsKept
<1>9. Apart /\ InOrder /\ OnTop /\ LastIsThere
  BY <1>2, <1>3 DEF Apart, InOrder, OnTop, LastIsThere
<1>10. Whole
  BY <1>1, <1>3 DEF Whole, HasAll
<1>11. WasNamed
  BY <1>1, <1>4 DEF WasNamed
<1> QED
  BY <1>5, <1>6, <1>7, <1>8, <1>9, <1>10, <1>11 DEF CkptInv

LEMMA CkptStepInv == CkptInv /\ [CheckpointNext]_checkpointVars => CkptInv'
<1> SUFFICES ASSUME CkptInv, [CheckpointNext]_checkpointVars PROVE CkptInv'
  OBVIOUS
<1>1. CASE TurnStarts
  BY <1>1, TurnStartsKeeps
<1>2. CASE TurnOver
  BY <1>2, TurnOverKeeps
<1>3. ASSUME NEW t \in Turns, CkptStep(t) PROVE CkptInv'
  BY <1>3, AcquireKeeps, ReadKeeps, UploadKeeps, EmitKeeps, PruneInv DEF CkptStep
<1>4. CASE DaemonDies
  BY <1>4, DaemonDiesKeeps
<1>5. CASE HostReboots
  BY <1>5, HostRebootsKeeps
<1>6. CASE DiskLost
  BY <1>6, DiskLostKeeps
<1>7. CASE Restore
  BY <1>7, RestoreKeeps
<1>8. Len(entries) \in Nat /\ ckptClock \in Nat /\ shipped \in 0 .. Len(entries)
  BY LenProperties DEF CkptInv, CkptTyped
<1>9. CASE Ship
  BY <1>8, <1>9, RestKeeps DEF Ship, copyVars
<1>10. CASE CkptTick
  BY <1>8, <1>10, RestKeeps DEF CkptTick, copyVars, entryVars
<1>11. CASE UNCHANGED checkpointVars
  BY <1>8, <1>11, RestKeeps DEF checkpointVars, copyVars, entryVars
<1> QED
  BY <1>1, <1>2, <1>3, <1>4, <1>5, <1>6, <1>7, <1>9, <1>10, <1>11 DEF CheckpointNext

(* What is found when the container is lost.                                 *)
LEMMA CopyIsFound ==
    ASSUME NEW copies \in [Turns -> Nat], NEW named \in SUBSET Turns,
           \A t \in named : sandboxOf[t] = sandbox /\ KeptIn(copies, t)
    PROVE  Findable(copies, named)
<1>1. PICK unseen : unseen = {t \in There(copies) : sandboxOf[t] = sandbox /\ t \notin named}
  OBVIOUS
<1>2. ASSUME named # {}, Cardinality(unseen) < Retain, named \cap There(copies) = {} PROVE FALSE
  <2>1. PICK t \in named : sandboxOf[t] = sandbox /\ Cardinality(Peers(copies, t)) >= Retain
    BY <1>2 DEF KeptIn
  <2>2. Peers(copies, t) = unseen
    BY <1>1, <1>2, <2>1 DEF Peers
  <2>3. unseen \in SUBSET Turns
    BY <1>1 DEF There
  <2>4. Cardinality(unseen) \in Nat /\ Retain \in Nat
    BY <2>3, TurnsAreFinite, CheckpointAssumption DEF CheckpointConstants
  <2> QED
    BY <1>2, <2>1, <2>2, <2>4
<1> QED
  BY <1>1, <1>2 DEF Findable

LEMMA CkptFollows == CkptInv => CheckpointTypeOK /\ SomeCopyIsFound
<1> SUFFICES ASSUME CkptInv PROVE CheckpointTypeOK /\ SomeCopyIsFound
  OBVIOUS
<1>1. /\ entries \in Seq(Turns) /\ In(entries) \in SUBSET Turns
      /\ files \in [Turns -> Nat] /\ blobs \in [Turns -> Nat]
  BY InIs DEF CkptInv, CkptTyped
<1>2. CheckpointTypeOK
  BY <1>1 DEF CkptInv, CkptTyped, CheckpointTypeOK, CkptSteps
<1>3. ASSUME sameDisk PROVE Findable(files, Named(entries))
  <2>1. \A t \in Named(entries) : t \in Turns /\ sandboxOf[t] = sandbox /\ KeptIn(files, t)
    BY <1>1, <1>3 DEF Named, CkptInv, FilesKept
  <2> QED
    BY <1>1, <2>1, CopyIsFound
<1>4. Findable(blobs, Named(SubSeq(entries, 1, shipped)) \cap remoteRef)
  <2>1. PICK named : named = Named(SubSeq(entries, 1, shipped)) \cap remoteRef
    OBVIOUS
  <2>2. \A t \in named : t \in Turns /\ sandboxOf[t] = sandbox /\ KeptIn(blobs, t)
    BY <2>1 DEF Named, CkptInv, CkptTyped, BlobsKept
  <2> QED
    BY <1>1, <2>1, <2>2, CopyIsFound
<1> QED
  BY <1>2, <1>3, <1>4 DEF SomeCopyIsFound

(* What is picked is the newest of what was promised.                        *)
LEMMA PicksNewest ==
    ASSUME CkptInv, conv = Gone, promised # {}, promised \cap mixed = {},
           sameDisk \/ CanRead(Max(promised))
    PROVE  /\ Max(promised) \in promised /\ \A u \in promised : u <= Max(promised)
           /\ Picked(entries) = {Max(promised)} /\ promised \subseteq Named(entries)
<1>1. entries \in Seq(Turns) /\ promised \in SUBSET Turns
  BY DEF CkptInv, CkptTyped
<1>2. PICK n \in Nat : n = Len(entries) /\ DOMAIN entries = 1 .. n
  BY <1>1, LenProperties
<1>3. PICK m : m = Max(promised)
  OBVIOUS
<1>4. m \in promised /\ m \in Nat /\ \A u \in promised : u \in Nat /\ u <= m
  <2>1. MaxTurns \in Nat
    BY CheckpointAssumption DEF CheckpointConstants
  <2>2. promised \in SUBSET (1 .. MaxTurns)
    BY <1>1 DEF Turns
  <2>3. m \in promised /\ \A u \in promised : m >= u
    BY <1>3, <2>1, <2>2, Greatest
  <2>4. \A u \in promised : u \in Nat
    BY <1>1 DEF Turns
  <2> QED
    BY <2>3, <2>4
<1>5. \/ promised = Named(entries)
      \/ ~sameDisk /\ promised = Named(entries) \cap remoteRef /\ There(files) = {}
  BY DEF CkptInv, WasNamed
<1>6. CanRead(m)
  <2>1. CASE sameDisk
    <3>1. promised = Named(entries)
      BY <1>5, <2>1
    <3>2. m \in There(files)
      BY <1>4, <2>1, <3>1 DEF CkptInv, LastIsThere
    <3> QED
      BY <3>2 DEF CanRead
  <2>2. CASE ~sameDisk
    BY <1>3, <2>2
  <2> QED
    BY <2>1, <2>2
<1>7. PICK at : at = {i \in DOMAIN entries : sandboxOf[entries[i]] = sandbox /\ CanRead(entries[i])}
  OBVIOUS
<1>8. \A i \in at : entries[i] \in promised
  <2>1. ASSUME NEW i \in at PROVE entries[i] \in promised
    <3>1. entries[i] \in Named(entries) /\ CanRead(entries[i])
      BY <1>7 DEF Named, In
    <3> QED
      BY <1>5, <3>1 DEF CanRead
  <2> QED
    BY <2>1
<1>9. PICK k \in at : entries[k] = m
  BY <1>4, <1>5, <1>6, <1>7 DEF Named, In
<1>10. at \in SUBSET (1 .. n) /\ at # {}
  BY <1>2, <1>7, <1>9
<1>11. PICK j : j = Max(at) /\ j \in at /\ j >= k
  BY <1>10, Greatest
<1>12. j = k
  <2>1. ASSUME j # k PROVE FALSE
    <3>1. k < j /\ k \in DOMAIN entries /\ j \in DOMAIN entries
      BY <1>7, <1>10, <1>11, <2>1
    <3>2. entries[k] \notin mixed /\ entries[j] \notin mixed
      BY <1>8, <1>11
    <3>3. entries[k] < entries[j]
      BY <3>1, <3>2 DEF CkptInv, InOrder
    <3>4. entries[j] \in Nat /\ entries[j] <= m
      BY <1>4, <1>8, <1>11
    <3> QED
      BY <1>4, <1>9, <3>3, <3>4
  <2> QED
    BY <2>1
<1>13. Picked(entries) = {m}
  BY <1>7, <1>9, <1>10, <1>11, <1>12 DEF Picked
<1> QED
  BY <1>3, <1>4, <1>5, <1>13

LEMMA CkptReturns ==
    ASSUME CkptInv, Restore, promised # {}, promised \cap mixed = {},
           sameDisk \/ CanRead(Max(promised))
    PROVE  promised \subseteq conv'
<1>1. conv = Gone /\ conv' = UNION {tarball[t] : t \in Picked(entries)}
  BY DEF Restore
<1>2. PICK m : /\ m \in promised /\ \A u \in promised : u <= m
               /\ Picked(entries) = {m} /\ promised \subseteq Named(entries)
  BY <1>1, PicksNewest
<1>3. conv' = tarball[m]
  BY <1>1, <1>2
<1>4. ASSUME NEW u \in promised PROVE u \in tarball[m]
  <2>1. u \in Turns /\ m \in Turns \ mixed
    BY <1>2 DEF CkptInv, CkptTyped
  <2>2. m \in In(entries) /\ sandboxOf[u] = sandboxOf[m]
    BY <1>2 DEF Named
  <2> QED
    BY <1>2, <2>1, <2>2 DEF CkptInv, Whole, HasAll
<1> QED
  BY <1>3, <1>4

LEMMA CkptInvariant == CheckpointSpec => []CkptInv
<1> QED
  BY CkptInitInv, CkptStepInv, PTL DEF CheckpointSpec

(* Whenever the container is lost, and the disk with it, a copy is there of  *)
(* a checkpoint that the ledger names, for any number of turns, any          *)
(* retention and margin, whatever fails or is in flight (checkpoint.ts:121). *)
THEOREM CheckpointsAreFound == CheckpointSpec => []SomeCopyIsFound
<1>1. CkptInv => SomeCopyIsFound
  BY CkptFollows
<1> QED
  BY <1>1, CkptInvariant, PTL

(* What comes back has the turns of every checkpoint that was promised, when *)
(* none of them overlapped another or a turn (stream.ts:68, restore.ts:29).  *)
THEOREM CheckpointsComeBack == CheckpointSpec => TurnsComeBack
<1>1. CkptInv /\ [CheckpointNext]_checkpointVars =>
        [Restore /\ promised # {} /\ promised \cap mixed = {}
           /\ (sameDisk \/ CanRead(Max(promised)))
         => promised \subseteq conv']_checkpointVars
  BY CkptReturns
<1> QED
  BY <1>1, CkptInvariant, PTL DEF CheckpointSpec, TurnsComeBack

(* The types of the checkpoints (checkpoint.ts:69-240).                      *)
THEOREM CheckpointsTyped == CheckpointSpec => []CheckpointTypeOK
<1>1. CkptInv => CheckpointTypeOK
  BY CkptFollows
<1> QED
  BY <1>1, CkptInvariant, PTL
=============================================================================
