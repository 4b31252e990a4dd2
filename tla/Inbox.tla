------------------------------- MODULE Inbox -------------------------------
(***************************************************************************)
(* The inbox of one agent of alineod (engine/notify.ts): messages about    *)
(* other agents are queued in the ledger, and reach the agent by a steer   *)
(* into its running turn, at the head of a prompt, or as a turn of their   *)
(* own.  Calls of deliverPending() for one agent are chained; a prompt     *)
(* (withInbox) takes the pending messages without waiting for the chain.   *)
(* A steer marks them delivered when it has returned, a prompt before it   *)
(* is sent: one that throws, or that a crash cuts off, takes them with it. *)
(*                                                                         *)
(* `status' is the inbox table (it survives a restart), `told' is what the *)
(* agent itself has read.  An action is the code between two awaits.       *)
(***************************************************************************)
EXTENDS Naturals, Sequences, FiniteSets

CONSTANTS N,              \* how many messages may be queued
          Waking,         \* those of them that ask for a turn of their own
          MaxPrompts, MaxPauses, MaxDeliver, MaxRestarts, MaxLosses, MaxRetries,
          MaxInAll    \* bounds: of each, and of all of them together

ASSUME InboxAssumption ==
    /\ N \in Nat /\ Waking \subseteq 1 .. N
    /\ {MaxPrompts, MaxPauses, MaxDeliver, MaxRestarts, MaxLosses, MaxRetries,
        MaxInAll} \subseteq Nat

Messages == 1 .. N      \* by the seq of their inbox.queued

VARIABLES
    state,     \* the recipient's agents.state ("idle": done or failed)
    from,      \* the state a pause left
    ended,     \* its ended_at is set
    reg,       \* it is registered
    status,    \* inbox.state of each message
    told,      \* how often the agent was given each message
    chain,     \* deliverPending calls waiting their turn: their opts.wake
    steer,     \* the steer in flight: the seqs it carries, how far it got
    prompts,   \* the prompts in flight that carry messages: the seqs of each
    cut,       \* the seqs of prompts that failed or that a crash cut off
    count      \* prompts, pauses, operator deliveries, restarts, lost answers, retries so far

agent == <<state, from, ended, reg>>
handed == <<prompts, cut>>
vars == <<state, from, ended, reg, status, told, chain, steer, prompts, cut, count>>

NoSteer == [seqs |-> {}, pc |-> "none"]
pending == {m \in Messages : status[m] = "pending"}

(* Mutant: an agent that is done is taken for closed.                      *)
ClosedWhenDone == state = "aborted" \/ ended

Closed == state = "aborted" \/ (ended /\ ~reg)

Init ==
    /\ state = "provisioning" /\ from = "provisioning"
    /\ ended = FALSE /\ reg = FALSE
    /\ status = [m \in Messages |-> "none"]
    /\ told = [m \in Messages |-> 0]
    /\ chain = <<>> /\ steer = NoSteer
    /\ prompts = {} /\ cut = {}
    /\ count = [prompts |-> 0, pauses |-> 0, delivers |-> 0, restarts |-> 0,
                losses |-> 0, retries |-> 0]

Counts(more) ==
    /\ more.prompts + more.pauses + more.delivers + more.restarts + more.losses + more.retries
         <= MaxInAll
    /\ count' = more

(* inbox.delivered and inbox.dropped: the UPDATE only settles what is      *)
(* still pending.                                                          *)
Settle(seqs, to) ==
    status' = [m \in Messages |-> IF m \in seqs /\ status[m] = "pending" THEN to ELSE status[m]]

Tell(seqs) == told' = [m \in Messages |-> IF m \in seqs THEN told[m] + 1 ELSE told[m]]

-----------------------------------------------------------------------------
(* queueNotification, queueSupervisionNotice: in the order of their seqs.  *)
Queue(m) ==
    /\ status[m] = "none" /\ \A k \in 1 .. m - 1 : status[k] # "none"
    /\ status' = [status EXCEPT ![m] = "pending"]
    /\ chain' = Append(chain, FALSE)
    /\ UNCHANGED <<agent, told, steer, count, handed>>

(* POST /agents/:id/inbox/deliver.                                         *)
OperatorDelivers ==
    /\ count.delivers < MaxDeliver /\ Counts([count EXCEPT !.delivers = @ + 1])
    /\ chain' = Append(chain, TRUE)
    /\ UNCHANGED <<agent, status, told, steer, handed>>

(* deliverNow, for the first call in the chain.                            *)
Delivering == chain # <<>> /\ steer = NoSteer

DeliverNothing ==
    /\ Delivering /\ pending = {}
    /\ chain' = Tail(chain)
    /\ UNCHANGED <<agent, status, told, steer, count, handed>>

DeliverDrops ==
    /\ Delivering /\ pending # {} /\ Closed
    /\ Settle(pending, "dropped")
    /\ chain' = Tail(chain)
    /\ UNCHANGED <<agent, told, steer, count, handed>>

DeliverHolds ==
    /\ Delivering /\ pending # {} /\ ~Closed
    /\ ~reg \/ state = "paused"
    /\ chain' = Tail(chain)
    /\ UNCHANGED <<agent, status, told, steer, count, handed>>

(* Mutant: marked delivered before the steer.                              *)
SteerMarksFirst ==
    /\ Delivering /\ pending # {} /\ ~Closed /\ reg /\ state = "running"
    /\ steer' = [seqs |-> pending, pc |-> "sent"]
    /\ Settle(pending, "delivered")
    /\ UNCHANGED <<agent, told, chain, count, handed>>

DeliverSteers ==
    /\ Delivering /\ pending # {} /\ ~Closed /\ reg /\ state = "running"
    /\ steer' = [seqs |-> pending, pc |-> "sent"]
    /\ UNCHANGED <<agent, status, told, chain, count, handed>>

(* The bridge takes the steer, and the agent reads it.                     *)
SteerReachesAgent ==
    /\ steer.pc = "sent"
    /\ steer' = [steer EXCEPT !.pc = "taken"]
    /\ Tell(steer.seqs)
    /\ UNCHANGED <<agent, status, chain, count, handed>>

SteerReturns ==
    /\ steer.pc = "taken"
    /\ Settle(steer.seqs, "delivered")
    /\ steer' = NoSteer /\ chain' = Tail(chain)
    /\ UNCHANGED <<agent, told, count, handed>>

(* steer() threw (the turn has just ended, the bridge is unreachable):     *)
(* held until the next delivery.                                           *)
SteerThrows ==
    /\ steer.pc = "sent"
    /\ steer' = NoSteer /\ chain' = Tail(chain)
    /\ UNCHANGED <<agent, status, told, count, handed>>

(* So is what the agent has read when the answer to its steer is lost.     *)
SteerAnswerLost ==
    /\ steer.pc = "taken"
    /\ count.losses < MaxLosses /\ Counts([count EXCEPT !.losses = @ + 1])
    /\ steer' = NoSteer /\ chain' = Tail(chain)
    /\ UNCHANGED <<agent, status, told, handed>>

-----------------------------------------------------------------------------
(* driveTurn(withInbox(...)): a prompt takes all that is pending with it,  *)
(* which is marked delivered as it sets out.                               *)
DriveWithInbox ==
    /\ Settle(pending, "delivered")
    /\ prompts' = prompts \cup ({pending} \ {{}})
    /\ state' = "running"

(* Idle, or provisioned without a prompt: a turn when it is asked for.     *)
DeliverIdle ==
    /\ Delivering /\ pending # {} /\ ~Closed /\ reg /\ state \in {"idle", "provisioning"}
    /\ chain' = Tail(chain)
    /\ IF Head(chain) \/ pending \cap Waking # {}
       THEN DriveWithInbox
       ELSE UNCHANGED <<state, status, prompts>>
    /\ UNCHANGED <<from, ended, reg, told, cut, steer, count>>

(* The agent reads its prompt. A turn that fails after that may be retried *)
(* (resolveTurnFailure): the same text is sent again.                      *)
PromptReaches(b) ==
    /\ b \in prompts
    /\ Tell(b)
    /\ \/ prompts' = prompts \ {b} /\ UNCHANGED count
       \/ /\ count.retries < MaxRetries /\ Counts([count EXCEPT !.retries = @ + 1])
          /\ UNCHANGED prompts
    /\ UNCHANGED <<agent, status, chain, steer, cut>>

(* It throws before that and is not retried, or it waits behind a turn     *)
(* that is aborted: nobody puts its messages back.                         *)
PromptFails(b) ==
    /\ b \in prompts
    /\ prompts' = prompts \ {b} /\ cut' = cut \cup b
    /\ UNCHANGED <<agent, status, told, chain, steer, count>>

(* The fork or start returned; the agent may have no first prompt.         *)
Provisioned ==
    /\ ~reg /\ state = "provisioning"
    /\ reg' = TRUE
    /\ \/ DriveWithInbox
       \/ UNCHANGED <<state, status, prompts>>
    /\ UNCHANGED <<from, ended, told, cut, chain, steer, count>>

Prompt ==
    /\ reg
    /\ count.prompts < MaxPrompts /\ Counts([count EXCEPT !.prompts = @ + 1])
    /\ DriveWithInbox
    /\ UNCHANGED <<from, ended, reg, told, cut, chain, steer>>

(* The follower of the turn of a stopped agent settles it all the same.    *)
TurnEnds ==
    /\ state \in {"running", "aborted"}
    /\ state' = "idle" /\ ended' = TRUE
    /\ UNCHANGED <<from, reg, status, told, chain, steer, count, handed>>

Pause ==
    /\ reg /\ state \in {"running", "idle", "provisioning"}
    /\ count.pauses < MaxPauses /\ Counts([count EXCEPT !.pauses = @ + 1])
    /\ from' = state /\ state' = "paused"
    /\ UNCHANGED <<ended, reg, status, told, chain, steer, handed>>

(* resumeAgent ends with a delivery.                                       *)
Resume ==
    /\ reg /\ state = "paused"
    /\ state' = from
    /\ chain' = Append(chain, FALSE)
    /\ UNCHANGED <<from, ended, reg, status, told, steer, count, handed>>

(* stopAgent: a finished agent is released and keeps its state.            *)
Stop ==
    /\ ~Closed
    /\ state' = IF ended THEN state ELSE "aborted"
    /\ ended' = TRUE /\ reg' = FALSE
    /\ UNCHANGED <<from, status, told, chain, steer, count, handed>>

(* A crash, and rehydrate: open agents come back (a running turn is        *)
(* followed by catch-up), and whoever has pending messages gets a delivery *)
(* (rehydrate() returns before that when it finds nobody to bring back).   *)
(* A prompt goes down with the daemon, or the bridge has taken it.         *)
Restart ==
    /\ count.restarts < MaxRestarts /\ Counts([count EXCEPT !.restarts = @ + 1])
    /\ \/ pending # {} /\ chain' = <<FALSE>>
       \/ (pending = {} \/ Closed) /\ chain' = <<>>
    /\ steer' = NoSteer
    /\ prompts' \in SUBSET prompts /\ cut' = cut \cup UNION (prompts \ prompts')
    /\ UNCHANGED <<agent, status, told>>

-----------------------------------------------------------------------------
Deliver == DeliverNothing \/ DeliverDrops \/ DeliverHolds \/ DeliverSteers \/ DeliverIdle
SteerStep == SteerReachesAgent \/ SteerReturns \/ SteerThrows \/ SteerAnswerLost
PromptStep == \E b \in prompts : PromptReaches(b) \/ PromptFails(b)

Next ==
    \/ \E m \in Messages : Queue(m)
    \/ OperatorDelivers \/ Deliver \/ SteerStep \/ PromptStep
    \/ Provisioned \/ Prompt \/ TurnEnds \/ Pause \/ Resume \/ Stop \/ Restart

Spec == Init /\ [][Next]_vars

(* Scheduled deliveries run, steers and prompts return or throw, forks and *)
(* turns end.                                                              *)
Fairness == /\ WF_vars(Deliver) /\ WF_vars(SteerReachesAgent) /\ WF_vars(SteerStep)
            /\ WF_vars(PromptStep)
            /\ WF_vars(Provisioned) /\ WF_vars(TurnEnds)

FairSpec == Spec /\ Fairness

-----------------------------------------------------------------------------
(* Every variable has its type.                                            *)
TypeOK ==
    /\ state \in {"provisioning", "running", "idle", "paused", "aborted"}
    /\ from \in {"provisioning", "running", "idle"}
    /\ ended \in BOOLEAN /\ reg \in BOOLEAN
    /\ status \in [Messages -> {"none", "pending", "delivered", "dropped"}]
    /\ told \in [Messages -> Nat]
    /\ chain \in Seq(BOOLEAN)
    /\ steer \in [seqs : SUBSET Messages, pc : {"none", "sent", "taken"}]
    /\ prompts \subseteq SUBSET Messages /\ cut \subseteq Messages
    /\ count \in [prompts : 0 .. MaxPrompts, pauses : 0 .. MaxPauses,
                  delivers : 0 .. MaxDeliver, restarts : 0 .. MaxRestarts,
                  losses : 0 .. MaxLosses, retries : 0 .. MaxRetries]

(* A prompt has it, or took it along when it failed or a crash cut it off. *)
Handed(m) == m \in UNION prompts \/ m \in cut

(* What the ledger calls delivered the agent has read, whatever a steer, a *)
(* prompt, a stop and a crash do to each other; or a prompt has it, or it  *)
(* went down with one (nothing else may lose a message).                   *)
DeliveredWasTold == \A m \in Messages : status[m] = "delivered" => told[m] > 0 \/ Handed(m)

(* Messages reach the agent in the order they were queued: none is still   *)
(* unread when a later one has been read, but for those a prompt took.     *)
ToldInOrder ==
    \A m, k \in Messages :
        m < k /\ told[k] > 0 => told[m] > 0 \/ status[m] = "dropped" \/ Handed(m)

(* What the ledger says of a delivery is what the agent has read.          *)
ToldAsRecorded == TypeOK /\ DeliveredWasTold /\ ToldInOrder

(* Deliveries of the chain alone, whatever pauses, stops, failed steers    *)
(* and failed prompts come between, tell the agent each message at most    *)
(* once (a prompt, a restart, a lost answer or a retried turn may have it  *)
(* told again: ToldOnce, below).                                           *)
Undisturbed == count.prompts = 0 /\ count.restarts = 0 /\ count.losses = 0 /\ count.retries = 0
ChainTellsOnce ==
    Undisturbed => \A m \in Messages : told[m] <= 1

(* What is promised of an inbox (notify.ts:159-226).                         *)
InboxKeepsItsWord == ToldAsRecorded /\ ChainTellsOnce

(* A message as its sender sees it, and its reader: a steer or a prompt that *)
(* is on its way may still be read when the agent is stopped.                *)
Standing(m) ==
    CASE told[m] > 0 -> "read"
      [] told[m] = 0 /\ m \in UNION prompts -> "handed"
      [] told[m] = 0 /\ m \in cut \ UNION prompts -> "lost"
      [] OTHER -> CASE status[m] = "none" -> "unsent"
                    [] status[m] = "dropped" -> "dropped"
                    [] OTHER -> "waiting"

OnItsWay == steer.pc = "sent" \/ prompts # {}
Reader == IF ~Closed THEN "open" ELSE IF OnItsWay THEN "closing" ELSE "closed"

(* Messages leave the inbox in their order. Every one is read, or dropped    *)
(* when its reader is closed, which then takes nothing any more; only what   *)
(* was handed to a prompt may be read late or lost (notify.ts:159-226).      *)
Promise == INSTANCE Mailbox
           WITH standing <- [m \in Messages |-> Standing(m)], reader <- Reader
ImplementsMailbox == Promise!Spec

(* A paused agent is given nothing new: what it reads while it is frozen   *)
(* was on its way before the pause.                                        *)
NothingSentToPaused ==
    [][state = "paused" /\ state' = "paused" /\ steer = NoSteer /\ prompts = {}
         => steer' = NoSteer /\ prompts' = {} /\ told' = told]_vars

-----------------------------------------------------------------------------
(* What the comments and the docs say.                                     *)

(* "take everything pending and return the prompt with it prepended        *)
(* (marking it delivered), so a notification that arrived while the agent  *)
(* was idle reaches it with its next turn" (notify.ts:216-218): what is    *)
(* marked delivered the agent has read, or its prompt is on its way.       *)
MarkedReachesIt ==
    \A m \in Messages : status[m] = "delivered" => told[m] > 0 \/ m \in UNION prompts

(* "Deliveries to one agent run one at a time, so nothing is delivered     *)
(* twice" (notify.ts).                                                     *)
ToldOnce == \A m \in Messages : told[m] <= 1

(* "stopped or lost: Dropped" (docs, coordination.mdx).                    *)
ClosedDrops ==
    \A m \in Messages : status[m] = "pending" /\ Closed ~> status[m] # "pending"

(* "idle: with wake: true it starts a new turn" (docs, coordination.mdx).  *)
WakeDelivers ==
    \A m \in Waking : status[m] = "pending" /\ reg /\ state = "idle"
        ~> status[m] # "pending" \/ state # "idle" \/ ~reg
=============================================================================
