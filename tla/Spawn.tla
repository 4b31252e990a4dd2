------------------------------- MODULE Spawn -------------------------------
(***************************************************************************)
(* engine/spawn.ts: a child is accepted at once and provisioned in the     *)
(* background: it waits for its dependencies (waitfor.ts, in WaitRegime),  *)
(* for one of the daemon's slots (admission.ts, here by its abstract       *)
(* specification), for its parent to be resumed (hold.ts) and for its turn *)
(* at the parent (fork-lock.ts), is forked, and joins the run.  Parents    *)
(* are paused, resumed and stopped meanwhile, children are stopped before  *)
(* they exist, and the daemon may be killed at any step.                   *)
(*                                                                         *)
(* Every run has a spawnDepth, in its spec, a child's spec has none, and   *)
(* every child has a prompt; a registered agent that is not paused is      *)
(* `running'.  maxAgents is passed on exactly as spawnDepth is.            *)
(* row[a].cap is no column: it remembers for the property how deep the     *)
(* budget that a's lineage was last given reaches.                         *)
(***************************************************************************)
EXTENDS Integers, Sequences, FiniteSets

CONSTANTS Agents,                    \* the children
          Root,                      \* the run's first agent, provisioned
          Budget,                    \* its spawnDepth
          Others,                    \* spawns of other runs
          ADMISSION_CONCURRENCY, MAX_NOT_RUNNING_RETRIES,
          Mixes                      \* bounds: see ops

Bounds == [taken : SUBSET Others, overrides : SUBSET Nat, pauses : Nat, stops : Nat, restarts : Nat]

ASSUME SpawnAssumption ==
    /\ IsFiniteSet(Agents) /\ IsFiniteSet(Others) /\ Root \notin Agents
    /\ ADMISSION_CONCURRENCY \in Nat \ {0} /\ MAX_NOT_RUNNING_RETRIES \in Nat
    /\ Budget \in Nat /\ Cardinality(Others) <= ADMISSION_CONCURRENCY
    /\ Mixes \subseteq Bounds

VARIABLES
    row,        \* the agents table
    box,        \* each agent's sandbox, and the spawn depth in its environment
    orphan,     \* parents at which a fork still runs that a dead daemon started
    registry,   \* the agents with an SDK handle
    call,       \* provisionChild() of each child: its step, options and locals
    slot,       \* admission: see AdmissionSlots
    forkQueue,  \* fork-lock.ts: the forks queued at each parent
    cmd,        \* the command that holds each agent's lock
    stray,      \* history: agents whose sandbox could not be closed
    ops         \* bounds: the slots others have taken for good, the spawnDepths
                \* a request may ask for, the commands and restarts left

daemon == <<registry, call, slot, forkQueue, cmd>>
vars == <<row, box, orphan, daemon, stray, ops>>

All == Agents \cup {Root}
Slots == INSTANCE AdmissionSlots WITH Agents <- Agents \cup Others, status <- slot

parent(c) == row[c].parent
isCancelled(c) == row[c].ended
hasPausedAncestor(c) == \E a \in row[c].above : row[a].state = "paused"
TERMINAL == {"failed", "aborted", "lost"}

NoRow == [state |-> "none", parent |-> Root, above |-> {}, budget |-> 0, cap |-> 0, wait |-> FALSE,
          provisioned |-> FALSE, ended |-> FALSE, released |-> FALSE]
NoBox == [is |-> "none", depth |-> 0]
NoCall == [at |-> "off", budget |-> 0, held |-> FALSE, retries |-> 0]

Init ==
    /\ row = [a \in All |-> IF a = Root
                THEN [NoRow EXCEPT !.state = "running", !.budget = Budget, !.cap = Budget,
                                !.provisioned = TRUE]
                ELSE NoRow]
    /\ box = [a \in All |-> IF a = Root THEN [is |-> "running", depth |-> Budget] ELSE NoBox]
    /\ orphan = {} /\ stray = {} /\ registry = {Root}
    /\ call = [c \in Agents |-> NoCall]
    /\ forkQueue = [a \in All |-> <<>>]
    /\ cmd = [a \in All |-> "none"]
    /\ ops \in Mixes
    /\ slot = [a \in Agents \cup Others |-> IF a \in ops.taken THEN "owner" ELSE "outside"]

(* agent.ended and its fold.                                               *)
Ended(r, state) == [r EXCEPT !.state = state, !.ended = TRUE]

-----------------------------------------------------------------------------
(* The synchronous half, spawnAgent().                                     *)

AskForSlot(c) == Slots!Enter(c) \/ Slots!Queue(c)

(* The child's row, when its parent p has the budget v or is given it.     *)
NewRow(p, v, wait) ==
    [NoRow EXCEPT !.state = IF wait THEN "spawning" ELSE "provisioning",
                  !.parent = p, !.above = row[p].above \cup {p},
                  !.budget = v - 1, !.wait = wait,
                  !.cap = IF v = row[p].budget THEN row[p].cap
                          ELSE Cardinality(row[p].above) + v]

(* parent.spawn() is given the parent's budget; the SDK takes one off.     *)
SpawnBudget(p, v) == v

(* The row is written, and provisionChild() runs up to its first await: a  *)
(* wait, or admission.                                                     *)
Spawn(c, p, v, wait) ==
    /\ row[c].state = "none" /\ p \in registry
    /\ row' = [row EXCEPT ![c] = NewRow(p, v, wait)]
    /\ call' = [call EXCEPT ![c] = [NoCall EXCEPT !.at = IF wait THEN "wait" ELSE "slot",
                                                  !.budget = SpawnBudget(p, v)]]
    /\ IF wait THEN UNCHANGED slot ELSE AskForSlot(c)
    /\ UNCHANGED <<box, orphan, registry, forkQueue, cmd, stray, ops>>

-----------------------------------------------------------------------------
(* provisionChild(), from await to await.                                  *)

Return(c) == call' = [call EXCEPT ![c] = NoCall]
Goto(c, at) == call' = [call EXCEPT ![c].at = at]

(* waitForRegime() returns.                                                *)
WaitCancelled(c) ==
    /\ call[c].at = "wait" /\ isCancelled(c)
    /\ Return(c)
    /\ UNCHANGED <<row, box, orphan, registry, slot, forkQueue, cmd, stray, ops>>

WaitFails(c) ==
    /\ call[c].at = "wait" /\ ~isCancelled(c)
    /\ Return(c)
    /\ row' = [row EXCEPT ![c] = Ended(@, "failed")]
    /\ UNCHANGED <<box, orphan, registry, slot, forkQueue, cmd, stray, ops>>

WaitResolves(c) ==
    /\ call[c].at = "wait" /\ ~isCancelled(c)
    /\ row' = [row EXCEPT ![c].state = "provisioning"]
    /\ Goto(c, "slot") /\ AskForSlot(c)
    /\ UNCHANGED <<box, orphan, registry, forkQueue, cmd, stray, ops>>

(* acquireAdmission() returns without a slot: the child is ended, whether  *)
(* it has been stopped or not.                                             *)
AdmissionTimesOut(c) ==
    /\ call[c].at = "slot" /\ Slots!Refuse(c)
    /\ Return(c)
    /\ row' = [row EXCEPT ![c] = Ended(@, "failed")]
    /\ UNCHANGED <<box, orphan, registry, forkQueue, cmd, stray, ops>>

(* The catch block, after the finally that releases the slot.              *)
Throws(c) ==
    /\ Return(c) /\ Slots!Leave(c)
    /\ row' = IF isCancelled(c) THEN row ELSE [row EXCEPT ![c] = Ended(@, "failed")]
    /\ UNCHANGED <<orphan, registry, cmd, ops>>

ReturnsNull(c) ==
    /\ Return(c) /\ Slots!Leave(c)
    /\ UNCHANGED <<row, box, orphan, registry, cmd, stray, ops>>

(* forkFromParent(): the parent is looked up and the fork queued.          *)
QueueFork(c) ==
    \/ /\ parent(c) \notin registry
       /\ Throws(c) /\ UNCHANGED <<box, forkQueue, stray>>
    \/ /\ parent(c) \in registry
       /\ Goto(c, "queued")
       /\ forkQueue' = [forkQueue EXCEPT ![parent(c)] = Append(@, c)]
       /\ UNCHANGED <<row, box, orphan, registry, slot, cmd, stray, ops>>

(* The top of its loop: cancelled, held while the parent is paused, or on  *)
(* to the fork.                                                            *)
Hold(c) ==
    /\ ~isCancelled(c) /\ row[parent(c)].state = "paused"
    /\ call' = [call EXCEPT ![c].at = "hold", ![c].held = TRUE]
    /\ row' = [row EXCEPT ![c].state = "spawning"]
    /\ UNCHANGED <<box, orphan, registry, slot, cmd, stray, ops>>

LoopTop(c) ==
    /\ \/ call[c].at = "slot" /\ slot[c] = "owner"
       \/ call[c].at = "sleep"
    /\ \/ isCancelled(c) /\ ReturnsNull(c) /\ UNCHANGED forkQueue
       \/ Hold(c) /\ UNCHANGED forkQueue
       \/ ~isCancelled(c) /\ row[parent(c)].state # "paused" /\ QueueFork(c)

(* waitUntilNotPaused() returns.                                           *)
HoldEnds(c) ==
    /\ call[c].at = "hold" /\ row[parent(c)].state # "paused"
    /\ \/ isCancelled(c) /\ ReturnsNull(c) /\ UNCHANGED forkQueue
       \/ ~isCancelled(c) /\ QueueFork(c)

(* withParentForkLock(): the forks before this one have settled.           *)
ForkStarts(c) ==
    /\ call[c].at = "queued" /\ Head(forkQueue[parent(c)]) = c
    /\ Goto(c, "forking")
    /\ UNCHANGED <<row, box, orphan, registry, slot, forkQueue, cmd, stray, ops>>

(* Mutant: a fork that has settled keeps the lock.                         *)
StayInQueue(c) == forkQueue' = forkQueue

(* The fork settled, well or badly: the next one's turn.                   *)
LeaveQueue(c) == forkQueue' = [forkQueue EXCEPT ![parent(c)] = Tail(@)]

(* Alineo.spawn() refuses without a budget (validation.ts).                *)
Refused(c) == call[c].budget <= 0

(* The provider has copied the sandbox of the parent.                      *)
Forked(c) ==
    /\ call[c].at = "forking" /\ ~Refused(c)
    /\ box[parent(c)].is = "running"
    /\ Goto(c, "copied")
    /\ box' = [box EXCEPT ![c] = [is |-> "running", depth |-> call[c].budget - 1]]
    /\ UNCHANGED <<row, orphan, registry, slot, forkQueue, cmd, stray, ops>>

(* A sandbox is closed, or close() fails, and nobody tries again.          *)
CloseQuietly(a) ==
    \/ box' = [box EXCEPT ![a] = NoBox] /\ UNCHANGED stray
    \/ stray' = stray \cup {a} /\ UNCHANGED box

Forks(c) == call[c].at \in {"forking", "copied"}

(* Alineo.spawn() throws: it refuses, or the provider fails for a reason   *)
(* of its own, a closed parent sandbox among them, or what is set up in    *)
(* the copy fails, which is closed.                                        *)
ForkFails(c) ==
    /\ Forks(c)
    /\ IF call[c].at = "copied" THEN CloseQuietly(c) ELSE UNCHANGED <<box, stray>>
    /\ Throws(c) /\ LeaveQueue(c)

(* The provider will not fork a paused sandbox: hold if the row says so    *)
(* too, or try again in three seconds, a few times.                        *)
ForkNotRunning(c) ==
    /\ call[c].at = "forking" /\ ~Refused(c)
    /\ box[parent(c)].is = "paused"
    /\ LeaveQueue(c)
    /\ IF row[parent(c)].state = "paused"
       THEN (isCancelled(c) /\ ReturnsNull(c)) \/ Hold(c)
       ELSE IF call[c].retries = MAX_NOT_RUNNING_RETRIES
       THEN Throws(c) /\ UNCHANGED <<box, stray>>
       ELSE /\ call' = [call EXCEPT ![c].at = "sleep", ![c].retries = @ + 1]
            /\ UNCHANGED <<row, box, orphan, registry, slot, cmd, stray, ops>>

(* Mutant: a child stopped while its fork was in flight joins.             *)
JoinAnyway(c) ==
    /\ registry' = registry \cup {c}
    /\ call' = [call EXCEPT ![c] = [NoCall EXCEPT !.at = "inject"]]
    /\ row' = [row EXCEPT ![c].provisioned = TRUE]
    /\ UNCHANGED cmd

(* Registered and recorded; its inputs, if it waited for any, are written. *)
Join(c) ==
    /\ ~isCancelled(c)
    /\ registry' = registry \cup {c}
    /\ call' = [call EXCEPT ![c] = [NoCall EXCEPT !.at = "inject"]]
    /\ row' = [row EXCEPT ![c].provisioned = TRUE,
                          ![c].state = IF call[c].held THEN "provisioning" ELSE @]
    /\ UNCHANGED cmd

(* Stopped while its fork was in flight: close it.  A child that was held  *)
(* is said to be provisioning again before anybody looks.                  *)
Discard(c) ==
    /\ isCancelled(c)
    /\ call' = [call EXCEPT ![c] = [NoCall EXCEPT !.at = "closing"]]
    /\ row' = [row EXCEPT ![c].state = IF call[c].held THEN "provisioning" ELSE @]
    /\ UNCHANGED <<registry, cmd>>

(* The bridge in the copy is ready, whatever has become of the parent.     *)
ForkReturns(c) ==
    /\ call[c].at = "copied"
    /\ Join(c) \/ Discard(c)
    /\ LeaveQueue(c) /\ Slots!Leave(c)
    /\ UNCHANGED <<box, orphan, stray, ops>>

Closed(c) ==
    /\ call[c].at = "closing"
    /\ Return(c) /\ CloseQuietly(c)
    /\ row' = [row EXCEPT ![c].released = TRUE]
    /\ UNCHANGED <<orphan, registry, slot, forkQueue, cmd, ops>>

(* The first turn, or the pause that reached an ancestor above its parent  *)
(* (pauseAgent, under the agent's lock).                                   *)
JoinPause(c) ==
    /\ call[c].at = "inject" /\ Return(c)
    /\ hasPausedAncestor(c) /\ c \in registry /\ cmd[c] = "none"
    /\ cmd' = [cmd EXCEPT ![c] = "pause"]
    /\ box' = [box EXCEPT ![c].is = "paused"]
    /\ UNCHANGED <<row, orphan, registry, slot, forkQueue, stray, ops>>

FirstTurn(c) ==
    /\ call[c].at = "inject" /\ Return(c)
    /\ ~hasPausedAncestor(c) \/ c \notin registry \/ cmd[c] # "none"
    /\ row' = IF c \in registry THEN [row EXCEPT ![c].state = "running"] ELSE row
    /\ UNCHANGED <<box, orphan, registry, slot, forkQueue, cmd, stray, ops>>

ProvisionStep(c) ==
    \/ WaitCancelled(c) \/ WaitFails(c) \/ WaitResolves(c)
    \/ AdmissionTimesOut(c) \/ LoopTop(c) \/ HoldEnds(c) \/ ForkStarts(c)
    \/ Forked(c) \/ ForkFails(c) \/ ForkNotRunning(c) \/ ForkReturns(c)
    \/ Closed(c) \/ JoinPause(c) \/ FirstTurn(c)

-----------------------------------------------------------------------------
(* Commands, each under the lock of its agent.                             *)

Pause(a) ==
    /\ ops.pauses > 0 /\ ops' = [ops EXCEPT !.pauses = @ - 1]
    /\ a \in registry /\ cmd[a] = "none" /\ row[a].state = "running"
    /\ cmd' = [cmd EXCEPT ![a] = "pause"]
    /\ box' = [box EXCEPT ![a].is = "paused"]
    /\ UNCHANGED <<row, orphan, registry, call, slot, forkQueue, stray>>

PauseEnds(a) ==
    /\ cmd[a] = "pause" /\ cmd' = [cmd EXCEPT ![a] = "none"]
    /\ row' = [row EXCEPT ![a].state = "paused"]
    /\ UNCHANGED <<box, orphan, registry, call, slot, forkQueue, stray, ops>>

(* The sandbox runs, and then the row says so; the prompt of a child that  *)
(* joined the pause starts.                                                *)
Resume(a) ==
    /\ a \in registry /\ cmd[a] = "none" /\ row[a].state = "paused"
    /\ box' = [box EXCEPT ![a].is = "running"]
    /\ row' = [row EXCEPT ![a].state = "running"]
    /\ UNCHANGED <<orphan, daemon, stray, ops>>

(* stopAgent(): a child without a sandbox is cancelled on the spot.        *)
Cancel(c) ==
    /\ ops.stops > 0 /\ ops' = [ops EXCEPT !.stops = @ - 1]
    /\ row[c].state # "none" /\ ~row[c].ended /\ c \notin registry
    /\ row' = [row EXCEPT ![c] = Ended(@, "aborted")]
    /\ UNCHANGED <<box, orphan, daemon, stray>>

StopBegins(a) ==
    /\ ops.stops > 0 /\ ops' = [ops EXCEPT !.stops = @ - 1]
    /\ a \in registry /\ cmd[a] = "none" /\ ~row[a].ended
    /\ cmd' = [cmd EXCEPT ![a] = "stop"]
    /\ row' = [row EXCEPT ![a].state = "aborted"]
    /\ UNCHANGED <<box, orphan, registry, call, slot, forkQueue, stray>>

StopEnds(a) ==
    /\ cmd[a] = "stop" /\ cmd' = [cmd EXCEPT ![a] = "none"]
    /\ registry' = registry \ {a}
    /\ CloseQuietly(a)
    /\ row' = [row EXCEPT ![a] = Ended(@, "aborted")]
    /\ UNCHANGED <<orphan, call, slot, forkQueue, ops>>

Command(a) == Pause(a) \/ PauseEnds(a) \/ Resume(a) \/ StopBegins(a) \/ StopEnds(a)

-----------------------------------------------------------------------------
(* kill -9, and rehydrate().  Sandboxes that nobody registers are not      *)
(* followed any further (ops/leaks.ts sweeps them); a fork that was in     *)
(* flight goes on at the provider.                                         *)

Live(a) == row[a].state \notin TERMINAL \cup {"none"} /\ ~row[a].released
Known == {a \in All : Live(a) /\ row[a].provisioned}
PreFork == {c \in Agents : Live(c) /\ ~row[c].provisioned}

(* reattachOne() of each agent that has a sandbox: it is back as it was,   *)
(* or, unless it is paused, with a bridge that was started again and knows *)
(* the spawnDepth of its spec only, or it is lost.                         *)
Reattached(back, again) ==
    /\ registry' = back
    /\ box' = [a \in All |-> IF a \notin back THEN NoBox
                 ELSE [is |-> IF row[a].state = "paused" THEN "paused" ELSE "running",
                       depth |-> IF a \in again \ {Root} THEN 0 ELSE box[a].depth]]

(* retryProvision() of each agent without a sandbox, up to its first await *)
(* (a wait, or admission), with the persisted budget as the parent's.      *)
Retried(back) == {c \in PreFork : parent(c) \in back}

Retry(retried) ==
    LET asking == {c \in retried : ~row[c].wait}
    IN  /\ call' = [c \in Agents |-> IF c \notin retried THEN NoCall
                      ELSE [NoCall EXCEPT !.at = IF row[c].wait THEN "wait" ELSE "slot",
                                          !.budget = row[c].budget]]
        /\ \E got \in SUBSET asking :
             /\ got = asking \/ Cardinality(got \cup ops.taken) = ADMISSION_CONCURRENCY
             /\ Cardinality(got \cup ops.taken) <= ADMISSION_CONCURRENCY
             /\ slot' = [c \in DOMAIN slot |-> IF c \in got \cup ops.taken THEN "owner"
                            ELSE IF c \in asking THEN "queued" ELSE "outside"]

Restart ==
    /\ ops.restarts > 0 /\ ops' = [ops EXCEPT !.restarts = @ - 1]
    /\ orphan' = orphan \cup {parent(c) : c \in {d \in Agents : call[d].at = "forking"}}
    /\ \E back \in SUBSET Known : \E again \in SUBSET {a \in back : row[a].state # "paused"} :
          /\ Reattached(back, again)
          /\ Retry(Retried(back))
          /\ row' = [a \in All |-> IF a \in (Known \ back) \cup (PreFork \ Retried(back))
                                  THEN Ended(row[a], "lost") ELSE row[a]]
    /\ forkQueue' = [a \in All |-> <<>>]
    /\ cmd' = [a \in All |-> "none"] /\ stray' = {}

OrphanEnds(p) ==
    /\ p \in orphan /\ orphan' = orphan \ {p}
    /\ UNCHANGED <<row, box, daemon, stray, ops>>

Next ==
    \/ \E c \in Agents : ProvisionStep(c) \/ Cancel(c)
    \/ \E c \in Agents, p \in All, wait \in BOOLEAN :
          \E v \in {row[p].budget} \cup ops.overrides : Spawn(c, p, v, wait)
    \/ \E a \in All : Command(a) \/ OrphanEnds(a)
    \/ Restart

Spec == Init /\ [][Next]_vars

(* The network calls, the admission timer, the three seconds between two   *)
(* tries and the commands in progress come to an end; a wait, a pause and  *)
(* the operator need not.                                                  *)
FairSpec ==
    /\ Spec
    /\ \A c \in Agents :
          /\ WF_vars(LoopTop(c)) /\ WF_vars(AdmissionTimesOut(c))
          /\ WF_vars(HoldEnds(c)) /\ WF_vars(ForkStarts(c))
          /\ WF_vars(Forked(c) \/ ForkFails(c) \/ ForkNotRunning(c) \/ ForkReturns(c))
          /\ WF_vars(Closed(c)) /\ WF_vars(JoinPause(c) \/ FirstTurn(c))
    /\ \A a \in All : WF_vars(PauseEnds(a)) /\ WF_vars(StopEnds(a))

-----------------------------------------------------------------------------
Rows == [state : {"none", "spawning", "provisioning", "running", "paused"} \cup TERMINAL,
         parent : All, above : SUBSET All, budget : Int, cap : Nat, wait : BOOLEAN,
         provisioned : BOOLEAN, ended : BOOLEAN, released : BOOLEAN]
Boxes == [is : {"none", "running", "paused"}, depth : Nat]
Calls == [at : {"off", "wait", "slot", "hold", "queued", "forking", "copied", "sleep",
               "closing", "inject"},
          budget : Int, held : BOOLEAN, retries : 0 .. MAX_NOT_RUNNING_RETRIES]

(* Every variable has its type.                                            *)
TypeOK ==
    /\ row \in [All -> Rows]
    /\ box \in [All -> Boxes]
    /\ orphan \subseteq All /\ registry \subseteq All /\ stray \subseteq All
    /\ call \in [Agents -> Calls]
    /\ slot \in [Agents \cup Others -> {"outside", "queued", "owner", "refused", "left"}]
    /\ forkQueue \in [All -> Seq(Agents)]
    /\ cmd \in [All -> {"none", "pause", "stop"}]
    /\ ops \in Bounds

(* Two children of one parent are never forked at the same time by one     *)
(* daemon, and at most ADMISSION_CONCURRENCY forks run in all: each has a  *)
(* slot of its own.                                                        *)
ForksAreSerialized ==
    LET forking == {c \in Agents : Forks(c)}
    IN  /\ \A c, d \in forking : parent(c) = parent(d) => c = d
        /\ forking \subseteq Slots!Owners
        /\ Cardinality(Slots!Owners) <= ADMISSION_CONCURRENCY

(* A child that ended before its fork returned is never registered, and no *)
(* sandbox is left to it when provisionChild() is done with it, but one    *)
(* that somebody tried to close in vain.                                   *)
CancelledNeverJoins ==
    \A c \in Agents : row[c].ended =>
        c \notin registry /\ (call[c].at = "off" => box[c] = NoBox \/ c \in stray)

(* No agent is deeper than the budget its lineage was last given allows,   *)
(* nor may it spawn deeper, however spawns, stops and restarts interleave. *)
DepthIsBounded ==
    \A c \in registry : Cardinality(row[c].above) + box[c].depth <= row[c].cap

(* Spawns race stops, pauses, each other and restarts: forks of one parent   *)
(* never overlap, a cancelled child stays away, and no tree grows deeper     *)
(* than it may.                                                              *)
SpawnsAreSafe == ForksAreSerialized /\ CancelledNeverJoins /\ DepthIsBounded

(* A spawn that is past its wait ends, one way or the other, unless its    *)
(* own parent is paused or a restart has put it back into its wait: not    *)
(* even the children of another paused parent, which keep their slots, can *)
(* hold it up for ever.                                                    *)
SpawnConcludes ==
    []<>(\A c \in Agents : call[c].at \in {"off", "wait"} \/ row[parent(c)].state = "paused")

-----------------------------------------------------------------------------
(* What comments and docs say.                                             *)

(* "already ended (stopped) - don't overwrite `aborted`" (spawn.ts:230).   *)
CancelledStaysAborted ==
    [][\A c \in Agents : row[c].ended /\ row[c].state = "aborted" => row'[c].state = "aborted"]_vars

(* "Held for the fork itself only" (spawn.ts:176): not for the time a      *)
(* parent is paused.                                                       *)
SlotOnlyForForks == \A c \in Agents : call[c].at = "hold" => slot[c] # "owner"

(* "Each child receives its parent's budget minus one" (docs,              *)
(* how-it-works.mdx), as its row says, retried after a crash or not.       *)
BudgetAsPromised == \A c \in registry : box[c].depth = row[c].budget

(* "alineod queues fork() calls per parent instead of racing them"         *)
(* (fork-lock.ts), also those that a boot retries.                         *)
ForkHasParentToItself == \A c \in Agents : call[c].at = "forking" => parent(c) \notin orphan
=============================================================================
