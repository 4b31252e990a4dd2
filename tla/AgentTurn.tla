------------------------------ MODULE AgentTurn ------------------------------
(***************************************************************************)
(* One agent of apps/alineod: its projection row, the turns the daemon     *)
(* follows on it (engine/stream.ts), the failure policy                    *)
(* (engine/supervision.ts), the operator commands stop, pause and resume   *)
(* (engine/lifecycle.ts, engine/pause.ts) under the per-agent lock         *)
(* (engine/agent-lock.ts), and a daemon crash followed by rehydration      *)
(* (engine/rehydrate.ts).                                                  *)
(*                                                                         *)
(* An action is one stretch of code between two awaits.  `row', `handle'   *)
(* and `counters' are SQLite state and survive a crash; everything else of *)
(* the daemon is process memory.  The sandbox and the Pi bridge inside it  *)
(* outlive the daemon: the bridge works through the prompts it was sent    *)
(* one at a time, in order.                                                *)
(***************************************************************************)
EXTENDS Naturals, Sequences, FiniteSets, SequencesExt

CONSTANTS Followers,               \* slots for concurrent turn followers
          MAX_UNREACHABLE_PROBES,
          MaxConsecutiveFailures,
          Mixes                    \* what a behaviour starts from: the spec's policy, whether
                                   \* the agent was spawned with a prompt, TRANSIENT_RETRY_MAX,
                                   \* and bounds on what operators ask for and what is lost

(* A prompt in the bridge whose stream nobody reads any more.              *)
Orphan == "orphan"

MixOfTurns == [onFailure : {"ask", "retry", "fail"}, maxRetries : Nat, transientMax : Nat,
               prompt : BOOLEAN, ops : Nat, faults : Nat]

ASSUME PolicyAssumption ==
    /\ Mixes \subseteq MixOfTurns
    /\ MAX_UNREACHABLE_PROBES \in Nat \ {0} /\ MaxConsecutiveFailures \in Nat \ {0}
    /\ IsFiniteSet(Followers) /\ Orphan \notin Followers

VARIABLES
    mix,        \* the mix of this behaviour; ops and faults count down
    row,        \* agents table: state, outcome, ended_at, paused_from, released_at,
                \* and whether sandbox_id names the container in use
    handle,     \* handles table: "pending" or the settled outcome
    counters,   \* supervision_counters: consecutive failures, turn retries
    up,         \* is the daemon process running
    live,       \* registry.get(agentId) is defined
    driving,    \* the `driving' set holds the agent
    catchingUp, \* the `catchingUp' set holds the agent
    backoff,    \* `backingOff' flag, pending timers, and is one in retryTimers
    transient,  \* transientAttempts
    fol,        \* running driveTurn and catchUpTurn calls
    cmd,        \* the command holding the agent lock, and what it read first
    first,      \* the prompt provisionChild still has to start
    box,        \* the container
    bridge,     \* is the bridge process up
    piQueue     \* prompts the bridge holds, the head being worked on

durable == <<row, handle, counters>>
turnVars == <<driving, catchingUp, backoff, transient, fol>>
boxVars == <<box, bridge, piQueue>>
vars == <<row, handle, counters, up, live, driving, catchingUp, backoff, transient,
          fol, cmd, first, box, bridge, piQueue, mix>>

NoFollower == [pc |-> "idle", res |-> "none", after |-> FALSE, misses |-> 0]
NoBackoff == [flag |-> FALSE, timers |-> 0, tracked |-> FALSE]
NoCmd == [op |-> "none", state |-> "none", ended |-> FALSE]

Orphaned(q, F) == [i \in DOMAIN q |-> IF q[i] \in F THEN Orphan ELSE q[i]]

(* A freshly provisioned agent, its first prompt about to be started.      *)
Init ==
    /\ mix \in Mixes
    /\ row = [state |-> "provisioning", outcome |-> "none", ended |-> FALSE,
              pausedFrom |-> "none", released |-> FALSE, current |-> TRUE]
    /\ handle = "pending"
    /\ counters = [failures |-> 0, retries |-> 0]
    /\ up = TRUE /\ live = TRUE
    /\ driving = FALSE /\ catchingUp = FALSE
    /\ backoff = NoBackoff /\ transient = 0
    /\ fol = [f \in Followers |-> NoFollower]
    /\ cmd = NoCmd
    /\ first = IF mix.prompt THEN "due" ELSE "started"
    /\ box = "running" /\ bridge = TRUE /\ piQueue = <<>>

-----------------------------------------------------------------------------
(* The projection's fold (state/projection.ts).                            *)

StateChanged(r, from, to) ==
    IF to = "paused" THEN [r EXCEPT !.state = to, !.pausedFrom = from]
                     ELSE [r EXCEPT !.state = to]

mapOutcomeToState(outcome) ==
    CASE outcome = "success" -> "done"
      [] outcome \in {"aborted", "lost"} -> outcome
      [] OTHER -> "failed"

Ended(r, outcome) ==
    [r EXCEPT !.state = mapOutcomeToState(outcome), !.outcome = outcome, !.ended = TRUE]

(* agent.ended settles a handle nothing settled before it.                 *)
SettleIfPending(h, outcome) == IF h = "pending" THEN outcome ELSE h

Released(r) == [r EXCEPT !.released = TRUE]

setState(r, to) == IF r.state = to THEN r ELSE StateChanged(r, r.state, to)

CLOSED_STATES == {"aborted", "lost"}
LIVE_STATES == {"provisioning", "running", "spawning", "paused", "blocked"}

isTurnActive == driving \/ catchingUp \/ backoff.flag

(* The slot a new follower takes; which one it is does not matter.         *)
Idle ==
    LET free == {f \in Followers : fol[f].pc = "idle"}
    IN  IF free = {} THEN {} ELSE {CHOOSE f \in free : TRUE}

Reachable == box = "running" /\ bridge

-----------------------------------------------------------------------------
(* Starting turns.                                                         *)

(* driveTurn up to its first await, on a registered agent: the row says    *)
(* running, the `driving' set holds the agent, and the prompt goes to the  *)
(* bridge if there is one.  r and q are the row and the bridge's queue as  *)
(* the caller leaves them.                                                 *)
driveTurn(f, r, q) ==
    /\ row' = setState(r, "running")
    /\ driving' = TRUE
    /\ fol' = [fol EXCEPT ![f] = [NoFollower EXCEPT !.pc = "stream"]]
    /\ piQueue' = IF bridge' THEN Append(q, f) ELSE q

(* catchUpTurn up to its first await, on a registered agent.               *)
catchUpTurn(f, after, isDriving) ==
    IF \/ ~after /\ handle # "pending"
       \/ isDriving \/ catchingUp \/ backoff.flag
    THEN fol' = [fol EXCEPT ![f] = NoFollower] /\ UNCHANGED catchingUp
    ELSE /\ fol' = [fol EXCEPT ![f] = [NoFollower EXCEPT !.pc = "poll", !.after = after]]
         /\ catchingUp' = TRUE

(* POST /agents/:id/prompt.                                                *)
Prompt(f) ==
    /\ up /\ live /\ ~catchingUp
    /\ mix.ops > 0 /\ mix' = [mix EXCEPT !.ops = @ - 1]
    /\ f \in Idle
    /\ UNCHANGED <<handle, counters, up, live, catchingUp, backoff, transient, cmd, first,
                   box, bridge>>
    /\ driveTurn(f, row, piQueue)

(* provisionChild's last lines: start the prompt the agent was spawned     *)
(* with, once its inputs are injected.                                     *)
FirstTurn(f) ==
    /\ up /\ live /\ first \in {"due", "unpaused"} /\ first' = "started"
    /\ f \in Idle
    /\ UNCHANGED <<handle, counters, up, live, catchingUp, backoff, transient, cmd,
                   box, bridge, mix>>
    /\ driveTurn(f, row, piQueue)

-----------------------------------------------------------------------------
(* The bridge and the stream that reads it (external).                     *)

(* Pi finishes the prompt at the head of its queue: the turn is good, or   *)
(* its last assistant message carries a provider error.                    *)
StreamEnds(f) ==
    /\ Reachable /\ piQueue # <<>> /\ Head(piQueue) = f
    /\ piQueue' = Tail(piQueue)
    /\ \E res \in {"ok", "transient", "permanent"} :
           fol' = [fol EXCEPT ![f].pc = "readDrive", ![f].res = res]
    /\ UNCHANGED <<durable, up, live, driving, catchingUp, backoff, transient, cmd, first,
                   box, bridge, mix>>

OrphanEnds ==
    /\ Reachable /\ piQueue # <<>> /\ Head(piQueue) = Orphan
    /\ piQueue' = Tail(piQueue)
    /\ UNCHANGED <<durable, up, live, turnVars, cmd, first, box, bridge, mix>>

(* The stream throws: the bridge refused the prompt, or the connection     *)
(* failed and the bridge works on unread.                                  *)
StreamThrows(f) ==
    /\ fol[f].pc = "stream"
    /\ fol' = [fol EXCEPT ![f].pc = "readDrive", ![f].res = "thrown"]
    /\ \/ \E i \in DOMAIN piQueue : piQueue[i] = f /\ piQueue' = RemoveAt(piQueue, i)
       \/ piQueue' = Orphaned(piQueue, {f})
    /\ UNCHANGED <<durable, up, live, driving, catchingUp, backoff, transient, cmd, first,
                   box, bridge, mix>>

(* Mutant: the hand-over to polling happens before `driving' is cleared.   *)
StreamLostStillDriving(f) ==
    /\ fol[f].pc = "stream"
    /\ driving' = FALSE
    /\ piQueue' = Orphaned(piQueue, {f})
    /\ catchUpTurn(f, TRUE, driving)
    /\ UNCHANGED <<durable, up, live, backoff, transient, cmd, first, box, bridge, mix>>

(* PromptTimeoutError or BridgeDisconnectedError: follow by polling.       *)
StreamLost(f) ==
    /\ fol[f].pc = "stream"
    /\ driving' = FALSE
    /\ piQueue' = Orphaned(piQueue, {f})
    /\ IF live THEN catchUpTurn(f, TRUE, FALSE)
               ELSE fol' = [fol EXCEPT ![f] = NoFollower] /\ UNCHANGED catchingUp
    /\ UNCHANGED <<durable, up, live, backoff, transient, cmd, first, box, bridge, mix>>

-----------------------------------------------------------------------------
(* Settling a turn.                                                        *)

(* Mutant: the retry budget is consulted before the breaker.               *)
DecisionRetriesFirst(code, hasMessage) ==
    IF code = "transient" /\ hasMessage /\ transient < mix.transientMax THEN "backoff"
    ELSE IF hasMessage /\ counters.retries < mix.maxRetries + 1 THEN "retry" ELSE "tripped"

(* resolveTurnFailure: a transient provider error is re-sent after a       *)
(* backoff, outside the policy; then the breaker; then onFailure.  A       *)
(* failure without a message to re-send holds the agent.                   *)
Decision(code, hasMessage) ==
    IF code = "transient" /\ hasMessage /\ transient < mix.transientMax THEN "backoff"
    ELSE IF counters.failures + 1 >= MaxConsecutiveFailures THEN "tripped"
    ELSE IF mix.onFailure = "fail" THEN "failed"
    ELSE IF mix.onFailure = "ask" \/ ~hasMessage THEN "ask"
    ELSE IF counters.retries + 1 <= mix.maxRetries THEN "retry" ELSE "exhausted"

(* recordConsecutiveFailure and recordTurnRetry.                           *)
CountFailure(d) ==
    [failures |-> counters.failures + (IF d = "backoff" THEN 0 ELSE 1),
     retries  |-> counters.retries + (IF d \in {"retry", "exhausted"} THEN 1 ELSE 0)]

(* deferRetry with a delay: retryTimers names the newest timer only.       *)
StartBackoff(b) == [flag |-> TRUE, timers |-> b.timers + 1, tracked |-> TRUE]

(* The turn failed: act on the decision.  A retry without delay re-enters  *)
(* driveTurn once this call's finally has run.                             *)
TurnFailed(f, code, hasMessage) ==
    LET d == Decision(code, hasMessage) IN
    /\ counters' = CountFailure(d)
    /\ transient' = IF d = "backoff" THEN transient + 1 ELSE transient
    /\ backoff' = IF d = "backoff" THEN StartBackoff(backoff) ELSE backoff
    /\ handle' = IF d = "failed" THEN "failed" ELSE handle
    /\ IF d = "retry" /\ live
       THEN driveTurn(f, row, piQueue)
       ELSE /\ row' = CASE d = "failed" -> Ended(row, "failed")
                        [] d \in {"tripped", "ask", "exhausted"} ->
                               StateChanged(row, row.state, "blocked")
                        [] OTHER -> row
            /\ fol' = [fol EXCEPT ![f] = NoFollower]
            /\ driving' = (driving /\ fol[f].pc = "readPoll")
            /\ UNCHANGED piQueue

(* recordTurnSuccess, handle.settled and agent.ended.                      *)
TurnSucceeded(f) ==
    /\ counters' = [failures |-> 0, retries |-> 0]
    /\ transient' = 0
    /\ handle' = "success"
    /\ row' = Ended(row, "success")
    /\ fol' = [fol EXCEPT ![f] = NoFollower]
    /\ driving' = (driving /\ fol[f].pc = "readPoll")
    /\ UNCHANGED <<backoff, piQueue>>

(* driveTurn after safeLastText.  A stream that threw is a success when    *)
(* the bridge still has text, and its error may read as a transient one.   *)
SettleDrive(f) ==
    /\ fol[f].pc = "readDrive"
    /\ UNCHANGED <<up, live, catchingUp, cmd, first, box, bridge, mix>>
    /\ \/ fol[f].res = "ok" /\ TurnSucceeded(f)
       \/ fol[f].res = "thrown" /\ Reachable /\ TurnSucceeded(f)
       \/ fol[f].res \in {"transient", "thrown"} /\ TurnFailed(f, "transient", TRUE)
       \/ fol[f].res \in {"permanent", "thrown"} /\ TurnFailed(f, "other", TRUE)

-----------------------------------------------------------------------------
(* catchUpTurn's polling loop.                                             *)

StopPolling(f) ==
    /\ fol' = [fol EXCEPT ![f] = NoFollower]
    /\ catchingUp' = FALSE

KeepPolling(f, misses) ==
    /\ fol' = [fol EXCEPT ![f].pc = "poll", ![f].misses = misses]
    /\ UNCHANGED catchingUp

(* probeTurn says `gone' for an agent that was stopped.                    *)
Gone(registered) == ~registered \/ row.state \in CLOSED_STATES

ProbeGone(f) ==
    /\ fol[f].pc = "poll" /\ Gone(live)
    /\ StopPolling(f)
    /\ UNCHANGED <<durable, up, live, driving, backoff, transient, cmd, first, boxVars, mix>>

(* A paused agent is not asked; the poll only starts its count afresh.     *)
ProbePaused(f) ==
    /\ fol[f].pc = "poll" /\ live /\ row.state = "paused"
    /\ fol[f].misses # 0
    /\ KeepPolling(f, 0)
    /\ UNCHANGED <<durable, up, live, driving, backoff, transient, cmd, first, boxVars, mix>>

ProbeAsk(f) ==
    /\ fol[f].pc = "poll" /\ ~Gone(live) /\ row.state # "paused"
    /\ fol' = [fol EXCEPT ![f].pc = "asked"]
    /\ UNCHANGED <<durable, up, live, driving, catchingUp, backoff, transient, cmd, first,
                   boxVars, mix>>

(* The loop is over: the checks before the last text is asked for.         *)
LoopEnds(f, res, registered) ==
    IF (~fol[f].after /\ handle # "pending") \/ Gone(registered)
    THEN StopPolling(f)
    ELSE /\ fol' = [fol EXCEPT ![f].pc = "readPoll", ![f].res = res]
         /\ UNCHANGED catchingUp

(* The bridge answers idle, answers streaming, or does not answer.         *)
ProbeAnswer(f) ==
    /\ fol[f].pc = "asked"
    /\ \/ Reachable /\ piQueue = <<>> /\ LoopEnds(f, "clean", live)
       \/ Reachable /\ piQueue # <<>> /\ KeepPolling(f, 0)
       \/ ~Reachable /\ fol[f].misses + 1 < MAX_UNREACHABLE_PROBES
             /\ KeepPolling(f, fol[f].misses + 1)
       \/ ~Reachable /\ fol[f].misses + 1 >= MAX_UNREACHABLE_PROBES
             /\ IF live THEN /\ fol' = [fol EXCEPT ![f].pc = "restarting"]
                             /\ UNCHANGED catchingUp
                        ELSE LoopEnds(f, "gaveUp", live)
    /\ UNCHANGED <<durable, up, live, driving, backoff, transient, cmd, first, boxVars, mix>>

(* Mutant: only an unreachable bridge uses up TURN_MAX_MS.                 *)
GiveUpUnreachable(f) ==
    /\ fol[f].pc = "asked"
    /\ ~Reachable /\ fol[f].misses + 1 < MAX_UNREACHABLE_PROBES
    /\ LoopEnds(f, "gaveUp", live)
    /\ UNCHANGED <<durable, up, live, driving, backoff, transient, cmd, first, boxVars, mix>>

(* The same answers after TURN_MAX_MS of unpaused polling.                 *)
GiveUp(f) ==
    /\ fol[f].pc = "asked"
    /\ \/ Reachable /\ piQueue # <<>>
       \/ ~Reachable /\ fol[f].misses + 1 < MAX_UNREACHABLE_PROBES
    /\ LoopEnds(f, "gaveUp", live)
    /\ UNCHANGED <<durable, up, live, driving, backoff, transient, cmd, first, boxVars, mix>>

(* restartBridge: a fresh bridge in the same container, or in a container  *)
(* restored from the last checkpoint, and a fresh handle in the registry.  *)
(* The row keeps the sandbox id it has.                                    *)
restartBridge ==
    /\ box \in {"running", "gone"}
    /\ box' = "running" /\ bridge' = TRUE
    /\ live' = TRUE

SameContainer(r) == [r EXCEPT !.current = @ /\ box # "gone"]

RestartBridge(f) ==
    /\ fol[f].pc = "restarting"
    /\ \/ /\ restartBridge /\ piQueue' = <<>>
          /\ row' = SameContainer(row)
          /\ KeepPolling(f, 0) \/ LoopEnds(f, "gaveUp", TRUE)
       \/ LoopEnds(f, "gaveUp", live) /\ UNCHANGED <<row, live, boxVars>>
    /\ UNCHANGED <<handle, counters, up, driving, backoff, transient, cmd, first, mix>>

(* catchUpTurn after safeLastText and safeTurnError.                       *)
SettlePoll(f) ==
    /\ fol[f].pc = "readPoll"
    /\ catchingUp' = FALSE
    /\ UNCHANGED <<up, live, cmd, first, box, bridge, mix>>
    /\ \/ Reachable /\ TurnSucceeded(f)
       \/ TurnFailed(f, "other", mix.prompt)
       \/ Reachable /\ fol[f].res = "clean" /\ TurnFailed(f, "transient", mix.prompt)

(* deferRetry's timer.                                                     *)
BackoffFires(f) ==
    /\ backoff.timers > 0
    /\ f \in Idle
    /\ backoff' = [flag |-> FALSE, timers |-> backoff.timers - 1, tracked |-> FALSE]
    /\ UNCHANGED <<handle, counters, up, live, catchingUp, cmd, first, box, bridge, mix>>
    /\ IF row.ended
       THEN transient' = 0 /\ UNCHANGED <<row, driving, fol, piQueue>>
       ELSE /\ UNCHANGED transient
            /\ IF live THEN driveTurn(f, row, piQueue) ELSE UNCHANGED <<row, driving, fol, piQueue>>

-----------------------------------------------------------------------------
(* Operator commands, one at a time under withAgentLock.                   *)

(* cancelBackoff clears the one timer retryTimers still names.             *)
cancelBackoff ==
    /\ backoff' = [flag |-> FALSE, tracked |-> FALSE,
                   timers |-> IF backoff.tracked THEN backoff.timers - 1 ELSE backoff.timers]
    /\ transient' = 0

Lock(op) == cmd' = [op |-> op, state |-> row.state, ended |-> row.ended]
Unlock == cmd' = NoCmd
LockFree == up /\ cmd = NoCmd

(* agent.close() and forget.                                               *)
Close ==
    /\ box' = "gone" /\ bridge' = FALSE /\ piQueue' = <<>>
    /\ live' = FALSE

(* stopAgent on an ended agent: close the sandbox, keep the outcome.       *)
ReleaseBegin ==
    /\ LockFree /\ row.ended /\ live
    /\ Lock("releasing")
    /\ cancelBackoff
    /\ UNCHANGED <<durable, up, live, driving, catchingUp, fol, first, boxVars, mix>>

ReleaseEnd ==
    /\ cmd.op = "releasing"
    /\ Close
    /\ row' = Released(row)
    /\ Unlock
    /\ UNCHANGED <<handle, counters, up, turnVars, first, mix>>

(* stopAgent on an agent that has not ended: `aborted' first, then abort   *)
(* the turn, close the sandbox, and only then agent.ended.                 *)
StopBegin ==
    /\ LockFree /\ ~row.ended /\ live
    /\ row' = setState(row, "aborted")
    /\ cancelBackoff
    /\ Lock(IF row.state = "paused" THEN "closing" ELSE "aborting")
    /\ UNCHANGED <<handle, counters, up, live, driving, catchingUp, fol, first, boxVars, mix>>

(* agent.abort() was answered, or threw: closeQuietly follows.             *)
StopAborted ==
    /\ cmd.op = "aborting"
    /\ cmd' = [cmd EXCEPT !.op = "closing"]
    /\ cancelBackoff
    /\ UNCHANGED <<durable, up, live, driving, catchingUp, fol, first, boxVars, mix>>

StopEnd ==
    /\ cmd.op = "closing"
    /\ Close
    /\ row' = Ended(row, "aborted")
    /\ handle' = SettleIfPending(handle, "aborted")
    /\ Unlock
    /\ UNCHANGED <<counters, up, turnVars, first, mix>>

(* pauseAgent: read the row, pause the container, write `paused'.          *)
PauseBegin ==
    /\ LockFree /\ row.state # "paused" /\ live
    /\ mix.ops > 0 /\ mix' = [mix EXCEPT !.ops = @ - 1]
    /\ Lock("pausing")
    /\ UNCHANGED <<durable, up, live, turnVars, first, boxVars>>

(* The same call, by provisionChild for the child of a paused ancestor:    *)
(* it leaves the first prompt to resumeAgent.                              *)
JoinPause ==
    /\ LockFree /\ first = "due" /\ live
    /\ IF row.state = "paused" THEN first' = "started" /\ UNCHANGED cmd
                               ELSE first' = "joined" /\ Lock("pausing")
    /\ UNCHANGED <<durable, up, live, turnVars, boxVars, mix>>

PauseEnd ==
    /\ cmd.op = "pausing"
    /\ Unlock
    /\ \/ /\ box # "gone"
          /\ box' = "frozen"
          /\ row' = StateChanged(row, cmd.state, "paused")
          /\ first' = IF first = "joined" THEN "started" ELSE first
       \/ /\ UNCHANGED <<box, row>>        \* 502: the pause failed
          /\ first' = IF first = "joined" THEN "unpaused" ELSE first
    /\ UNCHANGED <<handle, counters, up, live, turnVars, bridge, piQueue, mix>>

(* resumeAgent: thaw, restore paused_from, check the bridge, then follow   *)
(* or start whatever turn nothing else is following.                       *)
ResumeBegin ==
    /\ LockFree /\ row.state = "paused" /\ live
    /\ Lock("resuming")
    /\ UNCHANGED <<durable, up, live, turnVars, first, boxVars, mix>>

ResumeThawed ==
    /\ cmd.op = "resuming"
    /\ \/ /\ box # "gone"
          /\ box' = "running"
          /\ row' = StateChanged(row, "paused", row.pausedFrom)
          /\ cmd' = [cmd EXCEPT !.op = "checking", !.state = row.pausedFrom]
       \/ UNCHANGED <<box, row>> /\ Unlock   \* 502: the resume failed
    /\ UNCHANGED <<handle, counters, up, live, turnVars, first, bridge, piQueue, mix>>

ResumeChecked(f) ==
    /\ cmd.op = "checking"
    /\ f \in Idle
    /\ restartBridge
    /\ Unlock
    /\ LET q == IF Reachable THEN piQueue ELSE <<>>
           r == SameContainer(row) IN
       CASE cmd.state = "running" /\ ~isTurnActive ->
              /\ catchUpTurn(f, TRUE, driving)
              /\ piQueue' = q /\ row' = r
              /\ UNCHANGED driving
         [] cmd.state = "provisioning" /\ mix.prompt /\ handle = "pending" /\ ~isTurnActive ->
              driveTurn(f, r, q) /\ UNCHANGED catchingUp
         [] OTHER ->
              piQueue' = q /\ row' = r /\ UNCHANGED <<driving, catchingUp, fol>>
    /\ UNCHANGED <<handle, counters, up, backoff, transient, first, mix>>

ResumeBridgeLost ==
    /\ cmd.op = "checking" /\ ~Reachable
    /\ Unlock
    /\ IF cmd.ended
       THEN UNCHANGED <<row, handle>>
       ELSE row' = Ended(row, "lost") /\ handle' = SettleIfPending(handle, "lost")
    /\ UNCHANGED <<counters, up, live, turnVars, first, boxVars, mix>>

-----------------------------------------------------------------------------
(* Faults and recovery.                                                    *)

(* The bridge process dies with the prompts it held.                       *)
BridgeDies ==
    /\ bridge /\ mix.faults > 0
    /\ mix' = [mix EXCEPT !.faults = @ - 1]
    /\ bridge' = FALSE /\ piQueue' = <<>>
    /\ UNCHANGED <<durable, up, live, turnVars, cmd, first, box>>

(* The container is deleted, reaped or lost with its host.                 *)
BoxLost ==
    /\ box # "gone" /\ mix.faults > 0
    /\ mix' = [mix EXCEPT !.faults = @ - 1]
    /\ box' = "gone" /\ bridge' = FALSE /\ piQueue' = <<>>
    /\ UNCHANGED <<durable, up, live, turnVars, cmd, first>>

(* kill -9 of the daemon: only SQLite, the container and the bridge stay.  *)
Crash ==
    /\ up /\ mix.faults > 0
    /\ mix' = [mix EXCEPT !.faults = @ - 1]
    /\ up' = FALSE /\ live' = FALSE
    /\ driving' = FALSE /\ catchingUp' = FALSE
    /\ backoff' = NoBackoff /\ transient' = 0
    /\ fol' = [f \in Followers |-> NoFollower]
    /\ cmd' = NoCmd
    /\ first' = "started"
    /\ piQueue' = Orphaned(piQueue, Followers)
    /\ UNCHANGED <<durable, box, bridge>>

(* Mutant: every agent whose sandbox was not released is reconnected.      *)
ReconnectsStopped == ~row.released

(* rehydrate reconnects what is live, or finished with an open sandbox.    *)
Reconnectable ==
    /\ ~row.released
    /\ row.state \in LIVE_STATES \/ row.outcome \notin {"aborted", "lost"}

BootSkips ==
    /\ ~up /\ ~Reconnectable
    /\ up' = TRUE
    /\ UNCHANGED <<durable, live, turnVars, cmd, first, boxVars, mix>>

(* The container the row names does not exist (any more).                  *)
SandboxGone == box = "gone" \/ ~row.current

(* reattachOne: the bridge answers and keeps its prompts, or resume starts *)
(* a fresh one, in the container or in one restored from a checkpoint,     *)
(* whose id onContainerRestored writes to the row.                         *)
BootReattaches(f) ==
    /\ ~up /\ Reconnectable /\ row.state # "paused"
    /\ f \in Idle
    /\ up' = TRUE
    /\ restartBridge
    /\ \/ Reachable /\ ~SandboxGone /\ UNCHANGED piQueue
       \/ piQueue' = <<>>
    /\ row' = [row EXCEPT !.current = TRUE]
    /\ IF row.state = "running" THEN catchUpTurn(f, FALSE, FALSE)
                                ELSE UNCHANGED <<fol, catchingUp>>
    /\ UNCHANGED <<handle, counters, driving, backoff, transient, cmd, first, mix>>

(* reattachPaused: the bridge is not asked, the agent stays paused.  A     *)
(* restored container runs, and the row does not learn its id.             *)
BootReattachesPaused ==
    /\ ~up /\ Reconnectable /\ row.state = "paused"
    /\ up' = TRUE /\ live' = TRUE
    /\ IF SandboxGone THEN /\ box' = "running" /\ bridge' = TRUE /\ piQueue' = <<>>
                           /\ row' = [row EXCEPT !.current = FALSE]
                      ELSE UNCHANGED <<boxVars, row>>
    /\ UNCHANGED <<handle, counters, turnVars, cmd, first, mix>>

(* Neither reattach nor resume worked: a live agent is lost, a finished    *)
(* one keeps its outcome and is released if its sandbox is gone for good.  *)
BootFails ==
    /\ ~up /\ Reconnectable
    /\ up' = TRUE
    /\ IF row.ended
       THEN /\ row' = IF SandboxGone /\ row.state # "paused" THEN Released(row) ELSE row
            /\ UNCHANGED handle
       ELSE row' = Ended(row, "lost") /\ handle' = SettleIfPending(handle, "lost")
    /\ UNCHANGED <<counters, live, turnVars, cmd, first, boxVars, mix>>

-----------------------------------------------------------------------------
(* The steps the daemon and the bridge take by themselves.                 *)
FollowStep(f) ==
    \/ FirstTurn(f)
    \/ StreamEnds(f) \/ StreamThrows(f) \/ StreamLost(f) \/ SettleDrive(f)
    \/ ProbeGone(f) \/ ProbePaused(f) \/ ProbeAsk(f) \/ ProbeAnswer(f) \/ GiveUp(f)
    \/ RestartBridge(f) \/ SettlePoll(f) \/ BackoffFires(f)
    \/ ResumeChecked(f) \/ BootReattaches(f)

CommandStep ==
    \/ ReleaseEnd \/ StopAborted \/ StopEnd \/ PauseEnd \/ ResumeThawed \/ ResumeBridgeLost

(* What the operator, or a paused ancestor, asks for.                      *)
Ask == \/ \E f \in Followers : Prompt(f)
       \/ ReleaseBegin \/ StopBegin \/ PauseBegin \/ JoinPause \/ ResumeBegin

Boot == BootSkips \/ BootReattachesPaused \/ BootFails

Next == \/ \E f \in Followers : FollowStep(f)
        \/ CommandStep \/ Ask \/ Boot \/ OrphanEnds
        \/ BridgeDies \/ BoxLost \/ Crash

Spec == Init /\ [][Next]_vars

(* Timers fire, streams end or time out, pending awaits return and the     *)
(* daemon is started again after a crash; a turn that is polled for        *)
(* TURN_MAX_MS is given up on, however its probes were answered before.    *)
Fairness ==
    /\ \A f \in Followers : WF_vars(FollowStep(f)) /\ SF_vars(GiveUp(f))
    /\ WF_vars(CommandStep) /\ WF_vars(Boot)

FairSpec == Spec /\ Fairness

-----------------------------------------------------------------------------
AgentStates == LIVE_STATES \cup {"done", "failed", "aborted", "lost"}
Outcomes == {"success", "failed", "aborted", "lost"}

Rows == [state : AgentStates, outcome : Outcomes \cup {"none"}, ended : BOOLEAN,
         pausedFrom : AgentStates \cup {"none"}, released : BOOLEAN, current : BOOLEAN]
Follows == [pc : {"idle", "stream", "readDrive", "poll", "asked", "restarting", "readPoll"},
            res : {"none", "ok", "transient", "permanent", "thrown", "clean", "gaveUp"},
            after : BOOLEAN, misses : 0 .. MAX_UNREACHABLE_PROBES]
Locks == [op : {"none", "releasing", "aborting", "closing", "pausing", "resuming", "checking"},
          state : AgentStates \cup {"none"}, ended : BOOLEAN]

(* Every variable has its type.                                            *)
TypeOK ==
    /\ row \in Rows /\ handle \in Outcomes \cup {"pending"}
    /\ counters \in [failures : Nat, retries : Nat]
    /\ up \in BOOLEAN /\ live \in BOOLEAN /\ driving \in BOOLEAN /\ catchingUp \in BOOLEAN
    /\ backoff \in [flag : BOOLEAN, timers : Nat, tracked : BOOLEAN]
    /\ transient \in 0 .. mix.transientMax
    /\ fol \in [Followers -> Follows] /\ cmd \in Locks
    /\ first \in {"due", "joined", "unpaused", "started"}
    /\ box \in {"running", "frozen", "gone"} /\ bridge \in BOOLEAN
    /\ piQueue \in Seq(Followers \cup {Orphan})
    /\ mix \in MixOfTurns

PollPcs == {"poll", "asked", "restarting", "readPoll"}
DrivePcs == {"stream", "readDrive"}
Pollers == {f \in Followers : fol[f].pc \in PollPcs}
Drivers == {f \in Followers : fol[f].pc \in DrivePcs}

(* An agent that ended has a settled handle, across every order of stops,  *)
(* crashes and late results (test/fault/invariants.ts).                    *)
HandleSettledWhenEnded == row.ended => handle # "pending"

(* The `catchingUp' set says exactly whether a poll loop runs, and there   *)
(* is never a second one.                                                  *)
PollingTracked == Cardinality(Pollers) <= 1 /\ (catchingUp <=> Pollers # {})

(* An agent that says `running' in its first life is followed: by a        *)
(* stream, a poll loop, a retry timer, or the command that holds its lock. *)
RunningIsFollowed ==
    up /\ row.state = "running" /\ ~row.ended
        => Pollers # {} \/ Drivers # {} \/ backoff.timers > 0 \/ cmd # NoCmd

(* No turn is lost sight of: one that is over has its result, one that is  *)
(* not has somebody who will conclude it, across crashes, retries, pauses  *)
(* and overlapping turns (stream.ts:222-479).                              *)
NoTurnOutOfSight == HandleSettledWhenEnded /\ RunningIsFollowed

(* Once a stopped agent's sandbox is closed and no call is left in flight, *)
(* nothing brings it back: no late timer, no crash, no reboot.             *)
StoppedStaysStopped ==
    [][row.outcome = "aborted" /\ row.state = "aborted" /\ ~live /\ box = "gone"
         /\ Pollers = {} /\ Drivers = {}
       => row' = row /\ ~live' /\ box' = "gone"]_vars

(* The circuit breaker: the failure that reaches maxConsecutiveFailures    *)
(* holds the agent, and its turn is not sent again.                        *)
BreakerTrips ==
    [][counters'.failures > counters.failures
         /\ counters'.failures >= MaxConsecutiveFailures
       => /\ row'.state = "blocked" /\ backoff' = backoff
          /\ Cardinality(Drivers' \cup Pollers') < Cardinality(Drivers \cup Pollers)]_vars

(* A turn of an agent that has not ended concludes: it is recorded, held,  *)
(* paused or stopped, whatever the bridge and the daemon did meanwhile.    *)
EveryTurnConcludes ==
    (row.state = "running" /\ ~row.ended) ~> (row.state # "running" \/ row.ended)

-----------------------------------------------------------------------------
(* What comments, tests and docs say, and the code does not do.            *)

(* stream.ts, catchUpTurn: "Exits without settling if the agent is stopped *)
(* meanwhile, so it never overwrites `aborted`."                           *)
CatchUpKeepsAborted ==
    [][\A f \in Followers :
         row.state = "aborted" /\ fol[f].pc = "readPoll" /\ fol'[f].pc # "readPoll"
           => row'.state = "aborted" \/ ~up']_vars

(* stream.ts, isTurnActive: "True while alineod is following a turn on     *)
(* this agent, by stream or by polling."                                   *)
ActiveWhileFollowed == Drivers \cup Pollers # {} => isTurnActive

(* stream.ts, deferRetry: "a prompt that arrives now must queue behind     *)
(* this retry, not start a second turn beside it."                         *)
PromptQueuesBehindRetry == [][backoff.flag /\ backoff'.flag => Drivers' \subseteq Drivers]_vars

(* crash-recovery.mdx: an agent that was mid-turn at the crash is polled   *)
(* until the turn finishes.                                                *)
InterruptedTurnFollowed ==
    up /\ row.state = "running"
        => Pollers # {} \/ Drivers # {} \/ backoff.timers > 0 \/ cmd # NoCmd

(* test/fault/invariants.ts, assertCircuitBreakerBoundHolds: no blocked    *)
(* agent has counted more than maxConsecutiveFailures.                     *)
BreakerBound == row.state = "blocked" => counters.failures <= MaxConsecutiveFailures

(* durability-contract.mdx: work after the last commit is redone or        *)
(* reported as interrupted, "never silently lost".                         *)
FirstPromptNotLost ==
    up /\ mix.prompt /\ row.state = "provisioning" => first # "started" \/ cmd # NoCmd

(* crash-recovery.mdx: an aborted agent's sandbox is closed and a reboot   *)
(* skips it.                                                               *)
StoppedSandboxGone == row.outcome = "aborted" => ~live

(* rehydrate.ts, onContainerRestored: "The persisted row must learn about  *)
(* the new sandboxId".                                                     *)
SandboxIdUpdated == up /\ live => row.current
=============================================================================
