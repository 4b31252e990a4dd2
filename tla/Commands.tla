------------------------------- MODULE Commands -------------------------------
(***************************************************************************)
(* Commands with an Idempotency-Key (engine/idempotency.ts, agent-lock.ts, *)
(* and the tables in state/db.ts). A client sends a command to one agent,  *)
(* and sends it again with the same key when it saw no answer. pause,      *)
(* resume and stop of an agent run one after the other under its lock,     *)
(* steer does not; each reserves its key, acts and records the answer. A   *)
(* spawn records its key in a table of its own, once the child exists.     *)
(*                                                                         *)
(* Meanwhile the agent's turn ends, its run is closed, or the daemon dies. *)
(***************************************************************************)
EXTENDS Naturals, Sequences, FiniteSets

CONSTANTS
    Requests,   \* the requests that arrive
    MaxPolls,   \* PENDING_POLL_ATTEMPTS
    Mixes,      \* what the initial states choose from: the command and the key of each
                \* request, and the bound on crashes
    None

Verdicts == {"done", "refused", "failed", "noop", "aborted"}

MixOfCommands == [command : [Requests -> {"pause", "resume", "stop", "steer", "spawn", None}],
                  key : [Requests -> Nat], crashes : Nat]

ASSUME CommandsAssumption ==
    /\ MaxPolls \in Nat \ {0}
    /\ None \notin Verdicts \cup {"pending", "released", "in flight"}
    /\ Mixes \subseteq MixOfCommands

VARIABLES
    mix,      \* the mix that was chosen, with the crashes that are left
    up,       \* the daemon runs
    live,     \* the agent is registered
    ended,    \* agents.ended_at is set
    paused,   \* agents.state is "paused"
    table,    \* command_idempotency, and spawn_idempotency under "spawn"
    queue,    \* the commands that hold or await the agent's lock
    pc,       \* where each request is
    polls,    \* how often it found its key pending
    answer,   \* what its client was told
    effects,  \* history: how often the command of a key took effect
    wiped,    \* history: the keys whose rows were deleted with the agent
    halved    \* history: spawns cut off between the child and its key

agent == <<live, ended, paused>>
history == <<effects, wiped, halved>>
commandVars == <<mix, up, agent, table, queue, pc, polls, answer, history>>

Command(r) == mix.command[r]
Key(r) == <<Command(r), mix.key[r]>>   \* the primary key, for the one agent
Keys == {Key(r) : r \in Requests}
Locked(r) == Command(r) \in {"pause", "resume", "stop"}

-----------------------------------------------------------------------------
Arrive(r) ==
    /\ up /\ pc[r] = "new" /\ Command(r) \notin {"spawn", None}
    /\ pc' = [pc EXCEPT ![r] = "reserving"]
    /\ queue' = IF Locked(r) THEN Append(queue, r) ELSE queue
    /\ UNCHANGED <<mix, up, agent, table, polls, answer, history>>

(* The lock is given up with the answer. *)
Answer(r, a) ==
    /\ answer' = [answer EXCEPT ![r] = a]
    /\ pc' = [pc EXCEPT ![r] = "answered"]
    /\ queue' = IF Locked(r) THEN Tail(queue) ELSE queue

(* Mutant: the key is only recorded with the answer. *)
ReserveNothing(k) == table

(* INSERT ... ON CONFLICT DO NOTHING *)
Insert(k) == [table EXCEPT ![k] = "pending"]

Poll(r) ==
    /\ polls' = [polls EXCEPT ![r] = @ + 1]
    /\ IF polls[r] + 1 = MaxPolls
       THEN Answer(r, "in flight")
       ELSE UNCHANGED <<queue, pc, answer>>

(* resolveReservation() *)
Reserve(r) ==
    /\ up /\ pc[r] = "reserving"
    /\ Locked(r) => Head(queue) = r
    /\ CASE table[Key(r)] = None ->
              /\ table' = Insert(Key(r))
              /\ pc' = [pc EXCEPT ![r] = "acting"]
              /\ UNCHANGED <<queue, polls, answer>>
         [] table[Key(r)] = "pending" -> Poll(r) /\ UNCHANGED table
         [] OTHER -> Answer(r, table[Key(r)]) /\ UNCHANGED <<table, polls>>
    /\ UNCHANGED <<mix, up, agent, history>>

-----------------------------------------------------------------------------
(* act(), up to its first await. *)

(* completeIdempotentCommand(): an UPDATE, of a row that may be gone.        *)
Record(rows, r, a) == [rows EXCEPT ![Key(r)] = IF @ = None THEN None ELSE a]

Conclude(r, a) ==
    /\ table' = Record(table, r, a)
    /\ Answer(r, a)

(* What the state of the agent decides at once, None if it does not.         *)
Verdict(r) ==
    IF Command(r) = "pause" /\ paused THEN "done"
    ELSE IF Command(r) = "resume" /\ ~paused THEN "refused"
    ELSE IF Command(r) = "stop" /\ ended /\ ~live THEN "noop"
    ELSE IF Command(r) # "stop" /\ ~live THEN "refused" ELSE None

Act(r) ==
    /\ up /\ pc[r] = "acting"
    /\ IF Verdict(r) # None
       THEN Conclude(r, Verdict(r))
       ELSE /\ pc' = [pc EXCEPT ![r] = IF Command(r) = "stop" /\ ended THEN "releasing" ELSE "calling"]
            /\ UNCHANGED <<table, queue, answer>>
    /\ UNCHANGED <<mix, up, agent, polls, history>>

Takes(r) == effects' = [effects EXCEPT ![Key(r)] = @ + 1]

(* The call of the sandbox or of the bridge takes effect and returns; a      *)
(* resume may find the bridge dead and lose the agent.                       *)
Done(r) ==
    /\ up /\ pc[r] = "calling"
    /\ Takes(r)
    /\ CASE Command(r) = "pause" -> paused' = TRUE /\ UNCHANGED <<live, ended>> /\ Conclude(r, "done")
         [] Command(r) = "resume" ->
              /\ paused' = FALSE
              /\ \/ UNCHANGED <<live, ended>> /\ Conclude(r, "done")
                 \/ ended' = TRUE /\ UNCHANGED live /\ Conclude(r, "failed")
         [] Command(r) = "stop" ->
              ended' = TRUE /\ paused' = FALSE /\ live' = FALSE /\ Conclude(r, "aborted")
         [] OTHER -> UNCHANGED agent /\ Conclude(r, "done")
    /\ UNCHANGED <<mix, up, polls, wiped, halved>>

(* agent.released deletes every key of the agent, that of this stop too.     *)
Wipe == [k \in Keys |-> IF k[1] = "spawn" THEN table[k] ELSE None]

Released(r) ==
    /\ up /\ pc[r] = "releasing"
    /\ live' = FALSE
    /\ IF live THEN Takes(r) ELSE UNCHANGED effects
    /\ table' = Wipe /\ wiped' = wiped \cup {k \in Keys : k[1] # "spawn"}
    /\ Answer(r, "released")
    /\ UNCHANGED <<mix, up, ended, paused, polls, halved>>

(* The call fails, before or after it took effect. *)
CallFails(r) ==
    /\ up /\ pc[r] = "calling" /\ Command(r) # "stop"
    /\ Takes(r) \/ UNCHANGED effects
    /\ Conclude(r, "failed")
    /\ UNCHANGED <<mix, up, agent, polls, wiped, halved>>

-----------------------------------------------------------------------------
(* spawnAgent(), which does not await: the child's agent.spawned and the key *)
(* are two writes.                                                           *)
Spawn(r) ==
    /\ up /\ pc[r] = "new" /\ Command(r) = "spawn"
    /\ IF live /\ table[Key(r)] = None
       THEN Takes(r) /\ table' = [table EXCEPT ![Key(r)] = "done"]
       ELSE UNCHANGED <<effects, table>>
    /\ Answer(r, IF live THEN "done" ELSE "refused")
    /\ UNCHANGED <<mix, up, agent, polls, wiped, halved>>

-----------------------------------------------------------------------------
(* The rest of the daemon. *)

TurnEnds ==
    /\ up /\ ~ended
    /\ ended' = TRUE
    /\ UNCHANGED <<mix, up, live, paused, table, queue, pc, polls, answer, history>>

(* finalizeRun(), which takes no lock. *)
RunCloses ==
    /\ up /\ ended /\ live
    /\ live' = FALSE
    /\ table' = Wipe /\ wiped' = wiped \cup {k \in Keys : k[1] # "spawn"}
    /\ UNCHANGED <<mix, up, ended, paused, queue, pc, polls, answer, effects, halved>>

(* kill -9, at any moment: after a call took effect, between the two writes  *)
(* of a spawn. Clients of requests in flight see no answer.                  *)
Crash ==
    /\ up /\ mix.crashes > 0
    /\ mix' = [mix EXCEPT !.crashes = @ - 1]
    /\ up' = FALSE
    /\ queue' = <<>>
    /\ pc' = [r \in Requests |-> IF pc[r] \in {"reserving", "acting", "calling", "releasing"}
                                 THEN "lost" ELSE pc[r]]
    /\ UNCHANGED <<table, polls, answer, wiped>>
    /\ \/ UNCHANGED <<agent, effects, halved>>
       \/ \E r \in Requests : pc[r] \in {"calling", "releasing"} /\ Takes(r) /\ UNCHANGED <<agent, halved>>
       \/ \E r \in Requests : /\ pc[r] = "new" /\ Command(r) = "spawn"
                              /\ live /\ table[Key(r)] = None
                              /\ Takes(r) /\ halved' = halved \cup {Key(r)}
                              /\ UNCHANGED agent

Boot == ~up /\ up' = TRUE
        /\ UNCHANGED <<mix, agent, table, queue, pc, polls, answer, history>>

-----------------------------------------------------------------------------
CommandsInit ==
    /\ mix \in Mixes
    /\ up = TRUE /\ live = TRUE /\ ended = FALSE /\ paused = FALSE
    /\ table = [k \in Keys |-> None]
    /\ queue = <<>>
    /\ pc = [r \in Requests |-> "new"]
    /\ polls = [r \in Requests |-> 0]
    /\ answer = [r \in Requests |-> None]
    /\ effects = [k \in Keys |-> 0]
    /\ wiped = {} /\ halved = {}

Goes(r) == Reserve(r) \/ Act(r) \/ Done(r) \/ Released(r) \/ CallFails(r)

CommandsNext ==
    \/ \E r \in Requests : Arrive(r) \/ Goes(r) \/ Spawn(r)
    \/ TurnEnds \/ RunCloses \/ Crash \/ Boot

(* Calls return or fail, polls are timers, and a daemon is started again.    *)
CommandsFairness == WF_commandVars(Boot) /\ \A r \in Requests : WF_commandVars(Goes(r))

CommandsSpec == CommandsInit /\ [][CommandsNext]_commandVars /\ CommandsFairness

-----------------------------------------------------------------------------
InFlight(r) == pc[r] \in {"reserving", "acting", "calling", "releasing"}

(* Every variable has its type. *)
CommandsTypeOK ==
    /\ mix \in MixOfCommands
    /\ up \in BOOLEAN /\ live \in BOOLEAN /\ ended \in BOOLEAN /\ paused \in BOOLEAN
    /\ table \in [Keys -> Verdicts \cup {None, "pending"}]
    /\ answer \in [Requests -> Verdicts \cup {None, "released", "in flight"}]
    /\ queue \in Seq(Requests)
    /\ pc \in [Requests -> {"new", "reserving", "acting", "calling", "releasing", "answered", "lost"}]
    /\ polls \in [Requests -> 0..MaxPolls]
    /\ effects \in [Keys -> Nat]
    /\ wiped \subseteq Keys /\ halved \subseteq Keys

(* However often a command is sent again with its key, at the same time, or  *)
(* after a crash, a failure or a stop, it takes effect at most once (of a    *)
(* spawn, unless it was cut off between its two writes), and all who are     *)
(* given an outcome are given the same one, unless the agent was released in *)
(* between (idempotency.ts:34-88, projection.ts:197-210).                    *)
ActsOnce == \A k \in Keys \ halved : effects[k] <= 1

OneOutcome ==
    \A r, s \in Requests :
        Key(r) = Key(s) /\ Key(r) \notin wiped /\ Command(r) # "spawn"
        /\ {answer[r], answer[s]} \cap {None, "in flight"} = {} => answer[r] = answer[s]

CommandsAreIdempotent == ActsOnce /\ OneOutcome

AllAnswered == \A r \in Requests : ~InFlight(r)

(* Every request is answered, or lost in a crash, although the key of a      *)
(* command that a crash cut off stays pending for ever and a locked command  *)
(* waits for it while it holds the lock (idempotency.ts:76-87): again and    *)
(* again there is a moment when none is in flight.                           *)
CommandsReturn == []<>AllAnswered

-----------------------------------------------------------------------------
(* What does not hold: see the README. *)

(* "Use `idempotencyKey` on spawns so a retry can't fork a duplicate"        *)
(* (docs, crash-recovery.mdx:103).                                           *)
SpawnedOnce == \A k \in Keys : k[1] = "spawn" => effects[k] <= 1

(* "a genuinely concurrent 'pending' hit below is unreachable in practice"   *)
(* for the commands under the lock (idempotency.ts:9-13).                    *)
LockedNeverPends == \A r \in Requests : Locked(r) => polls[r] = 0

(* Whoever is given an outcome is given the same, released or not.           *)
OneOutcomeEver ==
    \A r, s \in Requests :
        Key(r) = Key(s) /\ {answer[r], answer[s]} \cap {None, "in flight"} = {}
        => answer[r] = answer[s]

(* What the answer says is what was done: no effect without "done".          *)
FailedDidNothing == \A r \in Requests : answer[r] = "failed" => effects[Key(r)] = 0
=============================================================================
