------------------------------ MODULE MCSignals ------------------------------
(***************************************************************************)
(* Who waits for whom: a client that follows the events of a run, an agent *)
(* that waits for others, commands that are sent again, and a caller of    *)
(* prompt() that reads a turn. They share nothing but the ledger, and one  *)
(* of them is looked at in a behaviour: `signal'.                          *)
(***************************************************************************)
EXTENDS SseStream, Commands, PromptStream

CONSTANTS k1, k2, k3, k4

VARIABLES
    signal,
    wait, handle, clock, due, waitPc, result, inputs, waitRestarts

-----------------------------------------------------------------------------
(* Two dependencies, which may settle twice. *)
Wait == INSTANCE WaitRegime WITH
    N <- 2, MaxTurns <- 2, MaxRestarts <- 1, restarts <- waitRestarts

NoWait == [mode |-> "settled", k |-> 2, onDepFailure |-> "fail", onDeadline |-> "proceed",
           deadline |-> FALSE]

(* Four requests: k1 and k2 have one key, and in most mixes k3 too.          *)
CommandMix(a, b, c, d, key3, key4, crashes) ==
    [command |-> [r \in {k1, k2, k3, k4} |-> CASE r = k1 -> a [] r = k2 -> b [] r = k3 -> c [] OTHER -> d],
     key |-> [r \in {k1, k2, k3, k4} |-> CASE r = k3 -> key3 [] r = k4 -> key4 [] OTHER -> 1],
     crashes |-> crashes]

NoCommand == CommandMix(None, None, None, None, 1, 1, 0)

CommandMixes == {
    NoCommand,
    CommandMix("steer", "steer", "steer", "stop", 1, 1, 1),
    CommandMix("pause", "pause", "resume", "pause", 1, 2, 1),
    CommandMix("stop", "stop", "pause", "steer", 1, 1, 1),
    CommandMix("resume", "resume", "pause", "resume", 2, 2, 1),
    CommandMix("spawn", "spawn", "spawn", "stop", 2, 1, 1) }

(* What the bridge, the proxy and the caller of one prompt may do.           *)
PromptMix(prompts, texts, asks, faults, pauses, holds, leaves, closes) ==
    [prompts |-> prompts, texts |-> texts, asks |-> asks, faults |-> faults, pauses |-> pauses,
     holds |-> holds, leaves |-> leaves, closes |-> closes]

NoPrompt == PromptMix(0, 0, 0, 0, 0, 0, 0, 0)

MCPromptMixes == {
    NoPrompt,
    PromptMix(1, 1, 1, 1, 0, 1, 1, 1),
    PromptMix(1, 1, 2, 0, 1, 0, 0, 0),
    PromptMix(1, 1, 1, 1, 1, 1, 0, 1) }

-----------------------------------------------------------------------------
waitVars == <<wait, handle, clock, due, waitPc, result, inputs, waitRestarts>>
signals == <<signal, vars, waitVars, commandVars, promptVars>>

SignalsInit ==
    /\ signal \in {"stream", "wait", "command", "prompt"}
    /\ Init /\ Wait!WaitInit /\ CommandsInit /\ PromptInit
    /\ signal # "wait" => wait = NoWait
    /\ (signal = "command") = (mix # NoCommand)
    /\ (signal = "prompt") = (left # NoPrompt)

SignalsNext ==
    \/ signal = "stream" /\ Next /\ UNCHANGED <<signal, waitVars, commandVars, promptVars>>
    \/ signal = "wait" /\ Wait!WaitNext /\ UNCHANGED <<signal, vars, commandVars, promptVars>>
    \/ signal = "command" /\ CommandsNext /\ UNCHANGED <<signal, vars, waitVars, promptVars>>
    \/ signal = "prompt" /\ PromptNext /\ UNCHANGED <<signal, vars, waitVars, commandVars>>

(* The fairness of each; a wait without a deadline, no command and no prompt *)
(* owe nothing.                                                              *)
SignalsSpec ==
    /\ SignalsInit /\ [][SignalsNext]_signals
    /\ WF_vars(signal = "stream" /\ Read) /\ WF_vars(signal = "stream" /\ Connect)
    /\ Wait!WaitFairness /\ CommandsFairness /\ PromptFairness

-----------------------------------------------------------------------------
(* Nobody waits for ever: again and again the wait with a deadline is over,  *)
(* no request is in flight, the client has every row, and the prompt has     *)
(* come to an end (waitfor.ts:182-215, idempotency.ts:71-88, sse.ts:28-80,   *)
(* bridge.ts:219-286).                                                       *)
SignalsArrive == []<>(Wait!Released /\ AllAnswered /\ CaughtUp /\ Concludes)
=============================================================================
