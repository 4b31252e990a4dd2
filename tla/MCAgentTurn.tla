---------------------------- MODULE MCAgentTurn ----------------------------
(* Each mix is one question: a loss during retries, prompts and pauses of  *)
(* a held agent, an agent that fails at once, one without a prompt.        *)
EXTENDS AgentTurn

Mix(onFailure, maxRetries, transientMax, prompt, ops, faults) ==
    [onFailure |-> onFailure, maxRetries |-> maxRetries, transientMax |-> transientMax,
     prompt |-> prompt, ops |-> ops, faults |-> faults]

MCMixes == {
    Mix("retry", 1, 1, TRUE, 1, 1),
    Mix("ask", 0, 0, TRUE, 2, 0),
    Mix("fail", 0, 1, TRUE, 1, 1),
    Mix("ask", 0, 0, FALSE, 1, 1) }
=============================================================================
