------------------------------ MODULE MCBridges ------------------------------
(***************************************************************************)
(* The three harness bridges of packages/agent/src/bridge. An agent's spec *)
(* names its harness, so that one of them runs: `harness'. Each mix is one *)
(* question: prompts, aborts and injections against each other, commands   *)
(* whose ids clash, dialogs under two operators; forks against turns,      *)
(* timeouts and restarts; approvals against the ends of turns.             *)
(***************************************************************************)
EXTENDS PiBridge

CONSTANTS r1, r2, r3, d1, d2, o1, o2, f1, f2, c1, c2, c3

VARIABLES
    harness,
    left, server, resume, file, thread, codexActive, turnId, abortPending, finished, pc, concl,
    forkPc, rpc, jobs, held, toServer, toBridge, srv, srvThread, hist, asked, codexDlg,
    aborting, convo, kept, unsaved, broken,
    claudeLeft, session, claudeResume, claudeHist, latest, claudeActive, base, aborted, known,
    claudeFinished, claudePc, claudeConcl, claudeForkPc, pending, verdict, claudeJobs,
    claudeConvo, claudeKept, overlapped

-----------------------------------------------------------------------------
MCStamp == [r \in Requests |-> IF r = r1 THEN 1 ELSE 2]
MCTool == [d \in Dialogs |-> "bash"]

PiMix(k1, k2, k3, policy, dialogs, operators) ==
    [kind |-> [r \in Requests |-> IF r = r1 THEN k1 ELSE IF r = r2 THEN k2 ELSE k3],
     policy |-> policy, dialogs |-> dialogs, operators |-> operators]

NoPi == PiMix("none", "none", "none", FALSE, {}, {})

MCMixes == {
    NoPi,
    PiMix("prompt", "prompt", "abort", TRUE, {d1}, {}),
    PiMix("prompt", "inject", "abort", FALSE, {d1}, {}),
    PiMix("prompt", "prompt", "inject", FALSE, {}, {}),
    PiMix("prompt", "cmd", "cmd", TRUE, {d1}, {}),
    PiMix("prompt", "steer", "bash", TRUE, {}, {}),
    PiMix("prompt", "abort", "none", TRUE, {d1, d2}, {o1}),
    PiMix("prompt", "none", "none", TRUE, {d1, d2}, {o1, o2}) }

CodexMix(turns, aborts, forks, dialogs, timeouts, restarts) ==
    [turns |-> turns, aborts |-> aborts, forks |-> forks, dialogs |-> dialogs,
     timeouts |-> timeouts, restarts |-> restarts]

NoCodex == CodexMix({}, {}, {}, {}, 0, 0)

CodexMixes == {
    NoCodex,
    CodexMix(1..3, 1..3, {}, {}, 0, 0),
    CodexMix(1..3, {}, {f1}, {}, 0, 0),
    CodexMix(1..2, {2}, {f1}, {}, 1, 0),
    CodexMix(1..2, 1..2, {}, {d1}, 1, 0),
    CodexMix(1..2, 1..2, {}, {d1, d2}, 0, 0),
    CodexMix(1..3, {}, {f1}, {}, 0, 1),
    CodexMix(1..2, 1..2, {}, {d1}, 0, 1),
    CodexMix(1..2, {}, {}, {}, 1, 1) }

ClaudeMix(turns, forks, asks, restarts) ==
    [turns |-> turns, forks |-> forks, asks |-> asks, restarts |-> restarts]

NoClaude == ClaudeMix({}, {}, {}, 0)

ClaudeMixes == {
    NoClaude,
    ClaudeMix(1..2, {f1, f2}, {}, 0),
    ClaudeMix(1..2, {f1}, {c1}, 0),
    ClaudeMix(1..3, {f1}, {}, 1),
    ClaudeMix(1..2, {}, {c1}, 1),
    ClaudeMix(1..2, {}, {c1, c2, c3}, 0) }

-----------------------------------------------------------------------------
Codex == INSTANCE CodexBridge WITH
    Turns <- 1..3, Forks <- {f1}, Mixes <- CodexMixes, active <- codexActive, dlg <- codexDlg

Claude == INSTANCE ClaudeBridge WITH
    Turns <- 1..3, Forks <- {f1, f2}, Mixes <- ClaudeMixes,
    Asks <- {c1, c2, c3}, Tool <- [c \in {c1, c2, c3} |-> IF c = c3 THEN "write" ELSE "bash"],
    left <- claudeLeft, resume <- claudeResume, hist <- claudeHist, active <- claudeActive,
    finished <- claudeFinished, pc <- claudePc, concl <- claudeConcl, forkPc <- claudeForkPc,
    jobs <- claudeJobs, convo <- claudeConvo, kept <- claudeKept

codexVars == <<left, server, resume, file, thread, codexActive, turnId, abortPending, finished,
               pc, concl, forkPc, rpc, jobs, held, toServer, toBridge, srv, srvThread, hist,
               asked, codexDlg, aborting, convo, kept, unsaved, broken>>
claudeVars == <<claudeLeft, session, claudeResume, claudeHist, latest, claudeActive, base, aborted,
                known, claudeFinished, claudePc, claudeConcl, claudeForkPc, pending, verdict,
                claudeJobs, claudeConvo, claudeKept, overlapped>>
bridges == <<harness, vars, codexVars, claudeVars>>

BridgesInit ==
    /\ harness \in {"pi", "codex", "claude-code"}
    /\ Init /\ Codex!Init /\ Claude!Init
    /\ (harness = "pi") = (mix # NoPi)
    /\ (harness = "codex") = (left # NoCodex)
    /\ (harness = "claude-code") = (claudeLeft # NoClaude)

BridgesNext ==
    \/ harness = "pi" /\ Next /\ UNCHANGED <<harness, codexVars, claudeVars>>
    \/ harness = "codex" /\ Codex!Next /\ UNCHANGED <<harness, vars, claudeVars>>
    \/ harness = "claude-code" /\ Claude!Next /\ UNCHANGED <<harness, vars, codexVars>>

UsesPi == harness = "pi"

(* The fairness of each bridge; an idle one other than Pi has nothing to do. *)
BridgesSpec ==
    /\ BridgesInit /\ [][BridgesNext]_bridges
    /\ Codex!Fairness /\ Claude!Fairness
    /\ WF_vars(UsesPi /\ HandleLine) /\ WF_vars(UsesPi /\ Probe)
    /\ WF_vars(UsesPi /\ PiReads) /\ WF_vars(UsesPi /\ PiEndsTurn)
    /\ \A r \in Requests : WF_vars(UsesPi /\ CommandTimeout(r)) /\ WF_vars(UsesPi /\ PiAborted(r))
    /\ \A d \in Dialogs : WF_vars(UsesPi /\ ExpirePermission(d))

-----------------------------------------------------------------------------
(* What the daemon relies on, whichever bridge answers it.                   *)

(* A turn ends once, with all that was parked for it: its stream is sent one *)
(* conclusion, its own, whichever of result, completion, abort, exception    *)
(* and exit comes first, and no approval outlives the turn that asked        *)
(* (codex-bridge.ts:164-190, 269-373, 521-533, claude-bridge.ts:420-453).    *)
TurnsEndOnce ==
    /\ Codex!OneOwnConclusion /\ Codex!IdleHoldsNothing
    /\ Claude!OneConclusion /\ Claude!AsksEndWithTurn

(* A turn goes on from exactly the conversation of the turns before it, less *)
(* what a fork cut off, across forks that fail and restarts, unless a fork   *)
(* overlapped a turn or Codex's thread could not be saved or resumed         *)
(* (codex-bridge.ts:454-486, 630-648, claude-bridge.ts:417-419, 527-543).    *)
ConversationCarriesOn == Codex!NothingForgotten /\ []Claude!SessionCarriesOn

(* What the Pi bridge holds for later is an open response, and no prompt     *)
(* waits behind an idle Pi (pi-bridge.ts:238-322, 330-341, 611-657).         *)
HeldIsWaitedFor == HeldIsOpen /\ NoPromptBehindIdlePi

(* Every turn ends, also an aborted one and one whose approvals nobody       *)
(* answers (codex-bridge.ts:149-155, 164-190, 402-410, 490-533,              *)
(* claude-bridge.ts:264-292, 430-453).                                       *)
EveryTurnEnds == Codex!TurnsEnd /\ Claude!TurnsEnd
=============================================================================
