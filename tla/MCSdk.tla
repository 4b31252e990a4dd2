-------------------------------- MODULE MCSdk --------------------------------
(***************************************************************************)
(* Five parts of the SDKs that a program has in its own process: the slots *)
(* and environments of a sandbox client, the start of agents with the      *)
(* snapshots they share, the approval gate of an agent's egress, the       *)
(* commands of one sandbox as they run, and the stages of a workflow. One  *)
(* of them is looked at in a behaviour: `part'.                            *)
(***************************************************************************)
EXTENDS EgressGate, SandboxClient, AgentStart, ExecStream, Workflow

CONSTANTS h1, h2, s1, s2, b1, b2, b3, b4, a1, a2, a3, e1, e2, r1, r2, w1, w2, w3

VARIABLE part

-----------------------------------------------------------------------------
GateMix(hosts, streams, overlap, expiries, late, faults) ==
    [hosts |-> hosts, streams |-> streams, overlap |-> overlap,
     left |-> [expiries |-> expiries, late |-> late, faults |-> faults]]

NoGate == GateMix({}, {}, FALSE, 0, 0, 0)

MCGateMixes == {
    NoGate,
    GateMix({h1}, {s1, s2}, TRUE, 1, 1, 0),
    GateMix({h1, h2}, {s1, s2}, FALSE, 0, 0, 1),
    GateMix({h1}, {s1, s2}, FALSE, 2, 2, 1) }

-----------------------------------------------------------------------------
(* The kinds of four calls, of which b3 and b4 may fork the sandboxes of b1  *)
(* and b2; maxConcurrency; the snapshot on record; the faults.               *)
ClientFaults(start, setup, delete, log, snapshot) ==
    [start |-> start, setup |-> setup, delete |-> delete, log |-> log, snapshot |-> snapshot]

ClientMix(k1, k2, k3, k4, max, onRecord, faults) ==
    [kind |-> [c \in {b1, b2, b3, b4} |->
                 CASE c = b1 -> k1 [] c = b2 -> k2 [] c = b3 -> k3 [] OTHER -> k4],
     parent |-> [c \in {b1, b2, b3, b4} |-> IF c = b3 THEN b1 ELSE b2],
     max |-> max, snaps |-> onRecord, faults |-> faults]

NoClient == ClientMix("none", "none", "none", "none", 1, <<>>, ClientFaults(0, 0, 0, 0, 0))

MCClientMixes == {
    NoClient,
    ClientMix("env", "env", "none", "none", 1, <<>>, ClientFaults(1, 1, 0, 0, 1)),
    ClientMix("env", "env", "env", "none", 1, <<>>, ClientFaults(0, 0, 0, 0, 0)),
    ClientMix("env", "env", "sandbox", "none", 1, <<"ready">>, ClientFaults(1, 0, 1, 0, 0)),
    ClientMix("env", "env", "rebuild", "none", 2, <<"pruned">>, ClientFaults(1, 0, 0, 1, 0)),
    ClientMix("sandbox", "sandbox", "fork", "sandbox", 2, <<>>, ClientFaults(1, 0, 1, 0, 0)),
    ClientMix("sandbox", "sandbox", "fork", "fork", 2, <<>>, ClientFaults(0, 0, 0, 0, 0)) }

-----------------------------------------------------------------------------
(* The kinds and the specs of three calls, which have the same setup.        *)
StartFaults(provider_, setup, bridge, close, ledger, blank, snapshot, file_) ==
    [provider |-> provider_, setup |-> setup, bridge |-> bridge, close |-> close,
     ledger |-> ledger, blank |-> blank, snapshot |-> snapshot, file |-> file_]

StartMix(kind, spec, gated, again, records, there, faults) ==
    [kind |-> [c \in {a1, a2, a3} |-> CASE c = a1 -> kind[1] [] c = a2 -> kind[2] [] OTHER -> kind[3]],
     spec |-> [c \in {a1, a2, a3} |-> CASE c = a1 -> spec[1] [] c = a2 -> spec[2] [] OTHER -> spec[3]],
     setup |-> [c \in {a1, a2, a3} |-> 1],
     gated |-> [c \in {a1, a2, a3} |-> c \in gated],
     rebuild |-> again, records |-> records, snaps |-> there, faults |-> faults]

OnRecord(spec) == {[spec |-> spec, setup |-> 1, snap |-> 1]}

NoStart == StartMix(<<"none", "none", "none">>, <<"p", "p", "p">>, {}, {}, {}, <<>>,
                    StartFaults(0, 0, 0, 0, 0, 0, 0, 0))

MCStartMixes == {
    NoStart,
    StartMix(<<"start", "start", "none">>, <<"p", "p", "p">>, {a1}, {}, {}, <<>>,
             StartFaults(1, 1, 0, 1, 0, 1, 0, 0)),
    StartMix(<<"start", "start", "none">>, <<"p", "q", "p">>, {}, {}, OnRecord("p"), <<"blank">>,
             StartFaults(0, 0, 1, 1, 0, 0, 1, 1)),
    StartMix(<<"start", "restore", "none">>, <<"p", "p", "q">>, {a1}, {}, OnRecord("p"), <<"ready">>,
             StartFaults(1, 0, 1, 1, 1, 0, 1, 0)),
    StartMix(<<"spawn", "restore", "none">>, <<"q", "p", "q">>, {}, {}, OnRecord("p"), <<"ready">>,
             StartFaults(0, 0, 1, 1, 1, 0, 1, 0)),
    StartMix(<<"start", "start", "start">>, <<"p", "q", "r">>, {}, {a1}, {}, <<>>,
             StartFaults(0, 0, 0, 0, 0, 0, 0, 0)) }

-----------------------------------------------------------------------------
(* The commands, the readers of their output, of which both belong to e1,    *)
(* the commands with a signal, the exit codes, and the faults.               *)
ExecMix(execs, readers, aborts, exits, chunks, faults, losses, pauses, closes) ==
    [execs |-> execs, readers |-> readers, signals |-> aborts, exits |-> exits,
     chunks |-> chunks, faults |-> faults, losses |-> losses, pauses |-> pauses, closes |-> closes]

NoExec == ExecMix({}, {}, {}, {}, 0, 0, 0, 0, 0)

MCExecMixes == {
    NoExec,
    ExecMix({e1}, {r1}, {}, {0, 1}, 2, 1, 1, 1, 0),
    ExecMix({e1, e2}, {r1}, {}, {0, 1}, 0, 0, 0, 1, 1),
    ExecMix({e1, e2}, {}, {e1}, {0, 1}, 1, 1, 0, 0, 1),
    ExecMix({e1}, {r1, r2}, {e1}, {1}, 2, 1, 0, 0, 0) }

MCOf == [r \in {r1, r2} |-> e1]

-----------------------------------------------------------------------------
(* The stages, the items of a forEach() and its concurrency, maxAttempts of  *)
(* the retry() around it, and the faults.                                    *)
FlowMix(stages, items, concurrency, attempts, create, op, close) ==
    [stages |-> stages, items |-> items, concurrency |-> concurrency, attempts |-> attempts,
     faults |-> [create |-> create, op |-> op, close |-> close]]

NoFlow == FlowMix(<<>>, 0, 0, 0, 0, 0, 0)

MCFlowMixes == {
    NoFlow,
    FlowMix(<<{w1, w2}, {w3}>>, 2, 1, 2, 1, 1, 0),
    FlowMix(<<{w1}, {w2}>>, 3, 2, 2, 0, 2, 1),
    FlowMix(<<{w1, w2}>>, 1, 0, 0, 0, 0, 1),
    FlowMix(<<{w1}>>, 3, 3, 2, 0, 3, 0),
    FlowMix(<<{w1}>>, 0, 2, 1, 1, 0, 0) }

-----------------------------------------------------------------------------
sdkVars == <<part, gateVars, vars, startVars, execVars, flowVars>>

SdkInit ==
    /\ part \in {"gate", "client", "start", "exec", "workflow"}
    /\ GateInit /\ Init /\ StartInit /\ ExecInit /\ FlowInit
    /\ (part = "gate") = (gateMix # NoGate)
    /\ (part = "client") = (mix # NoClient)
    /\ (part = "start") = (startMix # NoStart)
    /\ (part = "exec") = (left # NoExec)
    /\ (part = "workflow") = (flowMix # NoFlow)

SdkNext ==
    \/ part = "gate" /\ GateNext /\ UNCHANGED <<part, vars, startVars, execVars, flowVars>>
    \/ part = "client" /\ Next /\ UNCHANGED <<part, gateVars, startVars, execVars, flowVars>>
    \/ part = "start" /\ StartNext /\ UNCHANGED <<part, gateVars, vars, execVars, flowVars>>
    \/ part = "exec" /\ ExecNext /\ UNCHANGED <<part, gateVars, vars, startVars, flowVars>>
    \/ part = "workflow" /\ FlowNext /\ UNCHANGED <<part, gateVars, vars, startVars, execVars>>

(* The fairness of each part; one without hosts or calls owes nothing.       *)
SdkSpec ==
    /\ SdkInit /\ [][SdkNext]_sdkVars
    /\ GateFairness /\ Fairness /\ StartFairness /\ ExecFairness /\ FlowFairness

-----------------------------------------------------------------------------
(* Nobody waits for ever: again and again nobody queues for a slot, no start *)
(* is under way, no request of the gate is open, no command, no reader and   *)
(* no sandbox of a workflow is left (client.ts:901-962, factory.ts:296-304,  *)
(* egress-approval.ts:195-237, exec-handle.ts:132-228,                       *)
(* workflow-builder.ts:135-152).                                             *)
SdkReturns == []<>( /\ NobodyQueues \/ Stuck
                    /\ NobodyWorks /\ AllSettled
                    /\ AllReturned /\ AllOver )
=============================================================================
