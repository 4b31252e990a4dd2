------------------------------- MODULE Workflow -------------------------------
(***************************************************************************)
(* A workflow (packages/workflow/src): stages run one after the other, the *)
(* sandboxes of a stage at once; each is created, flushes the operations   *)
(* that were queued for it, and is closed. What is queued here is a        *)
(* retry() around a forEach() whose workers share the items.               *)
(*                                                                         *)
(* Outside src/packages/workflow: the sandbox, whose calls may fail.       *)
(***************************************************************************)
EXTENDS Naturals, Sequences, FiniteSets, FiniteSetsExt

CONSTANTS
    Boxes,        \* the configurations of sandboxes, over all stages
    Items,        \* the most items of a forEach()
    MaxAttempts,  \* the most attempts of a retry()
    FlowMixes     \* what the initial states choose from: the stages, the items, the
                  \* concurrency, maxAttempts, and the faults

VARIABLES
    flowMix,  \* the mix that was chosen, with the faults that are left
    promise,  \* the promise of result() or pipe()
    stage,    \* the stage that runs
    flowBox,  \* where each sandbox is
    attempt,  \* the attempt of its retry()
    idx,      \* idx of the forEach() of each attempt: the items that were taken
    worker,   \* the item that each worker of an attempt is at, 0 if it has ended
    bad,      \* the attempts of which a worker has failed
    ran,      \* history: how often an item was done, by attempt
    vars_     \* ctx.vars: for each item, the attempt whose readFile() was last

flow == <<idx, worker, bad, ran, vars_>>
flowVars == <<flowMix, promise, stage, flowBox, attempt, flow>>

(* A configuration is that of one sandbox, in one stage. (A stage without a  *)
(* sandbox, which is through at once, is left out.)                          *)
MixOfWorkflows ==
    [stages : Seq(SUBSET Boxes \ {{}}), items : 0..Items, concurrency : 0..Items,
     attempts : 0..MaxAttempts, faults : [{"create", "op", "close"} -> Nat]]

Apart(m) == \A i, j \in DOMAIN m.stages : i # j => m.stages[i] \cap m.stages[j] = {}

ASSUME WorkflowConstants ==
    /\ Items \in Nat /\ MaxAttempts \in Nat
    /\ FlowMixes \subseteq MixOfWorkflows /\ \A m \in FlowMixes : Apart(m)

FlowFault(f) == flowMix.faults[f] > 0 /\ flowMix' = [flowMix EXCEPT !.faults[f] = @ - 1]

Attempts == 1..MaxAttempts
Workers == 1..Items

-----------------------------------------------------------------------------
(* _execute(), _runParallel(), _runSequence()                                *)

Starts(n) ==
    [b \in Boxes |-> IF n <= Len(flowMix.stages) /\ b \in flowMix.stages[n] THEN "creating"
                     ELSE flowBox[b]]

(* _runSandbox() settles. The first failure rejects the workflow, the other  *)
(* sandboxes of the stage go on; the last success starts the next stage.     *)
Settles(b, how) ==
    LET now == [flowBox EXCEPT ![b] = how]
        over == \A d \in flowMix.stages[stage] : now[d] = "closed"
    IN  \/ how # "closed" /\ promise' = "rejected" /\ flowBox' = now /\ UNCHANGED stage
        \/ /\ how = "closed" /\ over /\ stage < Len(flowMix.stages)
           /\ stage' = stage + 1
           /\ flowBox' = [d \in Boxes |-> IF d = b THEN "closed" ELSE Starts(stage + 1)[d]]
           /\ UNCHANGED promise
        \/ /\ how = "closed" /\ ~(over /\ stage < Len(flowMix.stages))
           /\ promise' = IF over THEN "resolved" ELSE promise
           /\ flowBox' = now /\ UNCHANGED stage

BoxCreated(b) ==
    /\ flowBox[b] = "creating"
    /\ \/ flowBox' = [flowBox EXCEPT ![b] = "ready"] /\ UNCHANGED <<flowMix, promise, stage>>
       \/ FlowFault("create") /\ Settles(b, "failed")
    /\ UNCHANGED <<attempt, flow>>

(* The finally of _runSandbox(): a close() that fails replaces the result,   *)
(* and leaves the container or not.                                          *)
BoxClosed(b) ==
    /\ \/ flowBox[b] = "flushed" /\ Settles(b, "closed") /\ UNCHANGED flowMix
       \/ flowBox[b] = "threw" /\ Settles(b, "failed") /\ UNCHANGED flowMix
       \/ flowBox[b] \in {"flushed", "threw"} /\ FlowFault("close") /\ Settles(b, "left")
    /\ UNCHANGED <<attempt, flow>>

-----------------------------------------------------------------------------
(* flushRetry()                                                              *)

Crew == Min({Max({flowMix.concurrency, 1}), flowMix.items})

(* The loop over the attempts, its delay behind it: every worker of the new  *)
(* forEach() takes its first item at once. Without an attempt it throws.     *)
NextAttempt(b) ==
    LET a == attempt[b] + 1
    IN  /\ flowBox[b] \in {"ready", "backoff"}
        /\ IF a > flowMix.attempts
           THEN flowBox' = [flowBox EXCEPT ![b] = "threw"] /\ UNCHANGED <<attempt, idx, worker>>
           ELSE /\ attempt' = [attempt EXCEPT ![b] = a]
                /\ idx' = [idx EXCEPT ![b][a] = Crew]
                /\ worker' = [worker EXCEPT ![b][a] = [w \in Workers |-> IF w <= Crew THEN w ELSE 0]]
                /\ flowBox' = [flowBox EXCEPT ![b] = IF Crew = 0 THEN "flushed" ELSE "flushing"]
        /\ UNCHANGED <<flowMix, promise, stage, bad, ran, vars_>>

-----------------------------------------------------------------------------
(* flushForEach(): a worker takes the next item as it ends the one before,   *)
(* also when its attempt has failed and another is under way, or none.       *)

(* Mutant: workers of one attempt look at the same index.                    *)
TakesShared(b, a, w) ==
    /\ idx' = [idx EXCEPT ![b][a] = Min({worker[b][a][w] + 1, flowMix.items})]
    /\ worker' = [worker EXCEPT ![b][a][w] =
                    IF worker[b][a][w] < flowMix.items THEN worker[b][a][w] + 1 ELSE 0]

Takes(b, a, w) ==
    IF idx[b][a] < flowMix.items
    THEN /\ idx' = [idx EXCEPT ![b][a] = @ + 1]
         /\ worker' = [worker EXCEPT ![b][a][w] = idx[b][a] + 1]
    ELSE /\ worker' = [worker EXCEPT ![b][a][w] = 0]
         /\ UNCHANGED idx

Over == {"none", "closed", "failed", "left"}

OpDone(b, a, w) ==
    LET i == worker[b][a][w]
    IN  /\ i # 0 /\ flowBox[b] \notin {"closed", "failed"}
        /\ ran' = [ran EXCEPT ![b][a][i] = @ + 1]
        /\ vars_' = [vars_ EXCEPT ![b][i] = a]
        /\ Takes(b, a, w)
        /\ flowBox' = IF a \notin bad[b] /\ \A x \in Workers : worker'[b][a][x] = 0
                      THEN [flowBox EXCEPT ![b] = "flushed"] ELSE flowBox
        /\ UNCHANGED <<flowMix, promise, stage, attempt, bad>>

(* The first worker that fails ends the attempt, and only itself. Operations *)
(* on a sandbox that is gone fail.                                           *)
OpFails(b, a, w) ==
    /\ worker[b][a][w] # 0
    /\ IF flowBox[b] \in Over THEN UNCHANGED flowMix ELSE FlowFault("op")
    /\ worker' = [worker EXCEPT ![b][a][w] = 0]
    /\ bad' = [bad EXCEPT ![b] = @ \cup {a}]
    /\ flowBox' = IF a \in bad[b] THEN flowBox
                  ELSE [flowBox EXCEPT ![b] = IF a < flowMix.attempts THEN "backoff" ELSE "threw"]
    /\ UNCHANGED <<promise, stage, attempt, idx, ran, vars_>>

-----------------------------------------------------------------------------
FlowInit ==
    /\ flowMix \in FlowMixes
    /\ stage = 1
    /\ promise = IF flowMix.stages = <<>> THEN "resolved" ELSE "pending"
    /\ flowBox = [b \in Boxes |-> IF flowMix.stages # <<>> /\ b \in flowMix.stages[1]
                                 THEN "creating" ELSE "none"]
    /\ attempt = [b \in Boxes |-> 0]
    /\ idx = [b \in Boxes |-> [a \in Attempts |-> 0]]
    /\ worker = [b \in Boxes |-> [a \in Attempts |-> [w \in Workers |-> 0]]]
    /\ bad = [b \in Boxes |-> {}]
    /\ ran = [b \in Boxes |-> [a \in Attempts |-> [i \in 1..Items |-> 0]]]
    /\ vars_ = [b \in Boxes |-> [i \in 1..Items |-> 0]]

FlowStep(b) ==
    \/ BoxCreated(b) \/ NextAttempt(b) \/ BoxClosed(b)
    \/ \E a \in Attempts, w \in Workers : OpDone(b, a, w) \/ OpFails(b, a, w)

FlowNext == \E b \in Boxes : FlowStep(b)

(* The calls of a sandbox return or fail, and a delay passes.                *)
FlowFairness == \A b \in Boxes : WF_flowVars(FlowStep(b))

FlowSpec == FlowInit /\ [][FlowNext]_flowVars /\ FlowFairness

-----------------------------------------------------------------------------
(* Every variable has its type.                                              *)
FlowTypeOK ==
    /\ flowMix \in MixOfWorkflows /\ Apart(flowMix)
    /\ promise \in {"pending", "resolved", "rejected"}
    /\ stage \in 1..Max({1, Len(flowMix.stages)})
    /\ flowBox \in [Boxes -> {"none", "creating", "ready", "flushing", "backoff", "flushed",
                              "threw", "closed", "failed", "left"}]
    /\ attempt \in [Boxes -> 0..MaxAttempts]
    /\ idx \in [Boxes -> [Attempts -> 0..Items]]
    /\ worker \in [Boxes -> [Attempts -> [Workers -> 0..Items]]]
    /\ bad \in [Boxes -> SUBSET Attempts]
    /\ ran \in [Boxes -> [Attempts -> [1..Items -> Nat]]]
    /\ vars_ \in [Boxes -> [1..Items -> 0..MaxAttempts]]

(* A workflow that resolves has closed every sandbox, and in each the last   *)
(* attempt has done every item once, with a value for it; no attempt does an *)
(* item twice; no sandbox of a stage is there before the stages above it are *)
(* through (workflow-builder.ts:110-134, sandbox-builder.ts:270-324).        *)
Finished(b) ==
    /\ flowBox[b] = "closed"
    /\ \A i \in 1..flowMix.items : ran[b][attempt[b]][i] = 1 /\ vars_[b][i] # 0

WorkflowsAreTrue ==
    /\ \A n \in DOMAIN flowMix.stages, b \in Boxes :
          /\ promise = "resolved" /\ b \in flowMix.stages[n] => Finished(b)
          /\ b \in flowMix.stages[n] /\ flowBox[b] # "none" =>
                \A m \in 1..(n - 1) : \A d \in flowMix.stages[m] : Finished(d)
    /\ \A b \in Boxes, a \in Attempts, i \in 1..Items : ran[b][a][i] <= 1
    /\ promise = "rejected" => \E b \in flowMix.stages[stage] : flowBox[b] \in {"failed", "left"}

(* Every sandbox that was asked for is closed, or has failed, and nothing    *)
(* runs in it any more (workflow-builder.ts:135-152).                        *)
AllOver ==
    /\ flowMix.stages # <<>> => promise # "pending"
    /\ \A b \in Boxes : flowBox[b] \in Over
    /\ \A b \in Boxes, a \in Attempts, w \in Workers : worker[b][a][w] = 0

-----------------------------------------------------------------------------
(* What does not hold: see the README.                                       *)

(* "Parallel with concurrency cap" (sandbox-builder.ts:311).                 *)
CapIsKept == \A b \in Boxes :
    Cardinality({p \in Attempts \X Workers : worker[b][p[1]][p[2]] # 0}) <= Max({1, flowMix.concurrency})

(* The values of a workflow are those of the attempts that succeeded.        *)
LastAttemptWins == promise = "resolved" =>
    \A n \in DOMAIN flowMix.stages, b \in Boxes, i \in 1..flowMix.items :
        b \in flowMix.stages[n] => vars_[b][i] = attempt[b]

(* A workflow that has settled has no sandbox left.                          *)
SettledIsClosed == promise # "pending" => \A b \in Boxes : flowBox[b] \in Over
=============================================================================
