----------------------------- MODULE WaitRegime -----------------------------
(***************************************************************************)
(* A spawn that waits for other agents (engine/waitfor.ts, and its callers *)
(* in spawn.ts and rehydrate.ts): the regime is decided against handles    *)
(* that settle in any order and may settle again, against a deadline, and  *)
(* again after a restart of the daemon; the child is then forked and its   *)
(* inputs are written from the handles as they are by then.                *)
(*                                                                         *)
(* Dependencies are numbered in the order the request lists them.          *)
(***************************************************************************)
EXTENDS Naturals, Sequences, FiniteSets

CONSTANTS N,                       \* dependencies
          MaxTurns, MaxRestarts    \* bounds

(* normalizeWait: a wait for nobody is none.                               *)
ASSUME WaitAssumption == N \in Nat \ {0} /\ MaxTurns \in Nat \ {0} /\ MaxRestarts \in Nat

VARIABLES
    wait,      \* the NormalizedWait of the spawn
    handle,    \* handles: outcome ("pending" until settled) and settled_at
    clock,     \* the timestamp of the last ledger row
    due,       \* deadlineAt has passed
    waitPc,    \* how far provisionChild() is
    result,    \* the WaitOutcome
    inputs,    \* /inputs.json: the dependencies written and their outcomes
    restarts

waitVars == <<wait, handle, clock, due, waitPc, result, inputs, restarts>>

Deps == 1 .. N
Undecided == [outcome |-> "none"]
NoInputs == <<>>

(* validateWait.                                                           *)
validateWait(w) == w.mode = "quorum" => w.k \in 1 .. N

Waits == {w \in [mode : {"settled", "all", "any", "quorum"}, k : 0 .. N + 1,
                 onDepFailure : {"fail", "proceed"}, onDeadline : {"fail", "proceed"},
                 deadline : BOOLEAN] :
            /\ validateWait(w)
            /\ w.mode # "quorum" => w.k = N
            /\ w.mode \in {"settled", "any"} => w.onDepFailure = "fail"
            /\ ~w.deadline => w.onDeadline = "proceed"}

WaitInit ==
    /\ wait \in Waits
    /\ handle = [d \in Deps |-> [outcome |-> "pending", at |-> 0]]
    /\ clock = 1 /\ due = FALSE
    /\ waitPc = "waiting"
    /\ result = Undecided
    /\ inputs = NoInputs
    /\ restarts = 0

-----------------------------------------------------------------------------
(* snapshot: the settled dependencies, earliest first and then as listed.  *)
Before(h, a, b) == h[a].at < h[b].at \/ (h[a].at = h[b].at /\ a < b)
Rank(S, h, d) == Cardinality({e \in S : Before(h, e, d)})
InOrder(S, h) == [n \in 1 .. Cardinality(S) |-> CHOOSE d \in S : Rank(S, h, d) = n - 1]

Pending(h) == {d \in Deps : h[d].outcome = "pending"}
Failed(h) == {d \in Deps : h[d].outcome = "failed"}
Successful(h) == {d \in Deps : h[d].outcome = "success"}
Settled(h) == InOrder(Deps \ Pending(h), h)
Successes(h) == InOrder(Successful(h), h)

Done(h, outcome, selected) ==
    [outcome |-> outcome, selected |-> selected, settled |-> Settled(h),
     pending |-> Pending(h), failed |-> Failed(h)]

EveryDep == [d \in Deps |-> d]

DecideQuorum(w, h) ==
    IF Len(Successes(h)) >= w.k THEN Done(h, "satisfied", SubSeq(Successes(h), 1, w.k))
    ELSE IF Len(Successes(h)) + Cardinality(Pending(h)) >= w.k THEN Undecided
    ELSE IF w.onDepFailure = "fail" THEN Done(h, "depfail", <<>>)
    ELSE Done(h, "partial", Successes(h))

evaluateWait(w, h) ==
    CASE w.mode = "any" /\ Settled(h) # <<>>
           -> Done(h, "satisfied", <<Head(Settled(h))>>)
      [] w.mode = "all" /\ Failed(h) # {} /\ w.onDepFailure = "fail"
           -> Done(h, "depfail", <<>>)
      [] w.mode = "all" /\ (Failed(h) = {} \/ w.onDepFailure = "proceed") /\ Pending(h) = {}
           -> Done(h, "satisfied", EveryDep)
      [] w.mode = "settled" /\ Pending(h) = {}
           -> Done(h, "satisfied", EveryDep)
      [] w.mode = "quorum"
           -> DecideQuorum(w, h)
      [] OTHER -> Undecided

atDeadline(w, h) ==
    IF w.onDeadline = "fail" THEN Done(h, "deadline", <<>>)
    ELSE Done(h, "partial", Settled(h))

(* waitUntil: the value a check finds ends the wait; provisionChild goes   *)
(* on in the same tick, to the fork or to the end of the child.            *)
Check(r) ==
    /\ result' = r
    /\ waitPc' = IF r = Undecided THEN "waiting"
             ELSE IF r.outcome \in {"depfail", "deadline"} THEN "failed" ELSE "resolved"

-----------------------------------------------------------------------------
(* A turn of a dependency ends, its first or a later one: handle.settled   *)
(* replaces outcome and settled_at, and the bus runs the check at once.    *)
(* (Bound: once the child has failed, or has its inputs and will not be    *)
(* restored, nobody looks at the handles.)                                 *)
Settle(d) ==
    /\ waitPc \notin {"failed", "stranded"}
    /\ waitPc = "started" => restarts < MaxRestarts
    /\ \E o \in {"success", "failed"}, t \in {clock, clock + 1} :
         /\ t <= MaxTurns
         /\ clock' = t
         /\ handle' = [handle EXCEPT ![d] = [outcome |-> o, at |-> t]]
    /\ IF waitPc = "waiting" THEN Check(evaluateWait(wait, handle')) ELSE UNCHANGED <<waitPc, result>>
    /\ UNCHANGED <<wait, due, inputs, restarts>>

DeadlinePasses ==
    /\ wait.deadline /\ ~due /\ due' = TRUE
    /\ UNCHANGED <<wait, handle, clock, waitPc, result, inputs, restarts>>

(* Mutant: the deadline timer only checks the handles once more.           *)
TimerRechecks ==
    /\ due /\ waitPc = "waiting"
    /\ Check(evaluateWait(wait, handle))
    /\ UNCHANGED <<wait, handle, clock, due, inputs, restarts>>

TimerFires ==
    /\ due /\ waitPc = "waiting"
    /\ LET r == evaluateWait(wait, handle)
       IN  Check(IF r = Undecided THEN atDeadline(wait, handle) ELSE r)
    /\ UNCHANGED <<wait, handle, clock, due, inputs, restarts>>

Fork ==
    /\ waitPc = "resolved"
    /\ waitPc' \in {"forked", "failed"}
    /\ UNCHANGED <<wait, handle, clock, due, result, inputs, restarts>>

(* injectInputs: the outcomes, like the texts, are read now.               *)
Members(s) == {s[n] : n \in DOMAIN s}
Manifest(r) == [d \in Members(r.selected) |-> handle[d].outcome]

InjectInputs ==
    /\ waitPc = "forked"
    /\ waitPc' = "started"
    /\ inputs' = Manifest(result)
    /\ UNCHANGED <<wait, handle, clock, due, result, restarts>>

-----------------------------------------------------------------------------
(* Mutant: the wait of a retried spawn first looks at a bus message.       *)
RestartSubscribes ==
    /\ restarts < MaxRestarts /\ restarts' = restarts + 1
    /\ waitPc \in {"waiting", "resolved"}
    /\ Check(Undecided)
    /\ UNCHANGED <<wait, handle, clock, due, inputs>>

(* A crash, and retryProvision for a child without a sandbox: the stored   *)
(* wait, with its absolute deadline, is checked from the start.            *)
RestartUnforked ==
    /\ restarts < MaxRestarts /\ restarts' = restarts + 1
    /\ waitPc \in {"waiting", "resolved"}
    /\ Check(evaluateWait(wait, handle))
    /\ UNCHANGED <<wait, handle, clock, due, inputs>>

(* A crash, and reattachOne for a child with one: a child that had no      *)
(* inputs yet gets none; when the container is gone, onContainerRestored   *)
(* decides the wait once more and writes the inputs of that decision.      *)
RestartForked ==
    /\ restarts < MaxRestarts /\ restarts' = restarts + 1
    /\ waitPc \in {"forked", "started"}
    /\ waitPc' = IF waitPc = "forked" THEN "stranded" ELSE waitPc
    /\ \/ UNCHANGED inputs
       \/ LET r == evaluateWait(wait, handle)
          IN  inputs' = IF r = Undecided THEN NoInputs ELSE Manifest(r)
    /\ UNCHANGED <<wait, handle, clock, due, result>>

WaitNext ==
    \/ \E d \in Deps : Settle(d)
    \/ DeadlinePasses \/ TimerFires \/ Fork \/ InjectInputs
    \/ RestartUnforked \/ RestartForked

WaitSpec == WaitInit /\ [][WaitNext]_waitVars

(* Timers fire, and a fork returns.                                        *)
WaitFairness == WF_waitVars(DeadlinePasses) /\ WF_waitVars(TimerFires) /\ WF_waitVars(Fork) /\ WF_waitVars(InjectInputs)

WaitFairSpec == WaitSpec /\ WaitFairness

-----------------------------------------------------------------------------
Outcomes == {"none", "satisfied", "partial", "deadline", "depfail"}

(* Every variable has its type.                                            *)
WaitTypeOK ==
    /\ wait \in Waits
    /\ handle \in [Deps -> [outcome : {"pending", "success", "failed"}, at : 0 .. MaxTurns]]
    /\ clock \in 1 .. MaxTurns /\ due \in BOOLEAN
    /\ waitPc \in {"waiting", "resolved", "failed", "forked", "started", "stranded"}
    /\ result.outcome \in Outcomes
    /\ result # Undecided => /\ result.selected \in Seq(Deps) /\ result.settled \in Seq(Deps)
                             /\ result.pending \subseteq Deps /\ result.failed \subseteq Deps
    /\ DOMAIN inputs \subseteq Deps
    /\ restarts \in 0 .. MaxRestarts

Succeeded == Members(result.settled) \ result.failed

(* s is what comes first in t of S, in the order of t.                     *)
FirstOf(s, S, t) ==
    /\ \A m, n \in DOMAIN s : s[m] = s[n] => m = n
    /\ \A n \in DOMAIN s : s[n] \in S /\ \E j \in DOMAIN t : t[j] = s[n]
    /\ \A i, j \in DOMAIN t : \A n \in DOMAIN s :
          i < j /\ t[i] \in S /\ t[j] = s[n] => \E m \in DOMAIN s : m < n /\ s[m] = t[i]

(* A wait resolves to what its mode promises (the table of                 *)
(* coordination.mdx): every dependency, the first to settle, the first k   *)
(* successes; a partial one to what there is.                              *)
SelectionFitsMode ==
    result # Undecided =>
      /\ result.outcome = "satisfied" =>
           CASE wait.mode = "any"    -> result.selected = <<Head(result.settled)>>
             [] wait.mode = "quorum" -> /\ Len(result.selected) = wait.k
                                        /\ FirstOf(result.selected, Succeeded, result.settled)
             [] OTHER                -> Members(result.selected) = Deps /\ result.pending = {}
      /\ result.outcome = "partial" => Members(result.selected) \subseteq Members(result.settled)
      /\ result.outcome \in {"depfail", "deadline"} => result.selected = <<>>

(* With onDepFailure "fail" a child never starts over a failure it was to  *)
(* stop at, and with "proceed" it is never failed for one.                 *)
FailureIsHeeded ==
    result # Undecided =>
      /\ result.outcome = "depfail" =>
           /\ wait.onDepFailure = "fail" /\ wait.mode \in {"all", "quorum"}
           /\ Cardinality(result.failed) > N - wait.k
      /\ result.outcome = "satisfied" /\ wait.mode = "all" /\ wait.onDepFailure = "fail"
           => result.failed = {}

(* The deadline only decides what the handles did not: a wait that ends by *)
(* it was still undecided on the handles it reports.                       *)
DeadlineIsLast ==
    result.outcome = "deadline" \/ (result.outcome = "partial" /\ wait.mode # "quorum")
      => /\ wait.deadline /\ due
         /\ \/ wait.mode \in {"settled", "all"} /\ result.pending # {}
            \/ wait.mode = "any" /\ result.settled = <<>>
            \/ wait.mode = "quorum" /\ Cardinality(Succeeded) < wait.k

(* A wait resolves as the docs promise: as its mode, its failure policy    *)
(* and its deadline say, in evaluateWait() and atDeadline() alike, before  *)
(* and after a restart.                                                    *)
ResolvesAsPromised == SelectionFitsMode /\ FailureIsHeeded /\ DeadlineIsLast

(* No settlement is missed, neither before the subscription nor across a   *)
(* restart: a wait that still holds is undecided, so some dependency is    *)
(* pending.                                                                *)
HoldsOnlyWhileOpen ==
    waitPc = "waiting" => evaluateWait(wait, handle) = Undecided /\ Pending(handle) # {}

(* What provisionChild() relies on, from the spawn to the fork.            *)
WaitKeepsItsWord == WaitTypeOK /\ ResolvesAsPromised /\ HoldsOnlyWhileOpen

(* A wait with a deadline is over, whatever the dependencies do.           *)
Released == wait.deadline => waitPc # "waiting"

(* It gets there, and again after a restart that has it wait once more     *)
(* (waitfor.ts:182-215).                                                   *)
DeadlineReleases == []<>Released

-----------------------------------------------------------------------------
(* What the docs and the comments say.                                     *)

(* "quorum: k agents succeeded; the first k successes" and "all: every     *)
(* agent succeeded" are the inputs written (docs, coordination.mdx).       *)
InputsAreSuccesses ==
    wait.mode \in {"all", "quorum"} /\ wait.onDepFailure = "fail" /\ ~wait.deadline
      => \A d \in DOMAIN inputs : inputs[d] = "success"

(* A restored container gets "the same dependency selection the original   *)
(* wait already settled on" (onContainerRestored's comment).               *)
RestoredSelectionIsTheSame ==
    [][inputs # NoInputs => DOMAIN inputs' = DOMAIN inputs]_waitVars
=============================================================================
