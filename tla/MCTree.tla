-------------------------------- MODULE MCTree --------------------------------
(***************************************************************************)
(* What the daemon does over many agents at once: it admits the starts of  *)
(* sandboxes, sweeps a subtree with a command, and closes a run. One of    *)
(* them is looked at in a behaviour: `part'.                               *)
(***************************************************************************)
EXTENDS Admission, RunClose, Subtree

CONSTANTS a1, a2, a3, a4, a5, s1, s2, d1, d2

VARIABLE part

(* Five callers over two slots: three can queue at once, so a hand-over can  *)
(* meet a timed-out head, a timed-out middle and a live tail.                *)
MCAgents == {a1, a2, a3, a4, a5}
MCConcurrency == 2

-----------------------------------------------------------------------------
(* A root, two children and a grandchild, and two sweeps.                    *)
MCTreeAgents == 1 .. 4
MCParent == [a \in 2 .. 4 |-> IF a = 4 THEN 2 ELSE 1]
MCSweeps == {s1, s2}

SweepMix(op1, root1, op2, root2, up, paused, born, faults) ==
    [op |-> [s \in {s1, s2} |-> IF s = s1 THEN op1 ELSE op2],
     root |-> [s \in {s1, s2} |-> IF s = s1 THEN root1 ELSE root2],
     up |-> up, paused |-> paused, born |-> born, faults |-> faults]

NoSweep == SweepMix(None, 1, None, 1, {1}, {}, {}, 0)

MCSweepMixes == {
    NoSweep,
    SweepMix("pause", 1, None, 1, {1}, {}, {2, 4}, 1),
    SweepMix("stop", 1, None, 1, {1}, {}, {2, 4}, 1),
    SweepMix("stop", 1, None, 1, {1, 2, 3}, {}, {4}, 1),
    SweepMix("resume", 1, None, 1, {1, 2}, {1, 2}, {4}, 1),
    SweepMix("pause", 1, "resume", 1, {1}, {}, {2}, 0),
    SweepMix("pause", 1, "resume", 1, {1, 2}, {}, {}, 1),
    SweepMix("pause", 2, "stop", 1, {1, 2}, {}, {}, 1),
    SweepMix("pause", 1, "stop", 1, {1}, {}, {2}, 0),
    SweepMix("resume", 1, "stop", 1, {1, 2, 4}, {1, 2}, {}, 0),
    SweepMix("resume", 1, "pause", 2, {1, 2}, {1, 2}, {}, 0) }

-----------------------------------------------------------------------------
(* A run of a root and one or two children, of whose ends the root is told.  *)
CloseMix(policy, deletes, members, prompts_, stops_, restarts_) ==
    [closeWhen |-> policy, deletes |-> deletes, members |-> members, prompts |-> prompts_,
     stops |-> stops_, restarts |-> restarts_]

NoClose == CloseMix("explicit", {}, 1, 0, 0, 0)

MCDeletes == {d1, d2}
MCWatch == {<<1, 2>>, <<1, 3>>}

MCRunMixes == {
    NoClose,
    CloseMix("explicit", {d1, d2}, 2, 0, 0, 0),
    CloseMix("explicit", {d1, d2}, 1, 0, 1, 0),
    CloseMix("explicit", {d1}, 2, 1, 1, 0),
    CloseMix("quiescent", {d1}, 2, 0, 1, 1),
    CloseMix("quiescent", {d1}, 3, 0, 0, 0),
    CloseMix("quiescent", {}, 2, 1, 1, 1),
    CloseMix("quiescent", {}, 3, 1, 0, 0) }

-----------------------------------------------------------------------------
tree == <<part, vars, sweepVars, closeVars>>

TreeInit ==
    /\ part \in {"admission", "sweep", "close"}
    /\ Init /\ SweepInit /\ CloseInit
    /\ (part = "sweep") = (sweepMix # NoSweep)
    /\ (part = "close") = (mix # NoClose)

TreeNext ==
    \/ part = "admission" /\ Next /\ UNCHANGED <<part, sweepVars, closeVars>>
    \/ part = "sweep" /\ SweepNext /\ UNCHANGED <<part, vars, closeVars>>
    \/ part = "close" /\ CloseNext /\ UNCHANGED <<part, vars, sweepVars>>

(* The fairness of each: there is no caller and no sweep but in its part,    *)
(* while the root of a run that is not looked at stays where it is.          *)
RunFairness ==
    /\ WF_closeVars(FinalizeNext) /\ WF_closeVars(DeleteStep)
    /\ WF_closeVars(part = "close" /\ (RootStarts \/ ForkFails(1)))
    /\ \A a \in 1 .. 3 :
          /\ WF_closeVars(part = "close" /\ (ForkDone(a) \/ ForkFails(a)))
          /\ WF_closeVars(TurnEnds(a) \/ FollowerYields(a)) /\ WF_closeVars(StopEnd(a))
          /\ WF_closeVars(Deliver(a))

TreeSpec ==
    /\ TreeInit /\ [][TreeNext]_tree
    /\ Fairness /\ SweepFairness /\ RunFairness

-----------------------------------------------------------------------------
(* Every sweep returns, whatever fails and however many of them queue at the *)
(* same locks, and every DELETE leaves a closed run behind, unless the       *)
(* daemon dies meanwhile (subtree.ts:16-65, lifecycle.ts:107-160).           *)
CommandsConclude == []<>(NobodySweeps /\ DeletesAreDone)
=============================================================================
