------------------------------- MODULE Subtree -------------------------------
(***************************************************************************)
(* Commands on a whole subtree (engine/subtree.ts): pause, resume and stop *)
(* sweep an agent and its descendants level by level, run each member's    *)
(* command under that member's lock (agent-lock.ts) with a timeout, and    *)
(* look once more for members that came late. Sweeps overlap, agents spawn *)
(* meanwhile, and a child that was forked under a paused ancestor joins    *)
(* the pause by itself (engine/spawn.ts).                                  *)
(*                                                                         *)
(* Spawn has the fork in detail, AgentTurn the turns: here a child is      *)
(* asked for, forked and started, and a turn runs or does not.             *)
(***************************************************************************)
EXTENDS Naturals, Sequences, FiniteSets, FiniteSetsExt, SequencesExt

CONSTANTS
    TreeAgents,   \* 1 is the root
    Parent,       \* of each of the others
    Sweeps,       \* the subtree requests
    SweepMixes,   \* what the initial states choose from: what each request asks for, which
                  \* agents are up already, which are paused, which may be spawned, and the
                  \* bound on failures
    None

Ops == {"pause", "resume", "stop"}
MixOfSweeps ==
    [op : [Sweeps -> Ops \cup {None}], root : [Sweeps -> TreeAgents], up : SUBSET TreeAgents,
     paused : SUBSET TreeAgents, born : SUBSET TreeAgents, faults : Nat]

ASSUME SubtreeConstants ==
    /\ 1 \in TreeAgents /\ TreeAgents \subseteq Nat /\ IsFiniteSet(TreeAgents)
    /\ Parent \in [TreeAgents \ {1} -> TreeAgents] /\ \A a \in TreeAgents \ {1} : Parent[a] < a
    /\ SweepMixes \subseteq MixOfSweeps /\ \A m \in SweepMixes : m.paused \subseteq m.up /\ 1 \notin m.born
    /\ None \notin Sweeps

VARIABLES
    sweepMix,     \* the mix of this behaviour; its faults count down
    row,          \* the agents table: state, paused_from, ended_at, sandbox_id
    sweepReg,     \* the agents with an SDK handle
    turn,         \* isTurnActive
    frozen,       \* sandboxes the provider has paused
    spawn,        \* provisionChild() of each child
    sweepPrompts, \* how often the first prompt of each child was started
    lock,         \* agent-lock.ts: the commands queued at each agent, the head in progress
    step,         \* what the head of each lock awaits, and the state it read first
    sweep         \* sweepSubtree() of each request

sweepVars == <<sweepMix, row, sweepReg, turn, frozen, spawn, sweepPrompts, lock, step, sweep>>

(* The ancestors of an agent: who is in every set that it is in and that has *)
(* the parents of its members.                                               *)
Above == [a \in TreeAgents |->
    {b \in TreeAgents \ {a} :
        \A S \in SUBSET TreeAgents : a \in S /\ (\A c \in S \ {1} : Parent[c] \in S) => b \in S}]
Depth(a) == Cardinality(Above[a])
Below(a) == {b \in TreeAgents : b = a \/ a \in Above[b]}

Exists(a) == row[a].state # "none"
hasPausedAncestor(a) == \E b \in Above[a] : row[b].state = "paused"
CLOSED_STATES == {"aborted", "lost"}
NoStep == [at |-> "idle", from |-> "none"]

-----------------------------------------------------------------------------
(* Children.                                                               *)

SpawnUnchanged == UNCHANGED <<sweepMix, frozen, step, sweep>>

Accept(c) ==
    /\ c \in sweepMix.born /\ ~Exists(c) /\ Parent[c] \in sweepReg
    /\ row' = [row EXCEPT ![c].state = "provisioning"]
    /\ spawn' = [spawn EXCEPT ![c] = "asked"]
    /\ UNCHANGED <<sweepReg, turn, sweepPrompts, lock>> /\ SpawnUnchanged

Fails(c) ==
    /\ row' = IF row[c].ended THEN row
              ELSE [row EXCEPT ![c].state = "failed", ![c].ended = TRUE]
    /\ spawn' = [spawn EXCEPT ![c] = "off"]
    /\ UNCHANGED <<sweepReg, turn, sweepPrompts, lock>>

(* forkFromParent(): cancelled, held while its parent is paused, without a   *)
(* parent, or on to the fork.                                                *)
ForkBegins(c) ==
    /\ spawn[c] = "asked"
    /\ \/ /\ row[c].ended \/ (row[Parent[c]].state # "paused" /\ Parent[c] \notin sweepReg)
          /\ Fails(c)
       \/ /\ ~row[c].ended /\ row[Parent[c]].state # "paused" /\ Parent[c] \in sweepReg
          /\ spawn' = [spawn EXCEPT ![c] = "forking"]
          /\ UNCHANGED <<row, sweepReg, turn, sweepPrompts, lock>>
    /\ SpawnUnchanged

(* The provider refuses a parent that is paused by now, or closed.           *)
ForkRefused(c) ==
    /\ spawn[c] = "forking"
    /\ \/ /\ Parent[c] \in frozen
          /\ spawn' = [spawn EXCEPT ![c] = "asked"]
          /\ UNCHANGED <<row, sweepReg, turn, sweepPrompts, lock>>
       \/ Parent[c] \notin sweepReg /\ Fails(c)
    /\ SpawnUnchanged

(* A child that was stopped meanwhile is closed again, any other is          *)
(* registered and given its inputs.                                          *)
ForkReturns(c) ==
    /\ spawn[c] = "forking"
    /\ IF row[c].ended
       THEN spawn' = [spawn EXCEPT ![c] = "off"] /\ UNCHANGED <<row, sweepReg>>
       ELSE /\ spawn' = [spawn EXCEPT ![c] = "inject"]
            /\ row' = [row EXCEPT ![c].sandbox = TRUE]
            /\ sweepReg' = sweepReg \cup {c}
    /\ UNCHANGED <<turn, sweepPrompts, lock>> /\ SpawnUnchanged

(* driveTurn() of the first prompt, of an agent that is still registered.    *)
StartTurn(c) ==
    IF c \in sweepReg
    THEN /\ turn' = turn \cup {c}
         /\ row' = [row EXCEPT ![c].state = "running"]
         /\ sweepPrompts' = [sweepPrompts EXCEPT ![c] = @ + 1]
    ELSE UNCHANGED <<turn, row, sweepPrompts>>

JoinsPause(c) == hasPausedAncestor(c)

(* The child joins a pause that reached an ancestor, or starts its prompt. *)
Starts(c) ==
    /\ spawn[c] = "inject"
    /\ IF JoinsPause(c)
       THEN /\ spawn' = [spawn EXCEPT ![c] = "joining"]
            /\ lock' = [lock EXCEPT ![c] = Append(@, [by |-> None, op |-> "pause"])]
            /\ UNCHANGED <<turn, row, sweepPrompts>>
       ELSE /\ spawn' = [spawn EXCEPT ![c] = "off"]
            /\ StartTurn(c)
            /\ UNCHANGED lock
    /\ UNCHANGED sweepReg /\ SpawnUnchanged

(* A turn settles as done or failed, both `done' here. Its last events may   *)
(* come in while its sandbox is being frozen, or when the agent is stopped:  *)
(* driveTurn() does not look for that and settles over `aborted'.            *)
TurnOver(a) ==
    /\ a \in turn
    /\ a \notin frozen \/ step[a].at = "pausing"
    /\ turn' = turn \ {a}
    /\ row' = [row EXCEPT ![a].state = "done", ![a].ended = TRUE]
    /\ UNCHANGED <<sweepReg, lock, spawn, sweepPrompts>> /\ SpawnUnchanged

(* catchUpTurn() and the timer of a retry do look, and settle nothing.       *)
TurnGivenUp(a) ==
    /\ a \in turn
    /\ a \notin sweepReg \/ row[a].state \in CLOSED_STATES
    /\ turn' = turn \ {a}
    /\ UNCHANGED <<row, sweepReg, lock, spawn, sweepPrompts>> /\ SpawnUnchanged

-----------------------------------------------------------------------------
(* One member's command. Its outcome goes to the sweep that still waits for  *)
(* it, or to the child that joins a pause, which starts if it could not.     *)

Answered(a, how) ==
    LET s == Head(lock[a]).by
    IN  sweep' = IF s = None \/ a \notin sweep[s].level THEN sweep
                 ELSE [sweep EXCEPT ![s].res[a] = how, ![s].level = @ \ {a}]

JoinOver(a, how) ==
    spawn' = IF Head(lock[a]).by = None THEN [spawn EXCEPT ![a] = how] ELSE spawn

Unlock(a) ==
    /\ lock' = [lock EXCEPT ![a] = Tail(@)]
    /\ step' = [step EXCEPT ![a] = NoStep]

(* Mutant: a command that fails wedges the later ones.                       *)
Wedged(a) ==
    /\ step' = [step EXCEPT ![a].at = "wedged"] /\ Answered(a, "failed") /\ JoinOver(a, "unpaused")
    /\ UNCHANGED <<turn, row, sweepPrompts, lock>>

Applied(a) == Unlock(a) /\ Answered(a, "applied") /\ JoinOver(a, "joined")

Failed(a) ==
    /\ Unlock(a) /\ Answered(a, "failed") /\ JoinOver(a, "unpaused")
    /\ IF Head(lock[a]).by = None THEN StartTurn(a) ELSE UNCHANGED <<turn, row, sweepPrompts>>

Awaits(a, at) ==
    /\ step' = [step EXCEPT ![a] = [at |-> at, from |-> row[a].state]]
    /\ UNCHANGED <<lock, sweep, spawn>>

Begins(a, op) == lock[a] # <<>> /\ Head(lock[a]).op = op /\ step[a] = NoStep

(* Mutant: a pause is not asked whether the agent is still live.             *)
AlwaysLive(a) == TRUE

IsLive(a) == a \in sweepReg

PauseBegins(a) ==
    /\ Begins(a, "pause")
    /\ IF row[a].state = "paused" THEN Applied(a) /\ UNCHANGED <<turn, row, sweepPrompts, frozen>>
       ELSE IF ~IsLive(a) THEN Failed(a) /\ UNCHANGED frozen
       ELSE /\ Awaits(a, "pausing") /\ frozen' = frozen \cup {a}
            /\ UNCHANGED <<turn, row, sweepPrompts>>
    /\ UNCHANGED <<sweepMix, sweepReg>>

PauseEnds(a) ==
    /\ step[a].at = "pausing"
    /\ row' = [row EXCEPT ![a].state = "paused", ![a].from = step[a].from]
    /\ Applied(a)
    /\ UNCHANGED <<sweepMix, sweepReg, turn, frozen, sweepPrompts>>

ResumeBegins(a) ==
    /\ Begins(a, "resume")
    /\ IF row[a].state = "paused" /\ a \in sweepReg
       THEN Awaits(a, "resuming") /\ UNCHANGED <<turn, row, sweepPrompts>>
       ELSE Failed(a)
    /\ UNCHANGED <<sweepMix, sweepReg, frozen>>

(* The container runs and the row says so; the bridge is asked.              *)
ResumeThaws(a) ==
    /\ step[a].at = "resuming"
    /\ row' = [row EXCEPT ![a].state = row[a].from]
    /\ frozen' = frozen \ {a}
    /\ step' = [step EXCEPT ![a].at = "checking"]
    /\ UNCHANGED <<sweepMix, sweepReg, turn, sweepPrompts, lock, spawn, sweep>>

(* A turn nobody follows is followed again; a prompt that has not started is *)
(* started.                                                                  *)
ResumeEnds(a) ==
    /\ step[a].at = "checking"
    /\ IF row[a].from = "provisioning" /\ ~row[a].ended /\ a \notin turn THEN StartTurn(a)
       ELSE /\ turn' = IF row[a].from = "running" THEN turn \cup {a} ELSE turn
            /\ UNCHANGED <<row, sweepPrompts>>
    /\ Applied(a)
    /\ UNCHANGED <<sweepMix, sweepReg, frozen>>

Gone(a) ==
    /\ sweepReg' = sweepReg \ {a}
    /\ frozen' = frozen \ {a}

(* An agent that ended is released, one without a sandbox is cancelled on    *)
(* the spot, any other is aborted and closed.                                *)
StopBegins(a) ==
    /\ Begins(a, "stop")
    /\ \/ row[a].ended /\ a \notin sweepReg /\ Applied(a) /\ UNCHANGED row
       \/ row[a].ended /\ a \in sweepReg /\ Awaits(a, "releasing") /\ UNCHANGED row
       \/ /\ ~row[a].ended
          /\ row' = [row EXCEPT ![a].state = "aborted", ![a].ended = a \notin sweepReg]
          /\ IF a \in sweepReg THEN Awaits(a, "aborting") ELSE Applied(a)
    /\ UNCHANGED <<sweepMix, sweepReg, turn, sweepPrompts, frozen>>

StopEnds(a) ==
    /\ step[a].at \in {"aborting", "releasing"}
    /\ row' = IF step[a].at = "aborting"
              THEN [row EXCEPT ![a].state = "aborted", ![a].ended = TRUE] ELSE row
    /\ Gone(a)
    /\ Applied(a)
    /\ UNCHANGED <<sweepMix, turn, sweepPrompts>>

(* The provider refuses to pause or resume, or the bridge is gone.           *)
CommandFails(a) ==
    /\ sweepMix.faults > 0
    /\ sweepMix' = [sweepMix EXCEPT !.faults = @ - 1]
    /\ \/ step[a].at = "pausing" /\ Failed(a) /\ frozen' = frozen \ {a}
       \/ step[a].at = "resuming" /\ Failed(a) /\ UNCHANGED frozen
       \/ /\ step[a].at = "checking"
          /\ row' = [row EXCEPT ![a].state = IF row[a].from = "done" THEN @ ELSE "lost",
                                 ![a].ended = TRUE]
          /\ Unlock(a) /\ Answered(a, "failed") /\ JoinOver(a, "unpaused")
          /\ UNCHANGED <<turn, sweepPrompts, frozen>>
    /\ UNCHANGED sweepReg

-----------------------------------------------------------------------------
(* sweepSubtree().                                                         *)

resolveSubtree(a) == {b \in Below(a) : Exists(b)}

Begin(s) ==
    /\ sweepMix.op[s] # None
    /\ sweep[s].phase = "new" /\ Exists(sweepMix.root[s])
    /\ LET others == {o \in Sweeps \ {s} : sweep[o].phase \notin {"new", "done"}}
       IN  sweep' = [o \in Sweeps |->
              IF o = s THEN [sweep[s] EXCEPT !.phase = "first", !.alone = others = {},
                                             !.todo = resolveSubtree(sweepMix.root[s])]
              ELSE [sweep[o] EXCEPT !.alone = @ /\ o \notin others,
                                    !.last = sweep[o].phase = "new"]]
    /\ UNCHANGED <<sweepMix, row, sweepReg, turn, frozen, spawn, sweepPrompts, lock, step>>

FromTheTop(s) == sweepMix.op[s] = "pause"

NextLevel(s) ==
    LET ds == {Depth(a) : a \in sweep[s].todo}
        d == IF FromTheTop(s) THEN Min(ds) ELSE Max(ds)
    IN  {a \in sweep[s].todo : Depth(a) = d}

(* pauseMember(), resumeMember(), stopMember(): who is left alone.           *)
Skipped(s, a) ==
    CASE sweepMix.op[s] = "pause" -> \/ row[a].state \in CLOSED_STATES \cup {"paused"}
                                     \/ row[a].sandbox /\ a \notin sweepReg
                                     \/ ~row[a].sandbox /\ a = sweepMix.root[s]
      [] sweepMix.op[s] = "resume" -> row[a].state # "paused"
      [] sweepMix.op[s] = "stop" -> row[a].ended /\ a \notin sweepReg

(* A member without a sandbox is left to join the pause.                     *)
WillJoin(s, a) == sweepMix.op[s] = "pause" /\ ~row[a].sandbox /\ ~Skipped(s, a)

Level(s) ==
    /\ sweep[s].phase \in {"first", "second"}
    /\ sweep[s].level = {} /\ sweep[s].todo # {}
    /\ LET members == NextLevel(s)
           asked == {a \in members : ~Skipped(s, a) /\ ~WillJoin(s, a)}
       IN  /\ sweep' = [sweep EXCEPT
                 ![s].todo = @ \ members,
                 ![s].level = asked,
                 ![s].res = [a \in TreeAgents |-> IF a \in members \ asked
                               THEN IF WillJoin(s, a) THEN "pending" ELSE "skipped" ELSE @[a]]]
           /\ lock' = [a \in TreeAgents |-> IF a \in asked
                         THEN Append(lock[a], [by |-> s, op |-> sweepMix.op[s]]) ELSE lock[a]]
    /\ UNCHANGED <<sweepMix, row, sweepReg, turn, frozen, spawn, sweepPrompts, step>>

(* Mutant: members that came during the sweep are not looked for.            *)
NoneLate(s) == {}

LateMembers(s) == {a \in resolveSubtree(sweepMix.root[s]) : sweep[s].res[a] = "none"}

LevelsDone(s) ==
    /\ sweep[s].phase \in {"first", "second"}
    /\ sweep[s].level = {} /\ sweep[s].todo = {}
    /\ sweep' = [sweep EXCEPT ![s] =
           IF sweep[s].phase = "first" /\ LateMembers(s) # {}
           THEN [@ EXCEPT !.phase = "second", !.todo = LateMembers(s), !.late = LateMembers(s)]
           ELSE [@ EXCEPT !.phase = "done"]]
    /\ UNCHANGED <<sweepMix, row, sweepReg, turn, frozen, spawn, sweepPrompts, lock, step>>

(* attempt(): the member has taken too long. Its command goes on.            *)
MemberTimesOut(s, a) ==
    /\ sweepMix.faults > 0
    /\ sweepMix' = [sweepMix EXCEPT !.faults = @ - 1]
    /\ a \in sweep[s].level
    /\ sweep' = [sweep EXCEPT ![s].res[a] = "failed", ![s].level = @ \ {a}]
    /\ UNCHANGED <<row, sweepReg, turn, frozen, spawn, sweepPrompts, lock, step>>

-----------------------------------------------------------------------------
SweepInit ==
    /\ sweepMix \in SweepMixes
    /\ row = [a \in TreeAgents |->
                [state |-> IF a \in sweepMix.paused THEN "paused" ELSE
                           IF a \in sweepMix.up THEN "running" ELSE "none",
                 from |-> IF a \in sweepMix.paused THEN "running" ELSE "none",
                 ended |-> FALSE, sandbox |-> a \in sweepMix.up]]
    /\ sweepReg = sweepMix.up
    /\ turn = sweepMix.up
    /\ frozen = sweepMix.paused
    /\ spawn = [a \in TreeAgents |-> "off"]
    /\ sweepPrompts = [a \in TreeAgents |-> 0]
    /\ lock = [a \in TreeAgents |-> <<>>]
    /\ step = [a \in TreeAgents |-> NoStep]
    /\ sweep = [s \in Sweeps |-> [phase |-> "new", todo |-> {}, level |-> {}, late |-> {},
                                  res |-> [a \in TreeAgents |-> "none"],
                                  alone |-> TRUE, last |-> TRUE]]

Spawning(c) == ForkBegins(c) \/ ForkRefused(c) \/ ForkReturns(c) \/ Starts(c)

Command(a) ==
    \/ PauseBegins(a) \/ PauseEnds(a) \/ ResumeBegins(a) \/ ResumeThaws(a) \/ ResumeEnds(a)
    \/ StopBegins(a) \/ StopEnds(a)

SweepNext ==
    \/ \E a \in TreeAgents :
          Accept(a) \/ Spawning(a) \/ TurnOver(a) \/ TurnGivenUp(a) \/ Command(a) \/ CommandFails(a)
    \/ \E s \in Sweeps :
          Begin(s) \/ Level(s) \/ LevelsDone(s) \/ \E a \in TreeAgents : MemberTimesOut(s, a)

SweepSpec == SweepInit /\ [][SweepNext]_sweepVars

(* Calls to the provider return, levels follow each other.                   *)
SweepFairness ==
    /\ \A a \in TreeAgents : WF_sweepVars(Command(a)) /\ WF_sweepVars(Spawning(a))
    /\ \A s \in Sweeps : WF_sweepVars(Level(s)) /\ WF_sweepVars(LevelsDone(s))

SweepFairSpec == SweepSpec /\ SweepFairness

-----------------------------------------------------------------------------
(* A sweep that is over, that no other overlapped, and that none followed.   *)
Over(s, op) == sweepMix.op[s] = op /\ sweep[s].phase = "done" /\ sweep[s].alone /\ sweep[s].last
NoneFailed(s) == \A a \in TreeAgents : sweep[s].res[a] # "failed"

(* When a pause of a subtree is over, nothing in it works or will while the    *)
(* root stays paused: agents that were spawned during the sweep and after it   *)
(* included. Only where the provider refused to pause an agent, or a command   *)
(* on it took too long, may it go on (pause.ts:163-212, spawn.ts:217-227). The *)
(* root itself does not stay paused if its spawn was still giving it its       *)
(* inputs: see the README.                                                     *)
PauseHolds ==
    \A s \in Sweeps :
        /\ Over(s, "pause") /\ sweep[s].res[sweepMix.root[s]] = "applied"
        /\ row[sweepMix.root[s]].state = "paused"
        => \A a \in resolveSubtree(sweepMix.root[s]) :
               a \in turn \cap sweepReg =>
                             \/ a \in frozen \/ spawn[a] = "unpaused"
                             \/ \E o \in Sweeps : sweep[o].res[a] = "failed"

(* When a resume of a subtree is over, no member is left paused but those the  *)
(* sweep, or the pause that took too long before it, reported as failed, and   *)
(* a child that was just joining the pause.                                    *)
ResumeReaches ==
    \A s \in Sweeps :
        Over(s, "resume") => \A a \in resolveSubtree(sweepMix.root[s]) :
            row[a].state = "paused" => \/ \E o \in Sweeps : sweep[o].res[a] = "failed"
                                       \/ spawn[a] \in {"joining", "joined"}

(* When a stop of a subtree is over, nothing in it is left alive but what    *)
(* the sweep reports as failed, and what a late member spawned while it was  *)
(* itself about to be stopped.                                               *)
StopReaches ==
    \A s \in Sweeps :
        Over(s, "stop") => \A a \in resolveSubtree(sweepMix.root[s]) \cap sweepReg :
            \E b \in Above[a] \cup {a} : sweep[s].res[b] = "failed" \/ b \in sweep[s].late \ {a}

(* A sweep that is over has reached the whole subtree, the agents that were    *)
(* spawned into it meanwhile included.                                         *)
SweepsReach == PauseHolds /\ ResumeReaches /\ StopReaches

(* A stop closes no agent under a descendant that was there when the sweep     *)
(* began, unless that one's own stop failed: the parent's sandbox is needed    *)
(* until its children are closed (lifecycle.ts:83-86). The members that come   *)
(* late are swept after their parents.                                         *)
NoParentClosedUnderChild ==
    [][\A s \in Sweeps, a \in TreeAgents :
         a \in sweepReg /\ a \notin sweepReg' /\ Head(lock[a]).by = s /\ sweep[s].phase = "first" =>
             \A b \in Below(a) \cap sweepReg' :
                 b \notin sweep[s].todo /\ sweep[s].res[b] \in {"none", "failed"}]_sweepVars

(* Once a stop is through with an agent nothing brings it back: not a pause, a *)
(* resume or a failed command that waited behind the stop in the lock, not the *)
(* fork that was under way, and no turn is started for it (agent-lock.ts:14-30,*)
(* lifecycle.ts:42-79). Its row is rewritten once at most, by the turn that ran*)
(* when the stop came and settles late.                                        *)
StoppedIsFinal ==
    [][\A a \in TreeAgents : row[a].ended /\ a \notin sweepReg =>
         /\ a \notin sweepReg' /\ (a \in turn' => a \in turn)
         /\ row'[a] # row[a] => /\ a \in turn \ turn'
                               /\ row'[a] = [row[a] EXCEPT !.state = "done"]]_sweepVars

(* A stop is orderly, from the leaves to the top, and final.                   *)
StopIsOrderly == NoParentClosedUnderChild /\ StoppedIsFinal

(* Every sweep that has begun is over.                                         *)
NobodySweeps == \A s \in Sweeps : sweep[s].phase \in {"new", "done"}

-----------------------------------------------------------------------------
(* What does not hold: see the README.                                         *)

(* A child is given its first prompt once. One that joined a pause while it    *)
(* was being given its inputs is prompted by resumeAgent() and by              *)
(* provisionChild().                                                           *)
PromptedOnce == \A a \in TreeAgents : sweepPrompts[a] <= 1

(* "Resume returns the agent to the state it had before the pause"             *)
(* (steering-and-pausing.mdx:104): a child that is paused itself, and not by   *)
(* way of an ancestor, while it is given its inputs is started over its frozen *)
(* sandbox, and a resume then finds it running.                                *)
PausedIsNotStarted ==
    [][\A c \in TreeAgents : row[c].state = "paused" /\ Starts(c) => row'[c].state = "paused"]_sweepVars

(* After a resume no descendant is left paused (pause.ts:176-179): a child     *)
(* that looked for a paused ancestor just before the resume joins afterwards.  *)
ResumeReachesAll ==
    \A s \in Sweeps : Over(s, "resume") /\ NoneFailed(s) =>
        \A a \in resolveSubtree(sweepMix.root[s]) : row[a].state = "paused" => lock[a] # <<>>

(* "anything spawned into the subtree meanwhile gets the same treatment"       *)
(* (subtree.ts:5): not what a late member spawns.                              *)
StopReachesAll ==
    \A s \in Sweeps : Over(s, "stop") /\ NoneFailed(s) =>
        resolveSubtree(sweepMix.root[s]) \cap sweepReg = {}
=============================================================================
