----------------------------- MODULE SandboxClient -----------------------------
(***************************************************************************)
(* The slots and the environments of one sandbox client                    *)
(* (packages/sdks/typescript/src/client.ts, environment.ts). Every call    *)
(* that makes a sandbox takes a slot of maxConcurrency, and gives it back  *)
(* when it fails or the sandbox is closed. environment.sandbox() restores  *)
(* the recorded snapshot, or, when there is none that works, waits for a   *)
(* build that is shared with whoever waits for it at the same time.        *)
(*                                                                         *)
(* Outside src/: the provider, which makes and deletes sandboxes, keeps    *)
(* snapshots and may lose them, and the ledger the records are written to. *)
(***************************************************************************)
EXTENDS Naturals, Sequences, FiniteSets

CONSTANTS
    Calls,   \* the calls that make a sandbox, Build among them
    Build,   \* the build that the calls of environment.sandbox() share
    Mixes    \* what the initial states choose from: the kind and the parent of each call,
             \* maxConcurrency, the snapshot that is on record, and the faults

VARIABLES
    mix,       \* the mix that was chosen, with the faults that are left
    active,    \* _activeCount
    waiters,   \* _waiters
    granted,   \* waiters whose promise is resolved and that have not resumed yet
    pc,        \* where each call is
    from,      \* what its sandbox is made from: 0 an image, else a snapshot
    mayBuild,  \* calls of environment.sandbox() that build when the snapshot fails them
    made,      \* the snapshot a builder has taken, 0 if none
    boxes,     \* the calls whose container exists
    snaps,     \* the snapshots of the environment, as the provider has them
    record,    \* the snapshot on record, 0 if none
    lost       \* history: slots that a failed close() did not give back

slots == <<active, waiters, granted>>
env == <<from, mayBuild, made, snaps, record>>
vars == <<mix, slots, pc, env, boxes, lost>>

(* What the initial states choose from: a limit is a positive number.        *)
MixOfCalls ==
    [kind : [Calls \ {Build} -> {"none", "sandbox", "env", "rebuild", "fork"}],
     parent : [Calls \ {Build} -> Calls], max : Nat \ {0}, snaps : Seq({"ready", "gone", "pruned"}),
     faults : [{"start", "setup", "delete", "log", "snapshot"} -> Nat]]

ASSUME ClientConstants == IsFiniteSet(Calls) /\ Build \in Calls /\ Mixes \subseteq MixOfCalls

Kind(c) == IF c = Build THEN "build" ELSE mix.kind[c]
IsBuilder(c) == Kind(c) \in {"build", "rebuild"}
Fault(f) == mix.faults[f] > 0 /\ mix' = [mix EXCEPT !.faults[f] = @ - 1]

-----------------------------------------------------------------------------
(* _acquireSlot(), with what else becomes of the calls; _releaseSlot()       *)

Take(c, calls) ==
    IF active < mix.max
    THEN /\ active' = active + 1
         /\ pc' = [calls EXCEPT ![c] = "creating"]
         /\ UNCHANGED <<waiters, granted>>
    ELSE /\ waiters' = Append(waiters, c)
         /\ pc' = [calls EXCEPT ![c] = "queued"]
         /\ UNCHANGED <<active, granted>>

(* Mutant: a slot is freed and nobody is told. *)
ReleaseInSilence == active' = active - 1 /\ UNCHANGED <<waiters, granted>>

Release ==
    /\ active' = active - 1
    /\ granted' = IF waiters = <<>> THEN granted ELSE granted \cup {Head(waiters)}
    /\ waiters' = IF waiters = <<>> THEN waiters ELSE Tail(waiters)

(* The count goes up when the waiter resumes, not when it is granted.        *)
Resumes(c) ==
    /\ c \in granted
    /\ granted' = granted \ {c}
    /\ active' = active + 1
    /\ pc' = [pc EXCEPT ![c] = "creating"]
    /\ UNCHANGED <<mix, waiters, env, boxes, lost>>

-----------------------------------------------------------------------------
(* sandbox(), restoreSnapshot(), resume(), fork(), and rebuild() *)

Begin(c) ==
    /\ pc[c] = "idle"
    /\ \/ Kind(c) \in {"sandbox", "rebuild"}
       \/ Kind(c) = "fork" /\ pc[mix.parent[c]] = "open"
    /\ Take(c, pc)
    /\ UNCHANGED <<mix, env, boxes, lost>>

(* environment.sandbox(): the record is read, then the provider is asked for *)
(* the snapshot, which it may list although its image is gone.               *)
ReadRecord(c) ==
    /\ pc[c] = "idle" /\ Kind(c) = "env"
    /\ pc' = [pc EXCEPT ![c] = "read"]
    /\ from' = [from EXCEPT ![c] = record]
    /\ UNCHANGED <<mix, slots, mayBuild, made, snaps, record, boxes, lost>>

CheckSnapshot(c) ==
    /\ pc[c] = "read"
    /\ IF from[c] # 0 /\ snaps[from[c]] # "gone"
       THEN Take(c, pc)
       ELSE pc' = [pc EXCEPT ![c] = "unbuilt"] /\ UNCHANGED slots
    /\ UNCHANGED <<mix, env, boxes, lost>>

(* _getOrBuildEnvironment(): the build in flight, or a new one. *)
JoinBuild(c) ==
    /\ pc[c] = "unbuilt"
    /\ mayBuild' = mayBuild \ {c}
    /\ IF pc[Build] = "idle"
       THEN Take(Build, [pc EXCEPT ![c] = "awaiting"])
       ELSE pc' = [pc EXCEPT ![c] = "awaiting"] /\ UNCHANGED slots
    /\ UNCHANGED <<mix, from, made, snaps, record, boxes, lost>>

Restore(c) ==
    /\ pc[c] = "built"
    /\ Take(c, pc)
    /\ UNCHANGED <<mix, env, boxes, lost>>

Created(c) ==
    /\ pc[c] = "creating"
    /\ from[c] # 0 => snaps[from[c]] = "ready"
    /\ pc' = [pc EXCEPT ![c] = "starting"]
    /\ boxes' = boxes \cup {c}
    /\ UNCHANGED <<mix, slots, env, lost>>

(* The sandbox runs, and that is logged. *)
Started(c) ==
    /\ pc[c] = "starting"
    /\ pc' = [pc EXCEPT ![c] = "open"]
    /\ UNCHANGED <<mix, slots, env, boxes, lost>>

(* The end of the shared build, for all who wait for it. *)
BuildSettles(outcome) ==
    [c \in Calls |-> IF c = Build THEN "idle" ELSE IF pc[c] = "awaiting" THEN outcome ELSE pc[c]]

Failed(c) ==
    IF c \in mayBuild THEN [pc EXCEPT ![c] = "unbuilt"]
    ELSE IF c = Build THEN BuildSettles("failed") ELSE [pc EXCEPT ![c] = "failed"]

(* The sandbox is not made, does not start, or cannot be logged. A container *)
(* that was made stays.                                                      *)
Fails(c) ==
    /\ \/ pc[c] = "creating" /\ from[c] # 0 /\ snaps[from[c]] # "ready" /\ UNCHANGED mix
       \/ pc[c] \in {"creating", "starting"} /\ Fault("start")
    /\ pc' = Failed(c)
    /\ Release
    /\ UNCHANGED <<env, boxes, lost>>

-----------------------------------------------------------------------------
(* _buildEnvironment() after its sandbox is open: setup and checkpoint, or a *)
(* failure of one of them; the sandbox is closed in either case.             *)
SetUp(c) ==
    /\ pc[c] = "open" /\ IsBuilder(c)
    /\ \/ snaps' = Append(snaps, "ready") /\ made' = [made EXCEPT ![c] = Len(snaps) + 1]
          /\ UNCHANGED mix
       \/ Fault("setup") /\ UNCHANGED <<snaps, made>>
    /\ pc' = [pc EXCEPT ![c] = "closing"]
    /\ UNCHANGED <<slots, from, mayBuild, record, boxes, lost>>

(* close() by the program, which has closed what it forked. *)
Close(c) ==
    /\ pc[c] = "open" /\ ~IsBuilder(c)
    /\ \A d \in Calls : Kind(d) = "fork" /\ mix.parent[d] = c => pc[d] \in {"idle", "closed", "failed"}
    /\ pc' = [pc EXCEPT ![c] = "closing"]
    /\ UNCHANGED <<mix, slots, env, boxes, lost>>

After(c, ok) ==
    IF ~IsBuilder(c) THEN [pc EXCEPT ![c] = "closed"]
    ELSE IF ok /\ made[c] # 0 THEN [pc EXCEPT ![c] = "saving"] ELSE Failed(c)

(* The container is deleted or not, and either way sandbox.closed is logged  *)
(* and the slot is given back.                                               *)
Closed(c) ==
    /\ pc[c] = "closing"
    /\ \/ boxes' = boxes \ {c} /\ pc' = After(c, TRUE) /\ UNCHANGED mix
       \/ Fault("delete") /\ pc' = After(c, FALSE) /\ UNCHANGED boxes
    /\ Release
    /\ UNCHANGED <<env, lost>>

(* The ledger refuses sandbox.closed, and onClose() is not reached. *)
ClosedUnlogged(c) ==
    /\ pc[c] = "closing" /\ Fault("log")
    /\ boxes' = boxes \ {c}
    /\ pc' = After(c, FALSE)
    /\ lost' = lost + 1
    /\ UNCHANGED <<slots, env>>

(* saveEnvironment(), and the promise of the build is resolved. *)
Save(c) ==
    /\ pc[c] = "saving"
    /\ record' = made[c]
    /\ made' = [made EXCEPT ![c] = 0]
    /\ IF c = Build
       THEN /\ pc' = BuildSettles("built")
            /\ from' = [d \in Calls |-> IF pc[d] = "awaiting" THEN made[c] ELSE from[d]]
       ELSE pc' = [pc EXCEPT ![c] = "closed"] /\ UNCHANGED from
    /\ UNCHANGED <<mix, slots, mayBuild, snaps, boxes, lost>>

(* The provider expires a snapshot, or loses its image and still lists it. *)
SnapshotLost(s) ==
    /\ snaps[s] = "ready" /\ Fault("snapshot")
    /\ \E state \in {"gone", "pruned"} : snaps' = [snaps EXCEPT ![s] = state]
    /\ UNCHANGED <<slots, pc, from, mayBuild, made, record, boxes, lost>>

-----------------------------------------------------------------------------
Init ==
    /\ mix \in Mixes
    /\ active = 0 /\ waiters = <<>> /\ granted = {}
    /\ pc = [c \in Calls |-> "idle"]
    /\ from = [c \in Calls |-> 0] /\ made = [c \in Calls |-> 0]
    /\ mayBuild = {c \in Calls : Kind(c) = "env"}
    /\ boxes = {}
    /\ snaps = mix.snaps /\ record = Len(snaps)
    /\ lost = 0

Step(c) ==
    \/ Resumes(c) \/ CheckSnapshot(c) \/ JoinBuild(c) \/ Restore(c)
    \/ Created(c) \/ Started(c) \/ Fails(c)
    \/ SetUp(c) \/ Close(c) \/ Closed(c) \/ ClosedUnlogged(c) \/ Save(c)

Next ==
    \/ \E c \in Calls : Step(c) \/ Begin(c) \/ ReadRecord(c)
    \/ \E s \in DOMAIN snaps : SnapshotLost(s)

(* Calls of the provider, of setup and of the ledger return or fail, and a   *)
(* program closes its sandboxes.                                             *)
Fairness == \A c \in Calls : WF_vars(Step(c))

Spec == Init /\ [][Next]_vars /\ Fairness

-----------------------------------------------------------------------------
Holders == {c \in Calls : pc[c] \in {"creating", "starting", "open", "closing"}}

(* Every variable has its type. *)
TypeOK ==
    /\ active \in Nat /\ lost \in Nat
    /\ \A i \in DOMAIN waiters : waiters[i] \in Calls
    /\ granted \subseteq Calls /\ mayBuild \subseteq Calls /\ boxes \subseteq Calls
    /\ pc \in [Calls -> {"idle", "read", "unbuilt", "awaiting", "built", "queued", "creating",
                         "starting", "open", "closing", "saving", "closed", "failed"}]
    /\ from \in [Calls -> 0..Len(snaps)] /\ made \in [Calls -> 0..Len(snaps)]
    /\ record \in 0..Len(snaps)

(* Whatever fails, and however restores, builds and forks nest, the count is *)
(* that of the sandboxes that are being made or are open (and of the slots   *)
(* lost for good), and no slot is free while somebody queues for one         *)
(* (client.ts:1159-1172, and every catch that releases).                     *)
SlotsAreCounted ==
    /\ active = Cardinality(Holders) + lost
    /\ waiters # <<>> => active + Cardinality(granted) >= mix.max

(* Whoever queues for a slot gets one: no call holds a slot while it waits   *)
(* for a build that needs one (client.ts:901-962). Not so when all slots are *)
(* lost, or held by programs that wait for their own forks.                  *)
Stuck == lost + Cardinality({c \in Holders : \E d \in Calls : Kind(d) = "fork" /\ mix.parent[d] = c})
            >= mix.max
NobodyQueues == \A c \in Calls : pc[c] # "queued"
QueueMoves == []<>(NobodyQueues \/ Stuck)

-----------------------------------------------------------------------------
(* What does not hold: see the README. *)

(* "Maximum number of sandboxes that may be active simultaneously" (types.ts:80-84). *)
LimitIsKept == Cardinality(Holders) <= mix.max

(* A fork is made although every slot is held by programs that fork.         *)
ForksGetSlots == \A c \in Calls : pc[c] = "queued" ~> (pc[c] # "queued" \/ lost >= mix.max)

(* Nothing is left of a sandbox that failed to start or that was closed.     *)
NothingLeft == \A c \in Calls : pc[c] \in {"closed", "failed"} => c \notin boxes

(* A slot is given back whatever fails. *)
SlotsComeBack == lost = 0
=============================================================================
