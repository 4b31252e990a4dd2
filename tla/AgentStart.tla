------------------------------ MODULE AgentStart ------------------------------
(***************************************************************************)
(* Alineo.start(), the restore of an agent whose sandbox is gone, and      *)
(* spawn() (packages/agent/src/agent/factory.ts), with the file of setup   *)
(* snapshots they share (snapshots.ts). A start restores the snapshot that *)
(* is on record for its spec and setup, or installs everything in a new    *)
(* container, takes a snapshot of it and records that. Each call has an    *)
(* AgentSnapshotStore of its own, so that the chain which serializes the   *)
(* writes of one store orders the writes of one call only.                 *)
(*                                                                         *)
(* Outside src/: the provider, which loses snapshots and may take ones     *)
(* that hold nothing, the harness, and the file system.                    *)
(***************************************************************************)
EXTENDS Naturals, Sequences, FiniteSets

CONSTANTS
    StartCalls,  \* the calls of start(), of the restore, and of spawn()
    StartMixes,  \* what the initial states choose from: of each call the kind, the spec and the
                 \* setup, whether it is gated and whether it rebuilds; the records; the faults
    Nil

VARIABLES
    startMix,   \* the mix that was chosen, with the faults that are left
    startPc,    \* where each call is
    startFrom,  \* the snapshot its container was restored from, 0 if none
    rebuild,    \* calls that are not to look for a record
    startMade,  \* the snapshot it has taken, 0 if none
    startBoxes, \* the containers there are: <<call, what it was made from>>
    gates,      \* calls whose egress listener is up
    startSnaps, \* the snapshots, as the provider has them
    file,       \* agent-snapshots.json: a set of records, Nil when it is not JSON
    io,         \* the write each call has under way: what it read, and whether it is writing
    clash,      \* calls whose write overlaps another
    after,      \* where the call goes on when its write is over
    unclosed,   \* history: containers whose close() failed, and those that nobody has a handle
                \* on, for the client or a read of the ledger failed
    hurt,       \* history: calls that a fault hit outside of a restored container
    kept        \* history: the record that the last save or delete of a spec left of it

history == <<unclosed, hurt>>
disk == <<file, io, clash, after, kept>>
provider == <<startBoxes, startSnaps>>
startVars == <<startMix, startPc, startFrom, rebuild, startMade, provider, gates, disk, history>>

(* What the initial states choose from; a record names a snapshot there was. *)
Records == [spec : STRING, setup : Nat, snap : Nat]
Faults == {"provider", "setup", "bridge", "close", "ledger", "blank", "snapshot", "file"}
MixOfStarts ==
    [kind : [StartCalls -> {"none", "start", "restore", "spawn"}], spec : [StartCalls -> STRING],
     setup : [StartCalls -> Nat], gated : [StartCalls -> BOOLEAN], rebuild : SUBSET StartCalls,
     records : SUBSET Records, snaps : Seq({"ready", "blank", "gone"}), faults : [Faults -> Nat]]

ASSUME StartConstants ==
    /\ StartMixes \subseteq MixOfStarts
    /\ \A m \in StartMixes : \A r \in m.records : r.snap \in 1 .. Len(m.snaps)

StartKind(c) == startMix.kind[c]
Spec_(c) == startMix.spec[c]
Record(c, s) == [spec |-> Spec_(c), setup |-> startMix.setup[c], snap |-> s]
StartFault(f) == startMix.faults[f] > 0 /\ startMix' = [startMix EXCEPT !.faults[f] = @ - 1]
Goto(c, where) == startPc' = [startPc EXCEPT ![c] = where]
Box(c) == <<c, startFrom[c]>>

-----------------------------------------------------------------------------
(* agent-snapshots.json *)

(* _read(): what cannot be parsed is nothing. *)
Contents == IF file = Nil THEN {} ELSE file

OfSpec(records, c) == {r \in records : r.spec = Spec_(c)}

(* save() and delete(): what each makes of the records it has read. *)
Changed(c, records) ==
    (records \ OfSpec(records, c)) \cup (IF startMade[c] # 0 THEN {Record(c, startMade[c])} ELSE {})

ReadForWrite(c) ==
    /\ startPc[c] = "storing" /\ io[c] = Nil
    /\ io' = [io EXCEPT ![c] = [records |-> Changed(c, Contents), writing |-> FALSE]]
    /\ UNCHANGED <<startMix, startPc, startFrom, rebuild, startMade, provider, gates, file, clash, after,
                   kept, history>>

Writers == {c \in StartCalls : io[c] # Nil /\ io[c].writing}

(* writeFile() empties the file, and then fills it. *)
Truncate(c) ==
    /\ io[c] # Nil /\ ~io[c].writing
    /\ io' = [io EXCEPT ![c].writing = TRUE]
    /\ file' = Nil
    /\ clash' = IF Writers = {} THEN clash ELSE clash \cup Writers \cup {c}
    /\ UNCHANGED <<startMix, startPc, startFrom, rebuild, startMade, provider, gates, after, kept,
                   history>>

(* The last of several that overlap may leave more than its own text.        *)
Written(c) ==
    /\ c \in Writers
    /\ file' \in IF c \in clash THEN {io[c].records, Nil} ELSE {io[c].records}
    /\ clash' = clash \ {c}
    /\ io' = [io EXCEPT ![c] = Nil]
    /\ kept' = [kept EXCEPT ![Spec_(c)] = OfSpec(io[c].records, c)]
    /\ Goto(c, after[c])
    /\ after' = [after EXCEPT ![c] = Nil]
    /\ UNCHANGED <<startMix, startFrom, rebuild, startMade, provider, gates, history>>

-----------------------------------------------------------------------------
(* loadAgent() up to its container, and the fork of spawnChild() *)

Begins(c) ==
    /\ startPc[c] = "idle" /\ StartKind(c) # "none"
    /\ Goto(c, IF StartKind(c) = "spawn" \/ c \in rebuild THEN "creating" ELSE "reading")
    /\ gates' = IF startMix.gated[c] THEN gates \cup {c} ELSE gates
    /\ UNCHANGED <<startMix, startFrom, rebuild, startMade, provider, disk, history>>

LookUp(c) ==
    /\ startPc[c] = "reading"
    /\ LET found == {r \in Contents : r.spec = Spec_(c) /\ r.setup = startMix.setup[c]}
       IN  IF found = {}
           THEN Goto(c, "creating") /\ UNCHANGED startFrom
           ELSE /\ Goto(c, "restoring")
                /\ \E r \in found : startFrom' = [startFrom EXCEPT ![c] = r.snap]
    /\ UNCHANGED <<startMix, rebuild, startMade, provider, gates, disk, history>>

Restored(c) ==
    /\ startPc[c] = "restoring" /\ startSnaps[startFrom[c]] # "gone"
    /\ startBoxes' = startBoxes \cup {Box(c)}
    /\ Goto(c, "starting")
    /\ UNCHANGED <<startMix, startFrom, rebuild, startMade, gates, startSnaps, disk, history>>

(* The client makes the container, waits until it runs and writes it down:   *)
(* when that fails it is there, and nobody has a handle to close it by.      *)
MakingFails(c) ==
    /\ StartFault("provider")
    /\ \/ UNCHANGED <<startBoxes, unclosed>>
       \/ startBoxes' = startBoxes \cup {Box(c)} /\ unclosed' = unclosed \cup {Box(c)}

(* The record is deleted, and then everything is installed. *)
Store(c, next) ==
    /\ Goto(c, "storing")
    /\ after' = [after EXCEPT ![c] = next]
    /\ UNCHANGED <<file, io, clash, kept>>

RestoreFails(c) ==
    /\ startPc[c] = "restoring"
    /\ \/ startSnaps[startFrom[c]] = "gone" /\ UNCHANGED <<startMix, startBoxes, unclosed>>
       \/ MakingFails(c)
    /\ startFrom' = [startFrom EXCEPT ![c] = 0]
    /\ Store(c, "creating")
    /\ UNCHANGED <<rebuild, startMade, startSnaps, gates, hurt>>

BoxMade(c) ==
    /\ startPc[c] = "creating"
    /\ startBoxes' = startBoxes \cup {Box(c)}
    /\ Goto(c, IF StartKind(c) = "spawn" THEN "starting" ELSE "installing")
    /\ UNCHANGED <<startMix, startFrom, rebuild, startMade, gates, startSnaps, disk, history>>

(* Outside of any try: the listener of the call stays. *)
CreateFails(c) ==
    /\ startPc[c] = "creating" /\ MakingFails(c)
    /\ Goto(c, "failed")
    /\ hurt' = hurt \cup {c}
    /\ UNCHANGED <<startFrom, rebuild, startMade, startSnaps, gates, disk>>

(* Packages, setup and the snapshot, which on some runtimes holds nothing.   *)

Installed(c) ==
    /\ startPc[c] = "installing"
    /\ \/ startSnaps' = Append(startSnaps, "ready") /\ UNCHANGED startMix
       \/ StartFault("blank") /\ startSnaps' = Append(startSnaps, "blank")
    /\ startMade' = [startMade EXCEPT ![c] = Len(startSnaps) + 1]
    /\ Store(c, "starting")
    /\ UNCHANGED <<startFrom, rebuild, startBoxes, gates, history>>

InstallFails(c) ==
    /\ startPc[c] = "installing" /\ StartFault("setup")
    /\ Goto(c, "closing")
    /\ hurt' = hurt \cup {c}
    /\ UNCHANGED <<startFrom, rebuild, startMade, provider, gates, disk, unclosed>>

-----------------------------------------------------------------------------
(* Credentials, configuration, the bridge *)

BridgeStarted(c) ==
    /\ startPc[c] = "starting"
    /\ startFrom[c] # 0 => startSnaps[startFrom[c]] # "blank"
    /\ Goto(c, CASE StartKind(c) = "restore" -> "finding" [] StartKind(c) = "spawn" -> "remembering"
                 [] OTHER -> "up")
    /\ UNCHANGED <<startMix, startFrom, rebuild, startMade, provider, gates, disk, history>>

StartFails(c) ==
    /\ startPc[c] = "starting"
    /\ \/ startFrom[c] # 0 /\ startSnaps[startFrom[c]] = "blank" /\ UNCHANGED startMix
       \/ StartFault("bridge")
    /\ Goto(c, "closing")
    /\ hurt' = IF startFrom[c] = 0 THEN hurt \cup {c} ELSE hurt
    /\ UNCHANGED <<startFrom, rebuild, startMade, provider, gates, disk, unclosed>>

(* restoreFromCheckpoint(): the ledger is read outside of its try.           *)
CheckpointsFound(c) ==
    /\ startPc[c] = "finding"
    /\ \/ Goto(c, "up") /\ UNCHANGED <<startMix, unclosed>>
       \/ Goto(c, "extracting") /\ UNCHANGED <<startMix, unclosed>>
       \/ StartFault("ledger") /\ Goto(c, "failed") /\ unclosed' = unclosed \cup {Box(c)}
    /\ UNCHANGED <<startFrom, rebuild, startMade, provider, gates, disk, hurt>>

(* The tarball into the container, and the bridge once more. *)
Extracted(c) ==
    /\ startPc[c] = "extracting"
    /\ \/ Goto(c, "up") /\ UNCHANGED startMix
       \/ StartFault("bridge") /\ Goto(c, "dropping")
    /\ UNCHANGED <<startFrom, rebuild, startMade, provider, gates, disk, history>>

(* forkChildMemory() *)
Remembered(c) ==
    /\ startPc[c] = "remembering"
    /\ \/ Goto(c, "up") /\ UNCHANGED startMix
       \/ StartFault("bridge") /\ Goto(c, "dropping")
    /\ UNCHANGED <<startFrom, rebuild, startMade, provider, gates, disk, history>>

-----------------------------------------------------------------------------
(* What is undone when a call fails *)

(* Mutant: what failed on a snapshot fails, like everything else.            *)
GivesUp(c) == Goto(c, "failed") /\ UNCHANGED <<startFrom, rebuild, startMade, disk>>

(* Mutant: what failed on a snapshot is tried as it was.                     *)
TriesAgain(c) == Goto(c, "reading") /\ UNCHANGED <<startFrom, rebuild, startMade, disk>>

(* A cache hit must never be worse than a miss: the record is deleted and    *)
(* the start is made again, with rebuild and so a listener of its own.       *)
StartsOver(c) ==
    /\ startFrom' = [startFrom EXCEPT ![c] = 0]
    /\ rebuild' = rebuild \cup {c}
    /\ UNCHANGED startMade
    /\ Store(c, "idle")

(* Mutant: the container of what failed stays. *)
LoadNotClosed(c) ==
    /\ UNCHANGED <<startMix, provider, history>>
    /\ gates' = gates \ {c}
    /\ IF startFrom[c] # 0 THEN StartsOver(c) ELSE GivesUp(c)

Closes(c) ==
    /\ \/ startBoxes' = startBoxes \ {Box(c)} /\ UNCHANGED <<startMix, unclosed>>
       \/ StartFault("close") /\ unclosed' = unclosed \cup {Box(c)} /\ UNCHANGED startBoxes
    /\ UNCHANGED <<startSnaps, hurt>>

LoadClosed(c) ==
    /\ Closes(c)
    /\ gates' = gates \ {c}
    /\ IF startFrom[c] # 0 THEN StartsOver(c) ELSE GivesUp(c)

Undone(c) == startPc[c] = "closing" /\ LoadClosed(c)

(* After the load, its container is closed and the call fails. *)
Dropped(c) ==
    /\ startPc[c] = "dropping"
    /\ Closes(c)
    /\ Goto(c, "failed")
    /\ UNCHANGED <<startFrom, rebuild, startMade, gates, disk>>

(* save() or delete() cannot write; only the install catches that. *)
StoreFails(c) ==
    /\ startPc[c] = "storing" /\ io[c] = Nil /\ StartFault("file")
    /\ Goto(c, IF startMade[c] # 0 THEN "closing" ELSE "failed")
    /\ after' = [after EXCEPT ![c] = Nil]
    /\ hurt' = hurt \cup {c}
    /\ UNCHANGED <<startFrom, rebuild, startMade, provider, gates, file, io, clash, kept, unclosed>>

(* close() of an agent that is up. *)

AgentCloses(c) ==
    /\ startPc[c] = "up"
    /\ Goto(c, "down")
    /\ gates' = gates \ {c}
    /\ Closes(c)
    /\ UNCHANGED <<startFrom, rebuild, startMade, disk>>

SnapshotGone(s) ==
    /\ startSnaps[s] # "gone" /\ StartFault("snapshot")
    /\ startSnaps' = [startSnaps EXCEPT ![s] = "gone"]
    /\ UNCHANGED <<startPc, startFrom, rebuild, startMade, startBoxes, gates, disk, history>>

-----------------------------------------------------------------------------
StartInit ==
    /\ startMix \in StartMixes
    /\ startPc = [c \in StartCalls |-> "idle"]
    /\ startFrom = [c \in StartCalls |-> 0] /\ startMade = [c \in StartCalls |-> 0]
    /\ rebuild = startMix.rebuild
    /\ startBoxes = {}
    /\ gates = {}
    /\ startSnaps = startMix.snaps
    /\ file = startMix.records
    /\ io = [c \in StartCalls |-> Nil] /\ clash = {}
    /\ after = [c \in StartCalls |-> Nil]
    /\ unclosed = {} /\ hurt = {}
    /\ kept = [p \in {Spec_(c) : c \in StartCalls} |-> {r \in startMix.records : r.spec = p}]

StartStep(c) ==
    \/ ReadForWrite(c) \/ Truncate(c) \/ Written(c) \/ StoreFails(c)
    \/ LookUp(c) \/ Restored(c) \/ RestoreFails(c)
    \/ BoxMade(c) \/ CreateFails(c) \/ Installed(c) \/ InstallFails(c)
    \/ BridgeStarted(c) \/ StartFails(c) \/ CheckpointsFound(c) \/ Extracted(c) \/ Remembered(c)
    \/ Undone(c) \/ Dropped(c)
    \/ c \in rebuild /\ Begins(c)

StartNext ==
    \/ \E c \in StartCalls : Begins(c) \/ StartStep(c) \/ AgentCloses(c)
    \/ \E s \in DOMAIN startSnaps : SnapshotGone(s)

(* Every await of a call returns or fails. *)
StartFairness == \A c \in StartCalls : WF_startVars(StartStep(c))

StartSpec == StartInit /\ [][StartNext]_startVars /\ StartFairness

-----------------------------------------------------------------------------
Working(c) == startPc[c] \notin {"idle", "up", "down", "failed"}

(* Every variable has its type. *)
StartTypeOK ==
    /\ startPc \in [StartCalls -> {"idle", "reading", "restoring", "creating", "installing", "storing",
                         "starting", "finding", "extracting", "remembering", "closing",
                         "dropping", "up", "down", "failed"}]
    /\ startFrom \in [StartCalls -> 0..Len(startSnaps)] /\ startMade \in [StartCalls -> 0..Len(startSnaps)]
    /\ rebuild \subseteq StartCalls /\ gates \subseteq StartCalls /\ clash \subseteq StartCalls
    /\ startBoxes \cup unclosed \subseteq StartCalls \X (0..Len(startSnaps))

(* Whatever fails once a call has the handle of its container, and at what-  *)
(* ever point, a container that is there is the one of a call in progress or *)
(* of an agent that was handed out, or a close of it was tried               *)
(* (factory.ts:259-264, 292-304, 368-375, 772-776, 821-828). What the client *)
(* leaves when it fails itself (client.ts:252-319, 743-797), and what stays  *)
(* when the ledger cannot be read for checkpoints: see NothingIsLeft.        *)
FailuresLeaveNothing ==
    \A b \in startBoxes \ unclosed :
        b[2] = startFrom[b[1]]
        /\ startPc[b[1]] \in {"installing", "storing", "starting", "finding", "extracting",
                         "remembering", "closing", "dropping", "up"}

(* A cache hit is never worse than a miss: a start fails only when a call    *)
(* to the provider, the file or a container made from the image fails,       *)
(* whatever is wrong with the snapshots on record (factory.ts:296-304).      *)
HitIsNoWorse == \A c \in StartCalls : StartKind(c) = "start" /\ startPc[c] = "failed" => c \in hurt

NobodyWorks == \A c \in StartCalls : ~Working(c)

(* A start that fails gives its container back, if it was handed one, and a  *)
(* bad snapshot on record is never worse than none (factory.ts:259-304).     *)
StartsAreClean == FailuresLeaveNothing /\ HitIsNoWorse

(* Every call returns or fails, and does not go round for ever on records    *)
(* that are of no use: again and again there is none under way.              *)
StartsReturn == []<>NobodyWorks

-----------------------------------------------------------------------------
(* What does not hold: see the README. *)

(* "This chain runs them one at a time": no record is lost when several      *)
(* specs finish their setup together (snapshots.ts:87-92).                   *)
SavesAreKept ==
    (\A c \in StartCalls : io[c] = Nil) => \A p \in DOMAIN kept : kept[p] \subseteq Contents

(* Nothing is left of a call that failed: no listener, and no container.     *)
NothingIsLeft ==
    \A c \in StartCalls : startPc[c] = "failed" => c \notin gates /\ \A b \in startBoxes : b[1] # c
=============================================================================
