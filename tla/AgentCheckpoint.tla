--------------------------- MODULE AgentCheckpoint ---------------------------
(***************************************************************************)
(* The checkpoints of one agent: engine/stream.ts takes one after a turn   *)
(* that ended cleanly (maybeCheckpoint), packages/agent/src/checkpoint.ts  *)
(* tars the container, stores the tarball, copies it off the box, names it *)
(* in the sandbox's ledger and prunes old ones; restore.ts finds the       *)
(* newest that can be read when the container is gone, and the agent goes  *)
(* on in a new sandbox (factory.ts, restoreFromCheckpoint).                *)
(*                                                                         *)
(* Outside src/: the object store, the replica of the ledger, which trails *)
(* it, and the loss of containers and of the disk.                         *)
(***************************************************************************)
EXTENDS Naturals, Sequences, FiniteSets, FiniteSetsExt

CONSTANTS
    MaxTurns,        \* bound on the turns of the agent; a checkpoint has its turn's number
    Retain,          \* DEFAULT_CHECKPOINT_RETENTION
    MinAge,          \* DEFAULT_REMOTE_PRUNE_MIN_AGE_MS, in ticks
    MaxNow,          \* bound on the clock
    CheckpointMixes, \* what the initial states choose from: the turns,
                     \* ALINEOD_CHECKPOINT_CONCURRENCY, whether there is a blob store, and the
                     \* losses and faults
    Gone             \* the conversation of a container that is gone

Turns == 1..MaxTurns

MixOfCheckpoints ==
    [turns : 0..MaxTurns, concurrency : Nat, remote : BOOLEAN,
     faults : [{"unclean", "upload", "emit", "prune", "crash", "reboot", "disk"} -> Nat]]

CheckpointConstants ==
    /\ MaxTurns \in Nat /\ Retain \in Nat \ {0} /\ MinAge \in Nat /\ MaxNow \in Nat
    /\ CheckpointMixes \subseteq MixOfCheckpoints /\ \A s \in SUBSET Turns : s # Gone

ASSUME CheckpointAssumption == CheckpointConstants

VARIABLES
    ckptMix,      \* the mix that was chosen, with the faults that are left
    ckptClock,
    sandbox,      \* the agent's sandbox; a restore makes another
    conv,         \* the turns its conversation holds, or Gone
    turnsStarted,
    inTurn,       \* a turn is running
    ckptPc,       \* of each turn, where its checkpoint is
    sandboxOf,    \* the sandbox it is of
    tarball,      \* the turns its tarball holds, {} when it is torn
    files,        \* tarballs on the disk: the order of their mtime, 0 when there is none
    blobs,        \* tarballs in the object store, in the order they were put
    putAt,        \* when a blob was stored
    remoteRef,    \* checkpoints whose entry has a remoteRef
    entries,      \* agent.checkpointed entries of all sandboxes, in their order
    shipped,      \* how many of them the replica has
    sameDisk,     \* the disk is the one the agent started on
    promised,     \* history: turns the ledger had a checkpoint of when the container was lost
    mixed         \* history: checkpoints taken while another was, or while a turn ran

agentVars == <<sandbox, conv, turnsStarted, inTurn>>
copyVars == <<files, blobs, putAt>>
entryVars == <<remoteRef, entries, shipped>>
historyVars == <<promised, mixed>>
checkpointVars == <<ckptMix, ckptClock, agentVars, ckptPc, sandboxOf, tarball, copyVars, entryVars,
                    sameDisk, historyVars>>

CkptFault(f) == ckptMix.faults[f] > 0 /\ ckptMix' = [ckptMix EXCEPT !.faults[f] = @ - 1]
Busy == {t \in Turns : ckptPc[t] \in {"reading", "uploading", "logging", "pruning"}}
CkptGoto(t, where) == ckptPc' = [ckptPc EXCEPT ![t] = where]
In(s) == {s[i] : i \in DOMAIN s}
There(copies) == {t \in Turns : copies[t] > 0}
Newest(copies) == Max({0} \cup {copies[t] : t \in Turns})
With(copies, t) == [copies EXCEPT ![t] = Newest(copies) + 1]
Without(copies, gone) == [t \in Turns |-> IF t \in gone THEN 0 ELSE copies[t]]

-----------------------------------------------------------------------------
(* driveTurn() and maybeCheckpoint() *)

TurnStarts ==
    /\ conv # Gone /\ ~inTurn /\ turnsStarted < ckptMix.turns
    /\ turnsStarted' = turnsStarted + 1 /\ inTurn' = TRUE
    /\ mixed' = mixed \cup {t \in Turns : ckptPc[t] = "reading"}
    /\ UNCHANGED <<ckptMix, ckptClock, sandbox, conv, ckptPc, sandboxOf, tarball, copyVars,
                   entryVars, sameDisk, promised>>

(* A turn that alineod gave up waiting for has no checkpoint. *)
TurnOver ==
    /\ conv # Gone /\ inTurn
    /\ inTurn' = FALSE
    /\ conv' = conv \cup {turnsStarted}
    /\ \/ CkptGoto(turnsStarted, "queued") /\ UNCHANGED ckptMix
       \/ CkptFault("unclean") /\ UNCHANGED ckptPc
    /\ sandboxOf' = [sandboxOf EXCEPT ![turnsStarted] = sandbox]
    /\ UNCHANGED <<ckptClock, sandbox, turnsStarted, tarball, copyVars, entryVars, sameDisk,
                   historyVars>>

(* checkpointSlot: one that waited while a newer turn started is dropped.    *)
Acquire(t) ==
    /\ ckptPc[t] = "queued" /\ Cardinality(Busy) < ckptMix.concurrency
    /\ IF turnsStarted # t
       THEN CkptGoto(t, "skipped") /\ UNCHANGED mixed
       ELSE /\ CkptGoto(t, "reading")
            /\ mixed' = IF Busy = {} THEN mixed ELSE mixed \cup Busy \cup {t}
    /\ UNCHANGED <<ckptMix, ckptClock, agentVars, sandboxOf, tarball, copyVars, entryVars,
                   sameDisk, promised>>

-----------------------------------------------------------------------------
(* takeCheckpoint() *)

(* The tar, and its bytes written to the disk: Pi may be writing its session *)
(* file.                                                                     *)
Read(t) ==
    /\ ckptPc[t] = "reading"
    /\ IF conv = Gone
       THEN CkptGoto(t, "failed") /\ UNCHANGED <<tarball, files>>
       ELSE /\ CkptGoto(t, IF ckptMix.remote THEN "uploading" ELSE "logging")
            /\ \E got \in {conv} \cup (IF t \in mixed THEN {{}} ELSE {}) :
                    tarball' = [tarball EXCEPT ![t] = got]
            /\ files' = With(files, t)
    /\ UNCHANGED <<ckptMix, ckptClock, agentVars, sandboxOf, blobs, putAt, entryVars,
                   sameDisk, historyVars>>

(* A failed upload does not fail the checkpoint. *)
Upload(t) ==
    /\ ckptPc[t] = "uploading"
    /\ CkptGoto(t, "logging")
    /\ \/ /\ blobs' = With(blobs, t) /\ putAt' = [putAt EXCEPT ![t] = ckptClock]
          /\ remoteRef' = remoteRef \cup {t}
          /\ UNCHANGED ckptMix
       \/ CkptFault("upload") /\ UNCHANGED <<blobs, putAt, remoteRef>>
    /\ UNCHANGED <<ckptClock, agentVars, sandboxOf, tarball, files, entries, shipped,
                   sameDisk, historyVars>>

(* sb.emit(): an entry, or an error that fails the checkpoint. *)
Emit(t) ==
    /\ ckptPc[t] = "logging"
    /\ \/ entries' = Append(entries, t) /\ CkptGoto(t, "pruning") /\ UNCHANGED ckptMix
       \/ CkptFault("emit") /\ CkptGoto(t, "failed") /\ UNCHANGED entries
    /\ UNCHANGED <<ckptClock, agentVars, sandboxOf, tarball, copyVars, remoteRef, shipped,
                   sameDisk, historyVars>>

(* The newer ones of the same directory or prefix.                           *)
Newer(copies, t) == {u \in There(copies) : sandboxOf[u] = sandboxOf[t] /\ copies[u] > copies[t]}

(* Mutant: off by one.                                                       *)
BeyondOneLess(copies, g) ==
    {t \in There(copies) : sandboxOf[t] = g /\ Cardinality(Newer(copies, t)) >= Retain - 1}

(* What is beyond the newest `retain' of a directory or prefix.              *)
BeyondRetention(copies, g) ==
    {t \in There(copies) : sandboxOf[t] = g /\ Cardinality(Newer(copies, t)) >= Retain}

(* pruneOldCheckpoints() and pruneRemoteCheckpoints(), each best-effort: one *)
(* that fails has removed some of them.                                      *)
Prune(t) ==
    LET old  == BeyondRetention(files, sandboxOf[t])
        aged == IF t \notin remoteRef THEN {}
                ELSE {b \in BeyondRetention(blobs, sandboxOf[t]) : ckptClock - putAt[b] >= MinAge}
    IN
    /\ ckptPc[t] = "pruning"
    /\ CkptGoto(t, "done")
    /\ \E gone \in SUBSET old, dropped \in SUBSET aged :
         /\ files' = Without(files, gone) /\ blobs' = Without(blobs, dropped)
         /\ IF gone = old /\ dropped = aged THEN UNCHANGED ckptMix ELSE CkptFault("prune")
    /\ UNCHANGED <<ckptClock, agentVars, sandboxOf, tarball, putAt, entryVars, sameDisk,
                   historyVars>>

-----------------------------------------------------------------------------
(* Losses *)

UnderWay == {t \in Turns : ckptPc[t] \notin {"none", "skipped", "failed", "done"}}
JobsDie == ckptPc' = [t \in Turns |-> IF t \in UnderWay THEN "failed" ELSE ckptPc[t]]

(* The daemon dies alone; the container goes on with its turn. *)
DaemonDies ==
    /\ UnderWay # {} /\ CkptFault("crash")
    /\ JobsDie
    /\ UNCHANGED <<ckptClock, agentVars, sandboxOf, tarball, copyVars, entryVars, sameDisk,
                   historyVars>>

Named(list) == {t \in In(list) : sandboxOf[t] = sandbox}

ContainerGone ==
    /\ conv # Gone
    /\ conv' = Gone /\ inTurn' = FALSE
    /\ JobsDie
    /\ UNCHANGED <<sandbox, turnsStarted>>

(* The host reboots, and its disk survives. *)
HostReboots ==
    /\ CkptFault("reboot")
    /\ ContainerGone
    /\ promised' = Named(entries)
    /\ UNCHANGED <<ckptClock, sandboxOf, tarball, copyVars, entryVars, sameDisk, mixed>>

(* A new machine, with the replica of the ledger and the object store. *)
DiskLost ==
    /\ ckptMix.remote /\ CkptFault("disk")
    /\ ContainerGone
    /\ files' = [t \in Turns |-> 0]
    /\ entries' = SubSeq(entries, 1, shipped)
    /\ promised' = Named(entries') \cap remoteRef
    /\ sameDisk' = FALSE
    /\ UNCHANGED <<ckptClock, sandboxOf, tarball, blobs, putAt, remoteRef, shipped, mixed>>

-----------------------------------------------------------------------------
(* restoreFromCheckpoint() *)

(* fetchCheckpoint(): the file, else the blob that the entry names. *)
CanRead(t) == t \in There(files) \/ (t \in remoteRef /\ t \in There(blobs))

(* Mutant: in the order of the ledger. *)
OldestFirst(list) ==
    LET at == {i \in DOMAIN list : sandboxOf[list[i]] = sandbox /\ CanRead(list[i])}
    IN  IF at = {} THEN {} ELSE {list[Min(at)]}

(* findCheckpoints() and pickRestorable() *)
Picked(list) ==
    LET at == {i \in DOMAIN list : sandboxOf[list[i]] = sandbox /\ CanRead(list[i])}
    IN  IF at = {} THEN {} ELSE {list[Max(at)]}

(* Without a checkpoint the agent comes back blank. Its row has the new      *)
(* sandbox from then on, and in the ledger of that there is no checkpoint.   *)
Restore ==
    /\ conv = Gone
    /\ conv' = UNION {tarball[t] : t \in Picked(entries)}
    /\ sandbox' = sandbox + 1
    /\ UNCHANGED <<ckptMix, ckptClock, turnsStarted, inTurn, ckptPc, sandboxOf, tarball,
                   copyVars, entryVars, sameDisk, historyVars>>

Ship == ckptMix.remote /\ shipped < Len(entries) /\ shipped' = Len(entries)
        /\ UNCHANGED <<ckptMix, ckptClock, agentVars, ckptPc, sandboxOf, tarball, copyVars,
                       remoteRef, entries, sameDisk, historyVars>>

CkptTick == ckptMix.remote /\ ckptClock < MaxNow /\ ckptClock' = ckptClock + 1
            /\ UNCHANGED <<ckptMix, agentVars, ckptPc, sandboxOf, tarball, copyVars,
                           entryVars, sameDisk, historyVars>>

-----------------------------------------------------------------------------
CheckpointInit ==
    /\ ckptMix \in CheckpointMixes
    /\ ckptClock = 0
    /\ sandbox = 1 /\ conv = {} /\ turnsStarted = 0 /\ inTurn = FALSE
    /\ ckptPc = [t \in Turns |-> "none"]
    /\ sandboxOf = [t \in Turns |-> 0] /\ putAt = [t \in Turns |-> 0]
    /\ tarball = [t \in Turns |-> {}]
    /\ files = [t \in Turns |-> 0] /\ blobs = [t \in Turns |-> 0]
    /\ remoteRef = {} /\ entries = <<>> /\ shipped = 0
    /\ sameDisk = TRUE
    /\ promised = {} /\ mixed = {}

CkptStep(t) == Acquire(t) \/ Read(t) \/ Upload(t) \/ Emit(t) \/ Prune(t)

CheckpointNext ==
    \/ TurnStarts \/ TurnOver
    \/ \E t \in Turns : CkptStep(t)
    \/ DaemonDies \/ HostReboots \/ DiskLost \/ Restore
    \/ Ship \/ CkptTick

CheckpointSpec == CheckpointInit /\ [][CheckpointNext]_checkpointVars

-----------------------------------------------------------------------------
(* Every variable has its type. *)
CheckpointTypeOK ==
    /\ ckptClock \in Nat /\ sandbox \in Nat /\ shipped \in 0..Len(entries)
    /\ conv = Gone \/ conv \subseteq Turns
    /\ turnsStarted \in 0..MaxTurns /\ inTurn \in BOOLEAN
    /\ ckptPc \in [Turns -> {"none", "queued", "skipped", "reading", "uploading", "logging",
                            "pruning", "done", "failed"}]
    /\ files \in [Turns -> Nat] /\ blobs \in [Turns -> Nat]
    /\ tarball \in [Turns -> SUBSET Turns]
    /\ In(entries) \cup remoteRef \cup promised \cup mixed \subseteq Turns

(* If the container were lost now, and with it perhaps the disk, a           *)
(* checkpoint would be found if the ledger, or its replica, names one:       *)
(* pruning keeps a copy of one that is named, whatever else failed or was in *)
(* flight, unless `retain' newer ones were stored that are not named yet     *)
(* (checkpoint.ts:121-150, restore.ts:29-117).                               *)
Findable(copies, named) ==
    LET unseen == {t \in There(copies) : sandboxOf[t] = sandbox /\ t \notin named}
    IN  named # {} /\ Cardinality(unseen) < Retain => named \cap There(copies) # {}

SomeCopyIsFound ==
    /\ sameDisk => Findable(files, Named(entries))
    /\ Findable(blobs, Named(SubSeq(entries, 1, shipped)) \cap remoteRef)

(* A container that was lost comes back with every turn that its ledger had  *)
(* a checkpoint of, also when later ones failed halfway, unless checkpoints  *)
(* overlapped each other or the next turn (stream.ts:68-105). From the       *)
(* object store, if it still has the newest that the replica names.          *)
TurnsComeBack ==
    [][Restore /\ promised # {} /\ promised \cap mixed = {}
          /\ (sameDisk \/ CanRead(Max(promised)))
        => promised \subseteq conv']_checkpointVars

-----------------------------------------------------------------------------
(* What does not hold: see the README. *)

(* "yes, to the last completed turn, for specs with checkpoint: true" (docs, *)
(* durability-contract.mdx:24): of the turns the agent's ledgers have        *)
(* checkpoints of, on a disk that survives, none is lost.                    *)
NoTurnIsLost ==
    sameDisk /\ conv # Gone => \A i \in DOMAIN entries : tarball[entries[i]] \subseteq conv

(* "A checkpoint event is never written pointing at a tarball that doesn't   *)
(* actually exist on disk" (checkpoint.ts:156-157).                          *)
EventNamesAFile ==
    [][sameDisk /\ Len(entries') > Len(entries)
         => entries'[Len(entries')] \in There(files)]_checkpointVars

(* The margin keeps a blob alive that the replica still names as its newest. *)
MarginKeepsNamed ==
    LET at == {i \in 1..shipped : entries[i] \in remoteRef /\ sandboxOf[entries[i]] = sandbox}
    IN  at # {} => entries[Max(at)] \in There(blobs)

(* What is restored is a tarball of a quiet container. *)
NothingTorn == \A t \in In(entries) : tarball[t] # {}
=============================================================================
