------------------------------ MODULE MCDurable ------------------------------
(***************************************************************************)
(* What is written down and read again after a crash, a resume or a loss:  *)
(* the messages of an inbox, the ledger of a sandbox session, the          *)
(* checkpoints of an agent, the facts of a memory, and the backups of all  *)
(* of it. One of them is looked at in a behaviour: `kept'.                 *)
(***************************************************************************)
EXTENDS Inbox, AgentCheckpoint, SandboxSession, Memory, Backup

VARIABLE kept

-----------------------------------------------------------------------------
(* The turns and slots of an agent's checkpoints, whether there is an object *)
(* store, the losses and faults.                                             *)
CheckpointMix(turns, concurrency, blobStore, unclean, upload, emit, prune, crash, reboot, newDisk) ==
    [turns |-> turns, concurrency |-> concurrency, remote |-> blobStore,
     faults |-> [unclean |-> unclean, upload |-> upload, emit |-> emit, prune |-> prune,
                 crash |-> crash, reboot |-> reboot, disk |-> newDisk]]

NoCheckpoint == CheckpointMix(0, 1, FALSE, 0, 0, 0, 0, 0, 0, 0)

MCCheckpointMixes == {
    NoCheckpoint,
    CheckpointMix(3, 1, FALSE, 1, 0, 1, 1, 1, 1, 0),
    CheckpointMix(4, 1, FALSE, 0, 0, 0, 0, 0, 2, 0),
    CheckpointMix(3, 2, FALSE, 0, 0, 0, 0, 0, 1, 0),
    CheckpointMix(3, 1, TRUE, 0, 1, 0, 0, 0, 0, 1),
    CheckpointMix(4, 1, TRUE, 0, 0, 0, 0, 0, 0, 1) }

(* A program of two commands, one after the other or at once; no program,    *)
(* and settings that change.                                                 *)
SessionMix(commands, overlap, checkpoints, resumes, changed, failures) ==
    [commands |-> commands, overlap |-> overlap, checkpoints |-> checkpoints,
     resumes |-> resumes, changes |-> changed, failures |-> failures]

NoSession == SessionMix({}, FALSE, 0, 0, 0, 0)

MCSessionMixes == {
    NoSession,
    SessionMix({1, 2}, FALSE, 2, 2, 0, 1),
    SessionMix({1, 2}, TRUE, 1, 2, 0, 0),
    SessionMix({}, FALSE, 1, 2, 3, 0) }

(* Four calls that remember, compact and fork; autoCompact and its options;  *)
(* the ticks, and the faults.                                                *)
FactFaults(embed, blank, summarize, crash, unloaded) ==
    [embed |-> embed, blank |-> blank, summarize |-> summarize, crash |-> crash, unloaded |-> unloaded]

FactMix(kinds, auto, checkEvery, maxFacts, maxAge, summarize, ticks, faults) ==
    [kind |-> [c \in Calls |-> CASE c = "m1" -> kinds[1] [] c = "m2" -> kinds[2]
                                  [] c = "m3" -> kinds[3] [] OTHER -> kinds[4]],
     auto |-> auto, checkEvery |-> checkEvery, maxFacts |-> maxFacts, maxAge |-> maxAge,
     summarize |-> summarize, ticks |-> ticks, faults |-> faults]

NoFacts == FactMix(<<"none", "none", "none", "none">>, FALSE, 0, 0, 0, FALSE, 0, FactFaults(0, 0, 0, 0, 0))

MCFactMixes == {
    NoFacts,
    FactMix(<<"remember", "remember", "none", "fork">>, TRUE, 1, 1, 0, TRUE, 0, FactFaults(1, 1, 0, 0, 0)),
    FactMix(<<"remember", "remember", "compact", "none">>, FALSE, 0, 1, 0, TRUE, 1, FactFaults(0, 0, 1, 1, 0)),
    FactMix(<<"remember", "remember", "compact", "compact">>, FALSE, 0, 1, 0, TRUE, 0, FactFaults(0, 0, 0, 0, 0)),
    FactMix(<<"remember", "remember", "remember", "none">>, TRUE, 2, 1, 1, FALSE, 2, FactFaults(0, 0, 0, 1, 1)) }

(* Two jobs, which may overlap; --keep; the writes of the daemon, the ticks, *)
(* the restores, and the faults.                                             *)
JobMix(names, keep, writes, ticks, restores, copy, store, crash) ==
    [name |-> names, keep |-> keep, writes |-> writes, ticks |-> ticks, restores |-> restores,
     faults |-> [copy |-> copy, store |-> store, crash |-> crash]]

NoJob == JobMix(<<0, 0>>, 0, 0, 0, 0, 0, 0, 0)

MCJobMixes == {
    NoJob,
    JobMix(<<1, 2>>, 1, 3, 0, 0, 1, 0, 0),
    JobMix(<<1, 2>>, 1, 2, 0, 1, 0, 0, 0),
    JobMix(<<1, 2>>, 1, 0, 2, 0, 0, 0, 1),
    JobMix(<<1, 2>>, 2, 0, 2, 0, 0, 0, 0),
    JobMix(<<1, 2>>, 0, 0, 0, 1, 0, 0, 1),
    JobMix(<<1, 2>>, 1, 0, 0, 2, 0, 1, 0) }

-----------------------------------------------------------------------------
durable == <<kept, vars, checkpointVars, sessionVars, memoryVars, backupVars>>

DurableInit ==
    /\ kept \in {"inbox", "checkpoints", "session", "facts", "backups"}
    /\ Init /\ CheckpointInit /\ SessionInit /\ MemoryInit /\ BackupInit
    /\ (kept = "checkpoints") = (ckptMix # NoCheckpoint)
    /\ (kept = "session") = (left # NoSession)
    /\ (kept = "facts") = (factMix # NoFacts)
    /\ (kept = "backups") = (jobMix # NoJob)

DurableNext ==
    \/ /\ kept = "inbox" /\ Next
       /\ UNCHANGED <<kept, checkpointVars, sessionVars, memoryVars, backupVars>>
    \/ /\ kept = "checkpoints" /\ CheckpointNext
       /\ UNCHANGED <<kept, vars, sessionVars, memoryVars, backupVars>>
    \/ /\ kept = "session" /\ SessionNext
       /\ UNCHANGED <<kept, vars, checkpointVars, memoryVars, backupVars>>
    \/ /\ kept = "facts" /\ MemoryNext
       /\ UNCHANGED <<kept, vars, checkpointVars, sessionVars, backupVars>>
    \/ /\ kept = "backups" /\ BackupNext
       /\ UNCHANGED <<kept, vars, checkpointVars, sessionVars, memoryVars>>

DurableSpec == DurableInit /\ [][DurableNext]_durable

=============================================================================
