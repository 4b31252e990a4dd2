---------------------------- MODULE SandboxSession ----------------------------
(***************************************************************************)
(* A durable sandbox session (packages/core/src/sandbox and                *)
(* packages/sdks/typescript/src/client.ts). A program runs commands in a   *)
(* sandbox and takes checkpoints; every command, checkpoint and change of  *)
(* settings is written to a ledger. When the sandbox is gone the program   *)
(* calls resume(): a new sandbox is made from the snapshot of a            *)
(* checkpoint, the settings are reconstructed from the ledger, and the     *)
(* program runs again from its start, the commands that were complete      *)
(* before the checkpoint answered from the ledger by their number.         *)
(*                                                                         *)
(* Outside src/: the provider, which snapshots the disk at some moment of  *)
(* the call, and the sidecar that holds the settings.                      *)
(***************************************************************************)
EXTENDS Naturals, Sequences, FiniteSets, FiniteSetsExt

CONSTANTS
    Commands,  \* the exec() calls of the program, 1, 2, ... in their order
    Hosts,     \* targets of egress rules
    Creds,     \* names of credentials
    Rules,     \* what a target may be given; a credential is "on"
    SessionMixes, \* what the initial states choose from: the commands of the program,
               \* whether they overlap, and the bounds on failures, checkpoints, resumes and
               \* changes
    None

MixOfSessions ==
    [commands : SUBSET Commands, overlap : BOOLEAN, checkpoints : Nat, resumes : Nat, changes : Nat,
     failures : Nat]

Settings == Hosts \cup Creds
Kept == Settings \cup {"resources"}   \* what the new sandbox should have as the old one
Values(k) == IF k \in Hosts THEN Rules ELSE {"on"}

(* Rules and credentials have entries of their own in the ledger.            *)
ASSUME SessionConstants ==
    /\ IsFiniteSet(Creds) /\ Hosts \cap Creds = {} /\ "resources" \notin Settings
    /\ SessionMixes \subseteq MixOfSessions

VARIABLES
    left,     \* what the mix still allows
    ledger,   \* of each session, the sandboxes of one lineage; the last is the current one
    live,     \* the current sandbox and its handle are there
    cmd,      \* what became of each exec() in this session
    cache,    \* SandboxCore.replayCache
    disk,     \* how often each command ran, as the disk shows
    adrift,   \* commands that go on in the sandbox without their stream
    cutOff,   \* history: commands whose stream was taken for over before they had run
    snap,     \* checkpoint() in progress: the disk it has snapshotted, or None
    config,   \* the sidecar's egress rules and credentials
    changes,  \* changes that were applied and are not in the ledger yet
    want,     \* history: what the program last made of each setting
    blurred,  \* history: commands that were not over around a snapshot, or failed halfway
    torn      \* history: settings with overlapping changes, or one cut off by the end

process == <<adrift, cutOff>>
run == <<cmd, cache, disk, process>>
settings == <<config, changes, want, torn>>
sessionVars == <<left, ledger, live, run, snap, settings, blurred>>

Current == Len(ledger)
Log(e) == [ledger EXCEPT ![Current] = Append(@, e)]
Entry(ev, key, val) == [ev |-> ev, key |-> key, val |-> val]

Afresh(x) == [n \in Commands |-> x]
InFlight == {n \in Commands : cmd[n] \in {"issued", "started", "ran"}}

-----------------------------------------------------------------------------
(* exec() *)

(* The number is taken when exec() is called; a cached result is the answer. *)
(* Unless the program overlaps its commands it awaits each.                  *)
Issue(n) ==
    /\ live
    /\ n \in left.commands
    /\ cmd[n] = "new" /\ \A m \in Commands : m < n => cmd[m] # "new"
    /\ left.overlap \/ InFlight = {}
    /\ cmd' = [cmd EXCEPT ![n] = IF n \in cache THEN "cached" ELSE "issued"]
    /\ UNCHANGED <<left, ledger, live, cache, disk, process, snap, settings, blurred>>

Start(n) ==
    /\ live /\ cmd[n] = "issued"
    /\ cmd' = [cmd EXCEPT ![n] = "started"]
    /\ ledger' = Log(Entry("exec.started", n, None))
    /\ blurred' = IF snap # None THEN blurred \cup {n} ELSE blurred
    /\ UNCHANGED <<left, live, cache, disk, process, snap, settings>>

(* The command has its effect, in the sandbox. *)
Runs(n) ==
    /\ live /\ cmd[n] = "started"
    /\ cmd' = [cmd EXCEPT ![n] = "ran"]
    /\ disk' = [disk EXCEPT ![n] = @ + 1]
    /\ UNCHANGED <<left, ledger, live, cache, process, snap, settings, blurred>>

Completes(n) ==
    /\ live /\ cmd[n] = "ran"
    /\ cmd' = [cmd EXCEPT ![n] = "done"]
    /\ ledger' = Log(Entry("exec.completed", n, None))
    /\ UNCHANGED <<left, live, cache, disk, process, snap, settings, blurred>>

(* The stream ends before the command does, by a pause() or a connection     *)
(* that is lost: that is taken for its end, with exit code 0.                *)
StreamCut(n) ==
    /\ live /\ cmd[n] = "started" /\ left.failures > 0
    /\ left' = [left EXCEPT !.failures = @ - 1]
    /\ cmd' = [cmd EXCEPT ![n] = "done"]
    /\ ledger' = Log(Entry("exec.completed", n, None))
    /\ adrift' = adrift \cup {n} /\ cutOff' = cutOff \cup {n}
    /\ UNCHANGED <<live, cache, disk, snap, settings, blurred>>

(* The request, the stream or a write to the ledger throws: nothing says     *)
(* that the command completed, which may go on.                              *)
Fails(n) ==
    /\ live /\ cmd[n] \in {"issued", "started", "ran"} /\ left.failures > 0
    /\ left' = [left EXCEPT !.failures = @ - 1]
    /\ cmd' = [cmd EXCEPT ![n] = "failed"]
    /\ adrift' = IF cmd[n] = "started" THEN adrift \cup {n} ELSE adrift
    /\ blurred' = IF cmd[n] = "issued" THEN blurred ELSE blurred \cup {n}
    /\ UNCHANGED <<ledger, live, cache, disk, cutOff, snap, settings>>

GoesOn(n) ==
    /\ live /\ n \in adrift
    /\ adrift' = adrift \ {n}
    /\ disk' = [disk EXCEPT ![n] = @ + 1]
    /\ UNCHANGED <<left, ledger, live, cmd, cache, cutOff, snap, settings, blurred>>

-----------------------------------------------------------------------------
(* checkpoint(), and the first half of fork() *)

(* The provider takes the disk as it is. What was answered from the cache    *)
(* has no entry in this session's ledger.                                    *)
SnapshotTaken ==
    /\ live /\ snap = None /\ left.checkpoints > 0
    /\ left' = [left EXCEPT !.checkpoints = @ - 1]
    /\ snap' = disk
    /\ blurred' = blurred \cup InFlight \cup cache
    /\ UNCHANGED <<ledger, live, run, settings>>

CheckpointLogged ==
    /\ live /\ snap # None
    /\ ledger' = Log(Entry("sandbox.checkpoint_created", None, snap))
    /\ snap' = None
    /\ UNCHANGED <<left, live, run, settings, blurred>>

-----------------------------------------------------------------------------
(* egress.patch(), egress.delete(), credentials.set(), credentials.remove(): *)
(* the sidecar first, the ledger once it has answered.                       *)
Change(k, v) ==
    /\ live /\ left.changes > 0
    /\ left' = [left EXCEPT !.changes = @ - 1]
    /\ config' = [config EXCEPT ![k] = v]
    /\ want' = [want EXCEPT ![k] = v]
    /\ changes' = changes \cup {<<k, v>>}
    /\ torn' = IF \E c \in changes : c[1] = k THEN torn \cup {k} ELSE torn
    /\ UNCHANGED <<ledger, live, run, snap, blurred>>

ChangeLogged(c) ==
    /\ live
    /\ c \in changes
    /\ changes' = changes \ {c}
    /\ ledger' = Log(Entry("set", c[1], c[2]))
    /\ UNCHANGED <<left, live, run, snap, config, want, torn, blurred>>

-----------------------------------------------------------------------------
(* close(), or the death of the sandbox or of the program at any moment. *)
Ends ==
    /\ live
    /\ live' = FALSE
    /\ torn' = torn \cup {c[1] : c \in changes}
    /\ changes' = {} /\ snap' = None
    /\ cmd' = Afresh("new") /\ cache' = {} /\ disk' = Afresh(0) /\ adrift' = {}
    /\ config' = [k \in Kept |-> "none"]
    /\ UNCHANGED <<left, ledger, cutOff, want, blurred>>

CheckpointsIn(log) == {i \in DOMAIN log : log[i].ev = "sandbox.checkpoint_created"}

CompletedBefore(log, i) ==
    {log[j].key : j \in {j \in DOMAIN log : j < i /\ log[j].ev = "exec.completed"}}

(* Mutant: a rule that was deleted comes back with the original policy.      *)
OriginalComesBack(log, k) ==
    LET at == {j \in DOMAIN log : log[j].ev = "set" /\ log[j].key = k /\ log[j].val # "none"}
    IN  IF at = {} THEN log[1].val[k] ELSE log[Max(at)].val

(* reconstructEgressRules(), reconstructBoundCredentials(): the last change  *)
(* of the whole history, else the policy the sandbox was created with.       *)
Reconstructed(log, k) ==
    LET at == {j \in DOMAIN log : log[j].ev = "set" /\ log[j].key = k}
    IN  IF at = {} THEN log[1].val[k] ELSE log[Max(at)].val

(* resume(): from the last checkpoint of a session, or a tagged one. The new *)
(* session records the egress policy it was created with and not the         *)
(* resources; credentials are set one by one and so recorded as changes.     *)
SessionResumes(s, i) ==
    /\ ~live /\ left.resumes > 0
    /\ left' = [left EXCEPT !.resumes = @ - 1]
    /\ i \in CheckpointsIn(ledger[s])
    /\ LET now == [k \in Kept |-> Reconstructed(ledger[s], k)]
           boot == [k \in Kept |-> IF k \in Hosts THEN now[k] ELSE "none"]
           bound == {k \in Creds : now[k] # "none"}
       IN  /\ config' = now
           /\ \E order \in {f \in [1..Cardinality(bound) -> bound] :
                              \A k \in bound : \E j \in DOMAIN f : f[j] = k} :
                ledger' = Append(ledger, <<Entry("sandbox.created", None, boot)>>
                                    \o [j \in DOMAIN order |-> Entry("set", order[j], "on")])
    /\ want' = IF s = Current THEN want ELSE config'
    /\ live' = TRUE
    /\ cache' = CompletedBefore(ledger[s], i)
    /\ disk' = ledger[s][i].val
    /\ cmd' = Afresh("new")
    /\ UNCHANGED <<process, snap, changes, torn, blurred>>

-----------------------------------------------------------------------------
SessionInit ==
    /\ left \in SessionMixes
    /\ config \in {f \in [Kept -> Rules \cup {"none", "given"}] :
                      \A k \in Kept : IF k = "resources" THEN f[k] = "given"
                                      ELSE IF k \in Creds \/ left.changes = 0 THEN f[k] = "none"
                                      ELSE f[k] # "given"}
    /\ ledger = << <<Entry("sandbox.created", None, config)>> >>
    /\ live = TRUE
    /\ cmd = Afresh("new") /\ cache = {} /\ disk = Afresh(0)
    /\ adrift = {} /\ cutOff = {}
    /\ snap = None
    /\ changes = {}
    /\ want = config
    /\ blurred = {}
    /\ torn = {}

SessionNext ==
    \/ \E n \in Commands :
          Issue(n) \/ Start(n) \/ Runs(n) \/ Completes(n) \/ StreamCut(n) \/ Fails(n) \/ GoesOn(n)
    \/ SnapshotTaken \/ CheckpointLogged
    \/ \E k \in Settings : \E v \in Values(k) \cup {"none"} : Change(k, v)
    \/ \E c \in changes : ChangeLogged(c)
    \/ Ends
    \/ \E s \in DOMAIN ledger : \E i \in DOMAIN ledger[s] : SessionResumes(s, i)

SessionSpec == SessionInit /\ [][SessionNext]_sessionVars

-----------------------------------------------------------------------------
(* Every variable has its type.                                              *)
SessionTypeOK ==
    /\ live \in BOOLEAN
    /\ cmd \in [Commands -> {"new", "cached", "issued", "started", "ran", "done", "failed"}]
    /\ {cache, blurred, adrift, cutOff} \subseteq SUBSET Commands
    /\ disk \in [Commands -> Nat]
    /\ snap = None \/ snap \in [Commands -> Nat]
    /\ changes \subseteq Settings \X (Rules \cup {"on", "none"})
    /\ torn \subseteq Settings

(* What the program was told has happened has not happened twice, and not at *)
(* all only when its stream was cut: of a command that is over, or whose     *)
(* answer came from the ledger, the disk has one run, whatever checkpoint    *)
(* the session was resumed from and how often. Not of a command that was     *)
(* under way while a snapshot was taken and logged, or that failed halfway,  *)
(* or was itself answered from the ledger when the snapshot was taken        *)
(* (client.ts:456-495, lifecycle.ts:62-69, core.ts:282-312).                 *)
AnswersMatchDisk ==
    live => \A n \in Commands \ blurred :
               cmd[n] \in {"cached", "done"} => disk[n] = 1 \/ (disk[n] = 0 /\ n \in cutOff)

(* The settings are what the program last made of them, through any number   *)
(* of resumes, unless two changes of one overlapped or the end came between  *)
(* a change and its entry in the ledger (client.ts:425-454, egress.ts).      *)
SettingsSurvive == live => \A k \in Settings \ torn : config[k] = want[k]

(* What a resumed program is told has happened is on its disk, once, but for *)
(* streams that were cut, and its settings are what it last made of them     *)
(* (client.ts:354-595).                                                      *)
SessionSurvives == AnswersMatchDisk /\ SettingsSurvive

-----------------------------------------------------------------------------
(* What does not hold: see the README.                                       *)

(* "Execs that completed before the checkpoint are returned from ledger      *)
(* cache without re-running" (client.ts:323-324).                            *)
NeverRunTwice == \A n \in Commands : disk[n] <= 1

(* What is answered from the ledger is on the disk.                          *)
CachedIsOnDisk == live => \A n \in Commands : cmd[n] = "cached" => disk[n] > 0

(* The settings survive although two changes of one overlapped.              *)
SettingsSurviveOverlap ==
    live => \A k \in Settings : (\A c \in changes : c[1] # k) => config[k] = want[k]

(* A sandbox that was resumed twice has the resources it was created with.   *)
ResourcesSurvive == live => config["resources"] = want["resources"]
=============================================================================
