-------------------------------- MODULE Backup --------------------------------
(***************************************************************************)
(* Full backups (apps/alineod/src/ops/backup.ts, offsite.ts, restore.ts,   *)
(* scripts/backup.ts). A job copies the databases and then the work dir of *)
(* a daemon that goes on writing, moves the copy into place with a rename, *)
(* uploads it with a manifest last, and prunes what is old or abandoned,   *)
(* here and in the store. Jobs may overlap, fail and die at any step; a    *)
(* restore reads the newest backup whose manifest is there.                *)
(*                                                                         *)
(* Outside src/apps/alineod: the store, whose calls may fail, and the clock.*)
(* A job is assumed to be done with its copy within the grace of prune(),  *)
(* and with its upload within that of pruneOffsite().                      *)
(***************************************************************************)
EXTENDS Naturals, Sequences, FiniteSets, FiniteSetsExt

CONSTANTS
    Jobs,     \* the runs of scripts/backup.ts, in the order they start
    Grace,    \* incompleteGraceMs and STALE_PARTIAL_MS
    JobMixes  \* what the initial states choose from: the names (times) of the jobs, 0 for none,
              \* --keep, 0 for none, what the daemon writes, ticks and faults

VARIABLES
    jobMix,    \* the mix that was chosen, with the writes, ticks and faults that are left
    jobClock,  \* Date.now()
    daemon,    \* the state of the daemon: the settled handles, and the results on disk
    jobPc,     \* where each job is
    since,     \* when it began to copy, to upload, or to prune the store
    file,      \* the next file it uploads
    staging,   \* the .partial directories
    local,     \* the backup directories
    stored,    \* the store: of each key when it was put, and what it holds
    listed,    \* what listBackups() told a job that prunes
    doomed,    \* the keys it deletes
    restore,   \* a restore: the backup, and what it has got of it
    taken      \* history: what the upload of a backup read

dirs == <<staging, local>>
backupVars ==
    <<jobMix, jobClock, daemon, jobPc, since, file, dirs, stored, listed, doomed, restore, taken>>

AllNames == (UNION {{m.name[j] : j \in Jobs} : m \in JobMixes}) \ {0}

MixOfBackups ==
    [name : [Jobs -> Nat], keep : Nat, writes : Nat, ticks : Nat, restores : Nat,
     faults : [{"copy", "store", "crash"} -> Nat]]

BackupConstants ==
    IsFiniteSet(Jobs) /\ Jobs \subseteq Nat /\ Grace \in Nat /\ JobMixes \subseteq MixOfBackups

ASSUME BackupAssumption == BackupConstants

JobFault(f) == jobMix.faults[f] > 0 /\ jobMix' = [jobMix EXCEPT !.faults[f] = @ - 1]
JobGoto(j, at) == jobPc' = [jobPc EXCEPT ![j] = at]
Name(j) == jobMix.name[j]

(* The two parts of a backup. A directory has of each what there was when it *)
(* was copied, plus 1.                                                       *)
Parts == {"db", "work"}
Nothing == [p \in Parts |-> 0]

Absent == [there |-> FALSE, at |-> 0, has |-> Nothing]
Empty == [there |-> TRUE, at |-> jobClock, has |-> Nothing]

Manifest == "COMPLETE"
Copying(j) == jobPc[j] \in {"db", "work", "rename"}

-----------------------------------------------------------------------------
(* The daemon: writeResult() returns before handle.settled is recorded.      *)
Writes ==
    /\ jobMix.writes > 0 /\ jobMix' = [jobMix EXCEPT !.writes = @ - 1]
    /\ \/ daemon' = [daemon EXCEPT !["work"] = @ + 1]
       \/ daemon["db"] < daemon["work"] /\ daemon' = [daemon EXCEPT !["db"] = @ + 1]
    /\ UNCHANGED <<jobClock, jobPc, since, file, dirs, stored, listed, doomed, restore, taken>>

-----------------------------------------------------------------------------
(* backup()                                                                  *)
JobBegins(j) ==
    /\ jobPc[j] = "idle" /\ Name(j) # 0 /\ \A i \in Jobs : i < j => jobPc[i] # "idle"
    /\ IF local[Name(j)].there
       THEN JobGoto(j, "failed") /\ UNCHANGED <<since, staging>>
       ELSE /\ JobGoto(j, "db")
            /\ since' = [since EXCEPT ![j] = jobClock]
            /\ staging' = [staging EXCEPT ![Name(j)] = Empty]
    /\ UNCHANGED <<jobMix, jobClock, daemon, file, local, stored, listed, doomed, restore, taken>>

(* VACUUM INTO needs the directory; cpSync makes it.                         *)
Copies(j) ==
    LET n == Name(j)
        part == jobPc[j]
    IN  /\ part \in Parts
        /\ IF part = "db" /\ ~staging[n].there
           THEN JobGoto(j, "failed") /\ UNCHANGED staging
           ELSE /\ JobGoto(j, IF part = "db" THEN "work" ELSE "rename")
                /\ staging' = [staging EXCEPT ![n] =
                     [there |-> TRUE, at |-> jobClock,
                      has |-> [staging[n].has EXCEPT ![part] = daemon[part] + 1]]]
        /\ UNCHANGED <<jobMix, jobClock, daemon, since, file, local, stored, listed, doomed,
                       restore, taken>>

(* One rename, of a directory that is there onto one that is not.            *)
Renames(j) ==
    LET n == Name(j)
    IN  /\ jobPc[j] = "rename"
        /\ staging' = [staging EXCEPT ![n] = Absent]
        /\ IF staging[n].there /\ ~local[n].there
           THEN /\ local' = [local EXCEPT ![n] = [staging[n] EXCEPT !.at = 0]]
                /\ JobGoto(j, "prune")
           ELSE JobGoto(j, "failed") /\ UNCHANGED local
        /\ UNCHANGED <<jobMix, jobClock, daemon, since, file, stored, listed, doomed, restore,
                       taken>>

(* A copy fails: the catch removes the staging directory.                    *)
CopyFails(j) ==
    /\ jobPc[j] \in {"db", "work"} /\ JobFault("copy")
    /\ staging' = [staging EXCEPT ![Name(j)] = Absent]
    /\ JobGoto(j, "failed")
    /\ UNCHANGED <<jobClock, daemon, since, file, local, stored, listed, doomed, restore, taken>>

(* Of a set of names those beyond the newest `keep'.                         *)
Beyond(names) ==
    {n \in names : jobMix.keep > 0 /\ Cardinality({m \in names : m > n}) >= jobMix.keep}

(* prune(): the directories beyond --keep, and staging ones that are stale.  *)
Prunes(j) ==
    /\ jobPc[j] = "prune"
    /\ LET old == Beyond({n \in AllNames : local[n].there})
           stale == {n \in AllNames : jobMix.keep > 0 /\ jobClock - staging[n].at > Grace}
       IN  /\ local' = [n \in AllNames |-> IF n \in old THEN Absent ELSE local[n]]
           /\ staging' = [n \in AllNames |-> IF n \in stale THEN Absent ELSE staging[n]]
    /\ JobGoto(j, "put")
    /\ since' = [since EXCEPT ![j] = jobClock]
    /\ file' = [file EXCEPT ![j] = "db"]
    /\ UNCHANGED <<jobMix, jobClock, daemon, stored, listed, doomed, restore, taken>>

-----------------------------------------------------------------------------
(* uploadBackup(), then maybe pruneOffsite(), whose `now' is when it is called. *)
Put(n, f, what) ==
    {b \in stored : b.key # <<n, f>>} \cup {[key |-> <<n, f>>, at |-> jobClock, has |-> what]}
At(n, f) == {b \in stored : b.key = <<n, f>>}

NextFile(f) == CASE f = "db" -> "work" [] f = "work" -> Manifest [] OTHER -> "done"

Uploads(j) ==
    LET n == Name(j)
        f == file[j]
        next == NextFile(f)
    IN  /\ jobPc[j] = "put"
        /\ IF f # Manifest /\ ~local[n].there
           THEN JobGoto(j, "failed") /\ UNCHANGED <<since, file, stored, taken>>
           ELSE /\ stored' = Put(n, f, IF f = Manifest THEN 0 ELSE local[n].has[f])
                /\ taken' = IF f = Manifest THEN taken ELSE [taken EXCEPT ![n][f] = local[n].has[f]]
                /\ file' = [file EXCEPT ![j] = next]
                /\ JobGoto(j, IF next # "done" THEN "put"
                              ELSE IF jobMix.keep > 0 THEN "list" ELSE "done")
                /\ since' = IF next = "done" THEN [since EXCEPT ![j] = jobClock] ELSE since
        /\ UNCHANGED <<jobMix, jobClock, daemon, dirs, listed, doomed, restore>>

-----------------------------------------------------------------------------
(* listBackups(), and what is left of pruneOffsite()                         *)
Complete == {n \in AllNames : At(n, Manifest) # {}}

Lists(j) ==
    /\ jobPc[j] = "list"
    /\ listed' = [listed EXCEPT ![j] = Complete]
    /\ JobGoto(j, "doom")
    /\ UNCHANGED <<jobMix, jobClock, daemon, since, file, dirs, stored, doomed, restore, taken>>

(* Mutant: by the clock of the second listing.                               *)
AbandonedByThen(j, b) == b.key[1] \notin listed[j] /\ jobClock - b.at > Grace

(* The second listing, of every key; what is deleted is settled here.        *)
Abandoned(j, b) == b.key[1] \notin listed[j] /\ since[j] - b.at > Grace

Dooms(j) ==
    /\ jobPc[j] = "doom"
    /\ LET gone == {b \in stored : b.key[1] \in Beyond(listed[j]) \/ Abandoned(j, b)}
       IN  doomed' = [doomed EXCEPT ![j] = {g.key : g \in gone}]
    /\ JobGoto(j, "delete")
    /\ UNCHANGED <<jobMix, jobClock, daemon, since, file, dirs, stored, listed, restore, taken>>

(* The deletions run at once, and end in any order.                          *)
Deletes(j) ==
    /\ jobPc[j] = "delete"
    /\ IF doomed[j] = {}
       THEN JobGoto(j, "done") /\ UNCHANGED <<stored, doomed>>
       ELSE \E key \in doomed[j] :
              /\ stored' = {b \in stored : b.key # key}
              /\ doomed' = [doomed EXCEPT ![j] = @ \ {key}]
              /\ UNCHANGED jobPc
    /\ UNCHANGED <<jobMix, jobClock, daemon, since, file, dirs, listed, restore, taken>>

StoreFails(j) ==
    /\ jobPc[j] \in {"put", "list", "doom", "delete"} /\ JobFault("store")
    /\ JobGoto(j, "failed")
    /\ UNCHANGED <<jobClock, daemon, since, file, dirs, stored, listed, doomed, restore, taken>>

(* The job is killed, and leaves everything as it is.                        *)
Dies(j) ==
    /\ jobPc[j] \notin {"idle", "done", "failed"} /\ JobFault("crash")
    /\ JobGoto(j, "failed")
    /\ UNCHANGED <<jobClock, daemon, since, file, dirs, stored, listed, doomed, restore, taken>>

-----------------------------------------------------------------------------
(* restoreState() from a backup: the newest, its manifest, its files. A key  *)
(* that is gone makes it throw; what was on the machine is gone already.     *)
RestoreBegins ==
    /\ restore.at = "idle" /\ jobMix.restores > 0 /\ jobMix' = [jobMix EXCEPT !.restores = @ - 1]
    /\ restore' = [at |-> IF Complete = {} THEN "failed" ELSE Manifest, got |-> Nothing,
                   name |-> IF Complete = {} THEN 0 ELSE Max(Complete)]
    /\ UNCHANGED <<jobClock, daemon, jobPc, since, file, dirs, stored, listed, doomed, taken>>

RestoreReads ==
    /\ restore.at \in Parts \cup {Manifest}
    /\ LET found == At(restore.name, restore.at)
       IN  restore' =
             IF found = {} THEN [restore EXCEPT !.at = "failed"]
             ELSE IF restore.at = Manifest THEN [restore EXCEPT !.at = "db"]
             ELSE [restore EXCEPT !.got[restore.at] = (CHOOSE b \in found : TRUE).has,
                                  !.at = IF restore.at = "db" THEN "work" ELSE "done"]
    /\ UNCHANGED <<jobMix, jobClock, daemon, jobPc, since, file, dirs, stored, listed, doomed,
                   taken>>

RestoreAgain ==
    /\ restore.at \in {"done", "failed"} /\ jobMix.restores > 0
    /\ restore' = [restore EXCEPT !.at = "idle"]
    /\ UNCHANGED <<jobMix, jobClock, daemon, jobPc, since, file, dirs, stored, listed, doomed,
                   taken>>

(* Time passes, no longer than the grace during a copy or an upload.         *)
JobTick ==
    /\ jobMix.ticks > 0 /\ jobMix' = [jobMix EXCEPT !.ticks = @ - 1]
    /\ \A j \in Jobs : Copying(j) \/ jobPc[j] = "put" => jobClock - since[j] < Grace
    /\ jobClock' = jobClock + 1
    /\ UNCHANGED <<daemon, jobPc, since, file, dirs, stored, listed, doomed, restore, taken>>

-----------------------------------------------------------------------------
BackupInit ==
    /\ jobMix \in JobMixes
    /\ jobClock = 0 /\ daemon = Nothing
    /\ jobPc = [j \in Jobs |-> "idle"] /\ since = [j \in Jobs |-> 0] /\ file = [j \in Jobs |-> "db"]
    /\ staging = [n \in AllNames |-> Absent] /\ local = [n \in AllNames |-> Absent]
    /\ stored = {} /\ listed = [j \in Jobs |-> {}] /\ doomed = [j \in Jobs |-> {}]
    /\ restore = [at |-> "idle", name |-> 0, got |-> Nothing]
    /\ taken = [n \in AllNames |-> Nothing]

BackupNext ==
    \/ Writes \/ JobTick
    \/ \E j \in Jobs :
          \/ JobBegins(j) \/ Copies(j) \/ Renames(j) \/ CopyFails(j) \/ Prunes(j)
          \/ Uploads(j) \/ Lists(j) \/ Dooms(j) \/ Deletes(j) \/ StoreFails(j) \/ Dies(j)
    \/ RestoreBegins \/ RestoreReads \/ RestoreAgain

BackupSpec == BackupInit /\ [][BackupNext]_backupVars

-----------------------------------------------------------------------------
(* Every variable has its type.                                              *)
Contents == [Parts -> Nat]

BackupTypeOK ==
    /\ jobClock \in Nat /\ daemon \in Contents
    /\ jobPc \in [Jobs -> {"idle", "db", "work", "rename", "prune", "put", "list", "doom", "delete",
                        "done", "failed"}]
    /\ \A n \in AllNames : {staging[n], local[n]} \subseteq
          [there : BOOLEAN, at : 0..jobClock, has : Contents]
    /\ \A b \in stored : b.key \in AllNames \X (Parts \cup {Manifest}) /\ b.at \in 0..jobClock
    /\ listed \in [Jobs -> SUBSET AllNames]
    /\ restore.at \in {"idle", Manifest, "db", "work", "done", "failed"}
    /\ taken \in [AllNames -> Contents]

(* No settled handle in it points at a result that is missing.               *)
Consistent(c) == 0 < c["db"] /\ c["db"] <= c["work"]

InStore(n) == \A p \in Parts : {b.has : b \in At(n, p)} = {taken[n][p]}

Distinct == \A i, j \in Jobs : i # j /\ Name(i) # 0 => Name(i) # Name(j)

(* A directory that is there is whole, and consistent (backup.ts:155-251).   *)
VisibleIsWhole == Distinct => \A n \in AllNames : local[n].there => Consistent(local[n].has)

(* The newest backup with a manifest is whole, and there is one from the     *)
(* first upload on, whatever is pruned, fails or dies (offsite.ts:38-100).   *)
NewestIsWhole ==
    Distinct =>
        /\ Complete # {} => InStore(Max(Complete)) /\ Consistent(taken[Max(Complete)])
        /\ (\E j \in Jobs : jobPc[j] \in {"list", "doom", "delete", "done"}) => Complete # {}

(* A restore that succeeds brings back one backup, and nothing that dangles  *)
(* (restore.ts:60-139).                                                      *)
RestoredIsOne ==
    restore.at = "done" /\ Distinct => restore.got = taken[restore.name] /\ Consistent(restore.got)

BackupsAreWhole == VisibleIsWhole /\ NewestIsWhole /\ RestoredIsOne

-----------------------------------------------------------------------------
(* What does not hold: see the README.                                       *)

(* "Anything without the manifest is a half-finished upload" (offsite.ts:10),*)
(* and what has one is whole.                                                *)
OfferedIsWhole == Distinct => \A n \in Complete : InStore(n)

(* A restore fails only when there is no backup.                             *)
RestoreFinds == restore.at = "failed" => restore.name = 0

(* "all or nothing" (backup.ts:145), for two jobs in one second too.         *)
AllOrNothing == \A n \in AllNames : local[n].there => Consistent(local[n].has)
=============================================================================
