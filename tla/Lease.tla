------------------------------- MODULE Lease -------------------------------
(***************************************************************************)
(* The instance lease (state/lease.ts, server.ts): one alineod per         *)
(* database.  A member of Instances is one process, from its boot to its   *)
(* end, with the UUID acquireLease() draws for it.  `row' is the one row   *)
(* of instance_lease, all else is in the memory of a process; the clock is *)
(* the host's.  A timer of process i fires at most Late[i] after it is due *)
(* (its event loop, or all of it, may be stalled), and a heartbeat may be  *)
(* refused by SQLite (SQLITE_BUSY) MaxSkips times in a row.                *)
(***************************************************************************)
EXTENDS Integers, FiniteSets

CONSTANTS Instances, None, TtlMs, Late, MaxSkips,
          MaxTime          \* bound: where the clock stops

ASSUME LeaseAssumption ==
    /\ None \notin Instances
    /\ TtlMs \in Nat \ {0}
    /\ Late \in [Instances -> Nat]
    /\ {MaxSkips, MaxTime} \subseteq Nat

VARIABLES
    now,        \* Date.now()
    row,        \* instance_lease: whose it is (None: no row) and its heartbeat_at
    pc,         \* of each process
    next,       \* when its sleep or its interval is due
    waitUntil,  \* when a booting process gives up
    skipped     \* heartbeats refused since the last one that was not

vars == <<now, row, pc, next, waitUntil, skipped>>

beatMs == IF TtlMs \div 3 > 1 THEN TtlMs \div 3 ELSE 1

Init ==
    /\ now = 0
    /\ row = [id |-> None, beat |-> 0]
    /\ pc = [i \in Instances |-> "off"]
    /\ next = [i \in Instances |-> 0]
    /\ waitUntil = [i \in Instances |-> 0]
    /\ skipped = [i \in Instances |-> 0]

(* Mutant: a holder that has missed one heartbeat counts as dead.          *)
HeldForABeat(i) == row.id \notin {None, i} /\ now - row.beat < beatMs

(* tryClaim returned the live holder.                                      *)
Held(i) == row.id \notin {None, i} /\ now - row.beat < TtlMs

(* The loop of acquireLease: claim, or give up, or sleep for a beat.       *)
Claim(i) ==
    /\ ~Held(i)
    /\ row' = [id |-> i, beat |-> now]
    /\ pc' = [pc EXCEPT ![i] = "holding"]
    /\ next' = [next EXCEPT ![i] = now + beatMs]
    /\ skipped' = [skipped EXCEPT ![i] = 0]
    /\ UNCHANGED <<now, waitUntil>>

Sleep(i) ==
    /\ Held(i)
    /\ pc' = [pc EXCEPT ![i] = "waiting"]
    /\ next' = [next EXCEPT ![i] = now + beatMs]
    /\ UNCHANGED <<now, row, skipped>>

Boot(i) ==
    /\ pc[i] = "off"
    /\ \/ Claim(i)
       \/ Sleep(i) /\ waitUntil' = [waitUntil EXCEPT ![i] = now + TtlMs + beatMs]

(* Mutant: a booting process gives up after one sleep.                     *)
RetryOnce(i) ==
    /\ pc[i] = "waiting" /\ now >= next[i]
    /\ \/ Claim(i)
       \/ /\ Held(i)
          /\ pc' = [pc EXCEPT ![i] = "refused"]
          /\ UNCHANGED <<now, row, next, waitUntil, skipped>>

Retry(i) ==
    /\ pc[i] = "waiting" /\ now >= next[i]
    /\ \/ Claim(i)
       \/ Sleep(i) /\ now < waitUntil[i] /\ UNCHANGED waitUntil
       \/ /\ Held(i) /\ now >= waitUntil[i]
          /\ pc' = [pc EXCEPT ![i] = "refused"]
          /\ UNCHANGED <<now, row, next, waitUntil, skipped>>

-----------------------------------------------------------------------------
(* The interval: a heartbeat, or, when the row is no longer ours, onLost,  *)
(* which exits.                                                            *)
Beat(i) ==
    /\ pc[i] = "holding" /\ now >= next[i]
    /\ IF row.id = i
       THEN /\ row' = [row EXCEPT !.beat = now]
            /\ skipped' = [skipped EXCEPT ![i] = 0]
            /\ next' = [next EXCEPT ![i] = now + beatMs]
            /\ UNCHANGED pc
       ELSE /\ pc' = [pc EXCEPT ![i] = "gone"]
            /\ UNCHANGED <<row, next, skipped>>
    /\ UNCHANGED <<now, waitUntil>>

SkipBeat(i) ==
    /\ pc[i] = "holding" /\ now >= next[i]
    /\ skipped[i] < MaxSkips
    /\ skipped' = [skipped EXCEPT ![i] = @ + 1]
    /\ next' = [next EXCEPT ![i] = now + beatMs]
    /\ UNCHANGED <<now, row, pc, waitUntil>>

(* Mutant: release() deletes the row whosever it is.                       *)
ReleaseAnyRow(i) ==
    /\ pc[i] = "holding"
    /\ pc' = [pc EXCEPT ![i] = "gone"]
    /\ row' = [row EXCEPT !.id = None]
    /\ UNCHANGED <<now, next, waitUntil, skipped>>

(* SIGINT or SIGTERM: release() deletes our row.                           *)
Release(i) ==
    /\ pc[i] = "holding"
    /\ pc' = [pc EXCEPT ![i] = "gone"]
    /\ row' = IF row.id = i THEN [row EXCEPT !.id = None] ELSE row
    /\ UNCHANGED <<now, next, waitUntil, skipped>>

(* kill -9, or a power loss.                                               *)
Die(i) ==
    /\ pc[i] \in {"waiting", "holding"}
    /\ pc' = [pc EXCEPT ![i] = "gone"]
    /\ UNCHANGED <<now, row, next, waitUntil, skipped>>

Tick ==
    /\ now < MaxTime
    /\ \A i \in Instances : pc[i] \in {"waiting", "holding"} => now < next[i] + Late[i]
    /\ now' = now + 1
    /\ UNCHANGED <<row, pc, next, waitUntil, skipped>>

Next ==
    \/ Tick
    \/ \E i \in Instances : \/ Boot(i) \/ Retry(i) \/ Beat(i) \/ SkipBeat(i)
                            \/ Release(i) \/ Die(i)

Spec == Init /\ [][Next]_vars

-----------------------------------------------------------------------------
(* Every variable has its type.                                            *)
TypeOK ==
    /\ now \in 0 .. MaxTime
    /\ row \in [id : Instances \cup {None}, beat : 0 .. MaxTime]
    /\ pc \in [Instances -> {"off", "waiting", "holding", "refused", "gone"}]
    /\ next \in [Instances -> Nat]
    /\ waitUntil \in [Instances -> Nat]
    /\ skipped \in [Instances -> 0 .. MaxSkips]

Drivers == {i \in Instances : pc[i] = "holding"}

(* "The TTL is three beats long, so one miss can't make the lease look     *)
(* stale": how far the heartbeats of i may lag behind and still be in time.*)
Timely(i) == (MaxSkips + 1) * (beatMs + Late[i]) < TtlMs

(* Two processes never drive the agents of one database, as long as the    *)
(* timers of both fire in time.                                            *)
OneDriver == \A i, j \in Drivers : Timely(i) /\ Timely(j) => i = j

(* A holder whose own heartbeats are in time is never displaced, however   *)
(* late those of others are: the row is its own.                           *)
DriverOwnsRow == \A i \in Drivers : Timely(i) => row.id = i

(* However late its timers are, a process that lost the row to another     *)
(* never takes it back, and leaves the other's row alone when it ends.     *)
KeepsOff == \A i \in Drivers :
    row.id \notin {i, None} => row' = row \/ (pc'[i] = pc[i] /\ row'.id # i)

DisplacedKeepsOff == [][KeepsOff]_vars

(* A boot is decided within a TTL and two beats, and the lateness of the   *)
(* last sleep; and it is only refused by a process that was alive after    *)
(* the boot began: a dead holder costs a restart a wait, never a refusal.  *)
BootIsBounded ==
    \A i \in Instances : pc[i] = "waiting" => now < waitUntil[i] + beatMs + Late[i]

RefusedByTheLiving ==
    \A i \in Instances : pc[i] = "waiting" /\ pc'[i] = "refused"
        => row.beat > waitUntil[i] - TtlMs - beatMs

BootIsDecided == [][BootIsBounded' /\ RefusedByTheLiving]_vars
=============================================================================
