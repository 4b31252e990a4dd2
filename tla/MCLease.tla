------------------------------- MODULE MCLease -------------------------------
(***************************************************************************)
(* What a daemon that starts has to settle: whether it may drive the       *)
(* agents of its database, and the waits that were left undecided. One of  *)
(* them is looked at in a behaviour: `boot'.                               *)
(***************************************************************************)
EXTENDS Lease, WaitRegime, TLC

CONSTANTS p1, p2, p3

VARIABLE boot

(* Three processes on one database: two whose timers are nearly punctual,  *)
(* and one that may stall for longer than the TTL.                         *)
Lateness == (p1 :> 1 @@ p2 :> 1 @@ p3 :> 5)
Punctual == Permutations({p1, p2})

(* Every valid wait for N agents, which may settle MaxTurns times. A wait  *)
(* without a deadline is one whose deadline does not pass.                 *)
NoWait == [mode |-> "settled", k |-> N, onDepFailure |-> "fail", onDeadline |-> "proceed",
           deadline |-> FALSE]

-----------------------------------------------------------------------------
BootInit ==
    /\ boot \in {"lease", "wait"}
    /\ Init /\ WaitInit
    /\ IF boot = "wait" THEN wait.deadline ELSE wait = NoWait

BootNext ==
    \/ boot = "lease" /\ Next /\ UNCHANGED <<boot, waitVars>>
    \/ boot = "wait" /\ WaitNext /\ UNCHANGED <<boot, vars>>

BootSpec == BootInit /\ [][BootNext]_<<boot, vars, waitVars>>
=============================================================================
