------------------------------ MODULE MCSpawn ------------------------------
(***************************************************************************)
(* Two agents below one root, in any tree: with both slots free, so that   *)
(* both may fork at once, and with one slot taken by another run, so that  *)
(* they queue, and requests that ask for a deeper tree than they inherit.  *)
(* A pause, a stop and a restart, or two of them where they queue.         *)
(***************************************************************************)
EXTENDS Spawn, TLC

CONSTANT x

Queueing(p, s, r) ==
    [taken |-> {x}, overrides |-> {2}, pauses |-> p, stops |-> s, restarts |-> r]

MCMixes ==
    {[taken |-> {}, overrides |-> {}, pauses |-> 1, stops |-> 1, restarts |-> 1],
     Queueing(1, 1, 0), Queueing(1, 0, 1), Queueing(0, 1, 1)}
=============================================================================
