------------------------------- MODULE Mailbox -------------------------------
(***************************************************************************)
(* What apps/alineod/src/engine/notify.ts promises of an inbox, without    *)
(* its chain, steers, pauses and crashes: messages leave it in the order   *)
(* they were sent, and are read at least once, unless the reader is closed *)
(* first, which then takes nothing any more and loses what it has not read.*)
(* What is handed to a prompt is out of the inbox before it is read: it    *)
(* may be read later than what follows it, or be lost with the prompt.     *)
(***************************************************************************)
EXTENDS Naturals

CONSTANT Messages    \* numbers, in the order they are sent

VARIABLES
    standing,    \* of each message
    reader       \* "closing": what is on its way may still be read

Waiting == {m \in Messages : standing[m] = "waiting"}
Out == {m \in Messages : standing[m] \in {"handed", "lost"}}
Become(seqs, to) == standing' = [m \in Messages |-> IF m \in seqs THEN to ELSE standing[m]]

(* The last that was on its way to a closing reader ends its closing.        *)
Arrives ==
    /\ reader # "closed"
    /\ reader' = reader \/ (reader = "closing" /\ reader' = "closed")

Init == standing = [m \in Messages |-> "unsent"] /\ reader = "open"

Send(m) ==
    /\ standing[m] = "unsent" /\ \A k \in Messages : k < m => standing[k] # "unsent"
    /\ Become({m}, "waiting")
    /\ UNCHANGED reader

(* A prompt takes all that waits.                                            *)
Hand == reader = "open" /\ Become(Waiting, "handed") /\ UNCHANGED reader

(* Several at once, and none that waits before them is left (a steer may     *)
(* bring what a prompt that failed took as well).                            *)
Read(seqs) ==
    /\ Arrives
    /\ \A k \in seqs, m \in Waiting : m < k => m \in seqs
    /\ Become(seqs, "read")

(* Only what was handed to a prompt is lost.                                 *)
Lose(seqs) == Arrives /\ Become(seqs, "lost")

Close == reader # "closed" /\ reader' \in {"closing", "closed"} /\ UNCHANGED standing

Drop == reader # "open" /\ Become(Waiting, "dropped") /\ UNCHANGED reader

Next ==
    \/ \E seqs \in SUBSET (Waiting \cup Out) : Read(seqs)
    \/ \E seqs \in SUBSET Out : Lose(seqs)
    \/ \E m \in Messages : Send(m)
    \/ Hand \/ Close \/ Drop

Spec == Init /\ [][Next]_<<standing, reader>>
=============================================================================
