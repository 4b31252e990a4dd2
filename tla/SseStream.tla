----------------------------- MODULE SseStream -----------------------------
(***************************************************************************)
(* The event stream of one run (routes/sse.ts, bus.ts, engine/emit.ts): a  *)
(* client connects with the last id it has read, is sent the ledger since  *)
(* then and the live events after that, is disconnected when it falls too  *)
(* far behind, and connects again.                                         *)
(*                                                                         *)
(* A persisted event is named by its seq in the ledger, an ephemeral one   *)
(* (a text delta, a keep-alive) by 0.  The stream's queue holds one frame  *)
(* before its desiredSize is 0.  emit() publishes an event to the bus's    *)
(* listeners in the order they subscribed, and a listener may itself emit  *)
(* (observe() in quiescence.ts: run.quiescent; waitForRegime():            *)
(* wait.blocked): its event reaches everybody before the first one has     *)
(* reached the listeners behind it.                                        *)
(***************************************************************************)
EXTENDS Naturals, Sequences, SequencesExt

CONSTANTS BACKPRESSURE_PERSISTED_LIMIT,
          MaxRows, MaxWaits, MaxLosses      \* bounds

ASSUME StreamAssumption ==
    /\ BACKPRESSURE_PERSISTED_LIMIT \in Nat
    /\ {MaxRows, MaxWaits, MaxLosses} \subseteq Nat

VARIABLES
    rows,      \* the ledger of the run has the seqs 1 .. rows
    waiter,    \* a listener that will emit: none, ahead of the stream's, behind it
    conn,      \* the connection: is it subscribed, its queue, backedUpPersistedCount
    got,       \* the ids the client has read
    waits, losses,
    clipped,   \* history: a replay was longer than the queue may get
    overtook   \* history: an event was sent before the one that caused it

vars == <<rows, waiter, conn, got, waits, losses, clipped, overtook>>

Ephemeral == 0
lastEventId == IF got = <<>> THEN 0 ELSE Last(got)

(* The frames a stream takes before it counts as too far behind: one, and  *)
(* then as many persisted ones as the limit.                               *)
Room == BACKPRESSURE_PERSISTED_LIMIT + 1

Init ==
    /\ rows = 0 /\ waiter = "none"
    /\ conn = [open |-> FALSE, queue |-> <<>>, backedUp |-> 0]
    /\ got = <<>>
    /\ waits = 0 /\ losses = 0
    /\ clipped = FALSE /\ overtook = FALSE

-----------------------------------------------------------------------------
(* send(), for a live message: an ephemeral one is dropped under           *)
(* backpressure, a persisted one over the limit closes the connection,     *)
(* whose queue the client may still read.                                  *)
Send(c, s) ==
    IF ~c.open \/ (c.queue # <<>> /\ s = Ephemeral) THEN c
    ELSE IF c.queue = <<>> THEN [open |-> TRUE, queue |-> <<s>>, backedUp |-> 0]
    ELSE IF c.backedUp < BACKPRESSURE_PERSISTED_LIMIT
    THEN [open |-> TRUE, queue |-> Append(c.queue, s), backedUp |-> c.backedUp + 1]
    ELSE [open |-> FALSE, queue |-> c.queue, backedUp |-> c.backedUp + 1]

(* Mutant: the replay starts with the last row the client has.             *)
ReplayInclusive(after) ==
    LET first == IF after = 0 THEN 1 ELSE after
        n == rows + 1 - first
    IN  [open |-> TRUE,
         queue |-> [i \in 1 .. (IF n > Room THEN Room ELSE n) |-> first + i - 1],
         backedUp |-> IF n > 0 THEN n - 1 ELSE 0]

(* start(): the rows since `after' through the same send(), while cleanup  *)
(* still does nothing: the rows over the limit are counted and left out,   *)
(* and the connection stays open.                                          *)
Replay(after) ==
    LET n == rows - after
    IN  [open |-> TRUE,
         queue |-> [i \in 1 .. (IF n > Room THEN Room ELSE n) |-> after + i],
         backedUp |-> IF n > 0 THEN n - 1 ELSE 0]

-----------------------------------------------------------------------------
(* GET /runs/:runId/events, once the connection before has ended: replay   *)
(* and subscription are one stretch of code.                               *)
Connect ==
    /\ ~conn.open /\ conn.queue = <<>>
    /\ conn' = Replay(lastEventId)
    /\ waiter' = IF waiter = "behind" THEN "ahead" ELSE waiter
    /\ clipped' = (clipped \/ rows - lastEventId > Room)
    /\ UNCHANGED <<rows, got, waits, losses, overtook>>

(* The client reads a frame.                                               *)
Read ==
    /\ conn.queue # <<>>
    /\ conn' = [conn EXCEPT !.queue = Tail(@)]
    /\ got' = IF Head(conn.queue) = Ephemeral THEN got ELSE Append(got, Head(conn.queue))
    /\ UNCHANGED <<rows, waiter, waits, losses, clipped, overtook>>

(* The network or the client breaks the connection: cancel().              *)
Lose ==
    /\ losses < MaxLosses /\ losses' = losses + 1
    /\ conn.open \/ conn.queue # <<>>
    /\ conn' = [open |-> FALSE, queue |-> <<>>, backedUp |-> conn.backedUp]
    /\ UNCHANGED <<rows, waiter, got, waits, clipped, overtook>>

(* emit() and emitHarness(): append, then publish.                         *)
Persist ==
    /\ rows < MaxRows
    /\ rows' = rows + 1
    /\ conn' = Send(conn, rows')
    /\ UNCHANGED <<waiter, got, waits, losses, clipped, overtook>>

Publish ==
    /\ conn' = Send(conn, Ephemeral)
    /\ UNCHANGED <<rows, waiter, got, waits, losses, clipped, overtook>>

(* A wait subscribes (waitUntil); its check emits at an event that ends it *)
(* (run.quiescent), or that does not (wait.blocked).                       *)
WaitBegins ==
    /\ waits < MaxWaits /\ waits' = waits + 1
    /\ waiter = "none"
    /\ waiter' = IF conn.open THEN "behind" ELSE "ahead"
    /\ UNCHANGED <<rows, conn, got, losses, clipped, overtook>>

PersistNested ==
    /\ rows + 2 <= MaxRows
    /\ waiter # "none" /\ waiter' \in {"none", waiter}
    /\ rows' = rows + 2
    /\ conn' = IF waiter = "ahead" THEN Send(Send(conn, rows + 2), rows + 1)
                                   ELSE Send(Send(conn, rows + 1), rows + 2)
    /\ overtook' = (overtook \/ (waiter = "ahead" /\ conn.open))
    /\ UNCHANGED <<got, waits, losses, clipped>>

Next == Connect \/ Read \/ Lose \/ Persist \/ Publish \/ WaitBegins \/ PersistNested

Spec == Init /\ [][Next]_vars

(* The client reads what it is sent, and connects again when it was        *)
(* disconnected.                                                           *)
FairSpec == Spec /\ WF_vars(Read) /\ WF_vars(Connect)

-----------------------------------------------------------------------------
(* Every variable has its type.                                            *)
TypeOK ==
    /\ rows \in 0 .. MaxRows
    /\ waiter \in {"none", "ahead", "behind"}
    /\ conn \in [open : BOOLEAN, queue : Seq(0 .. rows), backedUp : Nat]
    /\ got \in Seq(1 .. rows)
    /\ waits \in 0 .. MaxWaits /\ losses \in 0 .. MaxLosses
    /\ clipped \in BOOLEAN /\ overtook \in BOOLEAN

(* A reader that does not read costs the daemon a bounded buffer: the      *)
(* limit of persisted frames and one more, replay included.                *)
BufferIsBounded == Len(conn.queue) <= Room

(* Replay, live events, disconnections by either side and reconnections    *)
(* together give the client every row once and in order, as long as no     *)
(* replay is longer than the queue may get and no event is sent before its *)
(* cause (NothingMissed and IdsAscend, below); and a reader that does not  *)
(* read never costs the daemon more than its bound (sse.ts:14-80).         *)
StreamIsFaithful ==
    /\ ~clipped /\ ~overtook => \A i \in 1 .. Len(got) : got[i] = i
    /\ BufferIsBounded

(* The client has every row, or is beyond the conditions above.            *)
CaughtUp == clipped \/ overtook \/ Len(got) = rows

(* A client that goes on reading and connecting gets every row, however    *)
(* often it was disconnected: the rows have an end, and again and again it *)
(* has caught up (sse.ts:28-80).                                           *)
ReaderCatchesUp == []<>CaughtUp

-----------------------------------------------------------------------------
(* What the comments and the docs say.                                     *)

(* "Ephemeral events emitted while you were disconnected are lost;         *)
(* persisted events are not" (docs, events.mdx): a row before the one the  *)
(* client resumes from has been read, or is about to be.                   *)
NothingMissed ==
    \A s \in 1 .. lastEventId : \E i \in 1 .. Len(got) + Len(conn.queue) :
        (got \o conn.queue)[i] = s

(* The id of a frame is what a reconnect resumes from, so the ids ascend   *)
(* (test/sse.test.ts: "in seq order").                                     *)
IdsAscend == \A i, j \in 1 .. Len(got) : i < j => got[i] < got[j]
=============================================================================
