---------------------------- MODULE StreamProofs ----------------------------
(***************************************************************************)
(* What readers of the two streams receive.  First the event stream of the *)
(* daemon, for any limit and any length of the ledger: the buffer of a     *)
(* connection is bounded, and what the client reads is the ledger, row by  *)
(* row, unless a replay was clipped or an event overtook its cause.  Then  *)
(* the stream of a prompt, for any window: its caller is given what the    *)
(* bridge wrote, and is timed out only when nothing came.                  *)
(***************************************************************************)
EXTENDS SseStream, PromptStream, SequenceTheorems, WellFoundedInduction, TLAPS

Conns(r) == [open : BOOLEAN, queue : Seq(0 .. r), backedUp : Nat]

(* The count of frames sent while backed up bounds the queue.              *)
Fits(c) == Len(c.queue) <= Room /\ Len(c.queue) <= c.backedUp + 1

(* An ephemeral frame is only ever the first of a queue; g ids have been   *)
(* read, the queue goes on from there, and while the connection is open it *)
(* goes on to the end of the ledger, r.                                    *)
Skip(q) == IF q # <<>> /\ q[1] = Ephemeral THEN 1 ELSE 0

GoesOn(q, g) == \A i \in 1 .. Len(q) : i > Skip(q) => q[i] = g + i - Skip(q)

Continues(c, g, r) ==
    /\ GoesOn(c.queue, g)
    /\ c.open => g + Len(c.queue) - Skip(c.queue) = r

Faithful ==
    /\ \A i \in 1 .. Len(got) : got[i] = i
    /\ Continues(conn, Len(got), rows)

IInv == TypeOK /\ Fits(conn) /\ (~clipped /\ ~overtook => Faithful)

LEMMA RoomType == Room \in Nat \ {0}
  BY StreamAssumption DEF StreamAssumption, Room

-----------------------------------------------------------------------------
(* What the queue's two operations do to GoesOn.                           *)

(* A frame with the next id, put at the end.                               *)
LEMMA AppendGoesOn ==
  ASSUME NEW r \in Nat, NEW q \in Seq(0 .. r), NEW g \in Nat, GoesOn(q, g),
         NEW s \in Nat, s = g + Len(q) - Skip(q) + 1
  PROVE  GoesOn(Append(q, s), g) /\ Skip(Append(q, s)) = Skip(q)
<1>1. Skip(q) \in {0, 1} /\ s # 0
  BY DEF Skip
<1>2. Len(Append(q, s)) = Len(q) + 1 /\ Len(q) \in Nat
      /\ \A i \in 1 .. Len(q) : Append(q, s)[i] = q[i]
      /\ Append(q, s)[Len(q) + 1] = s /\ Append(q, s) # <<>>
  OBVIOUS
<1>3. Skip(Append(q, s)) = Skip(q)
  BY <1>1, <1>2 DEF Skip, Ephemeral
<1> QED BY <1>1, <1>2, <1>3 DEF GoesOn

(* The first frame taken off: an id, or an ephemeral frame.                *)
LEMMA TailGoesOn ==
  ASSUME NEW r \in Nat, NEW q \in Seq(0 .. r), q # <<>>, NEW g \in Nat, GoesOn(q, g)
  PROVE  /\ Skip(Tail(q)) = 0
         /\ q[1] = Ephemeral => GoesOn(Tail(q), g)
         /\ q[1] # Ephemeral => q[1] = g + 1 /\ GoesOn(Tail(q), g + 1)
<1>1. Tail(q) \in Seq(0 .. r) /\ Len(Tail(q)) = Len(q) - 1 /\ Len(q) \in Nat \ {0}
      /\ \A i \in 1 .. Len(q) - 1 : Tail(q)[i] = q[i + 1]
  OBVIOUS
<1>2. q[1] # Ephemeral => Skip(q) = 0 /\ q[1] = g + 1
  BY <1>1 DEF GoesOn, Skip
<1>3. q[1] = Ephemeral => Skip(q) = 1
  BY DEF Skip
<1>4. Len(q) > 1 => q[2] = g + 2 - Skip(q) /\ Tail(q)[1] = q[2] /\ q[2] # Ephemeral
  BY <1>1, <1>2, <1>3 DEF GoesOn, Ephemeral
<1>5. Skip(Tail(q)) = 0
  BY <1>1, <1>4 DEF Skip
<1>6. ASSUME q[1] = Ephemeral PROVE GoesOn(Tail(q), g)
  BY <1>1, <1>3, <1>5, <1>6 DEF GoesOn
<1>7. ASSUME q[1] # Ephemeral PROVE GoesOn(Tail(q), g + 1)
  BY <1>1, <1>2, <1>5, <1>7 DEF GoesOn
<1> QED BY <1>2, <1>5, <1>6, <1>7

-----------------------------------------------------------------------------
(* What send() does to a connection.                                       *)

LEMMA SendFits ==
  ASSUME NEW r \in Nat, NEW c \in Conns(r), NEW s \in 0 .. r, Fits(c)
  PROVE  Send(c, s) \in Conns(r) /\ Fits(Send(c, s))
<1>0. /\ c.open \in BOOLEAN /\ c.queue \in Seq(0 .. r) /\ c.backedUp \in Nat
      /\ Len(c.queue) \in Nat /\ Room \in Nat \ {0}
  BY RoomType DEF Conns
<1>1. CASE ~c.open \/ (c.queue # <<>> /\ s = Ephemeral)
  BY <1>1 DEF Send
<1>2. CASE c.open /\ c.queue = <<>>
  <2>1. Send(c, s) = [open |-> TRUE, queue |-> <<s>>, backedUp |-> 0]
    BY <1>2 DEF Send
  <2>2. <<s>> \in Seq(0 .. r) /\ Len(<<s>>) = 1
    OBVIOUS
  <2>3. Send(c, s).queue = <<s>> /\ Send(c, s).backedUp = 0
    BY <2>1 DEF Conns
  <2>4. Send(c, s) \in Conns(r)
    BY <2>1, <2>2 DEF Conns
  <2> QED BY <1>0, <2>2, <2>3, <2>4 DEF Fits
<1>3. CASE c.open /\ c.queue # <<>> /\ s # Ephemeral /\ c.backedUp < BACKPRESSURE_PERSISTED_LIMIT
  <2>1. Send(c, s) = [open |-> TRUE, queue |-> Append(c.queue, s), backedUp |-> c.backedUp + 1]
    BY <1>3 DEF Send
  <2>2. Append(c.queue, s) \in Seq(0 .. r) /\ Len(Append(c.queue, s)) = Len(c.queue) + 1
    BY <1>0
  <2>3. Send(c, s).queue = Append(c.queue, s) /\ Send(c, s).backedUp = c.backedUp + 1
    BY <2>1 DEF Conns
  <2>4. Send(c, s) \in Conns(r)
    BY <1>0, <2>1, <2>2 DEF Conns
  <2>5. c.backedUp + 2 <= Room /\ Len(c.queue) <= c.backedUp + 1
    BY <1>0, <1>3, StreamAssumption DEF Fits, Room, StreamAssumption
  <2> QED BY <1>0, <2>2, <2>3, <2>4, <2>5 DEF Fits
<1>4. CASE c.open /\ c.queue # <<>> /\ s # Ephemeral /\ ~(c.backedUp < BACKPRESSURE_PERSISTED_LIMIT)
  <2>1. Send(c, s) = [open |-> FALSE, queue |-> c.queue, backedUp |-> c.backedUp + 1]
    BY <1>4 DEF Send
  <2>2. Send(c, s).queue = c.queue /\ Send(c, s).backedUp = c.backedUp + 1
    BY <2>1 DEF Conns
  <2>3. Send(c, s) \in Conns(r)
    BY <1>0, <2>1 DEF Conns
  <2> QED BY <1>0, <2>2, <2>3 DEF Fits
<1> QED BY <1>0, <1>1, <1>2, <1>3, <1>4

(* The next row keeps the queue in step with the ledger.                   *)
LEMMA SendContinues ==
  ASSUME NEW r \in Nat, NEW c \in Conns(r), NEW g \in Nat, Continues(c, g, r)
  PROVE  Continues(Send(c, r + 1), g, r + 1)
<1>0. r + 1 # Ephemeral /\ c.queue \in Seq(0 .. r)
  BY DEF Ephemeral, Conns
<1>1. CASE ~c.open
  BY <1>1, <1>0 DEF Send, Continues
<1>2. CASE c.open /\ c.queue = <<>>
  <2>1. Send(c, r + 1) = [open |-> TRUE, queue |-> <<r + 1>>, backedUp |-> 0]
    BY <1>2 DEF Send
  <2>2. g = r
    BY <1>2 DEF Continues, Skip
  <2>3. Skip(<<r + 1>>) = 0 /\ Len(<<r + 1>>) = 1
    BY <1>0 DEF Skip
  <2>4. GoesOn(<<r + 1>>, g)
    BY <2>2, <2>3 DEF GoesOn
  <2>5. g + Len(<<r + 1>>) - Skip(<<r + 1>>) = r + 1
    BY <2>2, <2>3
  <2>6. Send(c, r + 1).queue = <<r + 1>>
    BY <2>1
  <2> QED BY <2>4, <2>5, <2>6, Zenon DEF Continues
<1>3. CASE c.open /\ c.queue # <<>> /\ c.backedUp < BACKPRESSURE_PERSISTED_LIMIT
  <2>1. Send(c, r + 1).queue = Append(c.queue, r + 1)
    BY <1>0, <1>3 DEF Send, Conns
  <2>2. g + Len(c.queue) - Skip(c.queue) = r /\ GoesOn(c.queue, g)
    BY <1>3 DEF Continues
  <2>3. Len(c.queue) \in Nat /\ Skip(c.queue) \in {0, 1}
        /\ Len(Append(c.queue, r + 1)) = Len(c.queue) + 1
    BY <1>0 DEF Skip
  <2>4. GoesOn(Append(c.queue, r + 1), g) /\ Skip(Append(c.queue, r + 1)) = Skip(c.queue)
    BY <1>0, <2>2, <2>3, AppendGoesOn
  <2>5. g + Len(Append(c.queue, r + 1)) - Skip(Append(c.queue, r + 1)) = r + 1
    BY <2>2, <2>3, <2>4
  <2> QED BY <2>1, <2>4, <2>5, Zenon DEF Continues
<1>4. CASE c.open /\ c.queue # <<>> /\ ~(c.backedUp < BACKPRESSURE_PERSISTED_LIMIT)
  <2>1. Send(c, r + 1).queue = c.queue /\ ~Send(c, r + 1).open
    BY <1>0, <1>4 DEF Send, Conns
  <2> QED BY <2>1 DEF Continues
<1> QED BY <1>1, <1>2, <1>3, <1>4

(* An ephemeral frame, sent to an empty queue or to nobody.                *)
LEMMA SendEphemeralContinues ==
  ASSUME NEW r \in Nat, NEW c \in Conns(r), NEW g \in Nat, Continues(c, g, r)
  PROVE  Continues(Send(c, Ephemeral), g, r)
<1>1. CASE ~c.open \/ c.queue # <<>>
  BY <1>1 DEF Send, Continues
<1>2. CASE c.open /\ c.queue = <<>>
  <2>1. Send(c, Ephemeral) = [open |-> TRUE, queue |-> <<Ephemeral>>, backedUp |-> 0]
    BY <1>2 DEF Send
  <2>2. Send(c, Ephemeral).queue = <<Ephemeral>> /\ g = r
    BY <1>2, <2>1 DEF Conns, Continues, Skip
  <2>3. Skip(<<Ephemeral>>) = 1 /\ Len(<<Ephemeral>>) = 1
    BY DEF Skip
  <2> QED BY <2>2, <2>3 DEF Continues, GoesOn
<1> QED BY <1>1, <1>2

-----------------------------------------------------------------------------
(* The ledger only grows: what a type said of it stays true.               *)
LEMMA ConnsGrow ==
  ASSUME NEW r \in Nat, NEW r2 \in Nat, r <= r2
  PROVE  Conns(r) \subseteq Conns(r2) /\ Seq(1 .. r) \subseteq Seq(1 .. r2)
<1>1. 0 .. r \subseteq 0 .. r2 /\ 1 .. r \subseteq 1 .. r2
  OBVIOUS
<1>2. \A S, T : S \subseteq T => Seq(S) \subseteq Seq(T)
  OBVIOUS
<1>3. Seq(0 .. r) \subseteq Seq(0 .. r2) /\ Seq(1 .. r) \subseteq Seq(1 .. r2)
  BY <1>1, <1>2
<1> QED BY <1>3 DEF Conns

(* What the client resumes from is 0, a row, and the number of rows read   *)
(* when it has read them all.                                              *)
LEMMA LastEventIdType ==
  ASSUME rows \in Nat, got \in Seq(1 .. rows)
  PROVE  /\ lastEventId \in 0 .. rows
         /\ (\A i \in 1 .. Len(got) : got[i] = i) => lastEventId = Len(got)
<1>1. CASE got = <<>>
  BY <1>1 DEF lastEventId
<1>2. CASE got # <<>>
  <2>1. Len(got) \in 1 .. Len(got) /\ lastEventId = got[Len(got)]
    BY <1>2 DEF lastEventId, Last
  <2> QED BY <2>1
<1> QED BY <1>1, <1>2

LEMMA ReplayFits ==
  ASSUME rows \in Nat, NEW a \in 0 .. rows
  PROVE  /\ Replay(a) \in Conns(rows) /\ Fits(Replay(a))
         /\ rows - a <= Room => Continues(Replay(a), a, rows)
<1> DEFINE n == rows - a
           m == IF n > Room THEN Room ELSE n
           q == [i \in 1 .. m |-> a + i]
           b == IF n > 0 THEN n - 1 ELSE 0
<1>1. n \in Nat /\ m \in Nat /\ m <= n /\ m <= Room /\ b \in Nat /\ m <= b + 1
  BY RoomType
<1>2. Replay(a) = [open |-> TRUE, queue |-> q, backedUp |-> b]
  BY DEF Replay
<1> HIDE DEF b
<1>3. \A i \in 1 .. m : a + i \in 0 .. rows /\ q[i] = a + i
  BY <1>1
<1>4. q \in Seq(0 .. rows) /\ Len(q) = m
  BY <1>1, <1>3
<1>5. Replay(a) \in Conns(rows)
  BY <1>1, <1>2, <1>4 DEF Conns
<1>6. Replay(a).queue = q /\ Replay(a).backedUp = b
  BY <1>2
<1>7. Fits(Replay(a))
  BY <1>1, <1>4, <1>6 DEF Fits
<1>8. Skip(q) = 0
  BY <1>1, <1>3, <1>4 DEF Skip, Ephemeral
<1>9. GoesOn(q, a)
  BY <1>1, <1>3, <1>4, <1>8 DEF GoesOn
<1>10. rows - a <= Room => a + Len(q) - Skip(q) = rows
  BY <1>1, <1>4, <1>8
<1>11. rows - a <= Room => Continues(Replay(a), a, rows)
  BY <1>6, <1>9, <1>10, Zenon DEF Continues
<1> QED BY <1>5, <1>7, <1>11

-----------------------------------------------------------------------------
LEMMA InitInv == Init => IInv
<1> SUFFICES ASSUME Init PROVE IInv
  OBVIOUS
<1>0. MaxRows \in Nat /\ MaxWaits \in Nat /\ MaxLosses \in Nat
  BY StreamAssumption DEF StreamAssumption
<1>1. TypeOK
  <2>1. conn \in [open : BOOLEAN, queue : Seq(0 .. rows), backedUp : Nat]
    BY DEF Init
  <2>2. clipped \in BOOLEAN /\ overtook \in BOOLEAN
    BY DEF Init
  <2> QED BY <1>0, <2>1, <2>2 DEF Init, TypeOK
<1>2. Fits(conn)
  BY RoomType DEF Init, Fits
<1>3. Faithful
  BY DEF Init, Faithful, Continues, GoesOn
<1> QED BY <1>1, <1>2, <1>3 DEF IInv

LEMMA StepInv == IInv /\ [Next]_vars => IInv'
<1> SUFFICES ASSUME IInv, [Next]_vars PROVE IInv'
  OBVIOUS
<1>0. /\ rows \in Nat /\ rows \in 0 .. MaxRows /\ MaxRows \in Nat
      /\ conn \in Conns(rows) /\ got \in Seq(1 .. rows) /\ Len(got) \in Nat
      /\ waiter \in {"none", "ahead", "behind"}
      /\ waits \in 0 .. MaxWaits /\ losses \in 0 .. MaxLosses
      /\ clipped \in BOOLEAN /\ overtook \in BOOLEAN
      /\ Fits(conn) /\ (~clipped /\ ~overtook => Faithful)
      /\ MaxWaits \in Nat /\ MaxLosses \in Nat
  BY StreamAssumption DEF IInv, TypeOK, Conns, StreamAssumption
<1>A. ASSUME Connect PROVE IInv'
  <2>1. lastEventId \in 0 .. rows /\ (Faithful => lastEventId = Len(got))
    BY <1>0, LastEventIdType DEF Faithful
  <2>2. conn' \in Conns(rows) /\ Fits(conn')
        /\ (rows - lastEventId <= Room => Continues(conn', lastEventId, rows))
    BY <1>0, <1>A, <2>1, ReplayFits DEF Connect
  <2>3. TypeOK'
    BY <1>0, <1>A, <2>2 DEF TypeOK, Connect, Conns
  <2>4. ASSUME ~clipped', ~overtook' PROVE Faithful'
    <3>0. ~clipped /\ ~overtook /\ ~(rows - lastEventId > Room)
      BY <1>A, <2>4, Zenon DEF Connect
    <3>1. Faithful /\ rows - lastEventId <= Room
      BY <1>0, <2>1, <3>0, RoomType
    <3>2. Continues(conn', Len(got), rows)
      BY <2>1, <2>2, <3>1
    <3> QED BY <1>A, <3>1, <3>2 DEF Connect, Faithful
  <2> QED BY <2>2, <2>3, <2>4 DEF IInv
<1>B. ASSUME Read PROVE IInv'
  <2> DEFINE q == conn.queue
  <2>1. /\ conn.open \in BOOLEAN
        /\ q \in Seq(0 .. rows) /\ q # <<>> /\ Head(q) = q[1] /\ q[1] \in 0 .. rows
        /\ Tail(q) \in Seq(0 .. rows) /\ Len(q) \in Nat \ {0} /\ Len(Tail(q)) = Len(q) - 1
    BY <1>0, <1>B DEF Conns, Read
  <2>2. /\ conn' \in Conns(rows)
        /\ conn'.queue = Tail(q) /\ conn'.open = conn.open /\ conn'.backedUp = conn.backedUp
    BY <1>0, <1>B, <2>1 DEF Conns, Read
  <2>3. got' \in Seq(1 .. rows)
    <3>1. CASE q[1] = Ephemeral
      BY <1>0, <1>B, <2>1, <3>1 DEF Read
    <3>2. CASE q[1] # Ephemeral
      <4>1. q[1] \in 1 .. rows
        BY <1>0, <2>1, <3>2 DEF Ephemeral
      <4>2. got' = Append(got, q[1])
        BY <1>B, <2>1, <3>2 DEF Read
      <4> QED BY <1>0, <4>1, <4>2
    <3> QED BY <3>1, <3>2
  <2>4. TypeOK'
    BY <1>0, <1>B, <2>2, <2>3 DEF TypeOK, Read, Conns
  <2>5. Fits(conn')
    BY <1>0, <2>1, <2>2, RoomType DEF Fits, Conns
  <2>6. ASSUME ~clipped', ~overtook' PROVE Faithful'
    <3>1. Faithful
      BY <1>0, <1>B, <2>6 DEF Read
    <3>2. GoesOn(q, Len(got)) /\ (conn.open => Len(got) + Len(q) - Skip(q) = rows)
      BY <3>1 DEF Faithful, Continues
    <3>3. /\ Skip(Tail(q)) = 0
          /\ q[1] = Ephemeral => GoesOn(Tail(q), Len(got))
          /\ q[1] # Ephemeral => q[1] = Len(got) + 1 /\ GoesOn(Tail(q), Len(got) + 1)
      BY <1>0, <2>1, <3>2, TailGoesOn
    <3>4. CASE q[1] = Ephemeral
      <4>1. got' = got /\ Skip(q) = 1 /\ rows' = rows
        BY <1>B, <2>1, <3>4 DEF Read, Skip
      <4>2. conn.open => Len(got) + Len(Tail(q)) - Skip(Tail(q)) = rows
        <5>1. conn.open => Len(got) + Len(q) - 1 = rows
          BY <3>2, <4>1
        <5>2. Len(got) + (Len(q) - 1) - 0 = Len(got) + Len(q) - 1
          BY <1>0, <2>1
        <5> QED BY <2>1, <3>3, <5>1, <5>2
      <4>3. Continues(conn', Len(got'), rows')
        BY <2>2, <3>3, <3>4, <4>1, <4>2, Zenon DEF Continues
      <4> QED BY <3>1, <4>1, <4>3 DEF Faithful
    <3>5. CASE q[1] # Ephemeral
      <4>1. got' = Append(got, q[1]) /\ Skip(q) = 0 /\ rows' = rows
        BY <1>B, <2>1, <3>5 DEF Read, Skip
      <4>2. Len(got') = Len(got) + 1
        BY <1>0, <2>1, <4>1
      <4>3. conn.open => Len(got') + Len(Tail(q)) - Skip(Tail(q)) = rows
        <5>1. conn.open => Len(got) + Len(q) - 0 = rows
          BY <3>2, <4>1
        <5>0. \A a, b \in Nat : (a + 1) + (b - 1) - 0 = a + b - 0
          OBVIOUS
        <5>2. (Len(got) + 1) + (Len(q) - 1) - 0 = Len(got) + Len(q) - 0
          BY <1>0, <2>1, <5>0, Zenon
        <5> QED BY <2>1, <3>3, <4>2, <5>1, <5>2
      <4>4. Continues(conn', Len(got'), rows')
        BY <2>2, <3>3, <3>5, <4>1, <4>2, <4>3, Zenon DEF Continues
      <4>5. \A i \in 1 .. Len(got') : got'[i] = i
        BY <1>0, <2>1, <3>1, <3>3, <3>5, <4>1, <4>2 DEF Faithful
      <4> QED BY <4>4, <4>5 DEF Faithful
    <3> QED BY <3>4, <3>5
  <2> QED BY <2>4, <2>5, <2>6 DEF IInv
<1>C. ASSUME Lose PROVE IInv'
  <2>1. /\ conn' \in Conns(rows) /\ conn'.queue = <<>> /\ conn'.open = FALSE
        /\ conn'.backedUp \in Nat
    BY <1>0, <1>C DEF Conns, Lose
  <2>2. TypeOK'
    BY <1>0, <1>C, <2>1 DEF TypeOK, Lose, Conns
  <2>3. Fits(conn')
    BY <2>1, RoomType DEF Fits
  <2>4. Continues(conn', Len(got), rows)
    BY <2>1 DEF Continues, GoesOn
  <2>5. ASSUME ~clipped', ~overtook' PROVE Faithful'
    BY <1>0, <1>C, <2>4, <2>5 DEF Faithful, Lose
  <2> QED BY <2>2, <2>3, <2>5 DEF IInv
<1>D. ASSUME Persist PROVE IInv'
  <2>1. rows' = rows + 1 /\ rows' \in 0 .. MaxRows /\ rows' \in Nat /\ conn' = Send(conn, rows + 1)
    BY <1>0, <1>D DEF Persist
  <2>2. conn \in Conns(rows') /\ got \in Seq(1 .. rows')
    BY <1>0, <2>1, ConnsGrow
  <2>3. conn' \in Conns(rows') /\ Fits(conn')
    BY <1>0, <2>1, <2>2, SendFits
  <2>4. TypeOK'
    BY <1>0, <1>D, <2>1, <2>2, <2>3 DEF TypeOK, Persist, Conns
  <2>5. ASSUME ~clipped', ~overtook' PROVE Faithful'
    <3>1. Faithful
      BY <1>0, <1>D, <2>5 DEF Persist
    <3>2. Continues(conn', Len(got), rows')
      BY <1>0, <2>1, <3>1, SendContinues DEF Faithful
    <3> QED BY <1>D, <3>1, <3>2 DEF Faithful, Persist
  <2> QED BY <2>3, <2>4, <2>5 DEF IInv
<1>E. ASSUME Publish PROVE IInv'
  <2>1. conn' \in Conns(rows) /\ Fits(conn')
    BY <1>0, <1>E, SendFits DEF Publish, Ephemeral
  <2>2. TypeOK'
    BY <1>0, <1>E, <2>1 DEF TypeOK, Publish, Conns
  <2>3. ASSUME ~clipped', ~overtook' PROVE Faithful'
    <3>1. Faithful
      BY <1>0, <1>E, <2>3 DEF Publish
    <3>2. Continues(conn', Len(got), rows)
      BY <1>0, <1>E, <3>1, SendEphemeralContinues DEF Faithful, Publish
    <3> QED BY <1>E, <3>1, <3>2 DEF Faithful, Publish
  <2> QED BY <2>1, <2>2, <2>3 DEF IInv
<1>F. ASSUME WaitBegins PROVE IInv'
  <2>1. TypeOK'
    BY <1>0, <1>F DEF TypeOK, WaitBegins, Conns
  <2> QED BY <1>0, <1>F, <2>1 DEF IInv, Fits, Faithful, WaitBegins
<1>G. ASSUME PersistNested PROVE IInv'
  <2>1. /\ rows' = rows + 2 /\ rows' \in 0 .. MaxRows /\ rows' \in Nat
        /\ rows + 1 \in 0 .. rows' /\ rows + 2 \in 0 .. rows' /\ rows + 2 = (rows + 1) + 1
    BY <1>0, <1>G DEF PersistNested
  <2>2. conn \in Conns(rows') /\ got \in Seq(1 .. rows')
    BY <1>0, <2>1, ConnsGrow
  <2>3. \A s, t \in 0 .. rows' :
          Send(Send(conn, s), t) \in Conns(rows') /\ Fits(Send(Send(conn, s), t))
    BY <1>0, <2>1, <2>2, SendFits
  <2>4. conn' \in Conns(rows') /\ Fits(conn')
    BY <1>G, <2>1, <2>3 DEF PersistNested
  <2>5. TypeOK'
    BY <1>0, <1>G, <2>1, <2>2, <2>4 DEF TypeOK, PersistNested, Conns
  <2>6. ASSUME ~clipped', ~overtook' PROVE Faithful'
    <3>1. Faithful /\ (waiter # "ahead" \/ ~conn.open)
      BY <1>0, <1>G, <2>6 DEF PersistNested
    <3>2. CASE ~conn.open
      <4>1. conn' = conn
        BY <1>G, <3>2 DEF PersistNested, Send
      <4>2. Continues(conn', Len(got), rows')
        BY <3>1, <3>2, <4>1 DEF Faithful, Continues
      <4> QED BY <1>G, <3>1, <4>2 DEF Faithful, PersistNested
    <3>3. CASE waiter # "ahead"
      <4>1. conn' = Send(Send(conn, rows + 1), (rows + 1) + 1)
        BY <1>G, <2>1, <3>3 DEF PersistNested
      <4>2. conn \in Conns(rows + 1) /\ Send(conn, rows + 1) \in Conns(rows + 1)
        BY <1>0, ConnsGrow, SendFits
      <4>3. Continues(Send(conn, rows + 1), Len(got), rows + 1)
        BY <1>0, <3>1, SendContinues DEF Faithful
      <4>4. Continues(conn', Len(got), rows')
        BY <1>0, <2>1, <4>1, <4>2, <4>3, SendContinues
      <4> QED BY <1>G, <3>1, <4>4 DEF Faithful, PersistNested
    <3> QED BY <3>1, <3>2, <3>3
  <2> QED BY <2>4, <2>5, <2>6 DEF IInv
<1>H. ASSUME UNCHANGED vars PROVE IInv'
  BY <1>H DEF IInv, TypeOK, Fits, Faithful, Continues, GoesOn, Skip, vars
<1> QED BY <1>A, <1>B, <1>C, <1>D, <1>E, <1>F, <1>G, <1>H DEF Next

-----------------------------------------------------------------------------
LEMMA Invariant == Spec => []IInv
  BY InitInv, StepInv, PTL DEF Spec

(* Every variable has its type.                                            *)
THEOREM StreamTyped == Spec => []TypeOK
<1>1. IInv => TypeOK
  BY DEF IInv
<1> QED BY <1>1, Invariant, PTL

(* The daemon never holds more than the limit of persisted frames, and     *)
(* one, for a client that does not read: replay, live events and nested    *)
(* ones included.                                                          *)
THEOREM BufferBounded == Spec => []BufferIsBounded
<1>1. IInv => BufferIsBounded
  BY DEF IInv, Fits, BufferIsBounded
<1> QED BY <1>1, Invariant, PTL

(* What the client has read is the beginning of the ledger, without a gap, *)
(* a repetition or a swap, across any number of disconnections by either   *)
(* side, unless a replay was clipped or an event overtook its cause; and   *)
(* the buffer is bounded meanwhile.                                        *)
THEOREM StreamFaithful == Spec => []StreamIsFaithful
<1>1. IInv => StreamIsFaithful
  BY DEF IInv, Faithful, Fits, BufferIsBounded, StreamIsFaithful
<1> QED BY <1>1, Invariant, PTL

-----------------------------------------------------------------------------
(* The stream of a prompt.                                                   *)

Frames == [type : {"text", "permission_request", "permission_resolved", "ping", "done", "error", "eof"}, id : Nat]

PromptTyped ==
    /\ left \in MixOfPrompts /\ quiet \in BOOLEAN /\ turn \in {"running", "over"} /\ dialogs \subseteq Nat
    /\ promptPc \in {"off", "opening", "top", "reading", "given"} \cup Concluded
    /\ idle \in 0 .. Window /\ race \in [age : 0 .. Window, limit : 0 .. Window] /\ silent \in 0 .. Window
    /\ dropped \in Nat /\ timers \in Nat /\ dropped <= timers
    /\ pendingPermissions \subseteq Nat
    /\ promptConn \in {"none", "open", "closed", "aborted"} /\ disposed \in {"no", "yes", "early"}
    /\ wrote \in BOOLEAN /\ slept \in BOOLEAN
WireTyped == wire \in Seq(Frames) /\ sent \in Seq(Frames) /\ promptGot \in Seq(Frames)

On(f, w) == \E i \in 1 .. Len(w) : w[i] = f
HasEvent(w) == \E i \in 1 .. Len(w) : IsEvent(w[i])

(* What was given, with what is on the wire, is what was sent, but for what  *)
(* the reads that lost to a timer got; no event is missed before the first.  *)
Complete ==
    /\ timers = 0 => promptGot \o EventsOf(wire) = sent
    /\ Len(sent) <= Len(promptGot \o EventsOf(wire)) + timers - dropped
    /\ promptPc = "returned" \/ On(Finished, wire) => turn = "over"

(* The bridge asks under fresh names, and before the first timer a           *)
(* permission that it holds open is known, or about to be.                   *)
Request(p) == [type |-> "permission_request", id |-> p]
Resolved(p) == [type |-> "permission_resolved", id |-> p]
Known ==
    /\ \A p \in dialogs : p > left.asks
    /\ \A p \in Nat : On(Resolved(p), wire) => p > left.asks
    /\ timers = 0 => \A p \in dialogs :
          (p \in pendingPermissions \/ On(Request(p), wire)) /\ ~On(Resolved(p), wire)

(* Nobody asked and nothing was written for as long as the generator has     *)
(* been idle, which its timer counts on.                                     *)
Counted ==
    /\ promptPc = "reading" /\ pendingPermissions = {} => idle + race.limit = Window + race.age
    /\ promptPc = "given" => race = NoRace
    /\ timers = 0 /\ ~slept =>
          /\ promptPc = "timeout" => silent = Window
          /\ promptPc \in {"top", "reading", "given"} =>
                /\ wrote => idle = 0 \/ HasEvent(wire)
                /\ pendingPermissions = {} => idle <= silent

Disposed == disposed = "yes" => promptConn # "open" /\ promptPc \notin {"off", "opening"}

PromptInv == PromptTyped /\ WireTyped /\ Complete /\ Known /\ Counted /\ Disposed
(* u[n] are the events of the first n frames of s.                           *)
Counts(s, u, k) ==
    /\ u \in [0 .. k -> Seq(Frames)] /\ u[0] = <<>>
    /\ \A n \in 1 .. k : u[n] = IF IsEvent(s[n]) THEN Append(u[n - 1], s[n]) ELSE u[n - 1]

BelowNat == {ss \in Nat \X Nat : ss[1] < ss[2]}

(* Induction over a sequence: every set of numbers has a least one.          *)
LEMMA Least == ASSUME NEW T \in SUBSET Nat, T # {} PROVE \E n \in T : \A m \in T : n <= m
<1>1. OpToRel(<, Nat) = BelowNat
  BY DEF OpToRel, BelowNat
<1>2. IsWellFoundedOn(BelowNat, Nat)
  BY <1>1, NatLessThanWellFounded
<1>3. PICK n \in T : \A m \in T : ~(<<m, n>> \in BelowNat)
  BY <1>2, WFMin
<1>4. ASSUME NEW m \in T PROVE n <= m
  <2>1. <<m, n>> \in Nat \X Nat /\ <<m, n>>[1] = m /\ <<m, n>>[2] = n
    OBVIOUS
  <2>2. ~(m < n)
    BY <1>3, <2>1 DEF BelowNat
  <2> QED
    BY <2>2
<1> QED
  BY <1>4

(* For every sequence of frames there are such counts.                       *)
LEMMA Counting == ASSUME NEW s \in Seq(Frames), NEW k \in 0 .. Len(s) PROVE \E u : Counts(s, u, k)
<1>1. PICK T : T = {n \in 0 .. Len(s) : ~\E u : Counts(s, u, n)}
  OBVIOUS
<1>2. SUFFICES ASSUME T # {} PROVE FALSE
  BY <1>1
<1>3. T \in SUBSET Nat
  BY <1>1
<1>4. PICK n \in T : \A m \in T : n <= m
  BY <1>2, <1>3, Least
<1>5. n \in 0 .. Len(s) /\ ~\E u : Counts(s, u, n)
  BY <1>1, <1>4
<1>6. CASE n = 0
  <2>1. Counts(s, [i \in 0 .. 0 |-> <<>>], 0)
    BY DEF Counts
  <2> QED
    BY <1>5, <1>6, <2>1
<1>7. CASE n # 0
  <2>1. n - 1 \in 0 .. Len(s) /\ n - 1 \notin T
    BY <1>4, <1>5, <1>7, <1>3
  <2>2. PICK u : Counts(s, u, n - 1)
    BY <1>1, <2>1
  <2>3. PICK v : v = [i \in 0 .. n |-> IF i < n THEN u[i]
                                       ELSE IF IsEvent(s[n]) THEN Append(u[n - 1], s[n]) ELSE u[n - 1]]
    OBVIOUS
  <2>4. s[n] \in Frames /\ u[n - 1] \in Seq(Frames)
    BY <1>5, <1>7, <2>2 DEF Counts
  <2>5. v \in [0 .. n -> Seq(Frames)]
    <3>1. \A i \in 0 .. n : v[i] \in Seq(Frames)
      BY <1>5, <2>2, <2>3, <2>4 DEF Counts
    <3> QED
      BY <2>3, <3>1
  <2>6. v[0] = <<>>
    BY <1>5, <1>7, <2>2, <2>3 DEF Counts
  <2>7. ASSUME NEW i \in 1 .. n PROVE v[i] = IF IsEvent(s[i]) THEN Append(v[i - 1], s[i]) ELSE v[i - 1]
    <3>1. CASE i = n
      BY <1>5, <2>3, <3>1
    <3>2. CASE i < n
      BY <1>5, <2>2, <2>3, <3>2 DEF Counts
    <3> QED
      BY <1>5, <3>1, <3>2
  <2>8. Counts(s, v, n)
    BY <2>5, <2>6, <2>7 DEF Counts
  <2> QED
    BY <1>5, <2>8
<1> QED
  BY <1>5, <1>6, <1>7

(* And they are what EventsOf computes.                                      *)
LEMMA EventsAre ==
    ASSUME NEW s \in Seq(Frames), NEW u, Counts(s, u, Len(s))
    PROVE  EventsOf(s) = u[Len(s)]
<1>1. u \in [0 .. Len(s) -> Seq(Frames)] /\ u[0] = <<>> /\ Len(s) \in Nat
  BY DEF Counts
<1>2. u = [n \in 0 .. Len(s) |-> IF n = 0 THEN <<>> ELSE
                                IF IsEvent(s[n]) THEN Append(u[n - 1], s[n]) ELSE u[n - 1]]
  <2>1. ASSUME NEW n \in 0 .. Len(s)
        PROVE  u[n] = IF n = 0 THEN <<>> ELSE
                      IF IsEvent(s[n]) THEN Append(u[n - 1], s[n]) ELSE u[n - 1]
    <3>1. CASE n = 0
      BY <1>1, <3>1
    <3>2. CASE n # 0
      <4>1. n \in 1 .. Len(s)
        BY <1>1, <3>2
      <4> QED
        BY <3>2, <4>1 DEF Counts
    <3> QED
      BY <3>1, <3>2
  <2> QED
    BY <1>1, <2>1
<1>3. PICK f : f = CHOOSE g : g = [n \in 0 .. Len(s) |-> IF n = 0 THEN <<>> ELSE
                                IF IsEvent(s[n]) THEN Append(g[n - 1], s[n]) ELSE g[n - 1]]
  OBVIOUS
<1>4. f = [n \in 0 .. Len(s) |-> IF n = 0 THEN <<>> ELSE
                                IF IsEvent(s[n]) THEN Append(f[n - 1], s[n]) ELSE f[n - 1]]
  BY <1>2, <1>3
<1>5. EventsOf(s) = f[Len(s)]
  BY <1>3 DEF EventsOf
<1>6. PICK T : T = {n \in 0 .. Len(s) : f[n] # u[n]}
  OBVIOUS
<1>7. T = {}
  <2>1. SUFFICES ASSUME T # {} PROVE FALSE
    OBVIOUS
  <2>2. T \in SUBSET Nat
    BY <1>6
  <2>3. PICK n \in T : \A m \in T : n <= m
    BY <2>1, <2>2, Least
  <2>4. n \in 0 .. Len(s) /\ f[n] # u[n]
    BY <1>6
  <2>5. n # 0
    BY <1>1, <1>4, <2>4
  <2>6. n - 1 \in 0 .. Len(s) /\ f[n - 1] = u[n - 1]
    BY <1>6, <2>2, <2>3, <2>4, <2>5
  <2> QED
    BY <1>2, <1>4, <2>4, <2>5, <2>6
<1> QED
  BY <1>1, <1>5, <1>6, <1>7

(* A frame put at the end of two sequences.                                  *)
LEMMA AppendToBoth ==
    \A a \in Seq(Frames), b \in Seq(Frames), f \in Frames : Append(a \o b, f) = a \o Append(b, f)
<1>1. SUFFICES ASSUME NEW a \in Seq(Frames), NEW b \in Seq(Frames), NEW f \in Frames
               PROVE  Append(a \o b, f) = a \o Append(b, f)
  OBVIOUS
<1>2. <<f>> \in Seq(Frames) /\ a \o b \in Seq(Frames)
  BY ConcatProperties
<1>3. Append(b, f) = b \o <<f>> /\ Append(a \o b, f) = (a \o b) \o <<f>>
  BY <1>2, AppendIsConcat
<1> QED
  BY <1>2, <1>3, ConcatAssociative

(* One frame more.                                                           *)
LEMMA EventsOfMore ==
    ASSUME NEW s \in Seq(Frames), NEW x \in Frames
    PROVE  EventsOf(s) \in Seq(Frames) /\ EventsOf(Append(s, x)) = IF IsEvent(x) THEN Append(EventsOf(s), x) ELSE EventsOf(s)
<1>1. PICK n \in Nat : n = Len(s)
  OBVIOUS
<1>2. PICK t : t = Append(s, x)
  OBVIOUS
<1>3. t \in Seq(Frames) /\ Len(t) = n + 1 /\ t[n + 1] = x /\ \A i \in 1 .. n : t[i] = s[i]
  BY <1>1, <1>2
<1>4. PICK v : Counts(t, v, n + 1)
  BY <1>3, Counting
<1>5. PICK u : u = [i \in 0 .. n |-> v[i]]
  OBVIOUS
<1>6. Counts(s, u, n)
  <2>1. u \in [0 .. n -> Seq(Frames)] /\ u[0] = <<>>
    BY <1>4, <1>5 DEF Counts
  <2>2. ASSUME NEW i \in 1 .. n PROVE u[i] = IF IsEvent(s[i]) THEN Append(u[i - 1], s[i]) ELSE u[i - 1]
    <3>1. u[i] = v[i] /\ u[i - 1] = v[i - 1] /\ t[i] = s[i] /\ i \in 1 .. n + 1
      BY <1>3, <1>5
    <3> QED
      BY <1>4, <3>1 DEF Counts
  <2> QED
    BY <2>1, <2>2 DEF Counts
<1>7. EventsOf(s) = u[n] /\ EventsOf(t) = v[n + 1]
  BY <1>1, <1>3, <1>4, <1>6, EventsAre
<1>8. v[n + 1] = IF IsEvent(x) THEN Append(v[n], x) ELSE v[n]
  BY <1>3, <1>4 DEF Counts
<1>9. u[n] = v[n] /\ v[n] \in Seq(Frames)
  BY <1>4, <1>5 DEF Counts
<1> QED
  BY <1>2, <1>7, <1>8, <1>9

(* One frame less.                                                           *)
LEMMA EventsOfLess ==
    ASSUME NEW s \in Seq(Frames), s # <<>>
    PROVE  EventsOf(s) = (IF IsEvent(Head(s)) THEN <<Head(s)>> ELSE <<>>) \o EventsOf(Tail(s))
<1>1. PICK n \in Nat : Len(s) = n + 1
  BY Len(s) \in Nat /\ Len(s) # 0
<1>2. PICK t : t = Tail(s)
  OBVIOUS
<1>3. PICK h : h = IF IsEvent(Head(s)) THEN <<Head(s)>> ELSE <<>>
  OBVIOUS
<1>4. t \in Seq(Frames) /\ Len(t) = n /\ Head(s) = s[1] /\ s[1] \in Frames /\ \A i \in 1 .. n : t[i] = s[i + 1]
  BY <1>1, <1>2
<1>5. PICK u : Counts(s, u, n + 1)
  BY <1>1, Counting
<1>6. PICK v : Counts(t, v, n)
  BY <1>4, Counting
<1>7. EventsOf(s) = u[n + 1] /\ EventsOf(t) = v[n]
  BY <1>1, <1>4, <1>5, <1>6, EventsAre
<1>8. h \in Seq(Frames)
  BY <1>3, <1>4
<1>9. u[1] = h
  <2>1. u[1] = IF IsEvent(s[1]) THEN Append(u[1 - 1], s[1]) ELSE u[1 - 1]
    <3>1. 1 \in 1 .. n + 1
      OBVIOUS
    <3> QED
      BY <1>5, <3>1 DEF Counts
  <2>2. u[1 - 1] = <<>>
    BY <1>5 DEF Counts
  <2>3. Append(<<>>, s[1]) = <<s[1]>>
    BY <1>4
  <2> QED
    BY <1>3, <1>4, <2>1, <2>2, <2>3
<1>10. PICK T : T = {i \in 0 .. n : u[i + 1] # h \o v[i]}
  OBVIOUS
<1>11. T = {}
  <2>1. SUFFICES ASSUME T # {} PROVE FALSE
    OBVIOUS
  <2>2. T \in SUBSET Nat
    BY <1>10
  <2>3. PICK i \in T : \A m \in T : i <= m
    BY <2>1, <2>2, Least
  <2>4. i \in 0 .. n /\ u[i + 1] # h \o v[i]
    BY <1>10
  <2>5. i # 0
    BY <1>6, <1>8, <1>9, <2>4 DEF Counts
  <2>6. i - 1 \in 0 .. n /\ u[i] = h \o v[i - 1]
    BY <1>10, <2>2, <2>3, <2>4, <2>5
  <2>7. /\ u[i + 1] = IF IsEvent(s[i + 1]) THEN Append(u[i], s[i + 1]) ELSE u[i]
        /\ v[i] = IF IsEvent(s[i + 1]) THEN Append(v[i - 1], s[i + 1]) ELSE v[i - 1]
        /\ v[i - 1] \in Seq(Frames) /\ s[i + 1] \in Frames
    <3>1. i \in 1 .. n /\ i + 1 \in 1 .. n + 1 /\ (i + 1) - 1 = i /\ t[i] = s[i + 1] /\ s[i + 1] \in Frames
      BY <1>1, <1>4, <2>4, <2>5
    <3>2. u[i + 1] = IF IsEvent(s[i + 1]) THEN Append(u[(i + 1) - 1], s[i + 1]) ELSE u[(i + 1) - 1]
      BY <1>5, <3>1 DEF Counts
    <3>3. v[i] = IF IsEvent(t[i]) THEN Append(v[i - 1], t[i]) ELSE v[i - 1]
      BY <1>6, <3>1 DEF Counts
    <3>4. v[i - 1] \in Seq(Frames)
      <4>1. v \in [0 .. n -> Seq(Frames)]
        BY <1>6 DEF Counts
      <4>2. i - 1 \in 0 .. n
        BY <2>6
      <4> QED
        BY <4>1, <4>2
    <3> QED
      BY <3>1, <3>2, <3>3, <3>4
  <2>8. PICK w \in Seq(Frames), fr \in Frames : w = v[i - 1] /\ fr = s[i + 1]
    BY <2>7
  <2>9. Append(h \o w, fr) = h \o Append(w, fr)
    BY <1>8, <2>8, AppendToBoth
  <2> QED
    BY <2>4, <2>6, <2>7, <2>8, <2>9
<1>12. u[n + 1] = h \o v[n]
  <2>1. n \in 0 .. n /\ n \notin T
    BY <1>11
  <2> QED
    BY <1>10, <2>1
<1> QED
  BY <1>2, <1>3, <1>7, <1>12

(* What is on a wire with one frame more, or one less, and at its end.       *)
LEMMA OnMore ==
    ASSUME NEW w \in Seq(Frames), NEW x \in Frames
    PROVE  /\ Append(w, x) \in Seq(Frames)
           /\ \A f : On(f, Append(w, x)) <=> On(f, w) \/ f = x
           /\ HasEvent(Append(w, x)) <=> HasEvent(w) \/ IsEvent(x)
<1>1. /\ Append(w, x) \in Seq(Frames) /\ Len(w) \in Nat /\ Len(Append(w, x)) = Len(w) + 1
      /\ Append(w, x)[Len(w) + 1] = x
      /\ \A n \in 1 .. Len(w) : Append(w, x)[n] = w[n]
  OBVIOUS
<1>2. PICK a : a = Append(w, x)
  OBVIOUS
<1>n. PICK n \in Nat : n = Len(w)
  BY <1>1
<1>3. Len(a) = n + 1 /\ a[n + 1] = x /\ (\A i \in 1 .. n : a[i] = w[i]) /\ n + 1 \in 1 .. n + 1
      /\ (\A i \in 1 .. n + 1 : i \in 1 .. n \/ i = n + 1) /\ (\A i \in 1 .. n : i \in 1 .. n + 1)
  BY <1>1, <1>2, <1>n
<1>4. ASSUME NEW f PROVE On(f, a) <=> On(f, w) \/ f = x
  BY <1>n, <1>3 DEF On
<1>5. HasEvent(a) <=> HasEvent(w) \/ IsEvent(x)
  BY <1>n, <1>3 DEF HasEvent
<1> QED
  BY <1>1, <1>2, <1>4, <1>5

LEMMA OnLess ==
    ASSUME NEW w \in Seq(Frames), w # <<>>
    PROVE  /\ Tail(w) \in Seq(Frames) /\ Head(w) \in Frames
           /\ \A f : On(f, w) <=> f = Head(w) \/ On(f, Tail(w))
           /\ HasEvent(w) <=> IsEvent(Head(w)) \/ HasEvent(Tail(w))
<1>1. PICK n \in Nat : Len(w) = n + 1
  BY Len(w) \in Nat /\ Len(w) # 0
<1>2. PICK t : t = Tail(w)
  OBVIOUS
<1>3. /\ t \in Seq(Frames) /\ Len(t) = n /\ Head(w) = w[1] /\ w[1] \in Frames
      /\ \A i \in 1 .. n : t[i] = w[i + 1]
  BY <1>1, <1>2
<1>4. (\A i \in 1 .. n : i + 1 \in 1 .. n + 1) /\ (\A i \in 1 .. n + 1 : i = 1 \/ (i - 1 \in 1 .. n /\ (i - 1) + 1 = i))
      /\ 1 \in 1 .. n + 1
  OBVIOUS
<1>5. ASSUME NEW i \in 1 .. n + 1 PROVE w[i] = Head(w) \/ (i - 1 \in 1 .. n /\ t[i - 1] = w[i])
  BY <1>3, <1>4
<1>6. ASSUME NEW f PROVE On(f, w) <=> f = Head(w) \/ On(f, t)
  BY <1>1, <1>3, <1>4, <1>5 DEF On
<1>7. HasEvent(w) <=> IsEvent(Head(w)) \/ HasEvent(t)
  BY <1>1, <1>3, <1>4, <1>5 DEF HasEvent
<1> QED
  BY <1>2, <1>3, <1>6, <1>7

(* Two elements put at the end of a sequence.                                *)
LEMMA TwoAtTheEnd ==
    ASSUME NEW F, NEW x \in F, NEW y \in F, NEW w \in Seq(F)
    PROVE  w \o <<x, y>> = Append(Append(w, x), y)
<1>1. <<x, y>> \in Seq(F) /\ Len(<<x, y>>) = 2 /\ <<x, y>>[1] = x /\ <<x, y>>[2] = y
  OBVIOUS
<1>2. PICK e \in Seq(F) : e = <<x, y>> /\ Len(e) = 2 /\ e[1] = x /\ e[2] = y
  BY <1>1
<1>3. PICK b \in Seq(F) : b = Append(w, x)
  <2>1. Append(w, x) \in Seq(F)
    OBVIOUS
  <2> QED
    BY <2>1
<1>4. PICK a \in Seq(F) : a = Append(b, y)
  <2>1. Append(b, y) \in Seq(F)
    OBVIOUS
  <2> QED
    BY <2>1
<1>5. /\ Len(w) \in Nat /\ Len(a) = Len(w) + 2 /\ \A i \in 1 .. Len(w) : a[i] = w[i]
      /\ a[Len(w) + 1] = x /\ a[Len(w) + 2] = y
  BY <1>3, <1>4
<1>6. w \o e = a
  <2>1. Len(w \o e) = Len(a) /\ w \o e \in Seq(F)
    BY <1>2, <1>5
  <2>2. ASSUME NEW i \in 1 .. Len(a) PROVE (w \o e)[i] = a[i]
    <3>1. i \in 1 .. Len(w) \/ i = Len(w) + 1 \/ i = Len(w) + 2
      BY <1>5
    <3> QED
      BY <1>2, <1>5, <3>1
  <2> QED
    BY <2>1, <2>2, SeqEqual
<1> QED
  BY <1>2, <1>3, <1>4, <1>6

Ends == {Finished, Error, Eof}
LEMMA OnEnd ==
    ASSUME NEW w \in Seq(Frames), NEW e \in {<<Finished>>, <<Finished, Eof>>, <<Error, Eof>>, <<Eof>>}
    PROVE  /\ w \o e \in Seq(Frames) /\ EventsOf(w \o e) = EventsOf(w)
           /\ \A f : On(f, w \o e) => On(f, w) \/ f \in Ends
           /\ \A f : On(f, w) => On(f, w \o e)
           /\ HasEvent(w \o e) <=> HasEvent(w)
<1>1. Ends \subseteq Frames /\ \A x \in Ends : ~IsEvent(x)
  BY DEF Ends, Frames, Finished, Error, Eof, IsEvent
<1>2. ASSUME NEW v \in Seq(Frames), NEW x \in Ends
      PROVE  /\ v \o <<x>> \in Seq(Frames) /\ EventsOf(v \o <<x>>) = EventsOf(v)
             /\ \A f : On(f, v \o <<x>>) => On(f, v) \/ f \in Ends
             /\ \A f : On(f, v) => On(f, v \o <<x>>)
             /\ HasEvent(v \o <<x>>) <=> HasEvent(v)
  <2>1. x \in Frames /\ ~IsEvent(x)
    BY <1>1
  <2>2. v \o <<x>> = Append(v, x)
    BY <2>1, AppendIsConcat
  <2>3. EventsOf(Append(v, x)) = EventsOf(v)
    BY <2>1, EventsOfMore
  <2>4. PICK a : a = Append(v, x)
    OBVIOUS
  <2>5. /\ a \in Seq(Frames) /\ \A f : On(f, a) <=> On(f, v) \/ f = x
        /\ HasEvent(a) <=> HasEvent(v) \/ IsEvent(x)
    BY <2>1, <2>4, OnMore
  <2>6. v \o <<x>> = a /\ EventsOf(a) = EventsOf(v)
    BY <2>2, <2>3, <2>4
  <2> QED
    BY <2>1, <2>5, <2>6
<1>3. CASE e \in {<<Finished>>, <<Eof>>}
  BY <1>2, <1>3 DEF Ends
<1>4. ASSUME NEW x \in Ends, e = <<x, Eof>>
      PROVE  /\ w \o e \in Seq(Frames) /\ EventsOf(w \o e) = EventsOf(w)
             /\ \A f : On(f, w \o e) => On(f, w) \/ f \in Ends
             /\ \A f : On(f, w) => On(f, w \o e)
             /\ HasEvent(w \o e) <=> HasEvent(w)
  <2>1. x \in Frames /\ Eof \in Frames /\ Eof \in Ends
    BY <1>1 DEF Ends
  <2>2. w \o <<x>> = Append(w, x)
    BY <2>1, AppendIsConcat
  <2>3. PICK v \in Seq(Frames) : v = w \o <<x>>
    BY <1>2
  <2>4. v \o <<Eof>> = Append(v, Eof)
    BY <2>1, AppendIsConcat
  <2>5. w \o e = v \o <<Eof>>
    BY <1>4, <2>1, <2>2, <2>3, <2>4, TwoAtTheEnd
  <2> QED
    BY <1>2, <2>1, <2>3, <2>5
<1> QED
  BY <1>3, <1>4 DEF Ends

(* What a use takes from the mix.                                            *)
LEMMA UseTakes ==
    ASSUME PromptTyped, NEW what \in {"prompts", "texts", "asks", "faults", "pauses", "holds", "leaves", "closes"},
           Use(what)
    PROVE  /\ left' \in MixOfPrompts
           /\ left'.asks = IF what = "asks" THEN left.asks - 1 ELSE left.asks
           /\ what = "asks" => left.asks \in Nat /\ left.asks > 0
BY DEF PromptTyped, Use, MixOfPrompts

(* The bridge writes an event.                                               *)
LEMMA WritesIsComplete ==
    ASSUME PromptInv, NEW f \in Frames, IsEvent(f), Writes(f)
    PROVE  /\ WireTyped' /\ Complete'
           /\ \A g : On(g, wire') <=> On(g, wire) \/ g = f
           /\ HasEvent(wire')
<1>1. wire \in Seq(Frames) /\ sent \in Seq(Frames) /\ promptGot \in Seq(Frames)
  BY DEF PromptInv, WireTyped
<1>2. wire' = Append(wire, f) /\ sent' = Append(sent, f) /\ promptGot' = promptGot
  BY DEF Writes, past
<1>3. WireTyped'
  BY <1>1, <1>2 DEF WireTyped
<1>4. (\A g : On(g, wire') <=> On(g, wire) \/ g = f) /\ HasEvent(wire')
  BY <1>1, <1>2, OnMore
<1>5. EventsOf(wire) \in Seq(Frames) /\ EventsOf(wire') = Append(EventsOf(wire), f)
  BY <1>1, <1>2, EventsOfMore
<1>6. PICK seen \in Seq(Frames) : seen = promptGot \o EventsOf(wire)
  <2>1. promptGot \o EventsOf(wire) \in Seq(Frames)
    BY <1>1, <1>5, ConcatProperties
  <2> QED
    BY <2>1
<1>7. promptGot' \o EventsOf(wire') = Append(seen, f)
  <2>1. PICK e \in Seq(Frames) : e = EventsOf(wire)
    BY <1>5
  <2>2. Append(promptGot \o e, f) = promptGot \o Append(e, f)
    BY <1>1, <2>1, AppendToBoth
  <2> QED
    BY <1>2, <1>5, <1>6, <2>1, <2>2
<1>8. f # Finished
  BY DEF IsEvent, Finished
<1>9. UNCHANGED <<timers, dropped, promptPc, turn>> /\ dropped \in Nat /\ timers \in Nat /\ dropped <= timers
  BY DEF Writes, reader, PromptInv, PromptTyped
<1>10. (timers = 0 => seen = sent) /\ Len(sent) <= Len(seen) + timers - dropped
       /\ (promptPc = "returned" \/ On(Finished, wire) => turn = "over")
  BY <1>6 DEF PromptInv, Complete
<1>11. Len(sent') <= Len(Append(seen, f)) + timers' - dropped'
  <2>1. Len(sent') = Len(sent) + 1 /\ Len(Append(seen, f)) = Len(seen) + 1 /\ Len(sent) \in Nat /\ Len(seen) \in Nat
    BY <1>1, <1>2, <1>6
  <2> QED
    BY <2>1, <1>9, <1>10
<1>12. Complete'
  BY <1>2, <1>4, <1>7, <1>8, <1>9, <1>10, <1>11 DEF Complete
<1> QED
  BY <1>3, <1>4, <1>12

LEMMA WritesIsCounted ==
    ASSUME PromptInv, NEW f \in Frames, Writes(f), HasEvent(wire')
    PROVE  Counted' /\ Disposed'
<1>1. UNCHANGED reader /\ UNCHANGED <<timers, slept, silent>> /\ wrote' = TRUE
  BY DEF Writes
<1> QED
  BY <1>1 DEF PromptInv, Counted, Disposed, reader

LEMMA TextStep == ASSUME PromptInv, Text PROVE PromptInv'
<1>1. PICK f : f = [type |-> "text", id |-> 0]
  OBVIOUS
<1>2. f \in Frames /\ IsEvent(f) /\ Writes(f) /\ dialogs' = dialogs /\ Use("texts")
  BY <1>1 DEF Text, Frames, IsEvent
<1>3. left' \in MixOfPrompts /\ left'.asks = left.asks
  BY <1>2, UseTakes DEF PromptInv
<1>4. WireTyped' /\ Complete' /\ (\A g : On(g, wire') <=> On(g, wire) \/ g = f) /\ HasEvent(wire')
  BY <1>2, WritesIsComplete
<1>5. PromptTyped'
  BY <1>2, <1>3 DEF PromptInv, PromptTyped, Writes, reader
<1>6. \A p \in Nat : f # Resolved(p)
  BY <1>1 DEF Resolved
<1>7. Known'
  <2>1. UNCHANGED <<timers, pendingPermissions, dialogs>> /\ dialogs \subseteq Nat
    BY <1>2 DEF Writes, reader, PromptInv, PromptTyped
  <2> QED
    BY <1>3, <1>4, <1>6, <2>1 DEF PromptInv, Known
<1> QED
  BY <1>2, <1>4, <1>5, <1>7, WritesIsCounted DEF PromptInv

LEMMA AsksStep == ASSUME PromptInv, Asks PROVE PromptInv'
<1>1. PICK f : f = Request(left.asks)
  OBVIOUS
<1>2. Use("asks") /\ dialogs' = dialogs \cup {left.asks} /\ Writes(f)
  BY <1>1 DEF Asks, Request
<1>3. left' \in MixOfPrompts /\ left'.asks = left.asks - 1 /\ left.asks \in Nat /\ left.asks > 0
  BY <1>2, UseTakes DEF PromptInv
<1>4. f \in Frames /\ IsEvent(f)
  BY <1>1, <1>3 DEF Request, Frames, IsEvent
<1>5. WireTyped' /\ Complete' /\ (\A g : On(g, wire') <=> On(g, wire) \/ g = f) /\ HasEvent(wire')
  BY <1>2, <1>4, WritesIsComplete
<1>6. PromptTyped'
  BY <1>2, <1>3 DEF PromptInv, PromptTyped, Writes, reader
<1>7. \A p \in Nat : f # Resolved(p)
  BY <1>1 DEF Resolved, Request
<1>8. Known'
  <2>1. UNCHANGED <<timers, pendingPermissions>> /\ dialogs \subseteq Nat
    BY <1>2 DEF Writes, reader, PromptInv, PromptTyped
  <2>2. PICK k \in Nat : k = left.asks /\ k > 0 /\ left'.asks = k - 1
    BY <1>3
  <2>3. /\ \A p \in dialogs : p > k
        /\ \A p \in Nat : On(Resolved(p), wire) => p > k
        /\ timers = 0 => \A p \in dialogs :
              (p \in pendingPermissions \/ On(Request(p), wire)) /\ ~On(Resolved(p), wire)
    BY <2>2 DEF PromptInv, Known
  <2>4. \A p \in dialogs' : p > left'.asks
    BY <1>2, <2>1, <2>2, <2>3
  <2>5. \A p \in Nat : On(Resolved(p), wire') => p > left'.asks
    BY <1>5, <1>7, <2>2, <2>3
  <2>6. ASSUME timers' = 0, NEW p \in dialogs'
        PROVE  (p \in pendingPermissions' \/ On(Request(p), wire')) /\ ~On(Resolved(p), wire')
    <3>1. CASE p \in dialogs
      BY <1>5, <1>7, <2>1, <2>3, <2>6, <3>1
    <3>2. CASE p = k
      BY <1>1, <1>5, <1>7, <2>2, <2>3, <3>2
    <3> QED
      BY <1>2, <2>2, <3>1, <3>2
  <2> QED
    BY <2>4, <2>5, <2>6 DEF Known
<1> QED
  BY <1>2, <1>4, <1>5, <1>6, <1>8, WritesIsCounted DEF PromptInv

LEMMA DecidedStep == ASSUME PromptInv, NEW d \in dialogs, Decided(d) PROVE PromptInv'
<1>1. PICK f : f = Resolved(d)
  OBVIOUS
<1>2. left' = left /\ dialogs' = dialogs \ {d} /\ Writes(f) /\ d \in Nat /\ dialogs \subseteq Nat
  BY <1>1 DEF Decided, Resolved, PromptInv, PromptTyped
<1>3. f \in Frames /\ IsEvent(f)
  BY <1>1, <1>2 DEF Resolved, Frames, IsEvent
<1>4. WireTyped' /\ Complete' /\ (\A g : On(g, wire') <=> On(g, wire) \/ g = f) /\ HasEvent(wire')
  BY <1>2, <1>3, WritesIsComplete
<1>5. PromptTyped'
  BY <1>2 DEF PromptInv, PromptTyped, Writes, reader
<1>6. \A p \in Nat : f = Resolved(p) => p = d
  BY <1>1 DEF Resolved
<1>7. Known'
  <2>1. UNCHANGED <<timers, pendingPermissions>>
    BY <1>2 DEF Writes, reader
  <2> QED
    BY <1>2, <1>4, <1>6, <2>1 DEF PromptInv, Known
<1> QED
  BY <1>2, <1>3, <1>4, <1>5, <1>7, WritesIsCounted DEF PromptInv

(* The response ends.                                                        *)
LEMMA OverStep ==
    ASSUME PromptInv, NEW e \in {<<Finished>>, <<Finished, Eof>>, <<Error, Eof>>, <<Eof>>}, Over(e),
           left' \in MixOfPrompts, left'.asks = left.asks
    PROVE  PromptInv'
<1>1. wire \in Seq(Frames)
  BY DEF PromptInv, WireTyped
<1>2. wire' = wire \o e /\ UNCHANGED <<reader, past, quiet>> /\ turn' = "over" /\ dialogs' = {}
  BY DEF Over
<1>3. /\ wire' \in Seq(Frames) /\ EventsOf(wire') = EventsOf(wire)
      /\ HasEvent(wire') <=> HasEvent(wire)
      /\ \A f : On(f, wire') => On(f, wire) \/ f \in Ends
  BY <1>1, <1>2, OnEnd
<1>r. UNCHANGED <<promptPc, idle, race, dropped, pendingPermissions, promptConn, disposed>>
  BY <1>2 DEF reader
<1>p. UNCHANGED <<sent, promptGot, timers, silent, wrote, slept, quiet>>
  BY <1>2 DEF past
<1>4. PromptTyped' /\ WireTyped'
  <2>1. PromptTyped'
    BY <1>2, <1>r, <1>p DEF PromptInv, PromptTyped
  <2>2. wire' \in Seq(Frames)
    BY <1>3
  <2>3. sent' \in Seq(Frames) /\ promptGot' \in Seq(Frames)
    BY <1>p DEF PromptInv, WireTyped
  <2> QED
    BY <2>1, <2>2, <2>3 DEF WireTyped
<1>5. Complete'
  <2>1. PICK seen : seen = promptGot \o EventsOf(wire)
    OBVIOUS
  <2>2. (promptGot \o EventsOf(wire))' = seen
    BY <1>3, <1>p, <2>1
  <2>3. (timers = 0 => seen = sent) /\ Len(sent) <= Len(seen) + timers - dropped
    BY <2>1 DEF PromptInv, Complete
  <2> QED
    BY <1>2, <1>r, <1>p, <2>2, <2>3 DEF Complete
<1>6. Known'
  <2>1. \A p \in Nat : Resolved(p) \notin Ends
    BY DEF Resolved, Ends, Finished, Error, Eof
  <2> QED
    BY <1>2, <1>3, <2>1 DEF PromptInv, Known
<1>7. Counted' /\ Disposed'
  BY <1>2, <1>3 DEF PromptInv, Counted, Disposed, reader, past
<1> QED
  BY <1>4, <1>5, <1>6, <1>7 DEF PromptInv

LEMMA FinishesStep == ASSUME PromptInv, Finishes PROVE PromptInv'
<1>1. left' \in MixOfPrompts /\ left'.asks = left.asks
  BY DEF Finishes, PromptInv, PromptTyped
<1> QED
  BY <1>1, OverStep DEF Finishes

LEMMA BreaksStep == ASSUME PromptInv, Breaks PROVE PromptInv'
<1>1. left' \in MixOfPrompts /\ left'.asks = left.asks
  BY UseTakes DEF Breaks, PromptInv
<1> QED
  BY <1>1, OverStep DEF Breaks

(* What leaves the frames, and what they are compared with, as they are.     *)
LEMMA FramesStay ==
    ASSUME PromptInv, UNCHANGED <<wire, sent, promptGot, timers, dropped>>,
           promptPc' = "returned" => promptPc = "returned", turn' = turn \/ turn' = "over"
    PROVE  WireTyped' /\ Complete'
BY DEF PromptInv, WireTyped, Complete

LEMMA RequestsStay ==
    ASSUME PromptInv, UNCHANGED <<wire, timers, dialogs, pendingPermissions>>, left'.asks = left.asks
    PROVE  Known'
BY DEF PromptInv, Known

LEMMA QuietStep == ASSUME PromptInv, Quiet PROVE PromptInv'
<1>1. left' \in MixOfPrompts /\ left'.asks = left.asks
  BY UseTakes DEF Quiet, PromptInv
<1>2. UNCHANGED <<bridge, wire, reader, past>> /\ quiet' = TRUE
  BY DEF Quiet
<1>3. WireTyped' /\ Complete' /\ Known'
  BY <1>1, <1>2, FramesStay, RequestsStay DEF bridge, reader, past
<1>4. PromptTyped' /\ Counted' /\ Disposed'
  BY <1>1, <1>2 DEF PromptInv, PromptTyped, Counted, Disposed, bridge, reader, past
<1> QED
  BY <1>3, <1>4 DEF PromptInv

LEMMA ResumesStep == ASSUME PromptInv, Resumes PROVE PromptInv'
<1>1. UNCHANGED <<left, bridge, wire, reader, past>> /\ quiet' = FALSE
  BY DEF Resumes
<1>2. WireTyped' /\ Complete' /\ Known'
  BY <1>1, FramesStay, RequestsStay DEF bridge, reader, past
<1>3. PromptTyped'
  BY <1>1 DEF PromptInv, PromptTyped, bridge, reader, past
<1>4. Counted' /\ Disposed'
  BY <1>1 DEF PromptInv, Counted, Disposed, reader, past
<1> QED
  BY <1>2, <1>3, <1>4 DEF PromptInv

LEMMA StartsStep == ASSUME PromptInv, Starts PROVE PromptInv'
<1>1. left' \in MixOfPrompts /\ left'.asks = left.asks
  BY UseTakes DEF Starts, PromptInv
<1>2. /\ UNCHANGED <<bridge, wire, idle, race, dropped, pendingPermissions, promptConn, disposed, past>>
      /\ promptPc = "off" /\ promptPc' = "opening" /\ quiet' = quiet
  BY DEF Starts
<1>3. WireTyped' /\ Complete' /\ Known'
  BY <1>1, <1>2, FramesStay, RequestsStay DEF bridge, past
<1>4. PromptTyped' /\ Counted' /\ Disposed'
  BY <1>1, <1>2 DEF PromptInv, PromptTyped, Counted, Disposed, bridge, past
<1> QED
  BY <1>3, <1>4 DEF PromptInv

LEMMA OpenStep == ASSUME PromptInv, Open PROVE PromptInv'
<1>1. /\ UNCHANGED <<left, quiet, race, dropped, pendingPermissions, disposed, past, wire, dialogs>>
      /\ promptPc = "opening"
      /\ \/ promptPc' = "top" /\ idle' = 0 /\ promptConn' = "open" /\ turn' = turn
         \/ promptPc' = "failed" /\ turn' = "over" /\ UNCHANGED <<idle, promptConn>>
  BY DEF Open, bridge
<1>2. WireTyped' /\ Complete' /\ Known'
  BY <1>1, FramesStay, RequestsStay DEF past
<1>3. PromptTyped'
  BY <1>1, PromptConstants DEF PromptInv, PromptTyped, Concluded, past
<1>4. Counted'
  BY <1>1 DEF PromptInv, PromptTyped, Counted, past
<1>5. Disposed'
  BY <1>1 DEF PromptInv, Disposed
<1> QED
  BY <1>2, <1>3, <1>4, <1>5 DEF PromptInv

LEMMA TopStep == ASSUME PromptInv, Top PROVE PromptInv'
<1>1. /\ UNCHANGED <<left, quiet, bridge, wire, idle, dropped, pendingPermissions, promptConn, disposed, past>>
      /\ promptPc = "top"
  BY DEF Top
<1>2. /\ promptPc' \in {"timeout", "reading"}
      /\ promptPc' = "timeout" => pendingPermissions = {} /\ idle >= Window /\ race' = race
      /\ promptPc' = "reading" =>
            race' = [age |-> 0, limit |-> IF pendingPermissions = {} THEN Window - idle ELSE Window]
      /\ promptPc' = "reading" /\ pendingPermissions = {} => idle < Window
  BY PromptConstants DEF Top, PromptInv, PromptTyped
<1>3. WireTyped' /\ Complete' /\ Known'
  BY <1>1, <1>2, FramesStay, RequestsStay DEF bridge, past
<1>4. race' \in [age : 0 .. Window, limit : 0 .. Window]
  BY <1>2, PromptConstants DEF PromptInv, PromptTyped
<1>5. PromptTyped'
  BY <1>1, <1>2, <1>4 DEF PromptInv, PromptTyped, Concluded, bridge, past
<1>6. Counted'
  <2>1. UNCHANGED <<wire, timers, slept, silent, wrote>> /\ idle \in 0 .. Window /\ silent \in 0 .. Window
    BY <1>1 DEF past, PromptInv, PromptTyped
  <2>2. promptPc' = "reading" /\ pendingPermissions' = {} => idle' + race'.limit = Window + race'.age
    BY <1>1, <1>2, <2>1, PromptConstants
  <2>3. timers' = 0 /\ ~slept' =>
          /\ wrote => idle = 0 \/ HasEvent(wire)
          /\ pendingPermissions = {} => idle <= silent
    BY <1>1, <2>1 DEF PromptInv, Counted
  <2>4. timers' = 0 /\ ~slept' /\ promptPc' = "timeout" => silent' = Window
    BY <1>2, <2>1, <2>3, PromptConstants
  <2> QED
    BY <1>1, <1>2, <2>1, <2>2, <2>3, <2>4 DEF Counted
<1>7. Disposed'
  BY <1>1, <1>2 DEF PromptInv, Disposed
<1> QED
  BY <1>3, <1>5, <1>6, <1>7 DEF PromptInv

LEMMA TakesEventStep == ASSUME PromptInv, TakesEvent PROVE PromptInv'
<1>1. /\ UNCHANGED <<left, quiet, bridge, wire, idle, race, dropped, pendingPermissions, promptConn, disposed, past>>
      /\ promptPc = "given" /\ promptPc' = "top"
  BY DEF TakesEvent
<1>2. WireTyped' /\ Complete' /\ Known'
  BY <1>1, FramesStay, RequestsStay DEF bridge, past
<1>3. PromptTyped' /\ Counted' /\ Disposed'
  BY <1>1 DEF PromptInv, PromptTyped, Counted, Disposed, bridge, past
<1> QED
  BY <1>2, <1>3 DEF PromptInv

LEMMA LeavesStep == ASSUME PromptInv, Leaves PROVE PromptInv'
<1>1. left' \in MixOfPrompts /\ left'.asks = left.asks
  BY UseTakes DEF Leaves, PromptInv
<1>2. /\ UNCHANGED <<quiet, bridge, wire, idle, race, dropped, pendingPermissions, promptConn, disposed, past>>
      /\ promptPc = "given" /\ promptPc' = "left"
  BY DEF Leaves
<1>3. WireTyped' /\ Complete' /\ Known'
  BY <1>1, <1>2, FramesStay, RequestsStay DEF bridge, past
<1>4. PromptTyped' /\ Counted' /\ Disposed'
  BY <1>1, <1>2 DEF PromptInv, PromptTyped, Counted, Disposed, Concluded, bridge, past
<1> QED
  BY <1>3, <1>4 DEF PromptInv

LEMMA DisposeStep == ASSUME PromptInv, Dispose PROVE PromptInv'
<1>1. left' \in MixOfPrompts /\ left'.asks = left.asks
  BY UseTakes DEF Dispose, PromptInv
<1>2. /\ UNCHANGED <<quiet, bridge, wire, promptPc, idle, race, dropped, pendingPermissions, past>>
      /\ disposed' = IF promptPc \in {"off", "opening"} THEN "early" ELSE "yes"
      /\ promptConn' = IF promptConn = "open" THEN "aborted" ELSE promptConn
  BY DEF Dispose
<1>3. WireTyped' /\ Complete' /\ Known'
  BY <1>1, <1>2, FramesStay, RequestsStay DEF bridge, past
<1>4. PromptTyped' /\ Counted' /\ Disposed'
  BY <1>1, <1>2 DEF PromptInv, PromptTyped, Counted, Disposed, bridge, past
<1> QED
  BY <1>3, <1>4 DEF PromptInv

LEMMA ReadThrowsStep == ASSUME PromptInv, ReadThrows PROVE PromptInv'
<1>1. /\ UNCHANGED <<left, quiet, bridge, wire, idle, race, dropped, pendingPermissions, promptConn, disposed, past>>
      /\ promptPc' = "aborted"
  BY DEF ReadThrows
<1>2. WireTyped' /\ Complete' /\ Known'
  BY <1>1, FramesStay, RequestsStay DEF bridge, past
<1>3. PromptTyped' /\ Counted' /\ Disposed'
  BY <1>1 DEF PromptInv, PromptTyped, Counted, Disposed, Concluded, bridge, past
<1> QED
  BY <1>2, <1>3 DEF PromptInv

(* A chunk leaves the wire.                                                  *)
LEMMA ChunkLeaves ==
    ASSUME PromptInv, wire # <<>>, wire' = Tail(wire)
    PROVE  /\ Chunk \in Frames /\ wire' \in Seq(Frames)
           /\ EventsOf(wire') \in Seq(Frames)
           /\ EventsOf(wire) = (IF IsEvent(Chunk) THEN <<Chunk>> ELSE <<>>) \o EventsOf(wire')
           /\ \A f : On(f, wire) <=> f = Chunk \/ On(f, wire')
           /\ HasEvent(wire) <=> IsEvent(Chunk) \/ HasEvent(wire')
<1>1. wire \in Seq(Frames)
  BY DEF PromptInv, WireTyped
<1>2. PICK w \in Seq(Frames) : w = Tail(wire)
  BY <1>1, OnLess
<1>3. EventsOf(w) \in Seq(Frames)
  <2>1. PICK x \in Frames : TRUE
    BY <1>1, OnLess
  <2> QED
    BY <1>2, <2>1, EventsOfMore
<1>4. EventsOf(wire) = (IF IsEvent(Head(wire)) THEN <<Head(wire)>> ELSE <<>>) \o EventsOf(Tail(wire))
  BY <1>1, EventsOfLess
<1>5. /\ Head(wire) \in Frames
      /\ \A f : On(f, wire) <=> f = Head(wire) \/ On(f, Tail(wire))
      /\ HasEvent(wire) <=> IsEvent(Head(wire)) \/ HasEvent(Tail(wire))
  BY <1>1, OnLess
<1> QED
  BY <1>2, <1>3, <1>4, <1>5 DEF Chunk

(* The read wins: an event is given, and anything else is none.              *)
LEMMA ReadsComplete == ASSUME PromptInv, ReadsChunk PROVE WireTyped' /\ Complete'
<1>1. wire # <<>> /\ wire' = Tail(wire) /\ UNCHANGED <<sent, timers, dropped, turn>>
  BY DEF ReadsChunk, bridge
<1>2. /\ Chunk \in Frames /\ wire' \in Seq(Frames)
      /\ EventsOf(wire) = (IF IsEvent(Chunk) THEN <<Chunk>> ELSE <<>>) \o EventsOf(wire')
      /\ \A f : On(f, wire) <=> f = Chunk \/ On(f, wire')
  BY <1>1, ChunkLeaves
<1>3. PICK e \in Seq(Frames) : e = EventsOf(wire')
  BY <1>1, ChunkLeaves
<1>4. PICK g \in Seq(Frames) : g = promptGot
  BY DEF PromptInv, WireTyped
<1>5. PICK c \in Frames : c = Chunk
  BY <1>2
<1>6. promptGot' = IF IsEvent(c) THEN Append(g, c) ELSE g
  BY <1>4, <1>5 DEF ReadsChunk
<1>7. promptGot' \in Seq(Frames) /\ promptGot' \o e = promptGot \o EventsOf(wire)
  <2>1. CASE IsEvent(c)
    <3>1. promptGot' = Append(g, c) /\ EventsOf(wire) = <<c>> \o e
      BY <1>2, <1>3, <1>5, <1>6, <2>1
    <3>2. <<c>> \in Seq(Frames) /\ Append(g, c) = g \o <<c>> /\ Append(g, c) \in Seq(Frames)
      BY AppendIsConcat
    <3>3. (g \o <<c>>) \o e = g \o (<<c>> \o e)
      BY <3>2, ConcatAssociative
    <3> QED
      BY <1>4, <3>1, <3>2, <3>3
  <2>2. CASE ~IsEvent(c)
    <3>1. promptGot' = g /\ EventsOf(wire) = <<>> \o e
      BY <1>2, <1>3, <1>5, <1>6, <2>2
    <3>2. <<>> \o e = e
      BY ConcatEmptySeq
    <3> QED
      BY <1>4, <3>1, <3>2
  <2> QED
    BY <2>1, <2>2
<1>8. WireTyped'
  BY <1>1, <1>2, <1>7 DEF PromptInv, WireTyped
<1>9. promptPc' = "returned" \/ On(Finished, wire') => turn' = "over"
  <2>1. promptPc' = "returned" => On(Finished, wire)
    BY <1>2 DEF ReadsChunk
  <2> QED
    BY <1>1, <1>2, <2>1 DEF PromptInv, Complete
<1>10. PICK seen : seen = promptGot \o EventsOf(wire)
  OBVIOUS
<1>11. (promptGot \o EventsOf(wire))' = seen
  BY <1>3, <1>7, <1>10
<1>12. (timers = 0 => seen = sent) /\ Len(sent) <= Len(seen) + timers - dropped
  BY <1>10 DEF PromptInv, Complete
<1> QED
  BY <1>1, <1>8, <1>9, <1>11, <1>12 DEF Complete

LEMMA ReadsChunkStep == ASSUME PromptInv, ReadsChunk PROVE PromptInv'
<1>1. /\ wire # <<>> /\ wire' = Tail(wire)
      /\ UNCHANGED <<left, quiet, turn, dialogs, dropped, disposed, sent, timers, silent, wrote, slept>>
      /\ race' = NoRace /\ promptPc = "reading" /\ promptConn' \in {promptConn, "closed"}
  BY DEF ReadsChunk, bridge
<1>2. PICK c \in Frames : c = Chunk
  BY <1>1, ChunkLeaves
<1>3. /\ promptPc' \in {"top", "returned", "failed", "disconnected", "given"}
      /\ IF IsEvent(c) THEN idle' = 0 /\ pendingPermissions' = Pending(c)
         ELSE UNCHANGED <<idle, pendingPermissions>>
  BY <1>2 DEF ReadsChunk
<1>4. /\ \A f : On(f, wire) <=> f = c \/ On(f, wire')
      /\ HasEvent(wire) <=> IsEvent(c) \/ HasEvent(wire')
  BY <1>1, <1>2, ChunkLeaves
<1>5. WireTyped' /\ Complete'
  BY ReadsComplete
<1>6. PromptTyped'
  <2>1. pendingPermissions' \subseteq Nat
    BY <1>2, <1>3 DEF PromptInv, PromptTyped, Pending, Frames
  <2>2. idle' \in 0 .. Window
    BY <1>3, PromptConstants DEF PromptInv, PromptTyped
  <2>3. race' \in [age : 0 .. Window, limit : 0 .. Window]
    BY <1>1, PromptConstants DEF NoRace
  <2> QED
    BY <1>1, <1>3, <2>1, <2>2, <2>3 DEF PromptInv, PromptTyped, Concluded
<1>7. Known'
  <2>1. PICK k : k = left.asks
    OBVIOUS
  <2>2. /\ \A p \in dialogs : p > k
        /\ \A p \in Nat : On(Resolved(p), wire) => p > k
        /\ timers = 0 => \A p \in dialogs :
              (p \in pendingPermissions \/ On(Request(p), wire)) /\ ~On(Resolved(p), wire)
    BY <2>1 DEF PromptInv, Known
  <2>3. left'.asks = k
    BY <1>1, <2>1
  <2>4. ASSUME timers = 0, NEW p \in dialogs
        PROVE  (p \in pendingPermissions' \/ On(Request(p), wire')) /\ ~On(Resolved(p), wire')
    <3>1. (p \in pendingPermissions \/ On(Request(p), wire)) /\ ~On(Resolved(p), wire) /\ c # Resolved(p)
      BY <1>4, <2>2, <2>4
    <3>2. ASSUME p \in pendingPermissions PROVE p \in pendingPermissions'
      <4>1. c.type = "permission_resolved" => c.id # p
        BY <1>2, <3>1 DEF Resolved, Frames
      <4> QED
        BY <1>3, <3>2, <4>1 DEF Pending
    <3>3. ASSUME c = Request(p) PROVE p \in pendingPermissions'
      BY <1>3, <3>3 DEF Pending, IsEvent, Request
    <3> QED
      BY <1>4, <3>1, <3>2, <3>3
  <2> QED
    BY <1>1, <1>4, <2>2, <2>3, <2>4 DEF Known
<1>8. Counted'
  BY <1>1, <1>3, <1>4 DEF PromptInv, PromptTyped, Counted
<1>9. Disposed'
  BY <1>1, <1>3 DEF PromptInv, Disposed
<1> QED
  BY <1>5, <1>6, <1>7, <1>8, <1>9 DEF PromptInv

(* A chunk that nobody sees is one of those that a timer took.               *)
LEMMA ReadDroppedStep == ASSUME PromptInv, ReadDropped PROVE PromptInv'
<1>1. /\ UNCHANGED <<left, quiet, bridge, promptPc, idle, race, pendingPermissions, promptConn, disposed, past>>
      /\ wire # <<>> /\ wire' = Tail(wire) /\ dropped > 0 /\ dropped' = dropped - 1
  BY DEF ReadDropped
<1>2. UNCHANGED <<turn, dialogs, sent, promptGot, timers, silent, wrote, slept>>
  BY <1>1 DEF bridge, past
<1>3. timers # 0
  BY <1>1 DEF PromptInv, PromptTyped
<1>4. PromptTyped'
  BY <1>1, <1>2 DEF PromptInv, PromptTyped
<1>5. WireTyped'
  BY <1>1, <1>2, ChunkLeaves DEF PromptInv, WireTyped
<1>6. \A f : On(f, wire) <=> f = Chunk \/ On(f, wire')
  BY <1>1, ChunkLeaves
<1>7. Complete'
  <2>1. PICK e \in Seq(Frames) : e = EventsOf(wire')
    BY <1>1, ChunkLeaves
  <2>c. PICK c \in Frames : c = Chunk
    BY <1>1, ChunkLeaves
  <2>h. PICK h : h = IF IsEvent(c) THEN <<c>> ELSE <<>>
    OBVIOUS
  <2>2. h \in Seq(Frames) /\ Len(h) <= 1
    <3>1. CASE IsEvent(c)
      <4>1. h = <<c>>
        BY <2>h, <3>1
      <4> QED
        BY <4>1
    <3>2. CASE ~IsEvent(c)
      <4>1. h = <<>>
        BY <2>h, <3>2
      <4> QED
        BY <4>1
    <3> QED
      BY <3>1, <3>2
  <2>3. EventsOf(wire) = h \o e
    BY <1>1, <2>1, <2>c, <2>h, ChunkLeaves
  <2>4. PICK g \in Seq(Frames) : g = promptGot
    BY DEF PromptInv, WireTyped
  <2>5. Len(g \o (h \o e)) <= Len(g \o e) + 1 /\ Len(g \o (h \o e)) \in Nat /\ Len(g \o e) \in Nat
    <3>1. h \o e \in Seq(Frames) /\ g \o e \in Seq(Frames) /\ g \o (h \o e) \in Seq(Frames)
      BY <2>2, ConcatProperties
    <3>2. Len(h \o e) = Len(h) + Len(e) /\ Len(g \o e) = Len(g) + Len(e)
          /\ Len(g \o (h \o e)) = Len(g) + Len(h \o e)
      BY <3>1, ConcatProperties
    <3>3. Len(g) \in Nat /\ Len(h) \in Nat /\ Len(e) \in Nat
      OBVIOUS
    <3> QED
      BY <2>2, <3>2, <3>3
  <2>6. Len(sent) <= Len(g \o (h \o e)) + timers - dropped /\ Len(sent) \in Nat
    BY <2>3, <2>4 DEF PromptInv, Complete, WireTyped
  <2>7. dropped \in Nat /\ timers \in Nat
    BY DEF PromptInv, PromptTyped
  <2>8. Len(sent) <= Len(g \o e) + timers - (dropped - 1)
    BY <2>5, <2>6, <2>7
  <2>9. promptPc' = "returned" \/ On(Finished, wire') => turn' = "over"
    BY <1>1, <1>2, <1>6 DEF PromptInv, Complete
  <2> QED
    BY <1>1, <1>2, <1>3, <2>1, <2>4, <2>8, <2>9 DEF Complete
<1>8. Known'
  BY <1>1, <1>2, <1>3, <1>6 DEF PromptInv, Known
<1>9. Counted' /\ Disposed'
  BY <1>1, <1>2, <1>3 DEF PromptInv, Counted, Disposed
<1> QED
  BY <1>4, <1>5, <1>7, <1>8, <1>9 DEF PromptInv

(* The timer wins: while a permission is open its read stays behind.         *)
LEMMA TimerFiresStep == ASSUME PromptInv, TimerFires PROVE PromptInv'
<1>1. /\ UNCHANGED <<left, quiet, turn, dialogs, wire, pendingPermissions, promptConn, disposed,
                     sent, promptGot, silent, wrote, slept>>
      /\ promptPc = "reading" /\ race.age >= race.limit /\ race' = NoRace
  BY DEF TimerFires, bridge
<1>2. race' \in [age : 0 .. Window, limit : 0 .. Window]
  BY <1>1, PromptConstants DEF NoRace
<1>3. dropped \in Nat /\ timers \in Nat /\ dropped <= timers
  BY DEF PromptInv, PromptTyped
<1>4. CASE pendingPermissions # {}
  <2>1. promptPc' = "top" /\ idle' = 0 /\ dropped' = dropped + 1 /\ timers' = timers + 1
    BY <1>4 DEF TimerFires
  <2>2. dropped' \in Nat /\ timers' \in Nat /\ dropped' <= timers' /\ timers' # 0
    BY <1>3, <2>1
  <2>3. PromptTyped'
    BY <1>1, <1>2, <2>1, <2>2, PromptConstants DEF PromptInv, PromptTyped
  <2>4. WireTyped' /\ Known' /\ Disposed'
    BY <1>1, <2>1, <2>2 DEF PromptInv, WireTyped, Known, Disposed
  <2>5. Complete'
    <3>1. PICK n : n = Len(promptGot \o EventsOf(wire)) + timers - dropped
      OBVIOUS
    <3>2. (Len(promptGot \o EventsOf(wire)) + timers - dropped)' = n
      <4>1. Len(promptGot \o EventsOf(wire)) \in Nat
        <5>1. PICK e \in Seq(Frames) : e = EventsOf(wire)
          <6>1. PICK x \in Frames : x = Eof
            BY DEF Frames, Eof
          <6> QED
            BY <6>1, EventsOfMore DEF PromptInv, WireTyped
        <5>2. promptGot \o e \in Seq(Frames)
          BY <5>1, ConcatProperties DEF PromptInv, WireTyped
        <5> QED
          BY <5>1, <5>2
      <4>2. PICK l \in Nat : l = Len(promptGot \o EventsOf(wire))
        BY <4>1
      <4>3. l + (timers + 1) - (dropped + 1) = l + timers - dropped
        BY <1>3
      <4>4. Len(promptGot \o EventsOf(wire))' = l
        BY <1>1, <4>2
      <4> QED
        BY <2>1, <3>1, <4>2, <4>3, <4>4
    <3> QED
      BY <1>1, <2>1, <2>2, <3>1, <3>2 DEF PromptInv, Complete
  <2>6. Counted'
    BY <1>1, <2>1, <2>2 DEF Counted, PromptInv
  <2> QED
    BY <2>3, <2>4, <2>5, <2>6 DEF PromptInv
<1>5. CASE pendingPermissions = {}
  <2>1. promptPc' = "timeout" /\ UNCHANGED <<idle, dropped, timers>>
    BY <1>5 DEF TimerFires
  <2>2. WireTyped' /\ Complete' /\ Known'
    BY <1>1, <2>1, FramesStay, RequestsStay
  <2>3. PromptTyped'
    BY <1>1, <1>2, <2>1 DEF PromptInv, PromptTyped, Concluded
  <2>4. Disposed'
    BY <1>1, <2>1 DEF PromptInv, Disposed
  <2>5. timers = 0 /\ ~slept => silent = Window
    <3>1. /\ idle + race.limit = Window + race.age
          /\ timers = 0 /\ ~slept => idle <= silent
      BY <1>1, <1>5 DEF PromptInv, Counted
    <3>2. idle \in 0 .. Window /\ silent \in 0 .. Window /\ race.age \in 0 .. Window /\ race.limit \in 0 .. Window
      BY DEF PromptInv, PromptTyped
    <3> QED
      BY <1>1, <3>1, <3>2, PromptConstants
  <2>6. Counted'
    BY <1>1, <2>1, <2>5 DEF Counted
  <2> QED
    BY <2>2, <2>3, <2>4, <2>6 DEF PromptInv
<1> QED
  BY <1>4, <1>5

(* A tick.  While the generator reads, nothing is on the wire: with no       *)
(* permission pending the bridge holds none open either.                     *)
LEMMA TickStep == ASSUME PromptInv, Tick PROVE PromptInv'
<1>1. /\ UNCHANGED <<quiet, turn, dialogs, promptPc, dropped, pendingPermissions, promptConn, disposed, sent,
                     promptGot, timers>>
      /\ \/ promptPc = "reading" /\ race.age < race.limit /\ UNCHANGED <<left, slept>>
         \/ promptPc = "given" /\ Use("holds") /\ slept' = TRUE
      /\ promptPc = "reading" => wire = <<>>
      /\ idle' = Capped(idle) /\ wrote' = FALSE
      /\ race' = [race EXCEPT !.age = IF race.age < race.limit THEN race.age + 1 ELSE race.age]
      /\ wire' = wire \/ (wire = <<>> /\ wire' = <<Ping>>)
      /\ silent' = IF dialogs # {} THEN 0 ELSE IF wrote THEN 1 ELSE Capped(silent)
  BY DEF Tick, bridge
<1>2. left' \in MixOfPrompts /\ left'.asks = left.asks
  BY <1>1, UseTakes DEF PromptInv, PromptTyped
<1>3. /\ idle \in 0 .. Window /\ silent \in 0 .. Window /\ slept' \in BOOLEAN
      /\ race \in [age : 0 .. Window, limit : 0 .. Window]
  BY <1>1 DEF PromptInv, PromptTyped
<1>4. /\ wire' \in Seq(Frames) /\ EventsOf(wire') = EventsOf(wire)
      /\ HasEvent(wire') <=> HasEvent(wire)
      /\ \A f : On(f, wire') => On(f, wire) \/ f = Ping
      /\ \A f : On(f, wire) => On(f, wire')
  <2>1. wire \in Seq(Frames) /\ Ping \in Frames /\ ~IsEvent(Ping)
    BY DEF PromptInv, WireTyped, Ping, Frames, IsEvent
  <2>2. CASE wire' = wire
    BY <2>1, <2>2
  <2>3. CASE wire = <<>> /\ wire' = <<Ping>>
    <3>1. wire' = Append(wire, Ping)
      BY <2>1, <2>3
    <3> QED
      BY <2>1, <3>1, EventsOfMore, OnMore
  <2> QED
    BY <1>1, <2>2, <2>3
<1>5. WireTyped'
  <2>1. wire' \in Seq(Frames)
    BY <1>4
  <2> QED
    BY <1>1, <2>1 DEF PromptInv, WireTyped
<1>6. PromptTyped'
  <2>1. race' \in [age : 0 .. Window, limit : 0 .. Window]
    <3>1. (IF race.age < race.limit THEN race.age + 1 ELSE race.age) \in 0 .. Window
      BY <1>3, PromptConstants
    <3> QED
      BY <1>1, <1>3, <3>1
  <2>2. idle' \in 0 .. Window /\ silent' \in 0 .. Window
    BY <1>1, <1>3, PromptConstants DEF Capped
  <2> QED
    BY <1>1, <1>2, <1>3, <2>1, <2>2 DEF PromptInv, PromptTyped
<1>7. Complete'
  <2>1. PICK seen : seen = promptGot \o EventsOf(wire)
    OBVIOUS
  <2>2. (promptGot \o EventsOf(wire))' = seen
    BY <1>1, <1>4, <2>1
  <2>3. /\ timers = 0 => seen = sent
        /\ Len(sent) <= Len(seen) + timers - dropped
        /\ promptPc = "returned" \/ On(Finished, wire) => turn = "over"
    BY <2>1 DEF PromptInv, Complete
  <2>4. Finished # Ping
    BY DEF Finished, Ping
  <2> QED
    BY <1>1, <1>4, <2>2, <2>3, <2>4 DEF Complete
<1>8. Known'
  <2>1. \A p \in Nat : Resolved(p) # Ping
    BY DEF Resolved, Ping
  <2>2. UNCHANGED <<dialogs, timers, pendingPermissions>> /\ left'.asks = left.asks /\ dialogs \subseteq Nat
    BY <1>1, <1>2 DEF PromptInv, PromptTyped
  <2> QED
    BY <1>4, <2>1, <2>2 DEF PromptInv, Known
<1>9. Counted'
  <2>1. CASE promptPc = "reading"
    <3>1. UNCHANGED <<slept, timers, pendingPermissions, promptPc>> /\ race.age < race.limit /\ wire = <<>>
      BY <1>1, <2>1
    <3>2. pendingPermissions = {} => idle + race.limit = Window + race.age
      BY <2>1 DEF PromptInv, Counted
    <3>3. race'.age = race.age + 1 /\ race'.limit = race.limit
      BY <1>1, <1>3, <3>1
    <3>4. pendingPermissions = {} => idle' + race'.limit = Window + race'.age
      <4>1. pendingPermissions = {} => idle' = idle + 1
        BY <1>1, <1>3, <3>1, <3>2, PromptConstants DEF Capped
      <4> QED
        BY <1>3, <3>2, <3>3, <4>1, PromptConstants
    <3>5. timers = 0 /\ ~slept /\ pendingPermissions = {} => idle' <= silent'
      <4>1. SUFFICES ASSUME timers = 0, ~slept, pendingPermissions = {} PROVE idle' <= silent'
        OBVIOUS
      <4>2. \A f : ~On(f, wire)
        BY <3>1 DEF On
      <4>3. dialogs = {}
        <5>1. dialogs \subseteq Nat
          BY DEF PromptInv, PromptTyped
        <5> QED
          BY <4>1, <4>2, <5>1 DEF PromptInv, Known
      <4>4. ~HasEvent(wire)
        BY <3>1 DEF HasEvent
      <4>5. (wrote => idle = 0) /\ idle <= silent
        BY <2>1, <4>1, <4>4 DEF PromptInv, Counted
      <4> QED
        BY <1>1, <1>3, <4>3, <4>5, PromptConstants DEF Capped
    <3> QED
      BY <1>1, <2>1, <3>1, <3>4, <3>5 DEF Counted
  <2>2. CASE promptPc = "given"
    <3>1. race = NoRace
      BY <2>2 DEF PromptInv, Counted
    <3>2. race' = NoRace
      BY <1>1, <3>1 DEF NoRace
    <3> QED
      BY <1>1, <2>2, <3>2 DEF Counted
  <2> QED
    BY <1>1, <2>1, <2>2
<1>10. Disposed'
  BY <1>1 DEF PromptInv, Disposed
<1> QED
  BY <1>5, <1>6, <1>7, <1>8, <1>9, <1>10 DEF PromptInv

LEMMA InitPrompt == PromptInit => PromptInv
<1>1. SUFFICES ASSUME PromptInit PROVE PromptInv
  OBVIOUS
<1>2. EventsOf(<<>>) = <<>>
  <2>1. Counts(<<>>, [i \in 0 .. 0 |-> <<>>], 0)
    BY DEF Counts
  <2>2. <<>> \in Seq(Frames) /\ Len(<<>>) = 0
    OBVIOUS
  <2> QED
    BY <2>1, <2>2, EventsAre
<1>3. left \in MixOfPrompts
  BY <1>1, PromptConstants DEF PromptInit
<1>4. PromptTyped
  <2>1. 0 \in 0 .. Window /\ 0 <= 0
    BY PromptConstants
  <2>2. race \in [age : 0 .. Window, limit : 0 .. Window]
    BY <1>1, <2>1 DEF PromptInit, NoRace
  <2> QED
    BY <1>1, <1>3, <2>1, <2>2 DEF PromptInit, PromptTyped
<1>5. WireTyped
  BY <1>1 DEF PromptInit, WireTyped
<1>6. \A f : ~On(f, wire)
  BY <1>1 DEF PromptInit, On
<1>7. Complete
  BY <1>1, <1>2, <1>6 DEF PromptInit, Complete
<1>8. Known /\ Counted /\ Disposed
  BY <1>1, <1>6 DEF PromptInit, Known, Counted, Disposed
<1> QED
  BY <1>4, <1>5, <1>7, <1>8 DEF PromptInv

LEMMA StepPrompt == PromptInv /\ [PromptNext]_promptVars => PromptInv'
<1>1. SUFFICES ASSUME PromptInv, [PromptNext]_promptVars PROVE PromptInv'
  OBVIOUS
<1>2. CASE Bridge
  BY <1>1, <1>2, TextStep, AsksStep, DecidedStep, FinishesStep, BreaksStep, QuietStep, ResumesStep DEF Bridge
<1>3. CASE Reader
  BY <1>1, <1>3, OpenStep, TopStep, ReadsChunkStep, ReadDroppedStep, TimerFiresStep, ReadThrowsStep DEF Reader
<1>4. CASE Tick
  BY <1>1, <1>4, TickStep
<1>5. CASE Caller
  BY <1>1, <1>5, StartsStep, TakesEventStep, LeavesStep, DisposeStep DEF Caller
<1>6. CASE UNCHANGED promptVars
  <2>1. WireTyped' /\ Complete' /\ Known'
    BY <1>1, <1>6, FramesStay, RequestsStay DEF promptVars
  <2>2. PromptTyped'
    BY <1>1, <1>6 DEF promptVars, PromptInv, PromptTyped
  <2>3. Counted' /\ Disposed'
    BY <1>1, <1>6 DEF promptVars, PromptInv, Counted, Disposed
  <2> QED
    BY <2>1, <2>2, <2>3 DEF PromptInv
<1> QED
  BY <1>1, <1>2, <1>3, <1>4, <1>5, <1>6 DEF PromptNext

(* A caller of prompt() that reads on is given what the bridge wrote, is     *)
(* timed out only when nothing came, and is let go of by close(), whatever   *)
(* the window and the turn (bridge.ts:112-115, 219-286).                     *)
THEOREM PromptsFaithful == PromptSpec => []PromptsAreFaithful
<1>1. PromptInv => PromptsAreFaithful
  <2>1. SUFFICES ASSUME PromptInv PROVE PromptsAreFaithful
    OBVIOUS
  <2>2. PromptIsFaithful
    BY <2>1 DEF PromptInv, Complete, PromptIsFaithful
  <2>3. TimeoutIsEarned
    BY <2>1 DEF PromptInv, PromptTyped, Counted, TimeoutIsEarned
  <2>4. DisposeReaches
    BY <2>1 DEF PromptInv, Disposed, DisposeReaches
  <2> QED
    BY <2>2, <2>3, <2>4 DEF PromptsAreFaithful
<1> QED
  BY <1>1, InitPrompt, StepPrompt, PTL DEF PromptSpec

(* What the generator, its timers and the connection keep has its type.      *)
THEOREM PromptsTyped == PromptSpec => []PromptTypeOK
<1>1. PromptInv => PromptTypeOK
  <2>1. SUFFICES ASSUME PromptInv PROVE PromptTypeOK
    OBVIOUS
  <2>2. PromptTyped
    BY <2>1 DEF PromptInv
  <2>3. left \in [DOMAIN left -> Nat]
    BY <2>2 DEF PromptTyped, MixOfPrompts
  <2> QED
    BY <2>2, <2>3 DEF PromptTyped, PromptTypeOK
<1> QED
  BY <1>1, InitPrompt, StepPrompt, PTL DEF PromptSpec
=============================================================================
