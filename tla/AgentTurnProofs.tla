--------------------------- MODULE AgentTurnProofs ---------------------------
(***************************************************************************)
(* That no turn of an agent is lost sight of (NoTurnOutOfSight), that at   *)
(* most one poll loop runs and `catchingUp' says so (PollingTracked), that *)
(* a stopped agent stays stopped and that the breaker holds the agent:     *)
(* for any number of concurrent followers, any policy and any limits,      *)
(* however prompts, commands, losses and crashes of the daemon interleave. *)
(***************************************************************************)
EXTENDS AgentTurn, FiniteSetTheorems, SequenceTheorems, TLAPS

Streaming == {g \in Followers : fol[g].pc = "stream"}

(* The prompts of a queue nobody reads are orphans; each other one is that   *)
(* of one of S, and only once.                                               *)
Streams(q, S) ==
    /\ q \in Seq(Followers \cup {Orphan})
    /\ \A i \in DOMAIN q : q[i] = Orphan \/ q[i] \in S
    /\ \A i, j \in DOMAIN q : q[i] = q[j] /\ q[i] # Orphan => i = j

(* A handle is settled, and there is an outcome, when the row says so; who    *)
(* is or was paused knows where to go back to.                               *)
Settled ==
    /\ handle # "pending" <=> row.ended
    /\ row.outcome # "none" <=> row.ended
    /\ row.released => row.ended
    /\ row.state = "paused" \/ cmd.op = "resuming" => row.pausedFrom # "none"

(* A command runs on a registered agent, and who ends it or releases it has  *)
(* read a row that still tells.  An agent that has not ended is registered.  *)
Locked ==
    /\ cmd.op = "none" <=> cmd = NoCmd
    /\ cmd.op # "none" => up /\ live /\ cmd.state # "none"
    /\ cmd.ended \/ cmd.op = "releasing" => row.ended
    /\ up /\ ~row.ended => live

(* The flag and the timer of a backoff stand for a pending timer.            *)
Timed == backoff.flag \/ backoff.tracked => backoff.timers > 0

(* One poll loop at most, tracked; a drive that is tracked; and the bridge   *)
(* only holds prompts of running streams, apart from the orphans.            *)
Polled ==
    /\ \A f, g \in Pollers : f = g
    /\ catchingUp <=> Pollers # {}
Driven == driving => Drivers # {}
Streamed == Streams(piQueue, Streaming)

(* RunningIsFollowed, where the command is one that will end the turn or     *)
(* follow it.                                                                *)
Followed ==
    up /\ row.state = "running" /\ ~row.ended
        => \/ Pollers # {} \/ Drivers # {} \/ backoff.timers > 0
           \/ cmd.op = "closing" \/ (cmd.op = "checking" /\ cmd.state = "running")

IInv == TypeOK /\ Settled /\ Locked /\ Timed /\ Polled /\ Driven /\ Streamed /\ Followed

-----------------------------------------------------------------------------
LEMMA Limits == /\ MAX_UNREACHABLE_PROBES \in Nat \ {0} /\ MaxConsecutiveFailures \in Nat \ {0}
                /\ Mixes \subseteq MixOfTurns
                /\ IsFiniteSet(Followers) /\ Orphan \notin Followers
  BY PolicyAssumption, Zenon DEF PolicyAssumption

(* The bridge's queue. *)
LEMMA StreamsNone ==
    ASSUME NEW S
    PROVE  Streams(<<>>, S)
<1>1. <<>> \in Seq(Followers \cup {Orphan}) /\ DOMAIN <<>> = {}
  OBVIOUS
<1> QED BY <1>1 DEF Streams

LEMMA StreamsGrow ==
    ASSUME NEW S, NEW T, NEW q, S \subseteq T, Streams(q, S)
    PROVE  Streams(q, T)
  BY DEF Streams

LEMMA StreamsAppend ==
    ASSUME NEW S, NEW q, Streams(q, S), NEW f \in Followers, f \notin S
    PROVE  Streams(Append(q, f), S \cup {f})
<1> DEFINE X == Followers \cup {Orphan}
           r == Append(q, f)
<1>1. /\ r \in Seq(X) /\ DOMAIN r = 1 .. Len(q) + 1 /\ DOMAIN q = 1 .. Len(q) /\ Len(q) \in Nat
      /\ \A i \in 1 .. Len(q) : r[i] = q[i]
      /\ r[Len(q) + 1] = f
  BY DEF Streams
<1> HIDE DEF r
<1>2. \A i \in DOMAIN r : i \in DOMAIN q \/ i = Len(q) + 1
  BY <1>1
<1>3. f # Orphan
  BY Limits
<1>4. \A i \in DOMAIN q : q[i] # f
  BY <1>3 DEF Streams
<1>5. \A i \in DOMAIN r : r[i] = Orphan \/ r[i] \in S \cup {f}
  BY <1>1, <1>2 DEF Streams
<1>6. ASSUME NEW i \in DOMAIN r, NEW j \in DOMAIN r, r[i] = r[j], r[i] # Orphan
      PROVE  i = j
  BY <1>1, <1>2, <1>4, <1>6 DEF Streams
<1>7. Streams(r, S \cup {f})
  BY <1>1, <1>5, <1>6 DEF Streams
<1> QED BY <1>7 DEF r

LEMMA StreamsTail ==
    ASSUME NEW S, NEW q, Streams(q, S), q # <<>>
    PROVE  /\ Head(q) = Orphan \/ Head(q) \in S
           /\ Streams(Tail(q), S \ {Head(q)}) \/ Head(q) = Orphan
           /\ Streams(Tail(q), S)
<1> DEFINE X == Followers \cup {Orphan}
           r == Tail(q)
           h == Head(q)
<1>1. /\ r \in Seq(X) /\ Len(q) \in Nat \ {0} /\ DOMAIN r = 1 .. Len(q) - 1 /\ DOMAIN q = 1 .. Len(q)
      /\ \A i \in 1 .. Len(q) - 1 : r[i] = q[i + 1]
      /\ h = q[1]
  BY DEF Streams
<1> HIDE DEF r, h
<1>2. \A i \in DOMAIN r : i + 1 \in DOMAIN q /\ i + 1 # 1 /\ r[i] = q[i + 1]
  BY <1>1
<1>3. 1 \in DOMAIN q
  BY <1>1
<1>4. ASSUME NEW i \in DOMAIN r, NEW j \in DOMAIN r, r[i] = r[j], r[i] # Orphan
      PROVE  i = j
  <2>1. i + 1 = j + 1
    BY <1>2, <1>4 DEF Streams
  <2> QED BY <2>1, <1>1
<1>5. \A i \in DOMAIN r : r[i] = Orphan \/ (r[i] \in S /\ r[i] # h)
  BY <1>1, <1>2, <1>3 DEF Streams
<1>6. Streams(r, S \ {h}) /\ Streams(r, S)
  BY <1>1, <1>4, <1>5 DEF Streams
<1> QED BY <1>1, <1>3, <1>6 DEF Streams, r, h

LEMMA StreamsOrphaned ==
    ASSUME NEW S, NEW q, Streams(q, S), NEW F
    PROVE  Streams(Orphaned(q, F), S \ F)
<1> DEFINE r == Orphaned(q, F)
<1>1. /\ DOMAIN r = DOMAIN q
      /\ \A i \in DOMAIN q : r[i] = IF q[i] \in F THEN Orphan ELSE q[i]
  BY DEF Orphaned
<1>2. r \in Seq(Followers \cup {Orphan})
  BY DEF Streams, Orphaned
<1> HIDE DEF r
<1>3. Streams(r, S \ F)
  BY <1>1, <1>2 DEF Streams
<1> QED BY <1>3 DEF r

LEMMA StreamsRemove ==
    ASSUME NEW S, NEW q, Streams(q, S), NEW k \in DOMAIN q, q[k] # Orphan
    PROVE  Streams(RemoveAt(q, k), S \ {q[k]})
<1> DEFINE X == Followers \cup {Orphan}
           n == Len(q)
           p == SubSeq(q, 1, k - 1)
           t == SubSeq(q, k + 1, n)
           r == p \o t
<1>1. q \in Seq(X) /\ n \in Nat /\ DOMAIN q = 1 .. n /\ k \in 1 .. n
  BY DEF Streams
<1>2. /\ p \in Seq(X) /\ Len(p) = k - 1
      /\ \A i \in 1 .. k - 1 : p[i] = q[i]
  BY <1>1
<1>3. /\ t \in Seq(X) /\ Len(t) = n - k
      /\ \A i \in 1 .. n - k : t[i] = q[i + k]
  BY <1>1
<1> HIDE DEF p, t, n, X
<1>4. /\ r \in Seq(X) /\ Len(r) = Len(p) + Len(t)
      /\ \A i \in 1 .. Len(p) + Len(t) : r[i] = IF i <= Len(p) THEN p[i] ELSE t[i - Len(p)]
  BY <1>2, <1>3, ConcatProperties, Zenon
<1> HIDE DEF r
<1>5. DOMAIN r = 1 .. n - 1
  BY <1>1, <1>2, <1>3, <1>4
<1>6. \A i \in DOMAIN r : r[i] = IF i < k THEN q[i] ELSE q[i + 1]
  <2> SUFFICES ASSUME NEW i \in DOMAIN r PROVE r[i] = IF i < k THEN q[i] ELSE q[i + 1]
    OBVIOUS
  <2>1. i \in 1 .. Len(p) + Len(t)
    BY <1>1, <1>2, <1>3, <1>5
  <2>2. CASE i < k
    <3>1. i \in 1 .. k - 1 /\ i <= Len(p)
      BY <1>1, <1>2, <2>1, <2>2
    <3> QED BY <1>2, <1>4, <2>1, <2>2, <3>1
  <2>3. CASE ~(i < k)
    <3>1. i - (k - 1) \in 1 .. n - k /\ i - (k - 1) + k = i + 1 /\ ~(i <= k - 1)
      BY <1>1, <1>5, <2>3
    <3> QED BY <1>2, <1>3, <1>4, <2>1, <2>3, <3>1
  <2> QED BY <2>2, <2>3
<1>7. \A i \in DOMAIN r : \E m \in DOMAIN q : m # k /\ r[i] = q[m] /\ m = IF i < k THEN i ELSE i + 1
  BY <1>1, <1>5, <1>6
<1>8. \A i \in DOMAIN r : r[i] = Orphan \/ (r[i] \in S /\ r[i] # q[k])
  BY <1>7 DEF Streams
<1>9. ASSUME NEW i \in DOMAIN r, NEW j \in DOMAIN r, r[i] = r[j], r[i] # Orphan
      PROVE  i = j
  <2>1. PICK a \in DOMAIN q : r[i] = q[a] /\ a = IF i < k THEN i ELSE i + 1
    BY <1>7
  <2>2. PICK b \in DOMAIN q : r[j] = q[b] /\ b = IF j < k THEN j ELSE j + 1
    BY <1>7
  <2>3. a = b
    BY <1>9, <2>1, <2>2 DEF Streams
  <2>4. i \in Int /\ j \in Int
    BY <1>1, <1>5
  <2> QED BY <1>1, <2>1, <2>2, <2>3, <2>4
<1>10. Streams(r, S \ {q[k]})
  BY <1>4, <1>8, <1>9 DEF Streams, X
<1> QED BY <1>10 DEF RemoveAt, r, p, t, n

-----------------------------------------------------------------------------
(* Who follows a turn. *)
FolTyped == fol \in [Followers -> Follows]

(* One follower moves on; its place is p.                                    *)
Moved(f, p) == \E v \in Follows : v.pc = p /\ fol' = [fol EXCEPT ![f] = v]

LEMMA MovedFacts ==
    ASSUME FolTyped, NEW f \in Followers, NEW p, Moved(f, p)
    PROVE  /\ FolTyped'
           /\ Pollers' = IF p \in PollPcs THEN Pollers \cup {f} ELSE Pollers \ {f}
           /\ Drivers' = IF p \in DrivePcs THEN Drivers \cup {f} ELSE Drivers \ {f}
           /\ Streaming' = IF p = "stream" THEN Streaming \cup {f} ELSE Streaming \ {f}
<1>1. PICK v \in Follows : v.pc = p /\ fol' = [fol EXCEPT ![f] = v]
  BY DEF Moved
<1>2. FolTyped'
  BY <1>1 DEF FolTyped
<1>3. fol'[f].pc = p /\ \A g \in Followers \ {f} : fol'[g].pc = fol[g].pc
  BY <1>1 DEF FolTyped
<1>4. Pollers' = IF p \in PollPcs THEN Pollers \cup {f} ELSE Pollers \ {f}
  BY <1>3 DEF Pollers
<1>5. Drivers' = IF p \in DrivePcs THEN Drivers \cup {f} ELSE Drivers \ {f}
  BY <1>3 DEF Drivers
<1>6. Streaming' = IF p = "stream" THEN Streaming \cup {f} ELSE Streaming \ {f}
  BY <1>3 DEF Streaming
<1> QED BY <1>2, <1>4, <1>5, <1>6

(* Where a follower is. *)
LEMMA Places ==
    ASSUME NEW f \in Followers
    PROVE  /\ fol[f].pc \in PollPcs <=> f \in Pollers
           /\ fol[f].pc \in DrivePcs <=> f \in Drivers
           /\ fol[f].pc = "stream" <=> f \in Streaming
           /\ f \in Idle => fol[f].pc = "idle"
           /\ Streaming \subseteq Drivers /\ Drivers \cap Pollers = {}
           /\ Pollers \subseteq Followers /\ Streaming \subseteq Followers /\ Drivers \subseteq Followers
<1>1. f \in Idle => fol[f].pc = "idle"
  BY DEF Idle
<1> QED BY <1>1 DEF Pollers, Drivers, Streaming, PollPcs, DrivePcs

LEMMA Fresh == /\ NoFollower \in Follows /\ NoFollower.pc = "idle"
               /\ NoFollower.after = FALSE /\ NoFollower.misses = 0
               /\ LET v == [NoFollower EXCEPT !.pc = "stream"]
                  IN  v \in Follows /\ v.pc = "stream"
               /\ \A after \in BOOLEAN :
                    LET v == [NoFollower EXCEPT !.pc = "poll", !.after = after]
                    IN  v \in Follows /\ v.pc = "poll"
<1>1. NoFollower \in Follows /\ NoFollower.pc = "idle" /\ NoFollower.after = FALSE /\ NoFollower.misses = 0
  BY Limits DEF NoFollower, Follows
<1>2. \A r \in Follows : LET v == [r EXCEPT !.pc = "stream"] IN v \in Follows /\ v.pc = "stream"
  BY DEF Follows
<1>3. \A r \in Follows : \A after \in BOOLEAN :
        LET v == [r EXCEPT !.pc = "poll", !.after = after] IN v \in Follows /\ v.pc = "poll"
  BY DEF Follows
<1> QED BY <1>1, <1>2, <1>3

LEMMA MoveForms ==
    ASSUME FolTyped, NEW f \in Followers
    PROVE  /\ fol' = [fol EXCEPT ![f] = NoFollower] => Moved(f, "idle")
           /\ \A p \in {"asked", "restarting"} : fol' = [fol EXCEPT ![f].pc = p] => Moved(f, p)
           /\ \A p \in {"readDrive", "readPoll"} :
              \A res \in {"ok", "transient", "permanent", "thrown", "clean", "gaveUp"} :
                fol' = [fol EXCEPT ![f].pc = p, ![f].res = res] => Moved(f, p)
           /\ \A n \in 0 .. MAX_UNREACHABLE_PROBES :
                fol' = [fol EXCEPT ![f].pc = "poll", ![f].misses = n] => Moved(f, "poll")
<1>1. fol[f] \in Follows
  BY DEF FolTyped
<1>2. ASSUME fol' = [fol EXCEPT ![f] = NoFollower] PROVE Moved(f, "idle")
  BY <1>2, Fresh DEF Moved
<1>3. ASSUME NEW p \in {"asked", "restarting"}, fol' = [fol EXCEPT ![f].pc = p] PROVE Moved(f, p)
  <2>1. LET v == [fol[f] EXCEPT !.pc = p]
        IN  v \in Follows /\ v.pc = p /\ fol' = [fol EXCEPT ![f] = v]
    BY <1>1, <1>3 DEF Follows, FolTyped
  <2> QED BY <2>1 DEF Moved
<1>4. ASSUME NEW p \in {"readDrive", "readPoll"},
             NEW res \in {"ok", "transient", "permanent", "thrown", "clean", "gaveUp"},
             fol' = [fol EXCEPT ![f].pc = p, ![f].res = res]
      PROVE  Moved(f, p)
  <2>1. LET v == [fol[f] EXCEPT !.pc = p, !.res = res]
        IN  v \in Follows /\ v.pc = p /\ fol' = [fol EXCEPT ![f] = v]
    BY <1>1, <1>4 DEF Follows, FolTyped
  <2> QED BY <2>1 DEF Moved
<1>5. ASSUME NEW n \in 0 .. MAX_UNREACHABLE_PROBES,
             fol' = [fol EXCEPT ![f].pc = "poll", ![f].misses = n]
      PROVE  Moved(f, "poll")
  <2>1. LET v == [fol[f] EXCEPT !.pc = "poll", !.misses = n]
        IN  v \in Follows /\ v.pc = "poll" /\ fol' = [fol EXCEPT ![f] = v]
    BY <1>1, <1>5 DEF Follows, FolTyped
  <2> QED BY <2>1 DEF Moved
<1> QED BY <1>2, <1>3, <1>4, <1>5

(* driveTurn, catchUpTurn, and the end of a poll loop, by what they move.    *)
LEMMA DriveMoves ==
    ASSUME FolTyped, NEW f \in Followers, NEW r, NEW q, driveTurn(f, r, q)
    PROVE  /\ Moved(f, "stream") /\ driving' = TRUE
           /\ row' = setState(r, "running") /\ piQueue' \in {Append(q, f), q}
  BY Fresh DEF driveTurn, Moved

LEMMA CatchMoves ==
    ASSUME FolTyped, catchingUp \in BOOLEAN,
           NEW f \in Followers, NEW after \in BOOLEAN, NEW d \in BOOLEAN, catchUpTurn(f, after, d)
    PROVE  \/ /\ Moved(f, "idle") /\ catchingUp' = catchingUp
              /\ (~after /\ handle # "pending") \/ d \/ catchingUp \/ backoff.flag
           \/ Moved(f, "poll") /\ catchingUp' = TRUE /\ ~catchingUp
<1>1. CASE (~after /\ handle # "pending") \/ d \/ catchingUp \/ backoff.flag
  BY <1>1, MoveForms DEF catchUpTurn
<1>2. CASE ~((~after /\ handle # "pending") \/ d \/ catchingUp \/ backoff.flag)
  <2>1. /\ fol' = [fol EXCEPT ![f] = [NoFollower EXCEPT !.pc = "poll", !.after = after]]
        /\ catchingUp' = TRUE
    BY <1>2 DEF catchUpTurn
  <2> QED BY <1>2, <2>1, Fresh DEF Moved
<1> QED BY <1>1, <1>2

LEMMA LoopMoves ==
    ASSUME FolTyped, NEW f \in Followers, NEW res \in {"clean", "gaveUp"}, NEW known \in BOOLEAN,
           LoopEnds(f, res, known)
    PROVE  \/ /\ Moved(f, "idle") /\ catchingUp' = FALSE
              /\ handle # "pending" \/ Gone(known)
           \/ Moved(f, "readPoll") /\ catchingUp' = catchingUp
  BY MoveForms DEF LoopEnds, StopPolling

-----------------------------------------------------------------------------
(* Who follows a turn, what the daemon keeps of it, and the bridge's queue.  *)
Shape == FolTyped /\ driving \in BOOLEAN /\ catchingUp \in BOOLEAN /\ Polled /\ Driven /\ Streamed

(* The bridge keeps its prompts or loses them all.                           *)
QueueStays == piQueue' \in {piQueue, <<>>}

LEMMA QueueStaysFacts ==
    ASSUME Streamed, QueueStays
    PROVE  Streams(piQueue', Streaming)
  BY StreamsNone DEF Streamed, QueueStays

LEMMA ShapeSame ==
    ASSUME Shape, UNCHANGED <<fol, driving, catchingUp>>,
           QueueStays \/ Streams(piQueue', Streaming)
    PROVE  Shape' /\ Pollers' = Pollers /\ Drivers' = Drivers
<1>1. Pollers' = Pollers /\ Drivers' = Drivers /\ Streaming' = Streaming
  BY DEF Pollers, Drivers, Streaming
<1>2. Streamed'
  BY <1>1, QueueStaysFacts DEF Shape, Streamed
<1> QED BY <1>1, <1>2 DEF Shape, FolTyped, Polled, Driven

(* A poll loop goes on, or is over. *)
LEMMA ShapePolls ==
    ASSUME Shape, NEW f \in Pollers, QueueStays, driving' = driving,
           \/ catchingUp' = catchingUp /\ \E p \in PollPcs : Moved(f, p)
           \/ catchingUp' = FALSE /\ Moved(f, "idle")
    PROVE  /\ Shape' /\ Drivers' = Drivers
           /\ catchingUp' => Pollers' = Pollers
<1>1. f \in Followers /\ f \notin Drivers /\ f \notin Streaming
  BY DEF Pollers, Drivers, Streaming, PollPcs, DrivePcs
<1>2. Streams(piQueue', Streaming)
  BY QueueStaysFacts DEF Shape
<1>3. CASE catchingUp' = catchingUp /\ \E p \in PollPcs : Moved(f, p)
  <2>1. PICK p \in PollPcs : Moved(f, p)
    BY <1>3
  <2>2. p \notin DrivePcs /\ p # "stream"
    BY DEF PollPcs, DrivePcs
  <2>3. FolTyped' /\ Pollers' = Pollers /\ Drivers' = Drivers /\ Streaming' = Streaming
    BY <1>1, <2>1, <2>2, MovedFacts DEF Shape
  <2> QED BY <1>2, <1>3, <2>3 DEF Shape, Polled, Driven, Streamed
<1>4. CASE catchingUp' = FALSE /\ Moved(f, "idle")
  <2>1. FolTyped' /\ Pollers' = Pollers \ {f} /\ Drivers' = Drivers /\ Streaming' = Streaming
    BY <1>1, <1>4, MovedFacts DEF Shape, PollPcs, DrivePcs
  <2>2. Pollers' = {}
    BY <2>1 DEF Shape, Polled
  <2> QED BY <1>2, <1>4, <2>1, <2>2 DEF Shape, Polled, Driven, Streamed
<1> QED BY <1>3, <1>4

(* A drive begins, in a free slot or in that of a turn that was settled. *)
LEMMA ShapeDrives ==
    ASSUME Shape, NEW f \in Followers, f \notin Streaming, Moved(f, "stream"), driving' = TRUE,
           catchingUp' = IF f \in Pollers THEN FALSE ELSE catchingUp,
           NEW q \in {piQueue, <<>>}, piQueue' \in {Append(q, f), q}
    PROVE  Shape' /\ f \in Drivers'
<1>1. /\ FolTyped' /\ Pollers' = Pollers \ {f}
      /\ Drivers' = Drivers \cup {f} /\ Streaming' = Streaming \cup {f}
  BY MovedFacts DEF Shape, PollPcs, DrivePcs
<1>2. Streams(q, Streaming)
  BY StreamsNone DEF Shape, Streamed
<1>3. Streams(piQueue', Streaming \cup {f})
  <2>1. Streams(Append(q, f), Streaming \cup {f})
    BY <1>2, StreamsAppend
  <2>2. Streams(q, Streaming \cup {f})
    BY <1>2, StreamsGrow
  <2> QED BY <2>1, <2>2
<1>4. Polled'
  BY <1>1 DEF Shape, Polled
<1> QED BY <1>1, <1>3, <1>4 DEF Shape, Driven, Streamed

(* A stream is over: its turn is read, or left to a poll loop. *)
LEMMA ShapeEnds ==
    ASSUME Shape, NEW f \in Streaming, Streams(piQueue', Streaming \ {f}),
           \/ Moved(f, "readDrive") /\ UNCHANGED <<driving, catchingUp>>
           \/ Moved(f, "idle") /\ driving' = FALSE /\ catchingUp' = catchingUp
           \/ Moved(f, "poll") /\ driving' = FALSE /\ catchingUp' = TRUE /\ ~catchingUp
    PROVE  /\ Shape' /\ Pollers \subseteq Pollers'
           /\ Moved(f, "readDrive") => f \in Drivers'
           /\ Moved(f, "poll") => f \in Pollers'
<1>1. f \in Followers /\ f \notin Pollers /\ f \in Drivers
  BY DEF Pollers, Drivers, Streaming, PollPcs, DrivePcs
<1>2. CASE Moved(f, "readDrive") /\ UNCHANGED <<driving, catchingUp>>
  <2>1. FolTyped' /\ Pollers' = Pollers /\ Drivers' = Drivers /\ Streaming' = Streaming \ {f}
    BY <1>1, <1>2, MovedFacts DEF Shape, PollPcs, DrivePcs
  <2>2. ~Moved(f, "poll")
    BY <1>1, <2>1, MovedFacts DEF Shape, PollPcs
  <2> QED BY <1>1, <1>2, <2>1, <2>2 DEF Shape, Polled, Driven, Streamed
<1>3. CASE Moved(f, "idle") /\ driving' = FALSE /\ catchingUp' = catchingUp
  <2>1. FolTyped' /\ Pollers' = Pollers /\ Drivers' = Drivers \ {f} /\ Streaming' = Streaming \ {f}
    BY <1>1, <1>3, MovedFacts DEF Shape, PollPcs, DrivePcs
  <2>2. ~Moved(f, "poll") /\ ~Moved(f, "readDrive")
    BY <1>1, <2>1, MovedFacts DEF Shape, PollPcs, DrivePcs
  <2> QED BY <1>3, <2>1, <2>2 DEF Shape, Polled, Driven, Streamed
<1>4. CASE Moved(f, "poll") /\ driving' = FALSE /\ catchingUp' = TRUE /\ ~catchingUp
  <2>1. /\ FolTyped' /\ Pollers' = Pollers \cup {f}
        /\ Drivers' = Drivers \ {f} /\ Streaming' = Streaming \ {f}
    BY <1>1, <1>4, MovedFacts DEF Shape, PollPcs, DrivePcs
  <2>2. ~Moved(f, "readDrive")
    BY <1>1, <2>1, MovedFacts DEF Shape, DrivePcs
  <2>3. Pollers = {}
    BY <1>4 DEF Shape, Polled
  <2>4. Polled'
    BY <1>4, <2>1, <2>3 DEF Polled
  <2> QED BY <1>4, <2>1, <2>2, <2>4 DEF Shape, Driven, Streamed
<1> QED BY <1>2, <1>3, <1>4

(* The turn of a drive is settled. *)
LEMMA ShapeSettles ==
    ASSUME Shape, NEW f \in Followers, fol[f].pc = "readDrive", Moved(f, "idle"),
           driving' = FALSE, catchingUp' = catchingUp, QueueStays
    PROVE  Shape'
<1>1. f \notin Pollers /\ f \notin Streaming
  BY DEF Pollers, Streaming, PollPcs
<1>2. FolTyped' /\ Pollers' = Pollers /\ Streaming' = Streaming
  BY <1>1, MovedFacts DEF Shape, PollPcs, DrivePcs
<1>3. Streams(piQueue', Streaming)
  BY QueueStaysFacts DEF Shape
<1> QED BY <1>2, <1>3 DEF Shape, Polled, Driven, Streamed

(* A poll loop begins in a free slot, or does not. *)
LEMMA ShapeCatches ==
    ASSUME Shape, NEW f \in Idle, driving' = driving, QueueStays,
           \/ Moved(f, "idle") /\ catchingUp' = catchingUp
           \/ Moved(f, "poll") /\ catchingUp' = TRUE /\ ~catchingUp
    PROVE  /\ Shape' /\ Drivers' = Drivers /\ Pollers \subseteq Pollers'
           /\ Moved(f, "poll") => f \in Pollers'
<1>1. f \in Followers /\ f \notin Pollers /\ f \notin Drivers /\ f \notin Streaming
  BY DEF Idle, Pollers, Drivers, Streaming, PollPcs, DrivePcs
<1>2. Streams(piQueue', Streaming)
  BY QueueStaysFacts DEF Shape
<1>3. CASE Moved(f, "idle") /\ catchingUp' = catchingUp
  <2>1. FolTyped' /\ Pollers' = Pollers /\ Drivers' = Drivers /\ Streaming' = Streaming
    BY <1>1, <1>3, MovedFacts DEF Shape, PollPcs, DrivePcs
  <2>2. ~Moved(f, "poll")
    BY <1>1, <2>1, MovedFacts DEF Shape, PollPcs
  <2> QED BY <1>2, <1>3, <2>1, <2>2 DEF Shape, Polled, Driven, Streamed
<1>4. CASE Moved(f, "poll") /\ catchingUp' = TRUE /\ ~catchingUp
  <2>1. FolTyped' /\ Pollers' = Pollers \cup {f} /\ Drivers' = Drivers /\ Streaming' = Streaming
    BY <1>1, <1>4, MovedFacts DEF Shape, PollPcs, DrivePcs
  <2>2. Pollers = {}
    BY <1>4 DEF Shape, Polled
  <2>3. Polled'
    BY <1>4, <2>1, <2>2 DEF Polled
  <2> QED BY <1>2, <1>4, <2>1, <2>3 DEF Shape, Driven, Streamed
<1> QED BY <1>3, <1>4

-----------------------------------------------------------------------------
(* The row, and what is settled with it.                                     *)
RowTyped ==
    /\ row \in Rows /\ handle \in Outcomes \cup {"pending"} /\ cmd \in Locks
    /\ up \in BOOLEAN /\ live \in BOOLEAN
WorldTyped ==
    /\ first \in {"due", "joined", "unpaused", "started"}
    /\ box \in {"running", "frozen", "gone"} /\ bridge \in BOOLEAN
    /\ mix \in MixOfTurns
RowPart == RowTyped /\ Settled /\ Locked

(* s is r but for its state, which is to.                                    *)
Goes(r, s, to) ==
    /\ s \in Rows /\ s.state = to
    /\ s.ended = r.ended /\ s.outcome = r.outcome /\ s.released = r.released
    /\ r.pausedFrom # "none" => s.pausedFrom # "none"

(* s is r, which has ended with outcome o.                                   *)
Concluded(r, s, o) ==
    /\ s \in Rows /\ s.state \in {"done", "failed", "aborted", "lost"}
    /\ s.ended /\ s.outcome = o /\ s.released = r.released /\ s.pausedFrom = r.pausedFrom

LEMMA RowOps ==
    ASSUME NEW r \in Rows
    PROVE  /\ \A to \in {"running", "aborted"} : Goes(r, setState(r, to), to)
           /\ \A from \in AgentStates : Goes(r, StateChanged(r, from, "blocked"), "blocked")
           /\ \A from \in AgentStates : /\ Goes(r, StateChanged(r, from, "paused"), "paused")
                                        /\ StateChanged(r, from, "paused").pausedFrom # "none"
           /\ \A to \in AgentStates : Goes(r, StateChanged(r, "paused", to), to)
           /\ \A o \in Outcomes : Concluded(r, Ended(r, o), o)
           /\ Released(r) \in Rows /\ Released(r) = [r EXCEPT !.released = TRUE]
           /\ Goes(r, SameContainer(r), r.state)
           /\ \A b \in BOOLEAN : Goes(r, [r EXCEPT !.current = b], r.state)
<1>1. ASSUME NEW from \in AgentStates, NEW to \in AgentStates
      PROVE  /\ Goes(r, StateChanged(r, from, to), to)
             /\ to = "paused" => StateChanged(r, from, to).pausedFrom # "none"
  <2>1. from # "none"
    BY DEF AgentStates, LIVE_STATES
  <2>2. CASE to = "paused"
    <3>1. StateChanged(r, from, to) = [r EXCEPT !.state = to, !.pausedFrom = from]
      BY <2>2 DEF StateChanged
    <3> QED BY <2>1, <3>1 DEF Goes, Rows
  <2>3. CASE to # "paused"
    <3>1. StateChanged(r, from, to) = [r EXCEPT !.state = to]
      BY <2>3 DEF StateChanged
    <3> QED BY <2>3, <3>1 DEF Goes, Rows
  <2> QED BY <2>2, <2>3
<1>2. {"running", "aborted", "blocked", "paused"} \subseteq AgentStates /\ r.state \in AgentStates
  BY DEF AgentStates, LIVE_STATES, Rows
<1>3. \A to \in {"running", "aborted"} : Goes(r, setState(r, to), to)
  <2>1. \A to \in {"running", "aborted"} : r.state = to => Goes(r, r, to)
    BY DEF Goes
  <2> QED BY <1>1, <1>2, <2>1 DEF setState
<1>4. ASSUME NEW o \in Outcomes PROVE Concluded(r, Ended(r, o), o)
  <2>1. mapOutcomeToState(o) \in {"done", "failed", "aborted", "lost"}
    BY DEF mapOutcomeToState, Outcomes
  <2>2. \A t \in {"done", "failed", "aborted", "lost"} :
          Concluded(r, [r EXCEPT !.state = t, !.outcome = o, !.ended = TRUE], o)
    BY DEF Concluded, Rows, AgentStates
  <2> QED BY <2>1, <2>2 DEF Ended
<1>5. Released(r) \in Rows /\ Released(r) = [r EXCEPT !.released = TRUE]
  BY DEF Released, Rows
<1>6. \A b \in BOOLEAN : Goes(r, [r EXCEPT !.current = b], r.state)
  BY DEF Goes, Rows
<1>7. Goes(r, SameContainer(r), r.state)
  <2>1. (r.current /\ box # "gone") \in BOOLEAN
    OBVIOUS
  <2> QED BY <1>6, <2>1 DEF SameContainer
<1> QED BY <1>1, <1>2, <1>3, <1>4, <1>5, <1>6, <1>7

(* What ends with an outcome has a settled handle. *)
LEMMA SettledNow ==
    ASSUME NEW o \in Outcomes, handle \in Outcomes \cup {"pending"}
    PROVE  SettleIfPending(handle, o) \in Outcomes /\ SettleIfPending(handle, o) # "pending" /\ o # "none"
  BY DEF SettleIfPending, Outcomes

(* The row of a turn that goes on, is held or is over. *)
LEMMA TurnRow ==
    ASSUME RowPart, UNCHANGED <<cmd, up, live>>,
           \/ handle' = handle /\ \E to \in AgentStates \ {"paused"} : Goes(row, row', to)
           \/ handle' = handle /\ Goes(row, row', row.state)
           \/ \E o \in Outcomes : handle' = o /\ Concluded(row, row', o)
    PROVE  RowPart'
<1>1. CASE handle' = handle /\ \E to \in AgentStates \ {"paused"} : Goes(row, row', to)
  BY <1>1 DEF RowPart, RowTyped, Settled, Locked, Goes
<1>2. CASE handle' = handle /\ Goes(row, row', row.state)
  BY <1>2 DEF RowPart, RowTyped, Settled, Locked, Goes
<1>3. CASE \E o \in Outcomes : handle' = o /\ Concluded(row, row', o)
  BY <1>3 DEF RowPart, RowTyped, Settled, Locked, Concluded, Outcomes
<1> QED BY <1>1, <1>2, <1>3

LEMMA RowSame ==
    ASSUME RowPart, UNCHANGED <<row, handle, cmd, up, live>>
    PROVE  RowPart'
  BY DEF RowPart, RowTyped, Settled, Locked

-----------------------------------------------------------------------------
(* The counters of failures, retries and backoffs.                           *)
CountPart ==
    /\ counters \in [failures : Nat, retries : Nat]
    /\ backoff \in [flag : BOOLEAN, timers : Nat, tracked : BOOLEAN]
    /\ transient \in 0 .. mix.transientMax
    /\ Timed

Parts == RowPart /\ WorldTyped /\ CountPart /\ Shape /\ Followed

LEMMA PartsOf == IInv <=> Parts
  BY DEF IInv, Parts, TypeOK, RowPart, RowTyped, WorldTyped, CountPart, Shape, FolTyped, Streamed, Streams

LEMMA PartsOfNext == IInv' <=> Parts'
  BY DEF IInv, Parts, TypeOK, RowPart, RowTyped, WorldTyped, CountPart, Shape, FolTyped, Streamed, Streams

LEMMA CountSame ==
    ASSUME CountPart, UNCHANGED <<counters, backoff, transient>>, mix'.transientMax = mix.transientMax
    PROVE  CountPart'
  BY DEF CountPart, Timed

LEMMA MixFacts ==
    ASSUME mix \in MixOfTurns
    PROVE  /\ mix.transientMax \in Nat /\ mix.prompt \in BOOLEAN
           /\ mix.ops > 0 => LET m == [mix EXCEPT !.ops = @ - 1]
                             IN  m \in MixOfTurns /\ m.transientMax = mix.transientMax
           /\ mix.faults > 0 => LET m == [mix EXCEPT !.faults = @ - 1]
                                IN  m \in MixOfTurns /\ m.transientMax = mix.transientMax
  BY DEF MixOfTurns

LEMMA Backoffs ==
    ASSUME NEW b \in BOOLEAN, NEW n \in Nat, NEW r, r = [flag |-> b, timers |-> n, tracked |-> b]
    PROVE  /\ r \in [flag : BOOLEAN, timers : Nat, tracked : BOOLEAN]
           /\ r.timers = n /\ r.flag = b /\ r.tracked = b
  OBVIOUS

LEMMA CountInits == /\ NoBackoff \in [flag : BOOLEAN, timers : Nat, tracked : BOOLEAN]
                    /\ ~NoBackoff.flag /\ ~NoBackoff.tracked
                    /\ StartBackoff(backoff) = [flag |-> TRUE, timers |-> backoff.timers + 1, tracked |-> TRUE]
                    /\ NoCmd \in Locks /\ NoCmd.op = "none" /\ ~NoCmd.ended /\ NoCmd.state = "none"
  BY DEF NoBackoff, StartBackoff, NoCmd, Locks

(* The decisions on a failed turn. *)
LEMMA DecisionFacts ==
    ASSUME NEW code, NEW msg \in BOOLEAN
    PROVE  /\ Decision(code, msg) \in {"backoff", "tripped", "failed", "ask", "retry", "exhausted"}
           /\ Decision(code, msg) = "backoff" => transient < mix.transientMax
           /\ Decision(code, msg) \notin {"backoff", "tripped"}
                => ~(counters.failures + 1 >= MaxConsecutiveFailures)
<1>1. Decision(code, msg) = "backoff" => transient < mix.transientMax
  BY Zenon DEF Decision
<1>2. Decision(code, msg) \in {"backoff", "tripped", "failed", "ask", "retry", "exhausted"}
  BY Zenon DEF Decision
<1>3. ASSUME counters.failures + 1 >= MaxConsecutiveFailures
      PROVE  Decision(code, msg) \in {"backoff", "tripped"}
  <2>1. CASE code = "transient" /\ msg /\ transient < mix.transientMax
    <3>1. Decision(code, msg) = "backoff"
      BY <2>1, Zenon DEF Decision
    <3> QED BY <3>1
  <2>2. CASE ~(code = "transient" /\ msg /\ transient < mix.transientMax)
    <3>1. Decision(code, msg) = "tripped"
      BY <1>3, <2>2, Zenon DEF Decision
    <3> QED BY <3>1
  <2> QED BY <2>1, <2>2
<1> QED BY <1>1, <1>2, <1>3

LEMMA CountFails ==
    ASSUME CountPart, mix \in MixOfTurns, mix' = mix, NEW d,
           d = "backoff" => transient < mix.transientMax,
           counters' = CountFailure(d),
           transient' = IF d = "backoff" THEN transient + 1 ELSE transient,
           backoff' = IF d = "backoff" THEN StartBackoff(backoff) ELSE backoff
    PROVE  CountPart' /\ (d = "backoff" => backoff'.timers > 0)
<1>1. counters' \in [failures : Nat, retries : Nat]
  <2>1. counters.failures \in Nat /\ counters.retries \in Nat
    BY DEF CountPart
  <2>2. counters.failures + (IF d = "backoff" THEN 0 ELSE 1) \in Nat
    BY <2>1
  <2>3. counters.retries + (IF d \in {"retry", "exhausted"} THEN 1 ELSE 0) \in Nat
    BY <2>1
  <2> QED BY <2>2, <2>3 DEF CountFailure
<1>2. transient' \in 0 .. mix'.transientMax
  BY MixFacts DEF CountPart
<1>3. CASE d = "backoff"
  <2>1. backoff' = [flag |-> TRUE, timers |-> backoff.timers + 1, tracked |-> TRUE]
    BY <1>3, CountInits
  <2>2. backoff.timers + 1 \in Nat /\ backoff.timers + 1 > 0
    BY DEF CountPart
  <2>3. backoff' \in [flag : BOOLEAN, timers : Nat, tracked : BOOLEAN] /\ backoff'.timers > 0
    <3> DEFINE yes == TRUE
               n == backoff.timers + 1
    <3>1. yes \in BOOLEAN /\ n \in Nat /\ n > 0 /\ backoff' = [flag |-> yes, timers |-> n, tracked |-> yes]
      BY <2>1, <2>2
    <3> HIDE DEF yes, n
    <3> QED BY <3>1, Backoffs
  <2> QED BY <1>1, <1>2, <2>3 DEF CountPart, Timed
<1>4. CASE d # "backoff"
  BY <1>1, <1>2, <1>4 DEF CountPart, Timed
<1> QED BY <1>3, <1>4

(* A turn that was read fails or succeeds. *)
SettlesTurn(f) ==
    /\ UNCHANGED <<up, live, cmd, first, box, bridge, mix>>
    /\ catchingUp' = IF fol[f].pc = "readPoll" THEN FALSE ELSE catchingUp
    /\ fol[f].pc \in {"readDrive", "readPoll"}

LEMMA SettleShape ==
    ASSUME Shape, NEW f \in Followers, SettlesTurn(f), fol' = [fol EXCEPT ![f] = NoFollower],
           driving' = (driving /\ fol[f].pc = "readPoll"), QueueStays
    PROVE  Shape'
<1>1. Moved(f, "idle")
  BY MoveForms DEF Shape
<1>2. CASE fol[f].pc = "readDrive"
  <2>1. driving' = FALSE /\ catchingUp' = catchingUp
    BY <1>2 DEF SettlesTurn, Shape
  <2> QED BY <1>1, <1>2, <2>1, ShapeSettles
<1>3. CASE fol[f].pc = "readPoll"
  <2>1. driving' = driving /\ catchingUp' = FALSE /\ f \in Pollers
    BY <1>3 DEF SettlesTurn, Shape, Pollers, PollPcs
  <2> QED BY <1>1, <2>1, ShapePolls
<1> QED BY <1>2, <1>3 DEF SettlesTurn

LEMMA SucceededInv ==
    ASSUME Parts, NEW f \in Followers, SettlesTurn(f), TurnSucceeded(f)
    PROVE  Parts'
<1>1. row \in Rows /\ "success" \in Outcomes
  BY DEF Parts, RowPart, RowTyped, Outcomes
<1>2. Concluded(row, row', "success") /\ handle' = "success"
  BY <1>1, RowOps DEF TurnSucceeded
<1>3. RowPart' /\ row'.ended
  BY <1>1, <1>2, TurnRow DEF Parts, SettlesTurn, Concluded
<1>4. Shape'
  BY SettleShape DEF Parts, TurnSucceeded, QueueStays
<1>5. CountPart'
  BY MixFacts DEF Parts, WorldTyped, CountPart, Timed, TurnSucceeded, SettlesTurn
<1>6. WorldTyped'
  BY DEF Parts, WorldTyped, SettlesTurn
<1>7. Followed'
  BY <1>3 DEF Followed
<1> QED BY <1>3, <1>4, <1>5, <1>6, <1>7 DEF Parts

LEMMA FailedInv ==
    ASSUME Parts, NEW f \in Followers, SettlesTurn(f), NEW code, NEW msg \in BOOLEAN,
           TurnFailed(f, code, msg)
    PROVE  Parts'
<1> DEFINE d == Decision(code, msg)
<1>1. /\ d \in {"backoff", "tripped", "failed", "ask", "retry", "exhausted"}
      /\ d = "backoff" => transient < mix.transientMax
  BY DecisionFacts
<1>2. /\ counters' = CountFailure(d)
      /\ transient' = IF d = "backoff" THEN transient + 1 ELSE transient
      /\ backoff' = IF d = "backoff" THEN StartBackoff(backoff) ELSE backoff
      /\ handle' = IF d = "failed" THEN "failed" ELSE handle
      /\ IF d = "retry" /\ live
         THEN driveTurn(f, row, piQueue)
         ELSE /\ row' = CASE d = "failed" -> Ended(row, "failed")
                          [] d \in {"tripped", "ask", "exhausted"} ->
                                 StateChanged(row, row.state, "blocked")
                          [] OTHER -> row
              /\ fol' = [fol EXCEPT ![f] = NoFollower]
              /\ driving' = (driving /\ fol[f].pc = "readPoll")
              /\ UNCHANGED piQueue
  BY DEF TurnFailed
<1> HIDE DEF d
<1>3. row \in Rows /\ "failed" \in Outcomes /\ {"running", "blocked"} \subseteq AgentStates \ {"paused"}
      /\ row.state \in AgentStates
  BY DEF Parts, RowPart, RowTyped, Outcomes, Rows, AgentStates, LIVE_STATES
<1>4. UNCHANGED <<cmd, up, live, mix>> /\ RowPart /\ FolTyped /\ mix \in MixOfTurns
  BY DEF Parts, SettlesTurn, WorldTyped, Shape
<1>5. WorldTyped'
  BY DEF Parts, WorldTyped, SettlesTurn
<1>6. CountPart' /\ (d = "backoff" => backoff'.timers > 0)
  BY <1>1, <1>2, <1>4, CountFails DEF Parts
<1>7. CASE d = "retry" /\ live
  <2>1. /\ Moved(f, "stream") /\ driving' = TRUE /\ row' = setState(row, "running")
        /\ piQueue' \in {Append(piQueue, f), piQueue} /\ handle' = handle
    BY <1>2, <1>4, <1>7, DriveMoves
  <2>2. RowPart'
    <3>1. Goes(row, row', "running") /\ handle' = handle
      BY <1>3, <2>1, RowOps
    <3> QED BY <1>3, <1>4, <3>1, TurnRow
  <2>3. f \notin Streaming /\ catchingUp' = IF f \in Pollers THEN FALSE ELSE catchingUp
    BY DEF SettlesTurn, Streaming, Pollers, PollPcs
  <2>4. Shape' /\ f \in Drivers'
    BY <2>1, <2>3, ShapeDrives DEF Parts
  <2>5. Followed'
    BY <2>4 DEF Followed
  <2> QED BY <1>5, <1>6, <2>2, <2>4, <2>5 DEF Parts
<1>8. CASE ~(d = "retry" /\ live)
  <2>1. /\ row' = CASE d = "failed" -> Ended(row, "failed")
                    [] d \in {"tripped", "ask", "exhausted"} ->
                           StateChanged(row, row.state, "blocked")
                    [] OTHER -> row
        /\ fol' = [fol EXCEPT ![f] = NoFollower]
        /\ driving' = (driving /\ fol[f].pc = "readPoll")
        /\ UNCHANGED piQueue
    BY <1>2, <1>8
  <2>2. Shape'
    BY <2>1, SettleShape DEF Parts, QueueStays
  <2>3. CASE d = "failed"
    <3>1. Concluded(row, row', "failed") /\ handle' = "failed"
      BY <1>2, <1>3, <2>1, <2>3, RowOps
    <3>2. RowPart' /\ row'.ended
      BY <1>3, <1>4, <3>1, TurnRow DEF Concluded
    <3>3. Followed'
      BY <3>2 DEF Followed
    <3> QED BY <1>5, <1>6, <2>2, <3>2, <3>3 DEF Parts
  <2>4. CASE d \in {"tripped", "ask", "exhausted"}
    <3>1. Goes(row, row', "blocked") /\ handle' = handle
      BY <1>2, <1>3, <2>1, <2>4, RowOps
    <3>2. RowPart' /\ row'.state # "running"
      BY <1>3, <1>4, <3>1, TurnRow DEF Goes
    <3>3. Followed'
      BY <3>2 DEF Followed
    <3> QED BY <1>5, <1>6, <2>2, <3>2, <3>3 DEF Parts
  <2>5. CASE d \in {"backoff", "retry"}
    <3>1. row' = row /\ handle' = handle
      BY <1>2, <2>1, <2>5
    <3>2. RowPart'
      BY <1>4, <3>1, RowSame
    <3>3. d = "retry" => (up => row.ended)
      BY <1>8 DEF Parts, RowPart, Locked
    <3>4. Followed'
      BY <1>4, <1>6, <2>5, <3>1, <3>3 DEF Followed
    <3> QED BY <1>5, <1>6, <2>2, <3>2, <3>4 DEF Parts
  <2> QED BY <1>1, <2>3, <2>4, <2>5
<1> QED BY <1>7, <1>8

-----------------------------------------------------------------------------
(* The steps of followers. *)

(* Nothing but who follows the turn changes. *)
Quiet == UNCHANGED <<durable, up, live, backoff, transient, cmd, first, box, bridge, mix>>

LEMMA QuietInv ==
    ASSUME Parts, Quiet, Shape', \/ Pollers' # {} \/ Drivers' # {}
                                 \/ Pollers' = Pollers /\ Drivers' = Drivers
                                 \/ backoff.timers > 0 \/ ~(up /\ row.state = "running" /\ ~row.ended)
    PROVE  Parts'
<1>1. RowPart'
  BY RowSame DEF Parts, Quiet, durable
<1>2. CountPart'
  BY CountSame DEF Parts, Quiet, durable
<1>3. WorldTyped'
  BY DEF Parts, WorldTyped, Quiet
<1>4. Followed'
  BY DEF Parts, Followed, Quiet, durable
<1> QED BY <1>1, <1>2, <1>3, <1>4 DEF Parts

LEMMA StreamEndsInv ==
    ASSUME Parts, NEW f \in Followers, StreamEnds(f)
    PROVE  Parts'
<1>1. Moved(f, "readDrive")
  BY MoveForms DEF StreamEnds, Parts, Shape
<1>2. f \in Streaming /\ Streams(piQueue', Streaming \ {f})
  BY Limits, StreamsTail DEF StreamEnds, Parts, Shape, Streamed
<1>3. Shape' /\ f \in Drivers'
  BY <1>1, <1>2, ShapeEnds DEF StreamEnds, Parts
<1> QED BY <1>3, QuietInv DEF StreamEnds, Quiet, durable

LEMMA OrphanEndsInv ==
    ASSUME Parts, OrphanEnds
    PROVE  Parts'
<1>1. Streams(piQueue', Streaming)
  BY StreamsTail DEF OrphanEnds, Parts, Shape, Streamed
<1>2. Shape' /\ Pollers' = Pollers /\ Drivers' = Drivers
  BY <1>1, ShapeSame DEF OrphanEnds, Parts, turnVars
<1> QED BY <1>2, QuietInv DEF OrphanEnds, Quiet, turnVars, durable

LEMMA StreamThrowsInv ==
    ASSUME Parts, NEW f \in Followers, StreamThrows(f)
    PROVE  Parts'
<1>1. Moved(f, "readDrive")
  BY MoveForms DEF StreamThrows, Parts, Shape
<1>2. f \in Streaming /\ f # Orphan
  BY Limits DEF StreamThrows, Streaming
<1>3. Streams(piQueue', Streaming \ {f})
  <2>1. ASSUME NEW i \in DOMAIN piQueue, piQueue[i] = f, piQueue' = RemoveAt(piQueue, i)
        PROVE  Streams(piQueue', Streaming \ {f})
    BY <1>2, <2>1, StreamsRemove DEF Parts, Shape, Streamed
  <2>2. CASE piQueue' = Orphaned(piQueue, {f})
    BY <2>2, StreamsOrphaned DEF Parts, Shape, Streamed
  <2> QED BY <2>1, <2>2 DEF StreamThrows
<1>4. Shape' /\ f \in Drivers'
  BY <1>1, <1>2, <1>3, ShapeEnds DEF StreamThrows, Parts
<1> QED BY <1>4, QuietInv DEF StreamThrows, Quiet, durable

LEMMA StreamLostInv ==
    ASSUME Parts, NEW f \in Followers, StreamLost(f)
    PROVE  Parts'
<1>1. f \in Streaming /\ Streams(piQueue', Streaming \ {f})
  BY StreamsOrphaned DEF StreamLost, Streaming, Parts, Shape, Streamed
<1>2. CASE live
  <2>1. \/ /\ Moved(f, "idle") /\ catchingUp' = catchingUp
           /\ catchingUp \/ backoff.flag
        \/ Moved(f, "poll") /\ catchingUp' = TRUE /\ ~catchingUp
    BY <1>2, CatchMoves DEF StreamLost, Parts, Shape
  <2>2. Shape' /\ Pollers \subseteq Pollers' /\ (Moved(f, "poll") => f \in Pollers')
    BY <1>1, <2>1, ShapeEnds DEF StreamLost, Parts
  <2>3. catchingUp => Pollers # {}
    BY DEF Parts, Shape, Polled
  <2>4. backoff.flag => backoff.timers > 0
    BY DEF Parts, CountPart, Timed
  <2>5. Pollers' # {} \/ backoff.timers > 0
    BY <2>1, <2>2, <2>3, <2>4
  <2> QED BY <2>2, <2>5, QuietInv DEF StreamLost, Quiet, durable
<1>3. CASE ~live
  <2>1. Moved(f, "idle") /\ catchingUp' = catchingUp
    BY <1>3, MoveForms DEF StreamLost, Parts, Shape
  <2>2. Shape'
    BY <1>1, <2>1, ShapeEnds DEF StreamLost, Parts
  <2>3. ~(up /\ ~row.ended)
    BY <1>3 DEF Parts, RowPart, Locked
  <2> QED BY <2>2, <2>3, QuietInv DEF StreamLost, Quiet, durable
<1> QED BY <1>2, <1>3

(* What the end of a poll loop leaves. *)
LEMMA LoopFacts ==
    ASSUME Parts, NEW f \in Pollers, NEW res \in {"clean", "gaveUp"}, NEW known \in BOOLEAN,
           known = TRUE \/ known = live, LoopEnds(f, res, known), driving' = driving, QueueStays
    PROVE  /\ Shape' /\ Drivers' = Drivers
           /\ Pollers' # {} \/ ~(up /\ row.state = "running" /\ ~row.ended)
<1>1. f \in Followers
  BY DEF Pollers
<1>2. \/ /\ Moved(f, "idle") /\ catchingUp' = FALSE
         /\ handle # "pending" \/ Gone(known)
      \/ Moved(f, "readPoll") /\ catchingUp' = catchingUp
  BY <1>1, LoopMoves DEF Parts, Shape
<1>3. "readPoll" \in PollPcs
  BY DEF PollPcs
<1>4. Shape' /\ Drivers' = Drivers /\ (catchingUp' => Pollers' = Pollers)
  BY <1>2, <1>3, ShapePolls DEF Parts
<1>5. catchingUp
  BY DEF Parts, Shape, Polled
<1>6. handle # "pending" => row.ended
  BY DEF Parts, RowPart, Settled
<1>7. Gone(known) => ~(up /\ row.state = "running" /\ ~row.ended)
  BY DEF Parts, RowPart, Locked, Gone, CLOSED_STATES
<1> QED BY <1>2, <1>4, <1>5, <1>6, <1>7

LEMMA KeepFacts ==
    ASSUME Parts, NEW f \in Pollers, NEW n \in 0 .. MAX_UNREACHABLE_PROBES,
           KeepPolling(f, n), driving' = driving, QueueStays
    PROVE  Shape' /\ Drivers' = Drivers /\ Pollers' # {}
<1>1. f \in Followers
  BY DEF Pollers
<1>2. Moved(f, "poll") /\ catchingUp' = catchingUp /\ "poll" \in PollPcs
  BY <1>1, MoveForms DEF KeepPolling, PollPcs, Parts, Shape
<1>3. Shape' /\ Drivers' = Drivers /\ (catchingUp' => Pollers' = Pollers)
  BY <1>2, ShapePolls DEF Parts
<1>4. catchingUp
  BY DEF Parts, Shape, Polled
<1> QED BY <1>2, <1>3, <1>4

LEMMA ProbeInv ==
    ASSUME Parts, NEW f \in Followers,
           ProbeGone(f) \/ ProbePaused(f) \/ ProbeAsk(f) \/ ProbeAnswer(f) \/ GiveUp(f)
    PROVE  Parts'
<1>1. f \in Pollers
  BY DEF ProbeGone, ProbePaused, ProbeAsk, ProbeAnswer, GiveUp, Pollers, PollPcs
<1>2. Quiet /\ driving' = driving /\ QueueStays
  BY DEF ProbeGone, ProbePaused, ProbeAsk, ProbeAnswer, GiveUp, Quiet, durable, boxVars, QueueStays
<1>3. live \in BOOLEAN /\ 0 \in 0 .. MAX_UNREACHABLE_PROBES /\ catchingUp /\ Pollers # {}
  BY <1>1, Limits DEF Parts, RowPart, RowTyped, Shape, Polled
<1>4. CASE ProbeGone(f)
  <2>1. Moved(f, "idle") /\ catchingUp' = FALSE
    BY <1>4, MoveForms DEF ProbeGone, StopPolling, Parts, Shape
  <2>2. Shape'
    BY <1>1, <1>2, <2>1, ShapePolls DEF Parts
  <2>3. ~(up /\ row.state = "running" /\ ~row.ended)
    BY <1>4 DEF ProbeGone, Gone, CLOSED_STATES, Parts, RowPart, Locked
  <2> QED BY <1>2, <2>2, <2>3, QuietInv
<1>5. CASE \E n \in 0 .. MAX_UNREACHABLE_PROBES : KeepPolling(f, n)
  BY <1>1, <1>2, <1>5, KeepFacts, QuietInv
<1>6. CASE \E p \in {"asked", "restarting"} : fol' = [fol EXCEPT ![f].pc = p] /\ UNCHANGED catchingUp
  <2>1. PICK p \in {"asked", "restarting"} : fol' = [fol EXCEPT ![f].pc = p] /\ UNCHANGED catchingUp
    BY <1>6
  <2>2. Moved(f, p) /\ p \in PollPcs
    BY <2>1, MoveForms DEF PollPcs, Parts, Shape
  <2>3. Shape' /\ Pollers' = Pollers
    BY <1>1, <1>2, <1>3, <2>1, <2>2, ShapePolls DEF Parts
  <2> QED BY <1>1, <1>2, <2>3, QuietInv
<1>7. CASE \E res \in {"clean", "gaveUp"} : LoopEnds(f, res, live)
  <2>1. PICK res \in {"clean", "gaveUp"} : LoopEnds(f, res, live)
    BY <1>7
  <2>2. Shape' /\ (Pollers' # {} \/ ~(up /\ row.state = "running" /\ ~row.ended))
    BY <1>1, <1>2, <1>3, <2>1, LoopFacts
  <2> QED BY <1>2, <2>2, QuietInv
<1>8. fol[f].misses \in 0 .. MAX_UNREACHABLE_PROBES
  BY DEF Parts, Shape, FolTyped, Follows
<1>9. fol[f].misses + 1 < MAX_UNREACHABLE_PROBES => fol[f].misses + 1 \in 0 .. MAX_UNREACHABLE_PROBES
  BY <1>8, Limits
<1>10. CASE ProbePaused(f)
  BY <1>3, <1>5, <1>10 DEF ProbePaused
<1>11. CASE ProbeAsk(f)
  BY <1>6, <1>11 DEF ProbeAsk
<1>12. CASE ProbeAnswer(f)
  BY <1>3, <1>5, <1>6, <1>7, <1>9, <1>12 DEF ProbeAnswer
<1>13. CASE GiveUp(f)
  BY <1>7, <1>13 DEF GiveUp
<1> QED BY <1>4, <1>10, <1>11, <1>12, <1>13

LEMMA SettleInv ==
    ASSUME Parts, NEW f \in Followers, SettleDrive(f) \/ SettlePoll(f)
    PROVE  Parts'
<1>1. SettlesTurn(f)
  BY DEF SettleDrive, SettlePoll, SettlesTurn
<1>2. mix.prompt \in BOOLEAN
  BY MixFacts DEF Parts, WorldTyped
<1>3. TurnSucceeded(f) \/ \E code \in {"transient", "other"}, msg \in BOOLEAN : TurnFailed(f, code, msg)
  BY <1>2 DEF SettleDrive, SettlePoll
<1> QED BY <1>1, <1>3, SucceededInv, FailedInv

(* The container is restored, and with it the handle in the registry. *)
LEMMA RestoredRow ==
    ASSUME RowPart, UNCHANGED <<cmd, handle>>, up' = TRUE \/ up' = up, live' = TRUE,
           Goes(row, row', row.state)
    PROVE  RowPart'
<1>1. up' \in BOOLEAN /\ (cmd.op # "none" => up')
  BY DEF RowPart, RowTyped, Locked
<1> QED BY <1>1 DEF RowPart, RowTyped, Settled, Locked, Goes

LEMMA RestartBridgeInv ==
    ASSUME Parts, NEW f \in Followers, RestartBridge(f)
    PROVE  Parts'
<1>1. f \in Pollers /\ driving' = driving /\ UNCHANGED <<handle, counters, up, backoff, transient, cmd, first, mix>>
  BY DEF RestartBridge, Pollers, PollPcs
<1>2. 0 \in 0 .. MAX_UNREACHABLE_PROBES /\ row \in Rows /\ live \in BOOLEAN
  BY Limits DEF Parts, RowPart, RowTyped
<1>3. CASE LoopEnds(f, "gaveUp", live) /\ UNCHANGED <<row, live, boxVars>>
  <2>1. Shape' /\ (Pollers' # {} \/ ~(up /\ row.state = "running" /\ ~row.ended))
    BY <1>1, <1>2, <1>3, LoopFacts DEF boxVars, QueueStays
  <2> QED BY <1>1, <1>3, <2>1, QuietInv DEF Quiet, durable, boxVars
<1>4. CASE /\ restartBridge /\ piQueue' = <<>>
           /\ row' = SameContainer(row)
           /\ KeepPolling(f, 0) \/ LoopEnds(f, "gaveUp", TRUE)
  <2>1. Shape' /\ (Pollers' # {} \/ ~(up /\ row.state = "running" /\ ~row.ended))
    BY <1>1, <1>2, <1>4, LoopFacts, KeepFacts DEF QueueStays
  <2>2. Goes(row, row', row.state)
    BY <1>2, <1>4, RowOps
  <2>3. RowPart'
    BY <1>1, <1>4, <2>2, RestoredRow DEF Parts, restartBridge
  <2>4. CountPart'
    BY <1>1, CountSame DEF Parts
  <2>5. WorldTyped'
    BY <1>1, <1>4 DEF Parts, WorldTyped, restartBridge
  <2>6. Followed'
    BY <1>1, <2>1, <2>2 DEF Followed, Goes
  <2> QED BY <2>1, <2>3, <2>4, <2>5, <2>6 DEF Parts
<1> QED BY <1>3, <1>4 DEF RestartBridge

(* A drive begins. *)
LEMMA BeginFacts ==
    ASSUME Parts, NEW f \in Idle, NEW r, Goes(row, r, row.state), NEW q \in {piQueue, <<>>},
           driveTurn(f, r, q), catchingUp' = catchingUp
    PROVE  Shape' /\ Followed' /\ Goes(row, row', "running")
<1>1. f \in Followers /\ f \notin Streaming /\ f \notin Pollers
  BY DEF Idle, Streaming, Pollers, PollPcs
<1>2. /\ Moved(f, "stream") /\ driving' = TRUE
      /\ row' = setState(r, "running") /\ piQueue' \in {Append(q, f), q}
  BY <1>1, DriveMoves DEF Parts, Shape
<1>3. Shape' /\ f \in Drivers'
  BY <1>1, <1>2, ShapeDrives DEF Parts
<1>4. Goes(row, row', "running")
  <2>1. Goes(r, row', "running")
    BY <1>2, RowOps DEF Goes
  <2> QED BY <2>1 DEF Goes
<1>5. Followed'
  BY <1>3 DEF Followed
<1> QED BY <1>3, <1>4, <1>5

LEMMA OwnRow == row \in Rows => Goes(row, row, row.state) /\ row.state \in AgentStates
  BY DEF Goes, Rows

LEMMA PromptInv ==
    ASSUME Parts, NEW f \in Followers, Prompt(f) \/ FirstTurn(f)
    PROVE  Parts'
<1>1. /\ f \in Idle /\ driveTurn(f, row, piQueue)
      /\ UNCHANGED <<handle, counters, up, live, catchingUp, backoff, transient, cmd, box, bridge>>
  BY DEF Prompt, FirstTurn
<1>2. Shape' /\ Followed' /\ Goes(row, row', "running")
  BY <1>1, OwnRow, BeginFacts DEF Parts, RowPart, RowTyped
<1>3. RowPart'
  <2>1. "running" \in AgentStates \ {"paused"}
    BY DEF AgentStates, LIVE_STATES
  <2> QED BY <1>1, <1>2, <2>1, TurnRow DEF Parts
<1>4. mix' \in MixOfTurns /\ mix'.transientMax = mix.transientMax
  BY MixFacts DEF Prompt, FirstTurn, Parts, WorldTyped
<1>5. CountPart'
  BY <1>1, <1>4, CountSame DEF Parts
<1>6. WorldTyped'
  BY <1>1, <1>4 DEF Prompt, FirstTurn, Parts, WorldTyped
<1> QED BY <1>2, <1>3, <1>5, <1>6 DEF Parts

LEMMA BackoffFiresInv ==
    ASSUME Parts, NEW f \in Followers, BackoffFires(f)
    PROVE  Parts'
<1>1. /\ f \in Idle /\ backoff.timers > 0
      /\ backoff' = [flag |-> FALSE, timers |-> backoff.timers - 1, tracked |-> FALSE]
      /\ UNCHANGED <<handle, counters, up, live, catchingUp, cmd, first, box, bridge, mix>>
      /\ transient' = transient \/ transient' = 0
  BY DEF BackoffFires
<1>2. CountPart'
  <2> DEFINE no == FALSE
             n == backoff.timers - 1
  <2>1. no \in BOOLEAN /\ ~no /\ n \in Nat /\ backoff' = [flag |-> no, timers |-> n, tracked |-> no]
    BY <1>1 DEF Parts, CountPart
  <2> HIDE DEF no, n
  <2>2. /\ backoff' \in [flag : BOOLEAN, timers : Nat, tracked : BOOLEAN]
        /\ ~backoff'.flag /\ ~backoff'.tracked
    BY <2>1, Backoffs
  <2>3. transient' \in 0 .. mix'.transientMax
    BY <1>1, MixFacts DEF Parts, CountPart, WorldTyped
  <2> QED BY <1>1, <2>2, <2>3 DEF Parts, CountPart, Timed
<1>3. WorldTyped'
  BY <1>1 DEF Parts, WorldTyped
<1>4. CASE ~row.ended /\ live
  <2>1. driveTurn(f, row, piQueue)
    BY <1>4 DEF BackoffFires
  <2>2. Shape' /\ Followed' /\ Goes(row, row', "running")
    BY <1>1, <2>1, OwnRow, BeginFacts DEF Parts, RowPart, RowTyped
  <2>3. RowPart'
    <3>1. "running" \in AgentStates \ {"paused"}
      BY DEF AgentStates, LIVE_STATES
    <3> QED BY <1>1, <2>2, <3>1, TurnRow DEF Parts
  <2> QED BY <1>2, <1>3, <2>2, <2>3 DEF Parts
<1>5. CASE row.ended \/ ~live
  <2>1. UNCHANGED <<row, driving, fol, piQueue>>
    BY <1>5 DEF BackoffFires
  <2>2. RowPart'
    BY <1>1, <2>1, RowSame DEF Parts
  <2>3. Shape'
    BY <1>1, <2>1, ShapeSame DEF Parts, QueueStays
  <2>4. Followed'
    BY <1>1, <1>5, <2>1 DEF Followed, Parts, RowPart, Locked
  <2> QED BY <1>2, <1>3, <2>2, <2>3, <2>4 DEF Parts
<1> QED BY <1>4, <1>5

-----------------------------------------------------------------------------
(* A row and a handle that say the same. *)
RowSound(r, h) ==
    /\ r \in Rows /\ h \in Outcomes \cup {"pending"}
    /\ h # "pending" <=> r.ended
    /\ r.outcome # "none" <=> r.ended
    /\ r.released => r.ended
    /\ r.state = "paused" => r.pausedFrom # "none"

LEMMA SoundGoes ==
    ASSUME NEW r, NEW h, RowSound(r, h), NEW s, NEW to, Goes(r, s, to),
           to # "paused" \/ to = r.state \/ s.pausedFrom # "none"
    PROVE  RowSound(s, h)
  BY DEF RowSound, Goes

LEMMA SoundEnds ==
    ASSUME NEW r, NEW h, RowSound(r, h), NEW s, NEW o \in Outcomes, Concluded(r, s, o)
    PROVE  RowSound(s, SettleIfPending(h, o)) /\ s.ended /\ s.state # "running"
<1>1. SettleIfPending(h, o) \in Outcomes /\ "pending" \notin Outcomes /\ "none" \notin Outcomes
  BY DEF RowSound, SettleIfPending, Outcomes
<1> QED BY <1>1 DEF RowSound, Concluded

LEMMA SoundReleased ==
    ASSUME NEW r, NEW h, RowSound(r, h), r.ended
    PROVE  RowSound(Released(r), h) /\ Released(r).ended
<1>1. Released(r) \in Rows /\ Released(r) = [r EXCEPT !.released = TRUE]
  BY RowOps DEF RowSound
<1> QED BY <1>1 DEF RowSound, Rows

LEMMA RowIsSound == RowPart => RowSound(row, handle)
  BY DEF RowPart, RowTyped, Settled, RowSound

(* While no command runs, that is all there is to say of the row. *)
LEMMA FreeRow ==
    ASSUME RowSound(row', handle'), cmd' = NoCmd, up' \in BOOLEAN, live' \in BOOLEAN,
           up' /\ ~row'.ended => live'
    PROVE  RowPart'
<1>1. NoCmd \in Locks /\ NoCmd.op = "none" /\ ~NoCmd.ended /\ NoCmd.state = "none"
  BY CountInits
<1> QED BY <1>1 DEF RowSound, RowPart, RowTyped, Settled, Locked

LEMMA DownIsFree == RowPart /\ ~up => cmd = NoCmd
  BY DEF RowPart, Locked

Commands == {"releasing", "aborting", "closing", "pausing", "resuming", "checking"}

LEMMA LockFacts ==
    ASSUME row \in Rows, NEW op \in Commands, Lock(op)
    PROVE  /\ cmd' \in Locks /\ cmd'.op = op /\ cmd' # NoCmd
           /\ cmd'.state = row.state /\ cmd'.state # "none" /\ cmd'.ended = row.ended
<1>1. cmd' = [op |-> op, state |-> row.state, ended |-> row.ended]
  BY DEF Lock
<1>2. row.state \in AgentStates /\ row.state # "none" /\ row.ended \in BOOLEAN /\ op # "none"
  BY DEF Rows, AgentStates, LIVE_STATES, Commands
<1>3. cmd'.op = op /\ cmd'.state = row.state /\ cmd'.ended = row.ended
  BY <1>1
<1>4. cmd' \in Locks
  BY <1>1, <1>2 DEF Locks, Commands
<1>5. cmd' # NoCmd
  BY <1>2, <1>3, CountInits
<1> QED BY <1>2, <1>3, <1>4, <1>5

(* A command takes the lock. *)
LEMMA LockedRow ==
    ASSUME RowPart, NEW op \in Commands, Lock(op), LockFree, live, UNCHANGED <<handle, up, live>>,
           op = "releasing" => row.ended,
           op = "resuming" => row.state = "paused",
           NEW to, Goes(row, row', to), to # "paused" \/ to = row.state
    PROVE  RowPart'
<1>1. /\ cmd' \in Locks /\ cmd'.op = op /\ cmd' # NoCmd
      /\ cmd'.state # "none" /\ cmd'.ended = row.ended /\ op # "none"
  BY LockFacts DEF RowPart, RowTyped, Commands
<1>2. RowSound(row', handle')
  BY RowIsSound, SoundGoes
<1>3. row'.ended = row.ended /\ (row.pausedFrom # "none" => row'.pausedFrom # "none")
  BY DEF Goes
<1>4. RowTyped'
  BY <1>1, <1>2 DEF RowSound, RowPart, RowTyped
<1>5. Settled'
  BY <1>1, <1>2, <1>3 DEF RowSound, Settled, RowPart
<1>6. Locked'
  BY <1>1, <1>3 DEF Locked, LockFree
<1> QED BY <1>4, <1>5, <1>6 DEF RowPart

LEMMA CancelCounts ==
    ASSUME CountPart, cancelBackoff, counters' = counters, mix' = mix, mix \in MixOfTurns
    PROVE  CountPart'
<1> DEFINE no == FALSE
           n == IF backoff.tracked THEN backoff.timers - 1 ELSE backoff.timers
<1>1. no \in BOOLEAN /\ ~no /\ n \in Nat
  BY DEF CountPart, Timed
<1>2. backoff' = [flag |-> no, timers |-> n, tracked |-> no]
  BY DEF cancelBackoff
<1> HIDE DEF no, n
<1>3. /\ backoff' \in [flag : BOOLEAN, timers : Nat, tracked : BOOLEAN]
      /\ ~backoff'.flag /\ ~backoff'.tracked
  BY <1>1, <1>2, Backoffs
<1>4. transient' \in 0 .. mix'.transientMax
  BY MixFacts DEF cancelBackoff
<1> QED BY <1>3, <1>4 DEF CountPart, Timed

-----------------------------------------------------------------------------
(* The steps of commands. *)
LEMMA ReleaseBeginInv ==
    ASSUME Parts, ReleaseBegin
    PROVE  Parts'
<1>1. RowPart'
  <2>1. Goes(row, row', row.state) /\ "releasing" \in Commands
    BY OwnRow DEF ReleaseBegin, durable, Parts, RowPart, RowTyped, Commands
  <2> QED BY <2>1, LockedRow DEF ReleaseBegin, durable, Parts
<1>2. CountPart'
  BY CancelCounts DEF ReleaseBegin, durable, Parts, WorldTyped
<1>3. Shape'
  BY ShapeSame DEF ReleaseBegin, boxVars, QueueStays, Parts
<1>4. WorldTyped'
  BY DEF ReleaseBegin, boxVars, Parts, WorldTyped
<1>5. Followed'
  BY DEF ReleaseBegin, durable, Followed
<1> QED BY <1>1, <1>2, <1>3, <1>4, <1>5 DEF Parts

LEMMA StopBeginInv ==
    ASSUME Parts, StopBegin
    PROVE  Parts'
<1> DEFINE op == IF row.state = "paused" THEN "closing" ELSE "aborting"
<1>1. Goes(row, row', "aborted")
  BY RowOps DEF StopBegin, Parts, RowPart, RowTyped
<1>2. RowPart'
  <2>1. op \in Commands /\ op # "releasing" /\ op # "resuming" /\ Lock(op)
    BY DEF Commands, StopBegin
  <2> HIDE DEF op
  <2> QED BY <1>1, <2>1, LockedRow DEF StopBegin, Parts
<1>3. CountPart'
  BY CancelCounts DEF StopBegin, Parts, WorldTyped
<1>4. Shape'
  BY ShapeSame DEF StopBegin, boxVars, QueueStays, Parts
<1>5. WorldTyped'
  BY DEF StopBegin, boxVars, Parts, WorldTyped
<1>6. Followed'
  BY <1>1 DEF Goes, Followed
<1> QED BY <1>2, <1>3, <1>4, <1>5, <1>6 DEF Parts

LEMMA StopAbortedInv ==
    ASSUME Parts, StopAborted
    PROVE  Parts'
<1>1. /\ cmd.op = "aborting" /\ cmd' = [cmd EXCEPT !.op = "closing"] /\ cmd \in Locks
      /\ UNCHANGED <<row, handle, up, live>>
  BY DEF StopAborted, durable, Parts, RowPart, RowTyped
<1>2. cmd' \in Locks /\ cmd'.op = "closing" /\ cmd'.state = cmd.state /\ cmd'.ended = cmd.ended
  BY <1>1 DEF Locks
<1>3. cmd' # NoCmd
  BY <1>2, CountInits
<1>4. RowPart'
  BY <1>1, <1>2, <1>3 DEF Parts, RowPart, RowTyped, Settled, Locked
<1>5. CountPart'
  BY CancelCounts DEF StopAborted, durable, Parts, WorldTyped
<1>6. Shape'
  BY ShapeSame DEF StopAborted, boxVars, QueueStays, Parts
<1>7. WorldTyped'
  BY DEF StopAborted, boxVars, Parts, WorldTyped
<1>8. Followed'
  BY <1>2 DEF Followed
<1> QED BY <1>4, <1>5, <1>6, <1>7, <1>8 DEF Parts

(* The sandbox is closed and forgotten. *)
LEMMA CloseInv ==
    ASSUME Parts, ReleaseEnd \/ StopEnd
    PROVE  Parts'
<1>1. /\ Close /\ cmd' = NoCmd /\ UNCHANGED <<counters, up, turnVars, first, mix>>
      /\ row \in Rows /\ up \in BOOLEAN
  BY DEF ReleaseEnd, StopEnd, Unlock, Parts, RowPart, RowTyped
<1>2. RowSound(row', handle') /\ row'.ended
  <2>1. RowSound(row, handle) /\ "aborted" \in Outcomes
    BY RowIsSound DEF Parts, Outcomes
  <2>2. CASE ReleaseEnd
    <3>1. row.ended /\ row' = Released(row) /\ handle' = handle
      BY <2>2 DEF ReleaseEnd, Parts, RowPart, Locked
    <3> QED BY <2>1, <3>1, SoundReleased
  <2>3. CASE StopEnd
    <3>1. Concluded(row, row', "aborted") /\ handle' = SettleIfPending(handle, "aborted")
      BY <1>1, <2>1, <2>3, RowOps DEF StopEnd
    <3> QED BY <2>1, <3>1, SoundEnds
  <2> QED BY <2>2, <2>3
<1>3. RowPart'
  BY <1>1, <1>2, FreeRow DEF Close
<1>4. CountPart'
  BY <1>1, CountSame DEF Parts, turnVars
<1>5. Shape'
  BY <1>1, ShapeSame DEF Close, turnVars, QueueStays, Parts
<1>6. WorldTyped'
  BY <1>1 DEF Close, Parts, WorldTyped
<1>7. Followed'
  BY <1>2 DEF Followed
<1> QED BY <1>3, <1>4, <1>5, <1>6, <1>7 DEF Parts

(* Commands that have only read the row yet. *)
LEMMA LockInv ==
    ASSUME Parts, PauseBegin \/ JoinPause \/ ResumeBegin
    PROVE  Parts'
<1>1. UNCHANGED <<durable, up, live, turnVars, boxVars>> /\ live /\ LockFree
  BY DEF PauseBegin, JoinPause, ResumeBegin
<1>2. cmd' = cmd \/ \E op \in {"pausing", "resuming"} : Lock(op) /\ (op = "resuming" => row.state = "paused")
  BY DEF PauseBegin, JoinPause, ResumeBegin
<1>3. RowPart'
  <2>1. CASE cmd' = cmd
    BY <1>1, <2>1, RowSame DEF durable, Parts
  <2>2. CASE \E op \in {"pausing", "resuming"} : Lock(op) /\ (op = "resuming" => row.state = "paused")
    <3>1. PICK op \in {"pausing", "resuming"} : Lock(op) /\ (op = "resuming" => row.state = "paused")
      BY <2>2
    <3>2. op \in Commands /\ op # "releasing"
      BY DEF Commands
    <3>3. Goes(row, row', row.state)
      BY <1>1, OwnRow DEF durable, Parts, RowPart, RowTyped
    <3> QED BY <1>1, <3>1, <3>2, <3>3, LockedRow DEF durable, Parts
  <2> QED BY <1>2, <2>1, <2>2
<1>4. mix' \in MixOfTurns /\ mix'.transientMax = mix.transientMax
  BY MixFacts DEF PauseBegin, JoinPause, ResumeBegin, Parts, WorldTyped
<1>5. CountPart'
  BY <1>1, <1>4, CountSame DEF Parts, turnVars, durable
<1>6. Shape' /\ Pollers' = Pollers /\ Drivers' = Drivers
  BY <1>1, ShapeSame DEF Parts, turnVars, boxVars, QueueStays
<1>7. WorldTyped'
  BY <1>1, <1>4 DEF PauseBegin, JoinPause, ResumeBegin, Parts, WorldTyped, boxVars
<1>8. Followed'
  <2>1. cmd.op = "none"
    BY <1>1, CountInits DEF LockFree
  <2> QED BY <1>1, <1>6, <2>1 DEF Parts, Followed, durable, turnVars
<1> QED BY <1>3, <1>5, <1>6, <1>7, <1>8 DEF Parts

LEMMA PauseEndInv ==
    ASSUME Parts, PauseEnd
    PROVE  Parts'
<1>1. /\ UNCHANGED <<handle, counters, up, live, turnVars, bridge, piQueue, mix>>
      /\ cmd' = NoCmd /\ cmd.op = "pausing" /\ up \in BOOLEAN /\ live \in BOOLEAN /\ live
  BY DEF PauseEnd, Unlock, Parts, RowPart, RowTyped, Locked
<1>2. /\ RowSound(row', handle') /\ row'.ended = row.ended
      /\ row' = row \/ row'.state = "paused"
  <2>1. RowSound(row, handle) /\ row \in Rows
    BY RowIsSound DEF Parts, RowPart, RowTyped
  <2>2. CASE row' = StateChanged(row, cmd.state, "paused")
    <3>1. cmd.state \in AgentStates
      BY <1>1 DEF Parts, RowPart, RowTyped, Locked, Locks
    <3>2. Goes(row, row', "paused") /\ row'.pausedFrom # "none"
      BY <2>1, <2>2, <3>1, RowOps
    <3> QED BY <1>1, <2>1, <3>2, SoundGoes DEF Goes
  <2>3. CASE row' = row
    BY <1>1, <2>1, <2>3
  <2> QED BY <2>2, <2>3 DEF PauseEnd
<1>3. RowPart'
  BY <1>1, <1>2, FreeRow
<1>4. CountPart'
  BY <1>1, CountSame DEF Parts, turnVars
<1>5. Shape' /\ Pollers' = Pollers /\ Drivers' = Drivers
  BY <1>1, ShapeSame DEF Parts, turnVars, QueueStays
<1>6. WorldTyped'
  BY <1>1 DEF PauseEnd, Parts, WorldTyped
<1>7. Followed'
  BY <1>1, <1>2, <1>5 DEF Parts, Followed, turnVars
<1> QED BY <1>3, <1>4, <1>5, <1>6, <1>7 DEF Parts

LEMMA ResumeThawedInv ==
    ASSUME Parts, ResumeThawed
    PROVE  Parts'
<1>1. /\ UNCHANGED <<handle, counters, up, live, turnVars, first, bridge, piQueue, mix>>
      /\ cmd.op = "resuming" /\ up \in BOOLEAN /\ live \in BOOLEAN /\ live /\ up
  BY DEF ResumeThawed, Parts, RowPart, RowTyped, Locked
<1>2. CountPart'
  BY <1>1, CountSame DEF Parts, turnVars
<1>3. Shape' /\ Pollers' = Pollers /\ Drivers' = Drivers
  BY <1>1, ShapeSame DEF Parts, turnVars, QueueStays
<1>4. WorldTyped'
  BY <1>1 DEF ResumeThawed, Parts, WorldTyped
<1>5. RowSound(row, handle) /\ row \in Rows /\ cmd \in Locks
  BY RowIsSound DEF Parts, RowPart, RowTyped
<1>6. CASE row' = row /\ cmd' = NoCmd
  <2>1. RowPart'
    BY <1>1, <1>5, <1>6, FreeRow
  <2>2. Followed'
    BY <1>1, <1>3, <1>6 DEF Parts, Followed, turnVars
  <2> QED BY <1>2, <1>3, <1>4, <2>1, <2>2 DEF Parts
<1>7. CASE /\ row' = StateChanged(row, "paused", row.pausedFrom)
           /\ cmd' = [cmd EXCEPT !.op = "checking", !.state = row.pausedFrom]
  <2>1. row.pausedFrom \in AgentStates /\ row.pausedFrom # "none"
    BY <1>1, <1>5 DEF Parts, RowPart, Settled, Rows
  <2>2. Goes(row, row', row.pausedFrom)
    BY <1>5, <1>7, <2>1, RowOps
  <2>3. cmd' \in Locks /\ cmd'.op = "checking" /\ cmd'.state = row.pausedFrom /\ cmd'.ended = cmd.ended
    BY <1>5, <1>7, <2>1 DEF Locks
  <2>4. cmd' # NoCmd
    BY <2>3, CountInits
  <2>5. RowSound(row', handle')
    BY <1>1, <1>5, <2>1, <2>2, SoundGoes DEF Goes
  <2>6. RowPart'
    BY <1>1, <2>1, <2>2, <2>3, <2>4, <2>5 DEF Parts, RowPart, RowTyped, Settled, Locked, RowSound, Goes
  <2>7. Followed'
    BY <2>2, <2>3 DEF Followed, Goes
  <2> QED BY <1>2, <1>3, <1>4, <2>6, <2>7 DEF Parts
<1> QED BY <1>6, <1>7 DEF ResumeThawed, Unlock

LEMMA ResumeBridgeLostInv ==
    ASSUME Parts, ResumeBridgeLost
    PROVE  Parts'
<1>1. /\ UNCHANGED <<counters, up, live, turnVars, first, boxVars, mix>>
      /\ cmd' = NoCmd /\ cmd.op = "checking" /\ up \in BOOLEAN /\ live \in BOOLEAN /\ live
  BY DEF ResumeBridgeLost, Unlock, Parts, RowPart, RowTyped, Locked
<1>2. RowSound(row', handle') /\ row'.ended
  <2>1. RowSound(row, handle) /\ row \in Rows /\ "lost" \in Outcomes
    BY RowIsSound DEF Parts, RowPart, RowTyped, Outcomes
  <2>2. CASE cmd.ended
    BY <2>1, <2>2 DEF ResumeBridgeLost, Parts, RowPart, Locked
  <2>3. CASE ~cmd.ended
    <3>1. Concluded(row, row', "lost") /\ handle' = SettleIfPending(handle, "lost")
      BY <2>1, <2>3, RowOps DEF ResumeBridgeLost
    <3> QED BY <2>1, <3>1, SoundEnds
  <2> QED BY <2>2, <2>3
<1>3. RowPart'
  BY <1>1, <1>2, FreeRow
<1>4. CountPart'
  BY <1>1, CountSame DEF Parts, turnVars
<1>5. Shape'
  BY <1>1, ShapeSame DEF Parts, turnVars, boxVars, QueueStays
<1>6. WorldTyped'
  BY <1>1 DEF Parts, WorldTyped, boxVars
<1>7. Followed'
  BY <1>2 DEF Followed
<1> QED BY <1>3, <1>4, <1>5, <1>6, <1>7 DEF Parts

(* The bridge is back: the turn is followed again, started, or somebody      *)
(* follows it already.                                                       *)
LEMMA ResumeCheckedInv ==
    ASSUME Parts, NEW f \in Followers, ResumeChecked(f)
    PROVE  Parts'
<1> DEFINE q == IF Reachable THEN piQueue ELSE <<>>
           r == SameContainer(row)
<1>1. /\ UNCHANGED <<handle, counters, up, backoff, transient, first, mix>>
      /\ cmd' = NoCmd /\ cmd.op = "checking" /\ up \in BOOLEAN /\ f \in Idle
      /\ live' = TRUE /\ box' = "running" /\ bridge' = TRUE
      /\ row \in Rows /\ driving \in BOOLEAN /\ catchingUp \in BOOLEAN
  BY DEF ResumeChecked, restartBridge, Unlock, Parts, RowPart, RowTyped, Shape
<1>2. Goes(row, r, row.state) /\ q \in {piQueue, <<>>}
  BY <1>1, RowOps
<1>3. ASSUME ~isTurnActive, catchUpTurn(f, TRUE, driving), piQueue' = q, row' = r, UNCHANGED driving
      PROVE  /\ Shape' /\ Followed'
             /\ Goes(row, row', row.state) \/ Goes(row, row', "running")
  <2>1. ~driving /\ ~catchingUp /\ ~backoff.flag
    BY <1>3 DEF isTurnActive
  <2>2. Moved(f, "poll") /\ catchingUp' = TRUE
    BY <1>3, <2>1, CatchMoves DEF Parts, Shape
  <2>3. Shape' /\ f \in Pollers'
    BY <1>1, <1>2, <1>3, <2>1, <2>2, ShapeCatches DEF Parts, QueueStays
  <2>4. Goes(row, row', row.state)
    BY <1>2, <1>3
  <2>5. Followed'
    BY <2>3 DEF Followed
  <2> QED BY <2>3, <2>4, <2>5
<1>4. ASSUME driveTurn(f, r, q), UNCHANGED catchingUp
      PROVE  /\ Shape' /\ Followed'
             /\ Goes(row, row', row.state) \/ Goes(row, row', "running")
  <2>1. Shape' /\ Followed' /\ Goes(row, row', "running")
    <3> HIDE DEF q, r
    <3> QED BY <1>1, <1>2, <1>4, BeginFacts
  <2> QED BY <2>1
<1>5. ASSUME ~(cmd.state = "running" /\ ~isTurnActive), piQueue' = q, row' = r,
             UNCHANGED <<driving, catchingUp, fol>>
      PROVE  /\ Shape' /\ Followed'
             /\ Goes(row, row', row.state) \/ Goes(row, row', "running")
  <2>1. Shape' /\ Pollers' = Pollers /\ Drivers' = Drivers
    BY <1>2, <1>5, ShapeSame DEF Parts, QueueStays
  <2>2. Goes(row, row', row.state)
    BY <1>2, <1>5
  <2>3. isTurnActive => Pollers # {} \/ Drivers # {} \/ backoff.timers > 0
    BY DEF isTurnActive, Parts, Shape, Polled, Driven, CountPart, Timed
  <2>4. Followed'
    BY <1>1, <1>5, <2>1, <2>2, <2>3 DEF Parts, Followed, Goes
  <2> QED BY <2>1, <2>2, <2>4
<1>6. /\ Shape' /\ Followed'
      /\ Goes(row, row', row.state) \/ Goes(row, row', "running")
  <2>1. \/ /\ ~isTurnActive /\ catchUpTurn(f, TRUE, driving)
           /\ piQueue' = q /\ row' = r /\ UNCHANGED driving
        \/ driveTurn(f, r, q) /\ UNCHANGED catchingUp
        \/ /\ ~(cmd.state = "running" /\ ~isTurnActive)
           /\ piQueue' = q /\ row' = r /\ UNCHANGED <<driving, catchingUp, fol>>
    BY Zenon DEF ResumeChecked
  <2> QED BY <2>1, <1>3, <1>4, <1>5
<1>7. RowPart'
  <2>1. RowSound(row', handle')
    BY <1>1, <1>6, RowIsSound, SoundGoes DEF Parts
  <2> QED BY <1>1, <2>1, FreeRow
<1>8. CountPart'
  BY <1>1, CountSame DEF Parts
<1>9. WorldTyped'
  BY <1>1 DEF Parts, WorldTyped
<1> QED BY <1>6, <1>7, <1>8, <1>9 DEF Parts

-----------------------------------------------------------------------------
(* Losses, a crash, and the boot after it. *)
LEMMA LossInv ==
    ASSUME Parts, BridgeDies \/ BoxLost
    PROVE  Parts'
<1>1. /\ UNCHANGED <<durable, up, live, turnVars, cmd, first>> /\ piQueue' = <<>>
      /\ bridge' = FALSE /\ box' \in {box, "gone"}
  BY DEF BridgeDies, BoxLost
<1>2. mix' \in MixOfTurns /\ mix'.transientMax = mix.transientMax
  BY MixFacts DEF BridgeDies, BoxLost, Parts, WorldTyped
<1>3. RowPart'
  BY <1>1, RowSame DEF durable, Parts
<1>4. CountPart'
  BY <1>1, <1>2, CountSame DEF durable, turnVars, Parts
<1>5. Shape' /\ Pollers' = Pollers /\ Drivers' = Drivers
  BY <1>1, ShapeSame DEF turnVars, QueueStays, Parts
<1>6. WorldTyped'
  BY <1>1, <1>2 DEF Parts, WorldTyped
<1>7. Followed'
  BY <1>1, <1>5 DEF Parts, Followed, durable, turnVars
<1> QED BY <1>3, <1>4, <1>5, <1>6, <1>7 DEF Parts

LEMMA CrashInv ==
    ASSUME Parts, Crash
    PROVE  Parts'
<1>1. /\ UNCHANGED <<row, handle, counters, box, bridge>> /\ up' = FALSE /\ live' = FALSE /\ cmd' = NoCmd
      /\ driving' = FALSE /\ catchingUp' = FALSE /\ backoff' = NoBackoff /\ transient' = 0
      /\ fol' = [f \in Followers |-> NoFollower]
      /\ first' = "started" /\ piQueue' = Orphaned(piQueue, Followers)
  BY DEF Crash, durable
<1>2. mix' \in MixOfTurns
  BY MixFacts DEF Crash, Parts, WorldTyped
<1>3. RowPart'
  <2>1. RowSound(row', handle')
    BY <1>1, RowIsSound DEF Parts
  <2> QED BY <1>1, <2>1, FreeRow
<1>4. CountPart'
  <2>1. transient' \in 0 .. mix'.transientMax
    BY <1>1, <1>2 DEF MixOfTurns
  <2> QED BY <1>1, <2>1, CountInits DEF Parts, CountPart, Timed
<1>5. Shape'
  <2>1. FolTyped' /\ \A f \in Followers : fol'[f].pc = "idle"
    BY <1>1, Fresh DEF FolTyped
  <2>2. Pollers' = {} /\ Drivers' = {} /\ Streaming' = {}
    BY <2>1 DEF Pollers, Drivers, Streaming, PollPcs, DrivePcs
  <2>3. Streams(piQueue', Streaming \ Followers) /\ Streaming \ Followers = {}
    BY <1>1, StreamsOrphaned DEF Parts, Shape, Streamed, Streaming
  <2> QED BY <1>1, <2>1, <2>2, <2>3 DEF Shape, Polled, Driven, Streamed
<1>6. WorldTyped'
  BY <1>1, <1>2 DEF Parts, WorldTyped
<1>7. Followed'
  BY <1>1 DEF Followed
<1> QED BY <1>3, <1>4, <1>5, <1>6, <1>7 DEF Parts

LEMMA BootInv ==
    ASSUME Parts, Boot
    PROVE  Parts'
<1>1. /\ ~up /\ up' = TRUE /\ cmd = NoCmd /\ cmd' = NoCmd /\ live \in BOOLEAN /\ row \in Rows
      /\ UNCHANGED <<counters, turnVars, first, mix>> /\ live' \in {live, TRUE} /\ QueueStays
  BY DownIsFree DEF Boot, BootSkips, BootReattachesPaused, BootFails, durable, boxVars, QueueStays,
                    Parts, RowPart, RowTyped
<1>2. RowSound(row, handle)
  BY RowIsSound DEF Parts
<1>3. RowSound(row', handle') /\ (row'.ended \/ (live' /\ row'.state # "running"))
  <2>1. CASE BootSkips
    <3>1. row.ended
      BY <1>2, <2>1 DEF BootSkips, Reconnectable, RowSound
    <3> QED BY <1>2, <2>1, <3>1 DEF BootSkips, durable
  <2>2. CASE BootReattachesPaused
    <3>1. Goes(row, row', row.state)
      BY <1>1, <2>2, RowOps, OwnRow DEF BootReattachesPaused
    <3> QED BY <1>2, <2>2, <3>1, SoundGoes DEF BootReattachesPaused, Goes
  <2>3. CASE BootFails
    <3>1. "lost" \in Outcomes
      BY DEF Outcomes
    <3>2. CASE row.ended
      BY <1>2, <2>3, <3>2, SoundReleased DEF BootFails
    <3>3. CASE ~row.ended
      <4>1. Concluded(row, row', "lost") /\ handle' = SettleIfPending(handle, "lost")
        BY <1>1, <2>3, <3>1, <3>3, RowOps DEF BootFails
      <4> QED BY <1>2, <3>1, <4>1, SoundEnds
    <3> QED BY <3>2, <3>3
  <2> QED BY <2>1, <2>2, <2>3 DEF Boot
<1>4. RowPart'
  BY <1>1, <1>3, FreeRow
<1>5. CountPart'
  BY <1>1, CountSame DEF Parts, turnVars
<1>6. Shape'
  BY <1>1, ShapeSame DEF Parts, turnVars
<1>7. WorldTyped'
  BY DEF Boot, BootSkips, BootReattachesPaused, BootFails, boxVars, Parts, WorldTyped
<1>8. Followed'
  BY <1>3 DEF Followed
<1> QED BY <1>4, <1>5, <1>6, <1>7, <1>8 DEF Parts

LEMMA BootReattachesInv ==
    ASSUME Parts, NEW f \in Followers, BootReattaches(f)
    PROVE  Parts'
<1>1. /\ ~up /\ up' = TRUE /\ cmd = NoCmd /\ cmd' = NoCmd /\ row \in Rows /\ f \in Idle
      /\ UNCHANGED <<handle, counters, driving, backoff, transient, first, mix>>
      /\ live' = TRUE /\ box' = "running" /\ bridge' = TRUE /\ QueueStays
      /\ row' = [row EXCEPT !.current = TRUE]
  BY DownIsFree DEF BootReattaches, restartBridge, boxVars, QueueStays, Parts, RowPart, RowTyped
<1>2. Goes(row, row', row.state)
  BY <1>1, RowOps
<1>3. RowPart'
  <2>1. RowSound(row', handle')
    BY <1>1, <1>2, RowIsSound, SoundGoes DEF Parts
  <2> QED BY <1>1, <2>1, FreeRow
<1>4. CountPart'
  BY <1>1, CountSame DEF Parts
<1>5. WorldTyped'
  BY <1>1 DEF Parts, WorldTyped
<1>6. CASE row.state = "running"
  <2>1. \/ /\ Moved(f, "idle") /\ catchingUp' = catchingUp
           /\ handle # "pending" \/ catchingUp \/ backoff.flag
        \/ Moved(f, "poll") /\ catchingUp' = TRUE /\ ~catchingUp
    BY <1>6, CatchMoves DEF BootReattaches, Parts, Shape
  <2>2. Shape' /\ Pollers \subseteq Pollers' /\ (Moved(f, "poll") => f \in Pollers')
    BY <1>1, <2>1, ShapeCatches DEF Parts
  <2>3. /\ handle # "pending" => row'.ended
        /\ catchingUp => Pollers # {}
        /\ backoff.flag => backoff.timers > 0
    BY <1>2 DEF Parts, RowPart, Settled, Shape, Polled, CountPart, Timed, Goes
  <2>4. Followed'
    BY <1>1, <2>1, <2>2, <2>3 DEF Followed
  <2> QED BY <1>3, <1>4, <1>5, <2>2, <2>4 DEF Parts
<1>7. CASE row.state # "running"
  <2>1. UNCHANGED <<fol, catchingUp>>
    BY <1>7 DEF BootReattaches
  <2>2. Shape'
    BY <1>1, <2>1, ShapeSame DEF Parts
  <2>3. Followed'
    BY <1>2, <1>7 DEF Followed, Goes
  <2> QED BY <1>3, <1>4, <1>5, <2>2, <2>3 DEF Parts
<1> QED BY <1>6, <1>7

-----------------------------------------------------------------------------
LEMMA InitInv == Init => IInv
<1> SUFFICES ASSUME Init PROVE Parts
  BY PartsOf
<1>1. mix \in MixOfTurns
  BY Limits DEF Init
<1>2. RowPart
  <2> DEFINE no == FALSE
             yes == TRUE
             none == "none"
             state == "provisioning"
  <2>1. /\ no \in BOOLEAN /\ ~no /\ yes \in BOOLEAN /\ yes
        /\ none \in Outcomes \cup {"none"} /\ none \in AgentStates \cup {"none"} /\ none = "none"
        /\ state \in AgentStates /\ state # "paused"
        /\ row = [state |-> state, outcome |-> none, ended |-> no,
                  pausedFrom |-> none, released |-> no, current |-> yes]
    BY DEF Init, Outcomes, AgentStates, LIVE_STATES
  <2> HIDE DEF no, yes, none, state
  <2>2. /\ row \in Rows /\ row.state = state /\ row.outcome = none /\ row.ended = no
        /\ row.released = no
    BY <2>1 DEF Rows
  <2>3. handle = "pending" /\ "pending" \notin Outcomes /\ cmd = NoCmd /\ up = TRUE /\ live = TRUE
    BY DEF Init, Outcomes
  <2>4. RowTyped /\ Settled /\ Locked
    BY <2>1, <2>2, <2>3, CountInits DEF RowTyped, Settled, Locked
  <2> QED BY <2>4 DEF RowPart
<1>3. WorldTyped
  BY <1>1 DEF Init, WorldTyped
<1>4. CountPart
  <2>1. counters \in [failures : Nat, retries : Nat]
    BY DEF Init
  <2>2. transient \in 0 .. mix.transientMax
    BY <1>1 DEF Init, MixOfTurns
  <2>3. backoff = NoBackoff
    BY DEF Init
  <2> QED BY <2>1, <2>2, <2>3, CountInits DEF CountPart, Timed
<1>5. Shape
  <2>1. FolTyped /\ \A f \in Followers : fol[f].pc = "idle"
    BY Fresh DEF Init, FolTyped
  <2>2. Pollers = {} /\ Drivers = {}
    BY <2>1 DEF Pollers, Drivers, PollPcs, DrivePcs
  <2>3. Streamed
    BY StreamsNone DEF Init, Streamed
  <2> QED BY <2>1, <2>2, <2>3 DEF Init, Shape, Polled, Driven
<1>6. Followed
  BY DEF Init, Followed
<1> QED BY <1>2, <1>3, <1>4, <1>5, <1>6 DEF Parts

LEMMA StepInv == IInv /\ [Next]_vars => IInv'
<1> SUFFICES ASSUME Parts, [Next]_vars PROVE Parts'
  BY PartsOf, PartsOfNext
<1>1. ASSUME NEW f \in Followers, FollowStep(f) PROVE Parts'
  BY <1>1, PromptInv, StreamEndsInv, StreamThrowsInv, StreamLostInv, SettleInv, ProbeInv,
     RestartBridgeInv, BackoffFiresInv, ResumeCheckedInv, BootReattachesInv DEF FollowStep
<1>2. CASE CommandStep
  BY <1>2, CloseInv, StopAbortedInv, PauseEndInv, ResumeThawedInv, ResumeBridgeLostInv DEF CommandStep
<1>3. CASE Ask
  BY <1>3, PromptInv, ReleaseBeginInv, StopBeginInv, LockInv DEF Ask
<1>4. CASE Boot
  BY <1>4, BootInv
<1>5. CASE OrphanEnds \/ BridgeDies \/ BoxLost \/ Crash
  BY <1>5, OrphanEndsInv, LossInv, CrashInv
<1>6. CASE UNCHANGED vars
  <2>1. Shape' /\ Pollers' = Pollers /\ Drivers' = Drivers
    BY <1>6, ShapeSame DEF vars, QueueStays, Parts
  <2> QED BY <1>6, <2>1, QuietInv DEF vars, Quiet, durable
<1> QED BY <1>1, <1>2, <1>3, <1>4, <1>5, <1>6 DEF Next

-----------------------------------------------------------------------------
(* Every variable keeps its type.                                            *)
THEOREM TurnsTyped == Spec => []TypeOK
<1>1. IInv => TypeOK
  BY DEF IInv
<1> QED BY <1>1, InitInv, StepInv, PTL DEF Spec

(* An agent that ended has a settled handle, and one that says `running' in  *)
(* its first life is followed by a stream, a poll loop, a retry timer or a   *)
(* command: across crashes, retries, pauses, stops and overlapping turns     *)
(* (stream.ts:222-479).                                                      *)
THEOREM NoTurnLost == Spec => []NoTurnOutOfSight
<1>1. IInv => NoTurnOutOfSight
  <2> SUFFICES ASSUME IInv PROVE NoTurnOutOfSight
    OBVIOUS
  <2>1. HandleSettledWhenEnded
    BY DEF IInv, Settled, HandleSettledWhenEnded
  <2>2. cmd.op \in {"closing", "checking"} => cmd # NoCmd
    BY CountInits
  <2>3. RunningIsFollowed
    BY <2>2 DEF IInv, Followed, RunningIsFollowed
  <2> QED BY <2>1, <2>3 DEF NoTurnOutOfSight
<1> QED BY <1>1, InitInv, StepInv, PTL DEF Spec

(* The `catchingUp' set says exactly whether a poll loop runs, and there is  *)
(* never a second one (stream.ts:388-479).                                   *)
THEOREM PollingOne == Spec => []PollingTracked
<1>1. IInv => PollingTracked
  <2> SUFFICES ASSUME IInv PROVE PollingTracked
    OBVIOUS
  <2>1. /\ \A f, g \in Pollers : f = g
        /\ catchingUp <=> Pollers # {}
    BY DEF IInv, Polled
  <2>2. Cardinality(Pollers) <= 1
    <3>1. CASE Pollers = {}
      BY <3>1, FS_EmptySet
    <3>2. CASE Pollers # {}
      <4>1. PICK f \in Pollers : TRUE
        BY <3>2
      <4>2. Pollers = {f}
        BY <2>1, <4>1
      <4> QED BY <4>2, FS_Singleton
    <3> QED BY <3>1, <3>2
  <2> QED BY <2>1, <2>2 DEF PollingTracked
<1> QED BY <1>1, InitInv, StepInv, PTL DEF Spec

-----------------------------------------------------------------------------
(* A follower that left. *)
LEMMA FewerFollow ==
    ASSUME FolTyped, NEW f \in Followers, fol[f].pc # "idle", Moved(f, "idle")
    PROVE  Cardinality(Drivers' \cup Pollers') < Cardinality(Drivers \cup Pollers)
<1> DEFINE T == Drivers \cup Pollers
           n == Cardinality(T)
<1>1. fol[f].pc \in PollPcs \cup DrivePcs
  BY DEF FolTyped, Follows, PollPcs, DrivePcs
<1>2. f \in T
  BY <1>1 DEF Drivers, Pollers
<1>3. Drivers' \cup Pollers' = T \ {f}
  BY MovedFacts DEF PollPcs, DrivePcs
<1>4. IsFiniteSet(T)
  <2>1. T \subseteq Followers
    BY DEF Drivers, Pollers
  <2> QED BY <2>1, Limits, FS_Subset
<1>5. Cardinality(T \ {f}) = n - 1 /\ n \in Nat
  BY <1>2, <1>4, FS_RemoveElement, FS_CardinalityType
<1> HIDE DEF T, n
<1>6. n - 1 < n
  BY <1>5
<1> QED BY <1>3, <1>5, <1>6 DEF T, n

(* The failures are counted only when a turn fails. *)
LEMMA FailuresGrow ==
    ASSUME Parts, [Next]_vars, counters'.failures > counters.failures
    PROVE  \E f \in Followers, code \in {"transient", "other"}, msg \in BOOLEAN :
             SettlesTurn(f) /\ TurnFailed(f, code, msg)
<1>1. counters.failures \in Nat
  BY DEF Parts, CountPart
<1>2. counters' # counters
  BY <1>1
<1>3. ASSUME NEW f \in Followers, FollowStep(f)
      PROVE  SettleDrive(f) \/ SettlePoll(f)
  BY <1>2, <1>3 DEF FollowStep, FirstTurn, StreamEnds, StreamThrows, StreamLost, ProbeGone, ProbePaused,
     ProbeAsk, ProbeAnswer, GiveUp, RestartBridge, BackoffFires, ResumeChecked, BootReattaches, durable
<1>4. ~(CommandStep \/ Boot)
  BY <1>2 DEF CommandStep, ReleaseEnd, StopAborted, StopEnd, PauseEnd, ResumeThawed, ResumeBridgeLost,
     Boot, BootSkips, BootReattachesPaused, BootFails, durable
<1>5. ~(Ask \/ OrphanEnds \/ BridgeDies \/ BoxLost \/ Crash \/ UNCHANGED vars)
  BY <1>2 DEF Ask, Prompt, ReleaseBegin, StopBegin, PauseBegin, JoinPause, ResumeBegin, OrphanEnds,
     BridgeDies, BoxLost, Crash, durable, vars
<1>6. PICK f \in Followers : SettleDrive(f) \/ SettlePoll(f)
  BY <1>3, <1>4, <1>5 DEF Next
<1>7. mix.prompt \in BOOLEAN
  BY MixFacts DEF Parts, WorldTyped
<1>8. ~TurnSucceeded(f)
  <2>1. ASSUME TurnSucceeded(f) PROVE FALSE
    <3>1. counters'.failures = 0
      BY <2>1 DEF TurnSucceeded
    <3> QED BY <1>1, <3>1
  <2> QED BY <2>1
<1>9. \E code \in {"transient", "other"}, msg \in BOOLEAN : TurnFailed(f, code, msg)
  BY <1>6, <1>7, <1>8 DEF SettleDrive, SettlePoll
<1>10. SettlesTurn(f)
  BY <1>6 DEF SettleDrive, SettlePoll, SettlesTurn
<1> QED BY <1>9, <1>10

(* The failure that reaches maxConsecutiveFailures holds the agent, starts   *)
(* no backoff, and its turn is followed by nobody: it is not sent again      *)
(* (supervision.ts:50-132, stream.ts:188-320).                               *)
THEOREM BreakerHolds == Spec => BreakerTrips
<1> DEFINE Trips ==
      counters'.failures > counters.failures /\ counters'.failures >= MaxConsecutiveFailures
        => /\ row'.state = "blocked" /\ backoff' = backoff
           /\ Cardinality(Drivers' \cup Pollers') < Cardinality(Drivers \cup Pollers)
<1>1. IInv /\ [Next]_vars => Trips
  <2> SUFFICES ASSUME Parts, [Next]_vars,
                      counters'.failures > counters.failures, counters'.failures >= MaxConsecutiveFailures
               PROVE  /\ row'.state = "blocked" /\ backoff' = backoff
                      /\ Cardinality(Drivers' \cup Pollers') < Cardinality(Drivers \cup Pollers)
    BY PartsOf
  <2>1. PICK f \in Followers, code \in {"transient", "other"}, msg \in BOOLEAN :
          SettlesTurn(f) /\ TurnFailed(f, code, msg)
    BY FailuresGrow
  <2> DEFINE d == Decision(code, msg)
  <2>2. /\ counters' = CountFailure(d)
        /\ backoff' = IF d = "backoff" THEN StartBackoff(backoff) ELSE backoff
        /\ d = "tripped" => /\ row' = StateChanged(row, row.state, "blocked")
                            /\ fol' = [fol EXCEPT ![f] = NoFollower]
    BY <2>1 DEF TurnFailed
  <2>3. d = "tripped"
    <3>1. counters.failures \in Nat
      BY DEF Parts, CountPart
    <3>2. counters'.failures = counters.failures + (IF d = "backoff" THEN 0 ELSE 1)
      BY <2>2 DEF CountFailure
    <3> HIDE DEF d
    <3>3. d # "backoff" /\ counters.failures + 1 >= MaxConsecutiveFailures
      BY <3>1, <3>2, Limits
    <3> QED BY <3>3, DecisionFacts DEF d
  <2> HIDE DEF d
  <2>4. row'.state = "blocked"
    <3>1. row \in Rows /\ row.state \in AgentStates
      BY DEF Parts, RowPart, RowTyped, Rows
    <3>2. row' = StateChanged(row, row.state, "blocked")
      BY <2>2, <2>3
    <3>3. Goes(row, row', "blocked")
      BY <3>1, <3>2, RowOps
    <3> QED BY <3>3 DEF Goes
  <2>5. Moved(f, "idle") /\ fol[f].pc # "idle" /\ FolTyped
    BY <2>1, <2>2, <2>3, MoveForms DEF SettlesTurn, Parts, Shape
  <2> QED BY <2>2, <2>3, <2>4, <2>5, FewerFollow
<1>2. IInv /\ [Next]_vars => [Trips]_vars
  BY <1>1
<1> QED BY <1>2, InitInv, StepInv, PTL DEF Spec, BreakerTrips

(* Once a stopped agent's sandbox is closed and no call is left in flight,   *)
(* nothing brings it back: no late timer, no command, no crash, no reboot    *)
(* (lifecycle.ts:43-86, rehydrate.ts:45-85).                                 *)
THEOREM StopIsFinal == Spec => StoppedStaysStopped
<1> DEFINE Stopped == /\ row.outcome = "aborted" /\ row.state = "aborted" /\ ~live /\ box = "gone"
                      /\ Pollers = {} /\ Drivers = {}
           Stays == Stopped => row' = row /\ ~live' /\ box' = "gone"
<1>1. IInv /\ [Next]_vars => Stays
  <2> SUFFICES ASSUME Parts, [Next]_vars, Stopped
               PROVE  row' = row /\ ~live' /\ box' = "gone"
    BY PartsOf
  <2>1. row.ended /\ cmd.op = "none" /\ row.state \notin LIVE_STATES
    BY DEF Parts, RowPart, Settled, Locked, LIVE_STATES
  <2>2. ~Reconnectable
    BY <2>1 DEF Reconnectable
  <2>3. \A f \in Followers : fol[f].pc \notin PollPcs /\ fol[f].pc \notin DrivePcs
    BY DEF Pollers, Drivers
  <2>4. piQueue # <<>> => Head(piQueue) \notin Followers
    <3>1. Streaming = {}
      BY DEF Streaming, Drivers, DrivePcs
    <3> QED BY <3>1, Limits, StreamsTail DEF Parts, Shape, Streamed
  <2>5. ASSUME NEW f \in Followers, FollowStep(f) PROVE BackoffFires(f)
    BY <2>1, <2>2, <2>3, <2>4, <2>5 DEF FollowStep, FirstTurn, StreamEnds, StreamThrows, StreamLost,
       SettleDrive, ProbeGone, ProbePaused, ProbeAsk, ProbeAnswer, GiveUp, RestartBridge, SettlePoll,
       ResumeChecked, BootReattaches, PollPcs, DrivePcs
  <2>6. ASSUME NEW f \in Followers, BackoffFires(f) PROVE UNCHANGED <<row, live, box>>
    BY <2>1, <2>6 DEF BackoffFires
  <2>7. ~CommandStep
    BY <2>1 DEF CommandStep, ReleaseEnd, StopAborted, StopEnd, PauseEnd, ResumeThawed, ResumeBridgeLost
  <2>8. ~Ask
    BY DEF Ask, Prompt, ReleaseBegin, StopBegin, PauseBegin, JoinPause, ResumeBegin
  <2>9. ASSUME Boot PROVE UNCHANGED <<row, live, box>>
    BY <2>2, <2>9 DEF Boot, BootSkips, BootReattachesPaused, BootFails, durable, boxVars
  <2>10. ASSUME OrphanEnds \/ BridgeDies \/ BoxLost \/ UNCHANGED vars PROVE row' = row /\ ~live' /\ box' = "gone"
    BY <2>10 DEF OrphanEnds, BridgeDies, BoxLost, durable, vars
  <2>11. ASSUME Crash PROVE row' = row /\ ~live' /\ box' = "gone"
    BY <2>11 DEF Crash, durable
  <2> QED BY <2>5, <2>6, <2>7, <2>8, <2>9, <2>10, <2>11 DEF Next
<1>2. IInv /\ [Next]_vars => [Stays]_vars
  BY <1>1
<1> QED BY <1>2, InitInv, StepInv, PTL DEF Spec, StoppedStaysStopped
=============================================================================
