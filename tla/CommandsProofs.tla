--------------------------- MODULE CommandsProofs ---------------------------
(***************************************************************************)
(* For any requests, keys and crashes: a command that is sent again with   *)
(* its key acts once and has one outcome, and the commands under an        *)
(* agent's lock act one after the other (CommandsAreIdempotent and         *)
(* OneUnderTheLock).                                                       *)
(*                                                                         *)
(* The row of a key serializes its requests, lock or none: who acts has    *)
(* found no row and has left "pending". When the rows are deleted with the *)
(* agent, a request may find none again; by then the agent is ended and    *)
(* not live, for ever, and it is refused before it calls anything.         *)
(***************************************************************************)
EXTENDS Commands, SequenceTheorems, TLAPS

Acting(r) == pc[r] \in {"acting", "calling", "releasing"}
Calling(r) == pc[r] \in {"calling", "releasing"}
HasOutcome(r) == answer[r] \notin {None, "in flight"}


(* A spawn never waits or acts; only the stop of an agent that has ended     *)
(* releases it; who is still looking has polls left.                         *)
Placed ==
    \A r \in Requests :
        /\ InFlight(r) => Command(r) \notin {"spawn", None}
        /\ pc[r] = "releasing" => Command(r) = "stop" /\ ended
        /\ pc[r] = "new" => polls[r] = 0
        /\ pc[r] = "reserving" => polls[r] < MaxPolls

(* x is in the sequence s. *)
In(x, s) == \E i \in DOMAIN s : s[i] = x

(* Who holds the lock is the head of its queue, where everybody is who needs *)
(* it.                                                                       *)
Queued ==
    \A r \in Requests :
        /\ Locked(r) /\ InFlight(r) => In(r, queue)
        /\ Locked(r) /\ Acting(r) => queue # <<>> /\ Head(queue) = r

(* Keys are only wiped with their agent, and those of spawns never are.      *)
WipedWithAgent ==
    /\ wiped # {} => ended /\ ~live
    /\ \A k \in wiped : k[1] # "spawn"
    /\ \A k \in halved : k[1] = "spawn"

(* The row of a key that was not wiped tells what its requests have done.    *)
RowsTell ==
    /\ \A r \in Requests : Acting(r) /\ Key(r) \notin wiped =>
           table[Key(r)] = "pending" /\ effects[Key(r)] = 0
    /\ \A r, s \in Requests : Acting(r) /\ Acting(s) /\ Key(r) = Key(s) /\ Key(r) \notin wiped => r = s
    /\ \A r \in Requests : HasOutcome(r) /\ Command(r) # "spawn" /\ Key(r) \notin wiped =>
           table[Key(r)] = answer[r]
    /\ \A k \in Keys \ (wiped \cup halved) : table[k] = None => effects[k] = 0

(* Wiped or not, one at most calls, of a command that has had no effect.     *)
OneCalls ==
    /\ \A r \in Requests : Calling(r) => effects[Key(r)] = 0
    /\ \A r, s \in Requests : Calling(r) /\ Calling(s) /\ Key(r) = Key(s) => r = s

IInv == CommandsTypeOK /\ Placed /\ Queued /\ WipedWithAgent /\ RowsTell /\ OneCalls /\ ActsOnce

(* The commands that pause, resume and stop an agent act one after the other *)
(* (agent-lock.ts).                                                          *)
OneUnderTheLock ==
    \A r, s \in Requests : Locked(r) /\ Locked(s) /\ Acting(r) /\ Acting(s) => r = s

-----------------------------------------------------------------------------
(* What is assumed of the constants. *)
LEMMA PollsAssumption == MaxPolls \in Nat /\ MaxPolls > 0
<1>1. MaxPolls \in Nat \ {0}
  BY CommandsAssumption, Zenon DEF CommandsAssumption
<1> QED BY <1>1

LEMMA NoneAssumption == None \notin Verdicts /\ None # "pending" /\ None # "released" /\ None # "in flight"
  BY CommandsAssumption, Zenon DEF CommandsAssumption

LEMMA MixAssumption == Mixes \subseteq MixOfCommands
  BY CommandsAssumption, Zenon DEF CommandsAssumption

(* The queue of the lock. *)
LEMMA ShiftFacts ==
    ASSUME NEW S, NEW s \in Seq(S), NEW x \in S, In(x, s)
    PROVE  /\ s # <<>> /\ Tail(s) \in Seq(S)
           /\ x # Head(s) => In(x, Tail(s))
<1>1. s # <<>>
  BY DEF In
<1>2. /\ Len(s) \in Nat \ {0} /\ Head(s) = s[1] /\ DOMAIN s = 1 .. Len(s)
      /\ Tail(s) \in Seq(S) /\ Len(Tail(s)) = Len(s) - 1 /\ DOMAIN Tail(s) = 1 .. Len(s) - 1
      /\ \A i \in 1 .. Len(s) - 1 : Tail(s)[i] = s[i + 1]
  BY <1>1
<1>3. ASSUME x # Head(s)
      PROVE  In(x, Tail(s))
  <2>1. PICK i \in DOMAIN s : s[i] = x
    BY DEF In
  <2>2. i \in 2 .. Len(s)
    BY <1>2, <1>3, <2>1
  <2>3. i - 1 \in 1 .. Len(s) - 1 /\ (i - 1) + 1 = i
    BY <1>2, <2>2
  <2> QED BY <1>2, <2>1, <2>3 DEF In
<1> QED BY <1>1, <1>2, <1>3

LEMMA PushFacts ==
    ASSUME NEW S, NEW s \in Seq(S), NEW x \in S
    PROVE  /\ Append(s, x) \in Seq(S)
           /\ In(x, Append(s, x))
           /\ \A y : In(y, s) => In(y, Append(s, x))
           /\ s # <<>> => Append(s, x) # <<>> /\ Head(Append(s, x)) = Head(s)
<1>1. /\ Append(s, x) \in Seq(S) /\ Len(s) \in Nat
      /\ DOMAIN s = 1 .. Len(s) /\ DOMAIN Append(s, x) = 1 .. Len(s) + 1
      /\ Append(s, x)[Len(s) + 1] = x
      /\ \A i \in 1 .. Len(s) : Append(s, x)[i] = s[i]
  OBVIOUS
<1>2. s # <<>> => Append(s, x) # <<>> /\ Head(Append(s, x)) = Head(s)
  OBVIOUS
<1> QED BY <1>1, <1>2 DEF In

(* What a key is made of. *)
LEMMA KeyFacts ==
    ASSUME mix \in MixOfCommands
    PROVE  /\ \A r \in Requests : /\ Key(r) \in Keys /\ Key(r)[1] = Command(r)
                                  /\ Command(r) \in {"pause", "resume", "stop", "steer", "spawn", None}
           /\ \A r, s \in Requests : Key(r) = Key(s) => Command(r) = Command(s)
<1>1. mix.command \in [Requests -> {"pause", "resume", "stop", "steer", "spawn", None}]
  BY DEF MixOfCommands
<1> QED BY <1>1 DEF Keys, Key, Command

(* No step changes the commands and their keys. *)
LEMMA SameKeys ==
    ASSUME mix'.command = mix.command, mix'.key = mix.key
    PROVE  /\ Keys' = Keys
           /\ \A r \in Requests : Key(r)' = Key(r) /\ Command(r)' = Command(r) /\ Locked(r)' = Locked(r)
  BY DEF Keys, Key, Command, Locked

(* Who is answered leaves the queue, and the head of the queue is who it was *)
(* for the others, none of whom held the lock.                               *)
LEMMA AnswerFacts ==
    ASSUME CommandsTypeOK, Queued, NEW r \in Requests, UNCHANGED mix,
           NEW a \in Verdicts \cup {"released", "in flight"}, Answer(r, a),
           Locked(r) => InFlight(r) /\ Head(queue) = r
    PROVE  /\ queue' \in Seq(Requests)
           /\ answer' = [answer EXCEPT ![r] = a]
           /\ answer' \in [Requests -> Verdicts \cup {None, "released", "in flight"}]
           /\ pc' = [pc EXCEPT ![r] = "answered"]
           /\ pc' \in [Requests -> {"new", "reserving", "acting", "calling", "releasing", "answered", "lost"}]
           /\ Queued'
<1>1. /\ queue \in Seq(Requests)
      /\ pc \in [Requests -> {"new", "reserving", "acting", "calling", "releasing", "answered", "lost"}]
      /\ answer \in [Requests -> Verdicts \cup {None, "released", "in flight"}]
  BY DEF CommandsTypeOK
<1>2. /\ pc' = [pc EXCEPT ![r] = "answered"]
      /\ answer' = [answer EXCEPT ![r] = a]
      /\ queue' = IF Locked(r) THEN Tail(queue) ELSE queue
  BY DEF Answer
<1>3. \A s \in Requests : Locked(s)' = Locked(s)
  BY SameKeys
<1>4. CASE ~Locked(r)
  <2>1. queue' = queue
    BY <1>2, <1>4
  <2>2. \A s \in Requests : Locked(s) => pc'[s] = pc[s]
    BY <1>1, <1>2, <1>4
  <2>3. Queued'
    BY <1>3, <2>1, <2>2 DEF Queued, InFlight, Acting
  <2> QED BY <1>1, <1>2, <2>1, <2>3
<1>5. CASE Locked(r)
  <2>1. Head(queue) = r /\ InFlight(r)
    BY <1>5
  <2>2. In(r, queue) /\ queue # <<>> /\ queue' = Tail(queue) /\ Tail(queue) \in Seq(Requests)
    BY <1>1, <1>2, <1>5, <2>1, ShiftFacts DEF Queued
  <2>3. ASSUME NEW s \in Requests, Locked(s), InFlight(s)'
        PROVE  In(s, queue') /\ ~Acting(s)'
    <3>1. s # r /\ pc'[s] = pc[s]
      BY <1>1, <1>2, <2>3 DEF InFlight
    <3>2. In(s, queue)
      BY <2>3, <3>1 DEF Queued, InFlight
    <3>3. In(s, Tail(queue))
      BY <1>1, <2>1, <3>1, <3>2, ShiftFacts
    <3>5. ~Acting(s)
      BY <2>1, <2>3, <3>1 DEF Queued
    <3> QED BY <2>2, <3>1, <3>3, <3>5 DEF Acting
  <2>4. Queued'
    BY <1>3, <2>3 DEF Queued, InFlight, Acting
  <2> QED BY <1>1, <1>2, <2>2, <2>4
<1> QED BY <1>4, <1>5

-----------------------------------------------------------------------------
LEMMA InitInv == CommandsInit => IInv
<1> SUFFICES ASSUME CommandsInit PROVE IInv
  OBVIOUS
<1>1. mix \in MixOfCommands
  BY MixAssumption DEF CommandsInit
<1>2. CommandsTypeOK
  <2>1. queue \in Seq(Requests) /\ polls \in [Requests -> 0 .. MaxPolls]
    BY PollsAssumption DEF CommandsInit
  <2> QED BY <1>1, <2>1 DEF CommandsInit, CommandsTypeOK
<1>3. /\ pc = [r \in Requests |-> "new"] /\ polls = [r \in Requests |-> 0] /\ answer = [r \in Requests |-> None]
      /\ effects = [k \in Keys |-> 0] /\ wiped = {} /\ halved = {}
  BY DEF CommandsInit
<1>4. Placed /\ Queued /\ OneCalls
  BY <1>3 DEF Placed, Queued, OneCalls, InFlight, Acting, Calling
<1>5. WipedWithAgent /\ ActsOnce
  BY <1>3 DEF WipedWithAgent, ActsOnce
<1>6. RowsTell
  BY <1>3 DEF RowsTell, Acting, HasOutcome
<1> QED BY <1>2, <1>4, <1>5, <1>6 DEF IInv

LEMMA ArriveInv ==
    ASSUME IInv, NEW r \in Requests, Arrive(r)
    PROVE  IInv'
<1>1. /\ CommandsTypeOK /\ Placed /\ Queued /\ WipedWithAgent /\ RowsTell /\ OneCalls /\ ActsOnce
  BY DEF IInv
<1>2. /\ pc[r] = "new" /\ pc' = [pc EXCEPT ![r] = "reserving"]
      /\ queue' = IF Locked(r) THEN Append(queue, r) ELSE queue
      /\ Command(r) \notin {"spawn", None}
      /\ UNCHANGED <<mix, up, live, ended, paused, table, polls, answer, effects, wiped, halved>>
  BY DEF Arrive, agent, history
<1>3. /\ Keys' = Keys
      /\ \A s \in Requests : Key(s)' = Key(s) /\ Command(s)' = Command(s) /\ Locked(s)' = Locked(s)
  BY <1>2, SameKeys
<1>4. /\ queue \in Seq(Requests)
      /\ pc \in [Requests -> {"new", "reserving", "acting", "calling", "releasing", "answered", "lost"}]
  BY <1>1 DEF CommandsTypeOK
<1>5. CommandsTypeOK'
  <2>1. queue' \in Seq(Requests) /\ pc' \in [Requests -> {"new", "reserving", "acting", "calling", "releasing", "answered", "lost"}]
    BY <1>2, <1>4
  <2> QED BY <1>1, <1>2, <1>3, <2>1 DEF CommandsTypeOK
<1>6. Placed'
  <2>1. MaxPolls > 0
    BY PollsAssumption
  <2>2. ASSUME NEW s \in Requests
        PROVE  /\ pc'[s] \in {"reserving", "acting", "calling", "releasing"} => Command(s) \notin {"spawn", None}
               /\ pc'[s] = "releasing" => Command(s) = "stop" /\ ended
               /\ pc'[s] = "new" => polls[s] = 0
               /\ pc'[s] = "reserving" => polls[s] < MaxPolls
    BY <1>1, <1>2, <1>4, <2>1 DEF Placed, InFlight
  <2> QED BY <1>2, <1>3, <2>2 DEF Placed, InFlight
<1>7. Queued'
  <2>1. ASSUME NEW s \in Requests, Locked(s), InFlight(s)'
        PROVE  In(s, queue') /\ (Acting(s)' => queue' # <<>> /\ Head(queue') = s)
    <3>1. CASE s = r
      <4>1. queue' = Append(queue, r) /\ pc'[s] = "reserving"
        BY <1>2, <1>4, <2>1, <3>1
      <4> QED BY <1>4, <3>1, <4>1, PushFacts DEF Acting
    <3>2. CASE s # r
      <4>1. pc'[s] = pc[s]
        BY <1>2, <1>4, <3>2
      <4>2. /\ In(s, queue)
            /\ Acting(s) => queue # <<>> /\ Head(queue) = s
        BY <1>1, <2>1, <4>1 DEF Queued, InFlight
      <4>3. CASE ~Locked(r)
        BY <1>2, <4>1, <4>2, <4>3 DEF Acting
      <4>4. CASE Locked(r)
        BY <1>2, <1>4, <4>1, <4>2, <4>4, PushFacts DEF Acting
      <4> QED BY <4>3, <4>4
    <3> QED BY <3>1, <3>2
  <2> QED BY <1>3, <2>1 DEF Queued, Acting, InFlight
<1>8. WipedWithAgent' /\ ActsOnce'
  BY <1>1, <1>2, <1>3 DEF WipedWithAgent, ActsOnce
<1>9. \A s \in Requests : (Acting(s)' <=> Acting(s)) /\ (Calling(s)' <=> Calling(s)) /\ (HasOutcome(s)' <=> HasOutcome(s))
  BY <1>2, <1>4 DEF Acting, Calling, HasOutcome
<1>10. RowsTell' /\ OneCalls'
  BY <1>1, <1>2, <1>3, <1>9 DEF RowsTell, OneCalls
<1> QED BY <1>5, <1>6, <1>7, <1>8, <1>10 DEF IInv

PCs == {"new", "reserving", "acting", "calling", "releasing", "answered", "lost"}

(* Who acts and is answered records its answer in the row it left "pending", *)
(* which nobody has read an outcome from.                                    *)
LEMMA ConcludeInv ==
    ASSUME IInv, NEW r \in Requests, Acting(r), NEW a \in Verdicts, Conclude(r, a),
           UNCHANGED <<mix, polls, wiped, halved>>,
           effects' = effects \/ (Calling(r) /\ Takes(r)),
           up' \in BOOLEAN, live' \in BOOLEAN, ended' \in BOOLEAN, paused' \in BOOLEAN,
           ended => ended', live' => live
    PROVE  IInv'
<1>1. CommandsTypeOK /\ Placed /\ Queued /\ WipedWithAgent /\ RowsTell /\ OneCalls /\ ActsOnce
  BY DEF IInv
<1>2. /\ Keys' = Keys
      /\ \A s \in Requests : Key(s)' = Key(s) /\ Command(s)' = Command(s) /\ Locked(s)' = Locked(s)
  BY SameKeys
<1>3. InFlight(r) /\ (Locked(r) => Head(queue) = r) /\ Command(r) \notin {"spawn", None}
  BY <1>1 DEF Acting, InFlight, Queued, Placed
<1>4. /\ table \in [Keys -> Verdicts \cup {None, "pending"}] /\ effects \in [Keys -> Nat]
      /\ pc \in [Requests -> PCs]
      /\ answer \in [Requests -> Verdicts \cup {None, "released", "in flight"}]
      /\ mix \in MixOfCommands
  BY <1>1 DEF CommandsTypeOK, PCs
<1>5. /\ queue' \in Seq(Requests) /\ Queued'
      /\ answer' = [answer EXCEPT ![r] = a] /\ pc' = [pc EXCEPT ![r] = "answered"]
      /\ answer' \in [Requests -> Verdicts \cup {None, "released", "in flight"}]
      /\ pc' \in [Requests -> PCs]
  BY <1>1, <1>3, AnswerFacts DEF Conclude, PCs
<1>6. /\ \A s \in Requests : /\ Key(s) \in Keys /\ Key(s)[1] = Command(s)
                             /\ Key(s) = Key(r) => Command(s) = Command(r)
  BY <1>4, KeyFacts
<1>7. table' = [table EXCEPT ![Key(r)] = IF @ = None THEN None ELSE a]
  BY DEF Conclude, Record
<1>8. /\ effects' \in [Keys -> Nat]
      /\ \A k \in Keys : k # Key(r) => effects'[k] = effects[k]
      /\ effects'[Key(r)] = effects[Key(r)] \/ (Calling(r) /\ effects[Key(r)] = 0 /\ effects'[Key(r)] = 1)
  <2>1. CASE effects' = effects
    BY <1>4, <2>1
  <2>2. CASE Calling(r) /\ Takes(r)
    <3>1. effects[Key(r)] = 0 /\ Key(r) \in Keys
      BY <1>1, <1>6, <2>2 DEF OneCalls
    <3>2. effects' = [effects EXCEPT ![Key(r)] = @ + 1]
      BY <2>2 DEF Takes
    <3>3. effects' \in [Keys -> Nat] /\ effects'[Key(r)] = 1 /\ \A k \in Keys : k # Key(r) => effects'[k] = effects[k]
      <4>1. effects \in [Keys -> Nat]
        BY <1>4
      <4> QED BY <3>1, <3>2, <4>1
    <3> QED BY <2>2, <3>1, <3>3, Zenon
  <2> QED BY <2>1, <2>2
<1>9. CommandsTypeOK'
  <2>1. table' \in [Keys -> Verdicts \cup {None, "pending"}]
    BY <1>4, <1>7
  <2> QED BY <1>1, <1>2, <1>5, <1>8, <2>1 DEF CommandsTypeOK, PCs
<1>10. Placed'
  BY <1>1, <1>2, <1>4, <1>5 DEF Placed, InFlight
<1>11. WipedWithAgent'
  BY <1>1 DEF WipedWithAgent
<1>12. \A s \in Requests : /\ ~Acting(r)' /\ ~Calling(r)'
                           /\ s # r => /\ Acting(s)' = Acting(s) /\ Calling(s)' = Calling(s)
                                       /\ answer'[s] = answer[s]
  BY <1>4, <1>5 DEF Acting, Calling
<1>13. \A k \in Keys : k # Key(r) => table'[k] = table[k]
  BY <1>4, <1>7
<1>14. Key(r) \notin wiped => table[Key(r)] = "pending" /\ table'[Key(r)] = a /\ a # None
  BY <1>1, <1>4, <1>6, <1>7, NoneAssumption DEF RowsTell
<1>15. RowsTell'
  <2>1. ASSUME NEW s \in Requests, Acting(s)', Key(s) \notin wiped
        PROVE  /\ table'[Key(s)] = "pending" /\ effects'[Key(s)] = 0
               /\ \A t \in Requests : Acting(t)' /\ Key(s) = Key(t) => s = t
    <3>1. s # r /\ Acting(s)
      BY <1>12, <2>1
    <3>2. Key(s) # Key(r)
      BY <1>1, <2>1, <3>1 DEF RowsTell
    <3>3. table[Key(s)] = "pending" /\ effects[Key(s)] = 0
      BY <1>1, <2>1, <3>1 DEF RowsTell
    <3>4. \A t \in Requests : Acting(t)' /\ Key(s) = Key(t) => s = t
      BY <1>1, <1>12, <2>1, <3>1 DEF RowsTell
    <3> QED BY <1>6, <1>8, <1>13, <3>2, <3>3, <3>4
  <2>2. ASSUME NEW s \in Requests, HasOutcome(s)', Command(s) # "spawn", Key(s) \notin wiped
        PROVE  table'[Key(s)] = answer'[s]
    <3>1. CASE s = r
      BY <1>4, <1>5, <1>14, <2>2, <3>1
    <3>2. CASE s # r
      <4>1. HasOutcome(s) /\ table[Key(s)] = answer[s]
        BY <1>1, <1>12, <2>2, <3>2 DEF RowsTell, HasOutcome
      <4>2. answer[s] # "pending"
        BY <1>4, NoneAssumption DEF Verdicts
      <4>3. Key(s) # Key(r)
        BY <1>14, <2>2, <4>1, <4>2
      <4> QED BY <1>6, <1>12, <1>13, <3>2, <4>1, <4>3
    <3> QED BY <3>1, <3>2
  <2>3. \A k \in Keys \ (wiped \cup halved) : table'[k] = None => effects'[k] = 0
    BY <1>1, <1>8, <1>13, <1>14 DEF RowsTell
  <2> QED BY <1>2, <2>1, <2>2, <2>3 DEF RowsTell
<1>16. OneCalls'
  <2>1. ASSUME NEW s \in Requests, Calling(s)'
        PROVE  /\ effects'[Key(s)] = 0
               /\ \A t \in Requests : Calling(t)' /\ Key(s) = Key(t) => s = t
    <3>1. s # r /\ Calling(s)
      BY <1>12, <2>1
    <3>2. effects[Key(s)] = 0
      BY <1>1, <3>1 DEF OneCalls
    <3>3. Key(s) = Key(r) => ~Calling(r)
      BY <1>1, <3>1 DEF OneCalls
    <3>4. \A t \in Requests : Calling(t)' /\ Key(s) = Key(t) => s = t
      BY <1>1, <1>12, <3>1 DEF OneCalls
    <3> QED BY <1>6, <1>8, <3>2, <3>3, <3>4
  <2> QED BY <1>2, <2>1 DEF OneCalls
<1>17. ActsOnce'
  BY <1>1, <1>2, <1>6, <1>8 DEF ActsOnce
<1> QED BY <1>5, <1>9, <1>10, <1>11, <1>15, <1>16, <1>17 DEF IInv

LEMMA ReserveInv ==
    ASSUME IInv, NEW r \in Requests, Reserve(r)
    PROVE  IInv'
<1>1. CommandsTypeOK /\ Placed /\ Queued /\ WipedWithAgent /\ RowsTell /\ OneCalls /\ ActsOnce
  BY DEF IInv
<1>2. pc[r] = "reserving" /\ UNCHANGED <<mix, up, live, ended, paused, effects, wiped, halved>>
      /\ (Locked(r) => Head(queue) = r)
  BY DEF Reserve, agent, history
<1>3. /\ Keys' = Keys
      /\ \A s \in Requests : Key(s)' = Key(s) /\ Command(s)' = Command(s) /\ Locked(s)' = Locked(s)
  BY <1>2, SameKeys
<1>4. /\ table \in [Keys -> Verdicts \cup {None, "pending"}] /\ effects \in [Keys -> Nat]
      /\ pc \in [Requests -> PCs] /\ polls \in [Requests -> 0 .. MaxPolls]
      /\ answer \in [Requests -> Verdicts \cup {None, "released", "in flight"}]
      /\ queue \in Seq(Requests)
      /\ mix \in MixOfCommands
  BY <1>1 DEF CommandsTypeOK, PCs
<1>5. /\ \A s \in Requests : /\ Key(s) \in Keys /\ Key(s)[1] = Command(s)
                             /\ Key(s) = Key(r) => Command(s) = Command(r)
  BY <1>4, KeyFacts
<1>6. Command(r) \notin {"spawn", None} /\ polls[r] < MaxPolls /\ InFlight(r) /\ ~Acting(r) /\ ~Calling(r)
  BY <1>1, <1>2 DEF Placed, InFlight, Acting, Calling
<1>7. WipedWithAgent' /\ ActsOnce'
  BY <1>1, <1>2, <1>3 DEF WipedWithAgent, ActsOnce
<1>8. CASE table[Key(r)] = None
  <2>1. /\ table' = [table EXCEPT ![Key(r)] = "pending"] /\ pc' = [pc EXCEPT ![r] = "acting"]
        /\ UNCHANGED <<queue, polls, answer>>
    BY <1>8, NoneAssumption DEF Reserve, Insert
  <2>2. CommandsTypeOK'
    <3>1. table' \in [Keys -> Verdicts \cup {None, "pending"}] /\ pc' \in [Requests -> PCs]
      BY <1>4, <2>1 DEF PCs
    <3> QED BY <1>1, <1>2, <1>3, <2>1, <3>1 DEF CommandsTypeOK, PCs
  <2>3. /\ \A s \in Requests : s # r => pc'[s] = pc[s]
        /\ pc'[r] = "acting"
    BY <1>4, <2>1
  <2>4. Placed'
    BY <1>1, <1>2, <1>3, <1>6, <2>1, <2>3 DEF Placed, InFlight
  <2>5. Queued'
    <3>1. Locked(r) => In(r, queue) /\ queue # <<>>
      BY <1>1, <1>4, <1>6, ShiftFacts DEF Queued
    <3> QED BY <1>1, <1>2, <1>3, <1>6, <2>1, <2>3, <3>1 DEF Queued, InFlight, Acting
  <2>6. /\ \A s \in Requests : Calling(s)' = Calling(s) /\ HasOutcome(s)' = HasOutcome(s)
        /\ \A s \in Requests : s # r => Acting(s)' = Acting(s)
    BY <1>6, <2>1, <2>3 DEF Calling, HasOutcome, Acting
  <2>7. OneCalls'
    BY <1>1, <1>2, <1>3, <2>6 DEF OneCalls
  <2>8. /\ table'[Key(r)] = "pending" /\ None # "pending"
        /\ \A k \in Keys : k # Key(r) => table'[k] = table[k]
    BY <1>4, <1>5, <2>1, NoneAssumption
  <2>9. Key(r) \notin wiped => effects[Key(r)] = 0
    BY <1>1, <1>5, <1>6, <1>8 DEF RowsTell, WipedWithAgent
  <2>10. \A s \in Requests : Acting(s) /\ Key(s) \notin wiped => Key(s) # Key(r)
    BY <1>1, <1>8, <2>8 DEF RowsTell
  <2>11. ASSUME NEW s \in Requests, Acting(s)', Key(s) \notin wiped
         PROVE  /\ table'[Key(s)] = "pending" /\ effects[Key(s)] = 0
                /\ \A t \in Requests : Acting(t)' /\ Key(s) = Key(t) => s = t
    <3>1. CASE s = r
      BY <2>6, <2>8, <2>9, <2>10, <2>11, <3>1
    <3>2. CASE s # r
      <4>1. Acting(s) /\ Key(s) # Key(r)
        BY <2>6, <2>10, <2>11, <3>2
      <4>2. table[Key(s)] = "pending" /\ effects[Key(s)] = 0
        BY <1>1, <2>11, <4>1 DEF RowsTell
      <4>3. \A t \in Requests : Acting(t)' /\ Key(s) = Key(t) => s = t
        BY <1>1, <2>6, <2>11, <4>1 DEF RowsTell
      <4> QED BY <1>5, <2>8, <4>1, <4>2, <4>3
    <3> QED BY <3>1, <3>2
  <2>12. ASSUME NEW s \in Requests, HasOutcome(s), Command(s) # "spawn", Key(s) \notin wiped
         PROVE  table'[Key(s)] = answer[s]
    <3>1. table[Key(s)] = answer[s] /\ answer[s] # None
      BY <1>1, <2>12 DEF RowsTell, HasOutcome
    <3> QED BY <1>5, <1>8, <2>8, <3>1
  <2>13. \A k \in Keys \ (wiped \cup halved) : table'[k] = None => effects[k] = 0
    BY <1>1, <2>8 DEF RowsTell
  <2>14. RowsTell'
    BY <1>2, <1>3, <2>1, <2>6, <2>11, <2>12, <2>13 DEF RowsTell
  <2> QED BY <1>7, <2>2, <2>4, <2>5, <2>7, <2>14 DEF IInv
<1>9. ASSUME table[Key(r)] # None
      PROVE  /\ table' = table /\ polls' \in [Requests -> 0 .. MaxPolls] /\ polls'[r] \in 0 .. MaxPolls
             /\ \A s \in Requests : s # r => polls'[s] = polls[s]
             /\ \/ UNCHANGED <<queue, pc, answer>> /\ polls'[r] < MaxPolls
                \/ Answer(r, "in flight")
                \/ table[Key(r)] \in Verdicts /\ Answer(r, table[Key(r)])
  <2>1. CASE table[Key(r)] = "pending"
    <3>1. Poll(r) /\ table' = table
      BY <1>9, <2>1 DEF Reserve
    <3>2. polls' = [polls EXCEPT ![r] = @ + 1]
      BY <3>1 DEF Poll
    <3>3. polls[r] + 1 \in 0 .. MaxPolls
      <4>1. polls[r] \in 0 .. MaxPolls
        BY <1>4
      <4> QED BY <1>6, <4>1, PollsAssumption
    <3>4. polls' \in [Requests -> 0 .. MaxPolls] /\ polls'[r] = polls[r] + 1
          /\ \A s \in Requests : s # r => polls'[s] = polls[s]
      BY <1>4, <3>2, <3>3
    <3>5. CASE polls[r] + 1 = MaxPolls
      <4>1. Answer(r, "in flight")
        BY <3>1, <3>5 DEF Poll
      <4> QED BY <3>1, <3>3, <3>4, <4>1
    <3>6. CASE polls[r] + 1 # MaxPolls
      <4>1. UNCHANGED <<queue, pc, answer>>
        BY <3>1, <3>6 DEF Poll
      <4>2. polls[r] + 1 < MaxPolls
        <5>1. polls[r] \in 0 .. MaxPolls
          BY <1>4
        <5> QED BY <1>6, <3>6, <5>1, PollsAssumption
      <4> QED BY <3>1, <3>3, <3>4, <4>1, <4>2
    <3> QED BY <3>5, <3>6
  <2>2. CASE table[Key(r)] # "pending"
    <3>1. Answer(r, table[Key(r)]) /\ UNCHANGED <<table, polls>>
      BY <1>9, <2>2 DEF Reserve
    <3>2. table[Key(r)] \in Verdicts
      BY <1>4, <1>5, <1>9, <2>2
    <3> QED BY <1>4, <3>1, <3>2
  <2> QED BY <2>1, <2>2
<1>10. CASE table[Key(r)] # None /\ UNCHANGED <<queue, pc, answer>> /\ polls'[r] < MaxPolls
  <2>1. CommandsTypeOK'
    BY <1>1, <1>2, <1>3, <1>9, <1>10 DEF CommandsTypeOK
  <2>2. Placed'
    BY <1>1, <1>2, <1>3, <1>4, <1>9, <1>10 DEF Placed, InFlight
  <2>3. Queued'
    BY <1>1, <1>3, <1>10 DEF Queued, InFlight, Acting
  <2>4. RowsTell' /\ OneCalls'
    <3>1. UNCHANGED <<mix, pc, answer, table, effects, wiped, halved>>
      BY <1>2, <1>9, <1>10
    <3>2. RowsTell'
      <4>1. \A t \in Requests : (Acting(t)' <=> Acting(t)) /\ (HasOutcome(t)' <=> HasOutcome(t))
        BY <3>1 DEF Acting, HasOutcome
      <4>2. \A t \in Requests : Acting(t)' /\ Key(t) \notin wiped => table[Key(t)] = "pending" /\ effects[Key(t)] = 0
        BY <1>1, <4>1 DEF RowsTell
      <4>3. \A t, q \in Requests : Acting(t)' /\ Acting(q)' /\ Key(t) = Key(q) /\ Key(t) \notin wiped => t = q
        BY <1>1, <4>1 DEF RowsTell
      <4>4. \A t \in Requests : HasOutcome(t)' /\ Command(t) # "spawn" /\ Key(t) \notin wiped => table[Key(t)] = answer[t]
        BY <1>1, <4>1 DEF RowsTell
      <4>5. \A k \in Keys \ (wiped \cup halved) : table[k] = None => effects[k] = 0
        BY <1>1 DEF RowsTell
      <4> QED BY <1>3, <3>1, <4>2, <4>3, <4>4, <4>5 DEF RowsTell
    <3>3. OneCalls'
      BY <1>1, <3>1 DEF OneCalls, Calling, Key, Command
    <3> QED BY <3>2, <3>3
  <2> QED BY <1>7, <2>1, <2>2, <2>3, <2>4 DEF IInv
<1>11. ASSUME table[Key(r)] # None, NEW a \in Verdicts \cup {"in flight"}, Answer(r, a),
              a = "in flight" \/ a = table[Key(r)]
       PROVE  IInv'
  <2>1. /\ queue' \in Seq(Requests) /\ Queued'
        /\ answer' = [answer EXCEPT ![r] = a] /\ pc' = [pc EXCEPT ![r] = "answered"]
        /\ answer' \in [Requests -> Verdicts \cup {None, "released", "in flight"}]
        /\ pc' \in [Requests -> PCs]
    BY <1>1, <1>2, <1>6, <1>11, AnswerFacts DEF PCs
  <2>2. CommandsTypeOK'
    BY <1>1, <1>2, <1>3, <1>9, <1>11, <2>1 DEF CommandsTypeOK, PCs
  <2>3. \A s \in Requests : /\ pc'[s] = IF s = r THEN "answered" ELSE pc[s]
                            /\ answer'[s] = IF s = r THEN a ELSE answer[s]
    BY <1>4, <2>1
  <2>4. Placed'
    BY <1>1, <1>2, <1>3, <1>9, <1>11, <2>3 DEF Placed, InFlight
  <2>5. \A s \in Requests : (Acting(s)' <=> Acting(s)) /\ (Calling(s)' <=> Calling(s))
    <3>1. ASSUME NEW s \in Requests
          PROVE  (Acting(s)' <=> Acting(s)) /\ (Calling(s)' <=> Calling(s))
      <4>1. CASE s = r
        BY <1>2, <2>3, <4>1 DEF Acting, Calling
      <4>2. CASE s # r
        BY <2>3, <4>2 DEF Acting, Calling
      <4> QED BY <4>1, <4>2
    <3> QED BY <3>1
  <2>6. OneCalls'
    BY <1>1, <1>2, <1>3, <2>5 DEF OneCalls
  <2>7. ASSUME NEW s \in Requests, HasOutcome(s)', Command(s) # "spawn", Key(s) \notin wiped
        PROVE  table[Key(s)] = answer'[s]
    <3>1. CASE s = r
      BY <1>11, <2>3, <2>7, <3>1 DEF HasOutcome
    <3>2. CASE s # r
      BY <1>1, <2>3, <2>7, <3>2 DEF HasOutcome, RowsTell
    <3> QED BY <3>1, <3>2
  <2>8. table' = table
    BY <1>9, <1>11
  <2>9. RowsTell'
    <3>1. \A s \in Requests : Acting(s)' /\ Key(s) \notin wiped => table[Key(s)] = "pending" /\ effects[Key(s)] = 0
      BY <1>1, <2>5 DEF RowsTell
    <3>2. \A s, t \in Requests : Acting(s)' /\ Acting(t)' /\ Key(s) = Key(t) /\ Key(s) \notin wiped => s = t
      BY <1>1, <2>5 DEF RowsTell
    <3>3. \A k \in Keys \ (wiped \cup halved) : table[k] = None => effects[k] = 0
      BY <1>1 DEF RowsTell
    <3> QED BY <1>2, <1>3, <2>7, <2>8, <3>1, <3>2, <3>3 DEF RowsTell
  <2> QED BY <1>7, <2>1, <2>2, <2>4, <2>6, <2>9 DEF IInv
<1> QED BY <1>8, <1>9, <1>10, <1>11

LEMMA ActInv ==
    ASSUME IInv, NEW r \in Requests, Act(r)
    PROVE  IInv'
<1>1. CommandsTypeOK /\ Placed /\ Queued /\ WipedWithAgent /\ RowsTell /\ OneCalls /\ ActsOnce
  BY DEF IInv
<1>2. pc[r] = "acting" /\ UNCHANGED <<mix, up, live, ended, paused, polls, effects, wiped, halved>>
  BY DEF Act, agent, history
<1>3. CASE Verdict(r) # None
  <2>1. Conclude(r, Verdict(r))
    BY <1>3 DEF Act
  <2>2. Verdict(r) \in Verdicts
    BY <1>3, Zenon DEF Verdict, Verdicts
  <2>3. Acting(r)
    BY <1>2 DEF Acting
  <2>4. up' \in BOOLEAN /\ live' \in BOOLEAN /\ ended' \in BOOLEAN /\ paused' \in BOOLEAN
    BY <1>1, <1>2 DEF CommandsTypeOK
  <2> QED BY <1>2, <2>1, <2>2, <2>3, <2>4, ConcludeInv
<1>4. CASE Verdict(r) = None
  <2>1. /\ pc' = [pc EXCEPT ![r] = IF Command(r) = "stop" /\ ended THEN "releasing" ELSE "calling"]
        /\ UNCHANGED <<table, queue, answer>>
    BY <1>4 DEF Act
  <2>2. /\ Keys' = Keys
        /\ \A s \in Requests : Key(s)' = Key(s) /\ Command(s)' = Command(s) /\ Locked(s)' = Locked(s)
    BY <1>2, SameKeys
  <2>3. pc \in [Requests -> PCs]
    BY <1>1 DEF CommandsTypeOK, PCs
  <2>4. /\ pc' \in [Requests -> PCs] /\ pc'[r] \in {"releasing", "calling"}
        /\ pc'[r] = "releasing" => Command(r) = "stop" /\ ended
        /\ \A s \in Requests : s # r => pc'[s] = pc[s]
    BY <2>1, <2>3 DEF PCs
  <2>5. CommandsTypeOK'
    BY <1>1, <1>2, <2>1, <2>2, <2>4 DEF CommandsTypeOK, PCs
  <2>6. Placed'
    BY <1>1, <1>2, <2>1, <2>2, <2>4 DEF Placed, InFlight
  <2>7. Queued'
    BY <1>1, <1>2, <2>1, <2>2, <2>4 DEF Queued, InFlight, Acting
  <2>8. \A s \in Requests : /\ Acting(s)' = Acting(s) /\ HasOutcome(s)' = HasOutcome(s)
                            /\ s # r => Calling(s)' = Calling(s)
    BY <1>2, <2>1, <2>4 DEF Acting, Calling, HasOutcome
  <2>9. RowsTell'
    BY <1>1, <1>2, <2>1, <2>2, <2>8 DEF RowsTell
  <2>10. wiped = {}
    <3>1. live \/ (Command(r) = "stop" /\ ~ended)
      BY <1>4, NoneAssumption DEF Verdict, Verdicts
    <3> QED BY <1>1, <3>1 DEF WipedWithAgent
  <2>11. effects[Key(r)] = 0 /\ \A s \in Requests : Acting(s) /\ Key(s) = Key(r) => s = r
    BY <1>1, <1>2, <2>10 DEF RowsTell, Acting
  <2>12. \A s \in Requests : Calling(s) => Acting(s)
    BY DEF Calling, Acting
  <2>13. OneCalls'
    BY <1>1, <1>2, <2>2, <2>8, <2>11, <2>12 DEF OneCalls
  <2>14. WipedWithAgent' /\ ActsOnce'
    BY <1>1, <1>2, <2>2 DEF WipedWithAgent, ActsOnce
  <2> QED BY <2>5, <2>6, <2>7, <2>9, <2>13, <2>14 DEF IInv
<1> QED BY <1>3, <1>4

LEMMA DoneInv ==
    ASSUME IInv, NEW r \in Requests, Done(r)
    PROVE  IInv'
<1>1. CommandsTypeOK
  BY DEF IInv
<1>2. pc[r] = "calling" /\ Takes(r) /\ UNCHANGED <<mix, up, polls, wiped, halved>>
  BY DEF Done
<1>3. Acting(r) /\ Calling(r)
  BY <1>2 DEF Acting, Calling
<1>4. up \in BOOLEAN /\ live \in BOOLEAN /\ ended \in BOOLEAN /\ paused \in BOOLEAN
  BY <1>1 DEF CommandsTypeOK
<1>5. /\ \E a \in Verdicts : Conclude(r, a)
      /\ live' \in BOOLEAN /\ ended' \in BOOLEAN /\ paused' \in BOOLEAN
      /\ ended => ended'
      /\ live' => live
  BY <1>4 DEF Done, agent, Verdicts
<1> QED BY <1>2, <1>3, <1>4, <1>5, ConcludeInv

LEMMA CallFailsInv ==
    ASSUME IInv, NEW r \in Requests, CallFails(r)
    PROVE  IInv'
<1>1. CommandsTypeOK
  BY DEF IInv
<1>2. /\ pc[r] = "calling" /\ Conclude(r, "failed") /\ (Takes(r) \/ effects' = effects)
      /\ UNCHANGED <<mix, up, live, ended, paused, polls, wiped, halved>>
  BY DEF CallFails, agent
<1>3. Acting(r) /\ Calling(r) /\ "failed" \in Verdicts
  BY <1>2 DEF Acting, Calling, Verdicts
<1>4. up' \in BOOLEAN /\ live' \in BOOLEAN /\ ended' \in BOOLEAN /\ paused' \in BOOLEAN
  BY <1>1, <1>2 DEF CommandsTypeOK
<1> QED BY <1>2, <1>3, <1>4, ConcludeInv

(* What is left to say when the keys of the agent are wiped.                 *)
LEMMA WipeInv ==
    ASSUME IInv, UNCHANGED <<mix, halved>>, live' = FALSE, ended' = ended, ended,
           table' = Wipe, wiped' = wiped \cup {k \in Keys : k[1] # "spawn"},
           \A k \in Keys : k[1] = "spawn" => effects'[k] = effects[k],
           \A s \in Requests : Acting(s)' => Acting(s)
    PROVE  WipedWithAgent' /\ RowsTell' /\ table' \in [Keys -> Verdicts \cup {None, "pending"}] /\ wiped' \subseteq Keys
<1>1. CommandsTypeOK /\ Placed /\ Queued /\ WipedWithAgent /\ RowsTell /\ OneCalls /\ ActsOnce
  BY DEF IInv
<1>2. /\ Keys' = Keys
      /\ \A s \in Requests : Key(s)' = Key(s) /\ Command(s)' = Command(s)
  BY SameKeys
<1>3. /\ mix \in MixOfCommands /\ table \in [Keys -> Verdicts \cup {None, "pending"}] /\ wiped \subseteq Keys
  BY <1>1 DEF CommandsTypeOK
<1>4. \A s \in Requests : Key(s) \in Keys /\ Key(s)[1] = Command(s)
  BY <1>3, KeyFacts
<1>5. WipedWithAgent'
  BY <1>1 DEF WipedWithAgent
<1>6. \A s \in Requests : Command(s) # "spawn" => Key(s) \in wiped'
  BY <1>4
<1>7. \A s \in Requests : Acting(s)' => Command(s) # "spawn"
  BY <1>1 DEF Placed, InFlight, Acting
<1>8. \A k \in Keys : k[1] = "spawn" => table'[k] = table[k]
  BY DEF Wipe
<1>9. ASSUME NEW k \in Keys \ (wiped' \cup halved), table'[k] = None
      PROVE  effects'[k] = 0
  <2>1. k[1] = "spawn" /\ k \notin wiped
    BY <1>9
  <2> QED BY <1>1, <1>8, <1>9, <2>1 DEF RowsTell
<1>10. RowsTell'
  <2>1. \A s \in Requests : Acting(s)' => Key(s) \in wiped'
    BY <1>6, <1>7
  <2> QED BY <1>2, <1>6, <1>9, <2>1 DEF RowsTell
<1>11. table' \in [Keys -> Verdicts \cup {None, "pending"}] /\ wiped' \subseteq Keys
  BY <1>3 DEF Wipe
<1> QED BY <1>5, <1>10, <1>11

LEMMA ReleasedInv ==
    ASSUME IInv, NEW r \in Requests, Released(r)
    PROVE  IInv'
<1>1. CommandsTypeOK /\ Placed /\ Queued /\ WipedWithAgent /\ RowsTell /\ OneCalls /\ ActsOnce
  BY DEF IInv
<1>2. /\ pc[r] = "releasing" /\ live' = FALSE /\ (Takes(r) \/ effects' = effects)
      /\ table' = Wipe /\ wiped' = wiped \cup {k \in Keys : k[1] # "spawn"}
      /\ Answer(r, "released") /\ UNCHANGED <<mix, up, ended, paused, polls, halved>>
  BY DEF Released
<1>3. /\ Keys' = Keys
      /\ \A s \in Requests : Key(s)' = Key(s) /\ Command(s)' = Command(s) /\ Locked(s)' = Locked(s)
  BY <1>2, SameKeys
<1>4. /\ effects \in [Keys -> Nat] /\ pc \in [Requests -> PCs] /\ mix \in MixOfCommands
  BY <1>1 DEF CommandsTypeOK, PCs
<1>5. ended /\ Command(r) = "stop" /\ InFlight(r) /\ Acting(r) /\ Calling(r) /\ (Locked(r) => Head(queue) = r)
  BY <1>1, <1>2 DEF Placed, InFlight, Acting, Calling, Queued
<1>6. /\ queue' \in Seq(Requests) /\ Queued'
      /\ answer' \in [Requests -> Verdicts \cup {None, "released", "in flight"}]
      /\ pc' = [pc EXCEPT ![r] = "answered"] /\ pc' \in [Requests -> PCs]
  BY <1>1, <1>2, <1>5, AnswerFacts DEF PCs
<1>7. \A s \in Requests : pc'[s] = IF s = r THEN "answered" ELSE pc[s]
  BY <1>4, <1>6
<1>8. \A s \in Requests : (Acting(s)' => Acting(s)) /\ (Calling(s)' => Calling(s) /\ s # r)
  BY <1>7 DEF Acting, Calling
<1>9. \A s \in Requests : Key(s) \in Keys /\ Key(s)[1] = Command(s)
  BY <1>4, KeyFacts
<1>10. /\ effects' \in [Keys -> Nat]
       /\ \A k \in Keys : k # Key(r) => effects'[k] = effects[k]
       /\ effects'[Key(r)] <= 1
  <2>1. effects[Key(r)] = 0 /\ Key(r) \in Keys
    BY <1>1, <1>5, <1>9 DEF OneCalls
  <2>2. CASE effects' = effects
    BY <1>4, <2>1, <2>2
  <2>3. CASE Takes(r)
    <3>1. effects' = [effects EXCEPT ![Key(r)] = @ + 1]
      BY <2>3 DEF Takes
    <3>2. effects \in [Keys -> Nat]
      BY <1>4
    <3> QED BY <2>1, <3>1, <3>2
  <2> QED BY <1>2, <2>2, <2>3
<1>11. \A k \in Keys : k[1] = "spawn" => effects'[k] = effects[k]
  BY <1>5, <1>9, <1>10
<1>12. WipedWithAgent' /\ RowsTell' /\ table' \in [Keys -> Verdicts \cup {None, "pending"}] /\ wiped' \subseteq Keys
  BY <1>2, <1>5, <1>8, <1>11, WipeInv
<1>13. CommandsTypeOK'
  BY <1>1, <1>2, <1>3, <1>6, <1>10, <1>12 DEF CommandsTypeOK, PCs
<1>14. Placed'
  BY <1>1, <1>2, <1>3, <1>7 DEF Placed, InFlight
<1>15. OneCalls'
  <2>1. ASSUME NEW s \in Requests, Calling(s)'
        PROVE  /\ effects'[Key(s)] = 0
               /\ \A t \in Requests : Calling(t)' /\ Key(s) = Key(t) => s = t
    BY <1>1, <1>5, <1>8, <1>9, <1>10, <2>1 DEF OneCalls
  <2> QED BY <1>3, <2>1 DEF OneCalls
<1>16. ActsOnce'
  BY <1>1, <1>2, <1>3, <1>10 DEF ActsOnce
<1> QED BY <1>6, <1>12, <1>13, <1>14, <1>15, <1>16 DEF IInv

LEMMA RunClosesInv ==
    ASSUME IInv, RunCloses
    PROVE  IInv'
<1>1. CommandsTypeOK /\ Placed /\ Queued /\ WipedWithAgent /\ RowsTell /\ OneCalls /\ ActsOnce
  BY DEF IInv
<1>2. /\ ended /\ live' = FALSE /\ table' = Wipe /\ wiped' = wiped \cup {k \in Keys : k[1] # "spawn"}
      /\ UNCHANGED <<mix, up, ended, paused, queue, pc, polls, answer, effects, halved>>
  BY DEF RunCloses
<1>3. /\ Keys' = Keys
      /\ \A s \in Requests : Key(s)' = Key(s) /\ Command(s)' = Command(s) /\ Locked(s)' = Locked(s)
  BY <1>2, SameKeys
<1>4. \A s \in Requests : (Acting(s)' <=> Acting(s)) /\ (Calling(s)' <=> Calling(s))
  BY <1>2 DEF Acting, Calling
<1>5. WipedWithAgent' /\ RowsTell' /\ table' \in [Keys -> Verdicts \cup {None, "pending"}] /\ wiped' \subseteq Keys
  BY <1>2, <1>4, WipeInv
<1>6. CommandsTypeOK'
  BY <1>1, <1>2, <1>3, <1>5 DEF CommandsTypeOK
<1>7. Placed' /\ Queued'
  BY <1>1, <1>2, <1>3 DEF Placed, Queued, InFlight, Acting
<1>8. OneCalls' /\ ActsOnce'
  BY <1>1, <1>2, <1>3, <1>4 DEF OneCalls, ActsOnce
<1> QED BY <1>5, <1>6, <1>7, <1>8 DEF IInv

LEMMA SpawnInv ==
    ASSUME IInv, NEW r \in Requests, Spawn(r)
    PROVE  IInv'
<1>1. CommandsTypeOK /\ Placed /\ Queued /\ WipedWithAgent /\ RowsTell /\ OneCalls /\ ActsOnce
  BY DEF IInv
<1>2. /\ pc[r] = "new" /\ Command(r) = "spawn"
      /\ UNCHANGED <<mix, up, live, ended, paused, polls, wiped, halved>>
      /\ (Answer(r, "done") \/ Answer(r, "refused"))
      /\ \/ table[Key(r)] = None /\ Takes(r) /\ table' = [table EXCEPT ![Key(r)] = "done"]
         \/ UNCHANGED <<effects, table>>
  BY DEF Spawn, agent
<1>3. /\ Keys' = Keys
      /\ \A s \in Requests : Key(s)' = Key(s) /\ Command(s)' = Command(s) /\ Locked(s)' = Locked(s)
  BY <1>2, SameKeys
<1>4. /\ effects \in [Keys -> Nat] /\ pc \in [Requests -> PCs] /\ mix \in MixOfCommands
      /\ table \in [Keys -> Verdicts \cup {None, "pending"}]
      /\ answer \in [Requests -> Verdicts \cup {None, "released", "in flight"}]
  BY <1>1 DEF CommandsTypeOK, PCs
<1>5. \A s \in Requests : Key(s) \in Keys /\ Key(s)[1] = Command(s) /\ (Key(s) = Key(r) => Command(s) = Command(r))
  BY <1>4, KeyFacts
<1>6. ~Locked(r) /\ ~Acting(r) /\ ~Calling(r) /\ {"done", "refused"} \subseteq Verdicts
  BY <1>2 DEF Locked, Acting, Calling, Verdicts
<1>7. PICK a \in Verdicts : Answer(r, a)
  BY <1>2, <1>6
<1>8. /\ queue' \in Seq(Requests) /\ Queued' /\ answer' = [answer EXCEPT ![r] = a]
      /\ answer' \in [Requests -> Verdicts \cup {None, "released", "in flight"}]
      /\ pc' = [pc EXCEPT ![r] = "answered"] /\ pc' \in [Requests -> PCs]
  BY <1>1, <1>2, <1>6, <1>7, AnswerFacts DEF PCs
<1>9. \A s \in Requests : /\ pc'[s] = IF s = r THEN "answered" ELSE pc[s]
                          /\ answer'[s] = IF s = r THEN a ELSE answer[s]
  BY <1>4, <1>8
<1>10. \A s \in Requests : /\ (Acting(s)' <=> Acting(s)) /\ (Calling(s)' <=> Calling(s))
                           /\ Acting(s) \/ Calling(s) => Command(s) # "spawn" /\ Key(s) # Key(r)
  <2>1. ASSUME NEW s \in Requests
        PROVE  (Acting(s)' <=> Acting(s)) /\ (Calling(s)' <=> Calling(s))
    <3>1. CASE s = r
      BY <1>6, <1>9, <3>1 DEF Acting, Calling
    <3>2. CASE s # r
      BY <1>9, <3>2 DEF Acting, Calling
    <3> QED BY <3>1, <3>2
  <2>2. ASSUME NEW s \in Requests, Acting(s) \/ Calling(s)
        PROVE  Command(s) # "spawn" /\ Key(s) # Key(r)
    <3>1. Command(s) # "spawn"
      BY <1>1, <2>2 DEF Placed, InFlight, Acting, Calling
    <3> QED BY <1>2, <1>5, <3>1
  <2> QED BY <2>1, <2>2
<1>11. Key(r) \notin wiped /\ Key(r) \in Keys
  BY <1>1, <1>2, <1>5 DEF WipedWithAgent
<1>12. /\ effects' \in [Keys -> Nat] /\ table' \in [Keys -> Verdicts \cup {None, "pending"}]
       /\ \A k \in Keys : k # Key(r) => effects'[k] = effects[k] /\ table'[k] = table[k]
       /\ Key(r) \notin halved => effects'[Key(r)] <= 1 /\ (table'[Key(r)] = None => effects'[Key(r)] = 0)
  <2>1. CASE UNCHANGED <<effects, table>>
    BY <1>1, <1>4, <1>11, <2>1 DEF RowsTell, ActsOnce
  <2>2. CASE table[Key(r)] = None /\ Takes(r) /\ table' = [table EXCEPT ![Key(r)] = "done"]
    <3>1. effects' = [effects EXCEPT ![Key(r)] = @ + 1] /\ effects \in [Keys -> Nat]
      BY <1>4, <2>2 DEF Takes
    <3>2. Key(r) \notin halved => effects[Key(r)] = 0
      BY <1>1, <1>11, <2>2 DEF RowsTell
    <3>3. /\ table' \in [Keys -> Verdicts \cup {None, "pending"}] /\ table'[Key(r)] = "done"
          /\ \A k \in Keys : k # Key(r) => table'[k] = table[k]
      BY <1>4, <1>6, <1>11, <2>2
    <3>4. "done" # None
      BY <1>6, NoneAssumption
    <3>5. /\ effects' \in [Keys -> Nat] /\ \A k \in Keys : k # Key(r) => effects'[k] = effects[k]
          /\ Key(r) \notin halved => effects'[Key(r)] <= 1
      BY <1>11, <3>1, <3>2
    <3> QED BY <3>3, <3>4, <3>5
  <2> QED BY <1>2, <2>1, <2>2
<1>13. CommandsTypeOK'
  BY <1>1, <1>2, <1>3, <1>8, <1>12 DEF CommandsTypeOK, PCs
<1>14. Placed'
  BY <1>1, <1>2, <1>3, <1>9 DEF Placed, InFlight
<1>15. WipedWithAgent'
  BY <1>1, <1>2 DEF WipedWithAgent
<1>16. RowsTell'
  <2>1. \A s \in Requests : Acting(s)' /\ Key(s) \notin wiped => table'[Key(s)] = "pending" /\ effects'[Key(s)] = 0
    BY <1>1, <1>5, <1>10, <1>12 DEF RowsTell
  <2>2. \A s, t \in Requests : Acting(s)' /\ Acting(t)' /\ Key(s) = Key(t) /\ Key(s) \notin wiped => s = t
    BY <1>1, <1>10 DEF RowsTell
  <2>3. ASSUME NEW s \in Requests, HasOutcome(s)', Command(s) # "spawn", Key(s) \notin wiped
        PROVE  table'[Key(s)] = answer'[s]
    <3>1. s # r /\ Key(s) # Key(r) /\ HasOutcome(s)
      BY <1>2, <1>5, <1>9, <2>3 DEF HasOutcome
    <3>2. table[Key(s)] = answer[s]
      BY <1>1, <2>3, <3>1 DEF RowsTell
    <3> QED BY <1>5, <1>9, <1>12, <3>1, <3>2
  <2>4. \A k \in Keys \ (wiped \cup halved) : table'[k] = None => effects'[k] = 0
    BY <1>1, <1>12 DEF RowsTell
  <2> QED BY <1>2, <1>3, <2>1, <2>2, <2>3, <2>4 DEF RowsTell
<1>17. OneCalls'
  <2>1. ASSUME NEW s \in Requests, Calling(s)'
        PROVE  effects'[Key(s)] = 0 /\ \A t \in Requests : Calling(t)' /\ Key(s) = Key(t) => s = t
    BY <1>1, <1>5, <1>10, <1>12, <2>1 DEF OneCalls
  <2> QED BY <1>3, <2>1 DEF OneCalls
<1>18. ActsOnce'
  BY <1>1, <1>2, <1>3, <1>12 DEF ActsOnce
<1> QED BY <1>8, <1>13, <1>14, <1>15, <1>16, <1>17, <1>18 DEF IInv

(* A crash may come after a call took effect, or between the two writes of a *)
(* spawn.                                                                    *)
LEMMA CrashInv ==
    ASSUME IInv, Crash
    PROVE  IInv'
<1>1. CommandsTypeOK /\ Placed /\ Queued /\ WipedWithAgent /\ RowsTell /\ OneCalls /\ ActsOnce
  BY DEF IInv
<1>2. /\ mix' = [mix EXCEPT !.crashes = @ - 1] /\ mix.crashes > 0
      /\ up' = FALSE /\ queue' = <<>>
      /\ pc' = [r \in Requests |-> IF pc[r] \in {"reserving", "acting", "calling", "releasing"}
                                   THEN "lost" ELSE pc[r]]
      /\ UNCHANGED <<live, ended, paused, table, polls, answer, wiped>>
      /\ \/ UNCHANGED <<effects, halved>>
         \/ \E r \in Requests : pc[r] \in {"calling", "releasing"} /\ Takes(r) /\ UNCHANGED halved
         \/ \E r \in Requests : Command(r) = "spawn" /\ Takes(r) /\ halved' = halved \cup {Key(r)}
  BY DEF Crash, agent
<1>3. mix \in MixOfCommands /\ effects \in [Keys -> Nat] /\ pc \in [Requests -> PCs] /\ halved \subseteq Keys
  BY <1>1 DEF CommandsTypeOK, PCs
<1>4. mix' \in MixOfCommands /\ mix'.command = mix.command /\ mix'.key = mix.key
  <2> DEFINE n == mix.crashes - 1
  <2>1. mix.crashes \in Nat /\ mix.crashes > 0 /\ mix' = [mix EXCEPT !.crashes = n]
    BY <1>2, <1>3 DEF MixOfCommands
  <2>2. n \in Nat
    BY <2>1
  <2> HIDE DEF n
  <2> QED BY <1>3, <2>1, <2>2 DEF MixOfCommands
<1>5. /\ Keys' = Keys
      /\ \A s \in Requests : Key(s)' = Key(s) /\ Command(s)' = Command(s) /\ Locked(s)' = Locked(s)
  BY <1>4, SameKeys
<1>6. \A s \in Requests : Key(s) \in Keys /\ Key(s)[1] = Command(s)
  BY <1>3, KeyFacts
<1>7. /\ pc' \in [Requests -> PCs]
      /\ \A s \in Requests : /\ pc'[s] \notin {"reserving", "acting", "calling", "releasing"}
                             /\ pc'[s] = "new" => pc[s] = "new"
  BY <1>2, <1>3 DEF PCs
<1>8. \A s \in Requests : ~Acting(s)' /\ ~Calling(s)' /\ ~InFlight(s)'
  BY <1>7 DEF Acting, Calling, InFlight
<1>9. /\ effects' \in [Keys -> Nat] /\ halved \subseteq halved' /\ halved' \subseteq Keys
      /\ \A k \in halved' : k[1] = "spawn"
      /\ \A k \in Keys \ halved' : effects'[k] <= 1
      /\ \A k \in Keys \ (wiped \cup halved') : table[k] = None => effects'[k] = 0
  <2>1. CASE UNCHANGED <<effects, halved>>
    BY <1>1, <1>3, <2>1 DEF WipedWithAgent, RowsTell, ActsOnce
  <2>2. CASE \E r \in Requests : pc[r] \in {"calling", "releasing"} /\ Takes(r) /\ UNCHANGED halved
    <3>1. PICK r \in Requests : pc[r] \in {"calling", "releasing"} /\ Takes(r) /\ UNCHANGED halved
      BY <2>2
    <3>2. Key(r) \in Keys /\ effects[Key(r)] = 0 /\ Calling(r) /\ Acting(r)
      BY <1>1, <1>6, <3>1 DEF OneCalls, Calling, Acting
    <3>3. effects' = [effects EXCEPT ![Key(r)] = @ + 1] /\ effects \in [Keys -> Nat]
      BY <1>3, <3>1 DEF Takes
    <3>4. /\ effects' \in [Keys -> Nat] /\ effects'[Key(r)] = 1
          /\ \A k \in Keys : k # Key(r) => effects'[k] = effects[k]
      BY <3>2, <3>3
    <3>5. Key(r) \notin wiped => table[Key(r)] # None
      BY <1>1, <3>2, NoneAssumption DEF RowsTell
    <3>6. \A k \in Keys \ halved : effects'[k] <= 1
      BY <1>1, <3>4 DEF ActsOnce
    <3>7. \A k \in Keys \ (wiped \cup halved) : table[k] = None => effects'[k] = 0
      BY <1>1, <3>4, <3>5 DEF RowsTell
    <3> QED BY <1>1, <1>3, <3>1, <3>4, <3>6, <3>7 DEF WipedWithAgent
  <2>3. CASE \E r \in Requests : Command(r) = "spawn" /\ Takes(r) /\ halved' = halved \cup {Key(r)}
    <3>1. PICK r \in Requests : Command(r) = "spawn" /\ Takes(r) /\ halved' = halved \cup {Key(r)}
      BY <2>3
    <3>2. Key(r) \in Keys /\ Key(r)[1] = "spawn"
      BY <1>6, <3>1
    <3>3. effects' = [effects EXCEPT ![Key(r)] = @ + 1] /\ effects \in [Keys -> Nat]
      BY <1>3, <3>1 DEF Takes
    <3>4. /\ effects' \in [Keys -> Nat]
          /\ \A k \in Keys : k # Key(r) => effects'[k] = effects[k]
      BY <3>2, <3>3
    <3>5. \A k \in halved' : k[1] = "spawn"
      BY <1>1, <3>1, <3>2 DEF WipedWithAgent
    <3>6. \A k \in Keys \ halved' : effects'[k] <= 1
      BY <1>1, <3>1, <3>4 DEF ActsOnce
    <3>7. \A k \in Keys \ (wiped \cup halved') : table[k] = None => effects'[k] = 0
      BY <1>1, <3>1, <3>4 DEF RowsTell
    <3> QED BY <1>3, <3>1, <3>2, <3>4, <3>5, <3>6, <3>7
  <2> QED BY <1>2, <2>1, <2>2, <2>3
<1>10. CommandsTypeOK'
  <2>1. queue' \in Seq(Requests)
    BY <1>2
  <2> QED BY <1>1, <1>2, <1>4, <1>5, <1>7, <1>9, <2>1 DEF CommandsTypeOK, PCs
<1>11. Placed' /\ Queued'
  BY <1>1, <1>2, <1>5, <1>7, <1>8 DEF Placed, Queued
<1>12. WipedWithAgent'
  BY <1>1, <1>2, <1>9 DEF WipedWithAgent
<1>13. \A s \in Requests : HasOutcome(s)' <=> HasOutcome(s)
  BY <1>2 DEF HasOutcome
<1>14. RowsTell'
  <2>1. \A s \in Requests : HasOutcome(s)' /\ Command(s) # "spawn" /\ Key(s) \notin wiped => table[Key(s)] = answer[s]
    BY <1>1, <1>13 DEF RowsTell
  <2> QED BY <1>2, <1>5, <1>8, <1>9, <2>1 DEF RowsTell
<1>15. OneCalls' /\ ActsOnce'
  BY <1>5, <1>8, <1>9 DEF OneCalls, ActsOnce
<1> QED BY <1>10, <1>11, <1>12, <1>14, <1>15 DEF IInv

(* A step that changes nothing but who is up, or whether the turn has ended. *)
LEMMA RestInv ==
    ASSUME IInv, UNCHANGED <<mix, live, paused, table, queue, pc, polls, answer, history>>,
           up' \in BOOLEAN, ended' \in BOOLEAN, ended => ended'
    PROVE  IInv'
<1>1. CommandsTypeOK /\ Placed /\ Queued /\ WipedWithAgent /\ RowsTell /\ OneCalls /\ ActsOnce
  BY DEF IInv
<1>2. UNCHANGED <<mix, live, paused, table, queue, pc, polls, answer, effects, wiped, halved>>
  BY DEF history
<1>3. /\ Keys' = Keys
      /\ \A s \in Requests : Key(s)' = Key(s) /\ Command(s)' = Command(s) /\ Locked(s)' = Locked(s)
  BY <1>2, SameKeys
<1>4. \A s \in Requests : (Acting(s)' <=> Acting(s)) /\ (Calling(s)' <=> Calling(s)) /\ (HasOutcome(s)' <=> HasOutcome(s))
  BY <1>2 DEF Acting, Calling, HasOutcome
<1>5. CommandsTypeOK' /\ Placed' /\ Queued'
  BY <1>1, <1>2, <1>3 DEF CommandsTypeOK, Placed, Queued, InFlight, Acting
<1>6. WipedWithAgent' /\ OneCalls' /\ ActsOnce'
  BY <1>1, <1>2, <1>3, <1>4 DEF WipedWithAgent, OneCalls, ActsOnce
<1>7. RowsTell'
  <2>1. \A t \in Requests : Acting(t)' /\ Key(t) \notin wiped => table[Key(t)] = "pending" /\ effects[Key(t)] = 0
    BY <1>1, <1>4 DEF RowsTell
  <2>2. \A t, q \in Requests : Acting(t)' /\ Acting(q)' /\ Key(t) = Key(q) /\ Key(t) \notin wiped => t = q
    BY <1>1, <1>4 DEF RowsTell
  <2>3. \A t \in Requests : HasOutcome(t)' /\ Command(t) # "spawn" /\ Key(t) \notin wiped => table[Key(t)] = answer[t]
    BY <1>1, <1>4 DEF RowsTell
  <2>4. \A k \in Keys \ (wiped \cup halved) : table[k] = None => effects[k] = 0
    BY <1>1 DEF RowsTell
  <2> QED BY <1>2, <1>3, <2>1, <2>2, <2>3, <2>4 DEF RowsTell
<1> QED BY <1>5, <1>6, <1>7 DEF IInv

-----------------------------------------------------------------------------
LEMMA StepInv == IInv /\ [CommandsNext]_commandVars => IInv'
<1> SUFFICES ASSUME IInv, [CommandsNext]_commandVars PROVE IInv'
  OBVIOUS
<1>1. CommandsTypeOK
  BY DEF IInv
<1>2. ASSUME NEW r \in Requests, Arrive(r) \/ Goes(r) \/ Spawn(r)
      PROVE  IInv'
  BY <1>2, ArriveInv, SpawnInv, ReserveInv, ActInv, DoneInv, ReleasedInv, CallFailsInv DEF Goes
<1>3. CASE TurnEnds
  <2>1. /\ UNCHANGED <<mix, live, paused, table, queue, pc, polls, answer, history>>
        /\ up' = up /\ ended' = TRUE
    BY <1>3 DEF TurnEnds
  <2> QED BY <1>1, <2>1, RestInv DEF CommandsTypeOK
<1>4. CASE Boot
  <2>1. /\ UNCHANGED <<mix, live, paused, table, queue, pc, polls, answer, history>>
        /\ up' = TRUE /\ ended' = ended
    BY <1>4 DEF Boot, agent
  <2> QED BY <1>1, <2>1, RestInv DEF CommandsTypeOK
<1>5. CASE UNCHANGED commandVars
  <2>1. /\ UNCHANGED <<mix, live, paused, table, queue, pc, polls, answer, history>>
        /\ up' = up /\ ended' = ended
    BY <1>5 DEF commandVars, agent
  <2> QED BY <1>1, <2>1, RestInv DEF CommandsTypeOK
<1> QED BY <1>2, <1>3, <1>4, <1>5, RunClosesInv, CrashInv DEF CommandsNext

(* Every variable has its type (idempotency.ts, agent-lock.ts).              *)
THEOREM CommandsTyped == CommandsSpec => []CommandsTypeOK
<1>1. IInv => CommandsTypeOK
  BY DEF IInv
<1> QED BY <1>1, InitInv, StepInv, PTL DEF CommandsSpec

(* A command that is sent again with its key acts once, and all who are      *)
(* given an outcome are given the same one, whatever the requests, their     *)
(* keys and commands, the crashes and the moment the run is closed           *)
(* (idempotency.ts:34-88).                                                   *)
THEOREM Idempotent == CommandsSpec => []CommandsAreIdempotent
<1>1. IInv => CommandsAreIdempotent
  <2> SUFFICES ASSUME IInv PROVE ActsOnce /\ OneOutcome
    BY DEF CommandsAreIdempotent
  <2>1. ActsOnce /\ RowsTell
    BY DEF IInv
  <2>2. ASSUME NEW r \in Requests, NEW s \in Requests, Key(r) = Key(s), Key(r) \notin wiped,
               Command(r) # "spawn", {answer[r], answer[s]} \cap {None, "in flight"} = {}
        PROVE  answer[r] = answer[s]
    <3>1. HasOutcome(r) /\ HasOutcome(s)
      BY <2>2 DEF HasOutcome
    <3>2. Command(s) # "spawn"
      BY <2>2, KeyFacts DEF IInv, CommandsTypeOK
    <3> QED BY <2>1, <2>2, <3>1, <3>2 DEF RowsTell
  <2> QED BY <2>1, <2>2 DEF OneOutcome
<1> QED BY <1>1, InitInv, StepInv, PTL DEF CommandsSpec

(* At most one command holds an agent's lock, from before it is carried out  *)
(* to its answer (agent-lock.ts:14-30).                                      *)
THEOREM LockIsExclusive == CommandsSpec => []OneUnderTheLock
<1>1. IInv => OneUnderTheLock
  BY DEF IInv, OneUnderTheLock, Queued
<1> QED BY <1>1, InitInv, StepInv, PTL DEF CommandsSpec
=============================================================================
