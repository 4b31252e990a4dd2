----------------------------- MODULE SdkProofs -----------------------------
(***************************************************************************)
(* Of five parts of the SDKs: that no host is open and forgotten           *)
(* (OpenIsAccounted of EgressGate), for any number of hosts and streams,   *)
(* that the slots of a client are counted (SlotsAreCounted of              *)
(* SandboxClient), for any number of calls and any limit, that a workflow  *)
(* that resolves has done all it was asked for (WorkflowsAreTrue of        *)
(* Workflow), for any stages, items and attempts, that the start of an     *)
(* agent that fails leaves no container behind (StartsAreClean of          *)
(* AgentStart), for any number of calls, and that commands and the readers *)
(* of their output are told what happened (ExecsAreTrue of ExecStream),    *)
(* for any number of either; all however many faults there are.            *)
(***************************************************************************)
EXTENDS EgressGate, SandboxClient, AgentStart, ExecStream, Workflow, FiniteSetTheorems, TLAPS

(* The approval gate.                                                        *)

(* Only a stream that is ending has something to revert: Ends() overwrites   *)
(* what there is.                                                            *)
RevertsWhileEnding == \A s \in Streams : stream[s] # "ending" => revert[s] = {}

GateInv == GateTypeOK /\ RevertsWhileEnding /\ OpenIsAccounted

-----------------------------------------------------------------------------
(* In the initial states every host is denied.                               *)
LEMMA InitAccounts == GateInit => GateInv
  BY SMT DEF GateInit, GateInv, GateTypeOK, RevertsWhileEnding, OpenIsAccounted

(* GateTypeOK, a conjunct for each variable.                                 *)
SetsTyped ==
    /\ rule \subseteq Hosts /\ vault \subseteq Hosts /\ reports \subseteq Hosts
    /\ held \subseteq Hosts /\ seen \subseteq Hosts /\ once \subseteq Hosts
    /\ broken \subseteq Hosts
AskTyped ==
    ask \in [Hosts -> {"none", "asked", "opening once", "opening always",
                       "binding once", "binding always"}]
StreamsTyped ==
    /\ stream \in [Streams -> {"new", "open", "ending", "ended"}]
    /\ revert \in [Streams -> SUBSET Hosts] /\ removed \in [Streams -> BOOLEAN]
    /\ handing \in [Streams -> Hosts \cup {None}]

(* The two agree, before a step and after it.                                *)
LEMMA TypesApart == GateTypeOK <=> SetsTyped /\ AskTyped /\ StreamsTyped
<1>1. rule \cup vault \cup reports \cup held \cup seen \cup once \cup broken \subseteq Hosts <=> SetsTyped
  BY Zenon DEF SetsTyped
<1> QED
  BY <1>1 DEF GateTypeOK, AskTyped, StreamsTyped

(* The same after a step.                                                    *)
LEMMA TypesApartNext == GateTypeOK' <=> SetsTyped' /\ AskTyped' /\ StreamsTyped'
<1>1. rule' \cup vault' \cup reports' \cup held' \cup seen' \cup once' \cup broken' \subseteq Hosts <=> SetsTyped'
  BY Zenon DEF SetsTyped
<1> QED
  BY <1>1 DEF GateTypeOK, AskTyped, StreamsTyped

(* Every step keeps the types of the variables.                              *)
LEMMA StepTypes == GateTypeOK /\ [GateNext]_gateVars => GateTypeOK'
<1> SUFFICES ASSUME SetsTyped, AskTyped, StreamsTyped, [GateNext]_gateVars
             PROVE  SetsTyped' /\ AskTyped' /\ StreamsTyped'
  BY TypesApart, TypesApartNext
<1>1. ASSUME NEW h \in Hosts, Query(h) \/ Denied(h) \/ Expires(h) \/ Decide(h) \/ Grants(h)
      PROVE  SetsTyped' /\ AskTyped' /\ StreamsTyped'
  <2>1. StreamsTyped'
    BY <1>1 DEF Query, Denied, Expires, Decide, Grants, Open, Bind, GrantFails, gate, ends, StreamsTyped
  <2>2. AskTyped'
    <3>1. \/ ask' = ask
          \/ \E there \in {"none", "asked", "opening once", "opening always",
                           "binding once", "binding always"} : ask' = [ask EXCEPT ![h] = there]
      BY <1>1 DEF Query, Denied, Expires, Decide, Grants, Open, Bind, GrantFails, Moves, gate
    <3> QED
      BY <3>1 DEF AskTyped
  <2>3. SetsTyped'
    <3>1. CASE Query(h)
      BY <3>1 DEF Query, gate, SetsTyped
    <3>2. CASE Denied(h)
      BY <3>2 DEF Denied, SetsTyped
    <3>3. CASE Expires(h)
      BY <3>3 DEF Expires, sidecar, SetsTyped
    <3>4. CASE Decide(h)
      BY <3>4 DEF Decide, sidecar, SetsTyped
    <3>5. CASE Open(h)
      BY <3>5 DEF Open, SetsTyped
    <3>6. CASE Bind(h)
      BY <3>6 DEF Bind, SetsTyped
    <3>7. CASE GrantFails(h)
      BY <3>7 DEF GrantFails, sidecar, SetsTyped
    <3> QED
      BY <1>1, <3>1, <3>2, <3>3, <3>4, <3>5, <3>6, <3>7 DEF Grants
  <2> QED
    BY <2>1, <2>2, <2>3
<1>2. ASSUME NEW s \in Streams, Opens(s) \/ Ends(s) \/ Reverts(s)
      PROVE  SetsTyped' /\ AskTyped' /\ StreamsTyped'
  <2>1. AskTyped'
    BY <1>2 DEF Opens, Ends, Reverts, TakeUp, RemoveCredential, Deny, DenyFails, Ended, gate, AskTyped
  <2>2. CASE Opens(s)
    BY <2>1, <2>2 DEF Opens, gate, sidecar, SetsTyped, StreamsTyped
  <2>3. CASE Ends(s)
    BY <2>1, <2>3 DEF Ends, sidecar, SetsTyped, StreamsTyped
  <2>4. CASE \E h \in Hosts : TakeUp(s, h)
    BY <2>1, <2>4 DEF TakeUp, gate, sidecar, SetsTyped, StreamsTyped
  <2>5. CASE RemoveCredential(s)
    BY <2>1, <2>5 DEF RemoveCredential, gate, SetsTyped, StreamsTyped
  <2>6. CASE Deny(s)
    BY <2>1, <2>6 DEF Deny, PutDown, SetsTyped, StreamsTyped
  <2>7. CASE DenyFails(s)
    BY <2>1, <2>7 DEF DenyFails, PutDown, gate, sidecar, SetsTyped, StreamsTyped
  <2>8. CASE Ended(s)
    BY <2>1, <2>8 DEF Ended, gate, sidecar, SetsTyped, StreamsTyped
  <2> QED
    BY <1>2, <2>2, <2>3, <2>4, <2>5, <2>6, <2>7, <2>8 DEF Reverts
<1>3. CASE UNCHANGED gateVars
  BY <1>3 DEF gateVars, gate, ends, sidecar, SetsTyped, AskTyped, StreamsTyped
<1> QED
  BY <1>1, <1>2, <1>3 DEF GateNext

(* What is to be reverted is set when a stream ends, and taken away by the   *)
(* reversal alone.                                                           *)
LEMMA StepReverts == GateTypeOK /\ RevertsWhileEnding /\ [GateNext]_gateVars => RevertsWhileEnding'
<1> SUFFICES ASSUME GateTypeOK, RevertsWhileEnding, [GateNext]_gateVars PROVE RevertsWhileEnding'
  OBVIOUS
<1> USE DEF GateTypeOK, RevertsWhileEnding
<1>1. ASSUME NEW h \in Hosts, Query(h) \/ Denied(h) \/ Expires(h) \/ Decide(h) \/ Grants(h)
      PROVE RevertsWhileEnding'
  BY <1>1 DEF Query, Denied, Expires, Decide, Grants, Open, Bind, GrantFails, ends
<1>2. ASSUME NEW s \in Streams, Opens(s) \/ Ends(s) PROVE RevertsWhileEnding'
  BY <1>2 DEF Opens, Ends
<1>3. ASSUME NEW s \in Streams, Reverts(s) PROVE RevertsWhileEnding'
  <2>1. CASE Deny(s)
    BY <2>1 DEF Deny
  <2>2. CASE DenyFails(s)
    BY <2>2 DEF DenyFails
  <2>3. CASE (\E h \in Hosts : TakeUp(s, h)) \/ RemoveCredential(s)
    BY <2>3 DEF TakeUp, RemoveCredential
  <2>4. CASE Ended(s)
    BY <2>4 DEF Ended
  <2> QED
    BY <1>3, <2>1, <2>2, <2>3, <2>4 DEF Reverts
<1>4. CASE UNCHANGED gateVars
  BY <1>4 DEF gateVars, ends
<1> QED
  BY <1>1, <1>2, <1>3, <1>4 DEF GateNext

-----------------------------------------------------------------------------
(* A host that is opened has a grant under way; the grant notes it in `once' *)
(* or gives it up to the program, or fails.                                  *)
LEMMA GrantAccounts ==
    ASSUME GateTypeOK, OpenIsAccounted, NEW h \in Hosts, Grants(h)
    PROVE  OpenIsAccounted'
<1> USE DEF GateTypeOK, OpenIsAccounted
<1>1. CASE Open(h)
  <2>1. rule' = rule \cup {h} /\ UNCHANGED <<held, once, revert, broken>>
    BY <1>1 DEF Open, ends
  <2>2. ask'[h] \in {"binding once", "binding always"}
    BY <1>1 DEF Open, Moves
  <2>3. \A g \in Hosts \ {h} : ask'[g] = ask[g]
    BY <1>1 DEF Open, Moves
  <2> QED
    BY <2>1, <2>2, <2>3
<1>2. CASE Bind(h)
  BY <1>2 DEF Bind, Moves, ends
<1>3. CASE GrantFails(h)
  BY <1>3 DEF GrantFails, sidecar, ends
<1> QED
  BY <1>1, <1>2, <1>3 DEF Grants

(* What a stream leaves open when it ends is in its list of reversals, and   *)
(* leaves the list only when it is denied, or the sidecar refuses.           *)
LEMMA RevertAccounts ==
    ASSUME GateTypeOK, RevertsWhileEnding, OpenIsAccounted, NEW s \in Streams, Ends(s) \/ Reverts(s)
    PROVE  OpenIsAccounted'
<1> USE DEF GateTypeOK, OpenIsAccounted
<1>1. CASE Ends(s)
  <2>1. revert[s] = {} /\ revert' = [revert EXCEPT ![s] = once \cap held]
    BY <1>1 DEF Ends, RevertsWhileEnding
  <2>2. \A t \in Streams : revert[t] \subseteq revert'[t]
    BY <2>1
  <2> QED
    BY <1>1, <2>1, <2>2 DEF Ends, sidecar
<1>2. CASE Deny(s)
  BY <1>2 DEF Deny
<1>3. CASE DenyFails(s)
  BY <1>3 DEF DenyFails, sidecar, gate
<1>4. CASE (\E h \in Hosts : TakeUp(s, h)) \/ RemoveCredential(s) \/ Ended(s)
  BY <1>4 DEF TakeUp, RemoveCredential, Ended, sidecar, gate
<1> QED
  BY <1>1, <1>2, <1>3, <1>4 DEF Reverts

(* So whatever is open stays accounted for, in every step.                   *)
LEMMA StepAccounts == GateInv /\ [GateNext]_gateVars => OpenIsAccounted'
<1> SUFFICES ASSUME GateInv, [GateNext]_gateVars PROVE OpenIsAccounted'
  OBVIOUS
<1>1. ASSUME NEW h \in Hosts, Grants(h) PROVE OpenIsAccounted'
  BY <1>1, GrantAccounts DEF GateInv
<1>2. ASSUME NEW s \in Streams, Ends(s) \/ Reverts(s) PROVE OpenIsAccounted'
  BY <1>2, RevertAccounts DEF GateInv
<1>3. ASSUME NEW h \in Hosts, Query(h) \/ Denied(h) \/ Expires(h) \/ Decide(h)
      PROVE OpenIsAccounted'
  BY <1>3 DEF Query, Denied, Expires, Decide, GateInv, GateTypeOK, OpenIsAccounted, gate, ends, sidecar
<1>4. CASE (\E s \in Streams : Opens(s)) \/ UNCHANGED gateVars
  BY <1>4 DEF Opens, gateVars, GateInv, OpenIsAccounted, gate, ends, sidecar
<1> QED
  BY <1>1, <1>2, <1>3, <1>4 DEF GateNext

(* The three parts of the invariant together.                                *)
LEMMA StepGate == GateInv /\ [GateNext]_gateVars => GateInv'
  BY StepTypes, StepReverts, StepAccounts DEF GateInv

-----------------------------------------------------------------------------
(* Every variable has its type.                                              *)
THEOREM GateTyped == GateSpec => []GateTypeOK
<1>1. GateInv => GateTypeOK
  BY DEF GateInv
<1> QED
  BY <1>1, InitAccounts, StepGate, PTL DEF GateSpec

(* A host that is open is one that the gate will close, or was told to leave *)
(* open, however grants, their reversals, late reports and overlapping       *)
(* streams interleave (egress-approval.ts:177-237).                          *)
THEOREM OpenAccounted == GateSpec => []OpenIsAccounted
<1>1. GateInv => OpenIsAccounted
  BY DEF GateInv
<1> QED
  BY <1>1, InitAccounts, StepGate, PTL DEF GateSpec

-----------------------------------------------------------------------------
(* The slots of the client.                                                  *)

States == {"idle", "read", "unbuilt", "awaiting", "built", "queued", "creating",
           "starting", "open", "closing", "saving", "closed", "failed"}
Holding == {"creating", "starting", "open", "closing"}

Typed ==
    /\ mix \in MixOfCalls
    /\ pc \in [Calls -> States]
    /\ active \in Int /\ lost \in Nat
    /\ waiters \in Seq(Calls) /\ granted \subseteq Calls

(* Who waits, or was granted a slot and has not resumed, is queued, once:    *)
(* so a slot that is handed on is taken by somebody who holds none.          *)
WaitsOnce ==
    /\ \A i \in DOMAIN waiters : pc[waiters[i]] = "queued" /\ waiters[i] \notin granted
    /\ \A i, j \in DOMAIN waiters : waiters[i] = waiters[j] => i = j
    /\ \A c \in granted : pc[c] = "queued"

Counted == active = Cardinality(Holders) + lost
NoneIdle == waiters # <<>> => active + Cardinality(granted) >= mix.max

ClientInv == Typed /\ WaitsOnce /\ Counted /\ NoneIdle

-----------------------------------------------------------------------------
(* A fault leaves the limit as it is.                                        *)
LEMMA FaultKeepsLimit ==
    ASSUME mix \in MixOfCalls, NEW f \in {"start", "setup", "delete", "log", "snapshot"}, Fault(f)
    PROVE  mix' \in MixOfCalls /\ mix'.max = mix.max
<1>1. mix' = [mix EXCEPT !.faults = [mix.faults EXCEPT ![f] = mix.faults[f] - 1]] /\ mix.faults[f] > 0
  BY DEF Fault
<1>2. mix.faults \in [{"start", "setup", "delete", "log", "snapshot"} -> Nat]
  BY DEF MixOfCalls
<1>3. [mix.faults EXCEPT ![f] = mix.faults[f] - 1] \in [{"start", "setup", "delete", "log", "snapshot"} -> Nat]
  BY <1>1, <1>2
<1> DEFINE fs == [mix.faults EXCEPT ![f] = mix.faults[f] - 1]
<1>4. fs \in [{"start", "setup", "delete", "log", "snapshot"} -> Nat]
  BY <1>3
<1>5. mix' = [mix EXCEPT !.faults = fs]
  BY <1>1
<1> HIDE DEF fs
<1> QED
  BY <1>4, <1>5 DEF MixOfCalls

(* The sets that are counted are finite, and the limit is a number.          *)
LEMMA CountsAreFinite ==
    ASSUME Typed
    PROVE  /\ IsFiniteSet(Holders) /\ IsFiniteSet(granted)
           /\ Cardinality(Holders) \in Nat /\ Cardinality(granted) \in Nat
          /\ mix.max \in Nat /\ active \in Int /\ lost \in Nat
<1>1. Holders \subseteq Calls /\ granted \subseteq Calls
  BY DEF Holders, Typed
<1>2. mix.max \in Nat /\ active \in Int /\ lost \in Nat
  BY DEF Typed, MixOfCalls
<1> QED
  BY <1>1, <1>2, FS_Subset, FS_CardinalityType, ClientConstants

-----------------------------------------------------------------------------
(* _acquireSlot(), by a call that neither holds a slot nor waits for one.    *)
LEMMA TakeCounts ==
    ASSUME ClientInv, NEW c \in Calls, NEW calls \in [Calls -> States], Take(c, calls),
           pc[c] \notin Holding \cup {"queued"}, mix' = mix, lost' = lost,
           \A d \in Calls \ {c} : calls[d] = pc[d] \/ {calls[d], pc[d]} \cap (Holding \cup {"queued"}) = {}
    PROVE  ClientInv'
<1> USE DEF ClientInv
<1>f. /\ IsFiniteSet(Holders) /\ IsFiniteSet(granted)
      /\ Cardinality(Holders) \in Nat /\ Cardinality(granted) \in Nat
      /\ mix.max \in Nat /\ active \in Int /\ lost \in Nat
  BY CountsAreFinite
<1>1. CASE active < mix.max
  <2>1. pc' = [calls EXCEPT ![c] = "creating"] /\ active' = active + 1 /\ UNCHANGED <<waiters, granted>>
    BY <1>1 DEF Take
  <2>2. Typed'
    <3>1. pc' \in [Calls -> States]
      BY <2>1 DEF States
    <3>2. active' \in Int
      BY <2>1 DEF Typed
    <3> QED
      BY <2>1, <3>1, <3>2 DEF Typed
  <2>3. Holders' = Holders \cup {c} /\ c \notin Holders
    BY <2>1 DEF Holders, Holding, Typed
  <2>4. Cardinality(Holders') = Cardinality(Holders) + 1
    BY <1>f, <2>3, FS_AddElement
  <2>5. Counted' /\ NoneIdle'
    BY <1>f, <2>1, <2>4 DEF Counted, NoneIdle
  <2>6. \A d \in Calls : pc[d] = "queued" => pc'[d] = "queued"
    BY <2>1 DEF Typed, Holding
  <2>7. WaitsOnce'
    BY <2>1, <2>6 DEF WaitsOnce, Typed
  <2> QED
    BY <2>2, <2>5, <2>7
<1>2. CASE ~(active < mix.max)
  <2>1. pc' = [calls EXCEPT ![c] = "queued"] /\ waiters' = Append(waiters, c)
        /\ UNCHANGED <<active, granted>>
    BY <1>2 DEF Take
  <2>2. Typed'
    <3>1. pc' \in [Calls -> States]
      BY <2>1 DEF States
    <3>2. waiters' \in Seq(Calls)
      BY <2>1 DEF Typed
    <3> QED
      BY <2>1, <3>1, <3>2 DEF Typed
  <2>3. Holders' = Holders
    BY <2>1 DEF Holders, Holding, Typed
  <2>4. Counted' /\ NoneIdle'
    BY <1>f, <1>2, <2>1, <2>3 DEF Counted, NoneIdle
  <2>5. \A d \in Calls : pc[d] = "queued" => pc'[d] = "queued" /\ d # c
    BY <2>1 DEF Typed, Holding
  <2>6. pc'[c] = "queued" /\ c \notin granted
    BY <2>1 DEF Typed, WaitsOnce
  <2>7. /\ DOMAIN waiters' = 1 .. Len(waiters) + 1 /\ DOMAIN waiters = 1 .. Len(waiters)
        /\ \A i \in 1 .. Len(waiters) : waiters'[i] = waiters[i] /\ waiters[i] \in Calls
        /\ waiters'[Len(waiters) + 1] = c /\ Len(waiters) \in Nat
    BY <2>1 DEF Typed
  <2>8. WaitsOnce'
    BY <2>1, <2>5, <2>6, <2>7 DEF WaitsOnce, Typed
  <2> QED
    BY <2>2, <2>4, <2>8
<1> QED
  BY <1>1, <1>2

(* _releaseSlot(), with the end of a call that holds one.                    *)
LEMMA ReleaseCounts ==
    ASSUME ClientInv, NEW c \in Calls, Release, pc[c] \in Holding,
           pc' \in [Calls -> States], pc'[c] \notin Holding \cup {"queued"},
           \A d \in Calls \ {c} : pc'[d] = pc[d] \/ {pc'[d], pc[d]} \cap (Holding \cup {"queued"}) = {},
           mix' \in MixOfCalls, mix'.max = mix.max, lost' = lost
    PROVE  ClientInv'
<1> USE DEF ClientInv
<1>f. /\ IsFiniteSet(Holders) /\ IsFiniteSet(granted)
      /\ Cardinality(Holders) \in Nat /\ Cardinality(granted) \in Nat
      /\ mix.max \in Nat /\ active \in Int /\ lost \in Nat
  BY CountsAreFinite
<1>1. Holders' = Holders \ {c} /\ c \in Holders
  BY DEF Holders, Holding, Typed
<1>2. Cardinality(Holders') = Cardinality(Holders) - 1
  BY <1>f, <1>1, FS_RemoveElement
<1>3. active' = active - 1
  BY DEF Release
<1>4. Counted'
  BY <1>f, <1>2, <1>3 DEF Counted
<1>5. \A d \in Calls : pc[d] = "queued" => pc'[d] = "queued"
  BY DEF Typed, Holding
<1>6. CASE waiters = <<>>
  <2>1. UNCHANGED <<waiters, granted>>
    BY <1>6 DEF Release
  <2> QED
    BY <1>3, <1>4, <1>5, <1>6, <2>1 DEF Typed, WaitsOnce, NoneIdle
<1>7. CASE waiters # <<>>
  <2>1. granted' = granted \cup {Head(waiters)} /\ waiters' = Tail(waiters)
    BY <1>7 DEF Release
  <2>2. /\ Head(waiters) = waiters[1] /\ 1 \in DOMAIN waiters /\ waiters[1] \in Calls
        /\ DOMAIN waiters = 1 .. Len(waiters) /\ DOMAIN waiters' = 1 .. Len(waiters) - 1
        /\ \A i \in 1 .. Len(waiters) - 1 : waiters'[i] = waiters[i + 1] /\ i + 1 \in DOMAIN waiters
        /\ \A i \in DOMAIN waiters : waiters[i] \in Calls
        /\ waiters' \in Seq(Calls) /\ Len(waiters) \in Nat
    BY <1>7, <2>1 DEF Typed
  <2>3. waiters[1] \notin granted /\ pc'[waiters[1]] = "queued"
    BY <1>5, <2>2 DEF WaitsOnce
  <2>4. Cardinality(granted') = Cardinality(granted) + 1
    <3>1. granted' = granted \cup {waiters[1]}
      BY <2>1, <2>2
    <3> QED
      BY <1>f, <2>3, <3>1, FS_AddElement
  <2>5. NoneIdle'
    BY <1>f, <1>3, <1>7, <2>4 DEF NoneIdle
  <2>6. Typed'
    BY <1>3, <2>1, <2>2 DEF Typed
  <2>7. WaitsOnce'
    <3>1. ASSUME NEW i \in DOMAIN waiters' PROVE pc'[waiters'[i]] = "queued" /\ waiters'[i] \notin granted'
      <4>1. i + 1 \in DOMAIN waiters /\ waiters'[i] = waiters[i + 1] /\ waiters[i + 1] \in Calls /\ i + 1 # 1
        BY <2>2
      <4>2. pc[waiters[i + 1]] = "queued" /\ waiters[i + 1] \notin granted /\ waiters[i + 1] # waiters[1]
        BY <2>2, <4>1 DEF WaitsOnce
      <4> QED
        BY <1>5, <2>1, <2>2, <4>1, <4>2
    <3>2. ASSUME NEW i \in DOMAIN waiters', NEW j \in DOMAIN waiters', waiters'[i] = waiters'[j]
          PROVE  i = j
      <4>1. /\ i + 1 \in DOMAIN waiters /\ waiters'[i] = waiters[i + 1] /\ i \in Int
            /\ j + 1 \in DOMAIN waiters /\ waiters'[j] = waiters[j + 1] /\ j \in Int
        BY <2>2
      <4>2. i + 1 = j + 1
        BY <3>2, <4>1 DEF WaitsOnce
      <4> QED
        BY <4>1, <4>2
    <3>3. ASSUME NEW d \in granted' PROVE pc'[d] = "queued"
      BY <1>5, <2>1, <2>2, <2>3 DEF WaitsOnce, Typed
    <3> QED
      BY <3>1, <3>2, <3>3 DEF WaitsOnce
  <2> QED
    BY <1>4, <2>5, <2>6, <2>7
<1> QED
  BY <1>6, <1>7

(* A step that leaves the slots alone, and who holds or awaits one.          *)
LEMMA OthersCount ==
    ASSUME ClientInv, UNCHANGED slots, lost' = lost, pc' \in [Calls -> States],
           \A d \in Calls : \/ pc'[d] = pc[d] \/ {pc'[d], pc[d]} \subseteq Holding
                            \/ {pc'[d], pc[d]} \cap (Holding \cup {"queued"}) = {},
           mix' \in MixOfCalls, mix'.max = mix.max
    PROVE  ClientInv'
<1> USE DEF ClientInv
<1>1. Holders' = Holders
  BY DEF Holders, Holding, Typed
<1>2. \A d \in Calls : pc[d] = "queued" => pc'[d] = "queued"
  BY DEF Typed, Holding
<1> QED
  BY <1>1, <1>2 DEF slots, Typed, WaitsOnce, Counted, NoneIdle

-----------------------------------------------------------------------------
(* Where calls go                                                            *)

(* What becomes of a call that fails, and of those that wait for its build:  *)
(* none of them holds a slot or is queued for one.                           *)
LEMMA FailedMoves ==
    ASSUME Typed, NEW c \in Calls, NEW ok \in BOOLEAN, NEW calls,
           calls \in {Failed(c), After(c, ok)}
    PROVE  /\ calls \in [Calls -> States] /\ calls[c] \notin Holding \cup {"queued"}
           /\ \A d \in Calls \ {c} :
                  calls[d] = pc[d] \/ {calls[d], pc[d]} \cap (Holding \cup {"queued"}) = {}
<1> DEFINE Shifts(f) ==
      /\ f \in [Calls -> States] /\ f[c] \notin Holding \cup {"queued"}
      /\ \A d \in Calls \ {c} : f[d] = pc[d] \/ {f[d], pc[d]} \cap (Holding \cup {"queued"}) = {}
<1>1. ASSUME NEW there \in {"unbuilt", "failed", "closed", "saving"}
      PROVE  Shifts([pc EXCEPT ![c] = there])
  BY <1>1 DEF Typed, States, Holding
<1>2. ASSUME c = Build PROVE Shifts(BuildSettles("failed"))
  BY <1>2 DEF BuildSettles, Typed, States, Holding
<1>3. Shifts(Failed(c))
  BY <1>1, <1>2 DEF Failed
<1>4. Shifts(After(c, ok))
  BY <1>1, <1>3 DEF After
<1> QED
  BY <1>3, <1>4

(* A waiter that resumes takes the slot that it was granted.                 *)
LEMMA ResumesCounts ==
    ASSUME ClientInv, NEW c \in Calls, Resumes(c)
    PROVE  ClientInv'
<1> USE DEF ClientInv
<1>f. /\ IsFiniteSet(Holders) /\ IsFiniteSet(granted)
      /\ Cardinality(Holders) \in Nat /\ Cardinality(granted) \in Nat
      /\ mix.max \in Nat /\ active \in Int /\ lost \in Nat
  BY CountsAreFinite
<1>1. /\ c \in granted /\ granted' = granted \ {c} /\ active' = active + 1
      /\ pc' = [pc EXCEPT ![c] = "creating"] /\ UNCHANGED <<mix, waiters, lost>>
  BY DEF Resumes
<1>2. pc[c] = "queued"
  BY <1>1 DEF WaitsOnce
<1>3. Holders' = Holders \cup {c} /\ c \notin Holders
  BY <1>1, <1>2 DEF Holders, Typed
<1>4. /\ Cardinality(Holders') = Cardinality(Holders) + 1
      /\ Cardinality(granted') = Cardinality(granted) - 1
  BY <1>f, <1>1, <1>3, FS_AddElement, FS_RemoveElement
<1>5. Counted' /\ NoneIdle'
  BY <1>f, <1>1, <1>4 DEF Counted, NoneIdle
<1>6. Typed'
  <2>1. pc' \in [Calls -> States]
    BY <1>1 DEF Typed, States
  <2> QED
    BY <1>f, <1>1, <2>1 DEF Typed
<1>7. WaitsOnce'
  <2>1. ASSUME NEW i \in DOMAIN waiters
        PROVE  pc'[waiters[i]] = "queued" /\ waiters[i] \notin granted'
    BY <1>1 DEF WaitsOnce, Typed
  <2>2. ASSUME NEW d \in granted' PROVE pc'[d] = "queued"
    BY <1>1, <2>2 DEF WaitsOnce, Typed
  <2> QED
    BY <1>1, <2>1, <2>2 DEF WaitsOnce
<1> QED
  BY <1>5, <1>6, <1>7

(* close() when the ledger refuses: the slot is not given back, and is lost. *)
LEMMA UnloggedCounts ==
    ASSUME ClientInv, NEW c \in Calls, ClosedUnlogged(c)
    PROVE  ClientInv'
<1> USE DEF ClientInv
<1>f. /\ IsFiniteSet(Holders) /\ Cardinality(Holders) \in Nat /\ Cardinality(granted) \in Nat
      /\ mix.max \in Nat /\ active \in Int /\ lost \in Nat
  BY CountsAreFinite
<1>1. /\ pc[c] = "closing" /\ Fault("log") /\ lost' = lost + 1
      /\ pc' = After(c, FALSE) /\ UNCHANGED slots
  BY DEF ClosedUnlogged
<1>2. mix' \in MixOfCalls /\ mix'.max = mix.max
  BY <1>1, FaultKeepsLimit DEF Typed
<1>3. /\ pc' \in [Calls -> States] /\ pc'[c] \notin Holding \cup {"queued"}
      /\ \A d \in Calls \ {c} :
             pc'[d] = pc[d] \/ {pc'[d], pc[d]} \cap (Holding \cup {"queued"}) = {}
  BY <1>1, FailedMoves
<1>4. Holders' = Holders \ {c} /\ c \in Holders
  BY <1>1, <1>3 DEF Holders, Holding, Typed
<1>5. Cardinality(Holders') = Cardinality(Holders) - 1
  BY <1>f, <1>4, FS_RemoveElement
<1>6. Counted' /\ NoneIdle'
  BY <1>f, <1>1, <1>2, <1>5 DEF Counted, NoneIdle, slots
<1>7. \A d \in Calls : pc[d] = "queued" => pc'[d] = "queued"
  BY <1>1, <1>3 DEF Typed, Holding
<1>8. UNCHANGED <<active, waiters, granted>> /\ lost' \in Nat
  BY <1>f, <1>1 DEF slots
<1>9. Typed'
  BY <1>2, <1>3, <1>8 DEF Typed
<1>10. WaitsOnce'
  BY <1>7, <1>8 DEF Typed, WaitsOnce
<1> QED
  BY <1>6, <1>9, <1>10

-----------------------------------------------------------------------------
(* Every step of a call keeps the count.                                     *)
LEMMA CallCounts ==
    ASSUME ClientInv, NEW c \in Calls, Step(c) \/ Begin(c) \/ ReadRecord(c)
    PROVE  ClientInv'
<1>0. Typed /\ Build \in Calls /\ mix \in MixOfCalls /\ pc \in [Calls -> States]
  BY ClientConstants DEF ClientInv, Typed
<1>1. CASE Resumes(c)
  BY <1>1, ResumesCounts
<1>2. CASE Begin(c)
  <2>1. pc[c] = "idle" /\ Take(c, pc) /\ mix' = mix /\ lost' = lost
    BY <1>2 DEF Begin
  <2> QED
    BY <1>0, <2>1, TakeCounts DEF Holding
<1>3. CASE ReadRecord(c)
  <2>1. /\ pc' = [pc EXCEPT ![c] = "read"] /\ pc[c] = "idle"
        /\ UNCHANGED slots /\ mix' = mix /\ lost' = lost
    BY <1>3 DEF ReadRecord
  <2>2. /\ pc' \in [Calls -> States]
        /\ \A d \in Calls : \/ pc'[d] = pc[d] \/ {pc'[d], pc[d]} \subseteq Holding
                            \/ {pc'[d], pc[d]} \cap (Holding \cup {"queued"}) = {}
    BY <1>0, <2>1 DEF States, Holding
  <2> QED
    BY <1>0, <2>1, <2>2, OthersCount
<1>4. CASE CheckSnapshot(c)
  <2>1. pc[c] = "read" /\ mix' = mix /\ lost' = lost
    BY <1>4 DEF CheckSnapshot
  <2>2. CASE Take(c, pc)
    BY <1>0, <2>1, <2>2, TakeCounts DEF Holding
  <2>3. CASE pc' = [pc EXCEPT ![c] = "unbuilt"] /\ UNCHANGED slots
    <3>1. /\ pc' \in [Calls -> States]
          /\ \A d \in Calls : \/ pc'[d] = pc[d] \/ {pc'[d], pc[d]} \subseteq Holding
                              \/ {pc'[d], pc[d]} \cap (Holding \cup {"queued"}) = {}
      BY <1>0, <2>1, <2>3 DEF States, Holding
    <3> QED
      BY <1>0, <2>1, <2>3, <3>1, OthersCount
  <2> QED
    BY <1>4, <2>2, <2>3 DEF CheckSnapshot
<1>5. CASE JoinBuild(c)
  <2> DEFINE joined == [pc EXCEPT ![c] = "awaiting"]
  <2>1. pc[c] = "unbuilt" /\ mix' = mix /\ lost' = lost
    BY <1>5 DEF JoinBuild
  <2>2. /\ joined \in [Calls -> States]
        /\ \A d \in Calls : joined[d] = pc[d] \/ {joined[d], pc[d]} \cap (Holding \cup {"queued"}) = {}
    BY <1>0, <2>1 DEF States, Holding
  <2>3. CASE pc[Build] = "idle" /\ Take(Build, joined)
    <3>1. pc[Build] \notin Holding \cup {"queued"}
      BY <2>3 DEF Holding
    <3> HIDE DEF joined
    <3> QED
      BY <1>0, <2>1, <2>2, <2>3, <3>1, TakeCounts
  <2>4. CASE pc' = joined /\ UNCHANGED slots
    <3> HIDE DEF joined
    <3> QED
      BY <1>0, <2>1, <2>2, <2>4, OthersCount
  <2> QED
    BY <1>5, <2>3, <2>4 DEF JoinBuild
<1>6. CASE Restore(c)
  <2>1. pc[c] = "built" /\ Take(c, pc) /\ mix' = mix /\ lost' = lost
    BY <1>6 DEF Restore
  <2> QED
    BY <1>0, <2>1, TakeCounts DEF Holding
<1>7. CASE Created(c) \/ Started(c) \/ SetUp(c) \/ Close(c)
  <2>1. /\ pc[c] \in Holding /\ UNCHANGED slots /\ lost' = lost
        /\ \E there \in {"starting", "open", "closing"} : pc' = [pc EXCEPT ![c] = there]
    BY <1>7 DEF Created, Started, SetUp, Close, Holding
  <2>2. mix' \in MixOfCalls /\ mix'.max = mix.max
    <3>1. mix' = mix \/ Fault("setup")
      BY <1>7 DEF Created, Started, SetUp, Close
    <3> QED
      BY <1>0, <3>1, FaultKeepsLimit
  <2>3. /\ pc' \in [Calls -> States]
        /\ \A d \in Calls : \/ pc'[d] = pc[d] \/ {pc'[d], pc[d]} \subseteq Holding
                            \/ {pc'[d], pc[d]} \cap (Holding \cup {"queued"}) = {}
    BY <1>0, <2>1 DEF States, Holding
  <2> QED
    BY <2>1, <2>2, <2>3, OthersCount
<1>8. CASE Fails(c)
  <2>1. pc[c] \in Holding /\ pc' = Failed(c) /\ Release /\ lost' = lost
    BY <1>8 DEF Fails, Holding
  <2>2. mix' \in MixOfCalls /\ mix'.max = mix.max
    <3>1. mix' = mix \/ Fault("start")
      BY <1>8 DEF Fails
    <3> QED
      BY <1>0, <3>1, FaultKeepsLimit
  <2>3. /\ pc' \in [Calls -> States] /\ pc'[c] \notin Holding \cup {"queued"}
        /\ \A d \in Calls \ {c} :
               pc'[d] = pc[d] \/ {pc'[d], pc[d]} \cap (Holding \cup {"queued"}) = {}
    BY <1>0, <2>1, FailedMoves
  <2> QED
    BY <2>1, <2>2, <2>3, ReleaseCounts
<1>9. CASE Closed(c)
  <2>1. /\ pc[c] \in Holding /\ Release /\ lost' = lost
        /\ pc' = After(c, TRUE) \/ pc' = After(c, FALSE)
    BY <1>9 DEF Closed, Holding
  <2>2. mix' \in MixOfCalls /\ mix'.max = mix.max
    <3>1. mix' = mix \/ Fault("delete")
      BY <1>9 DEF Closed
    <3> QED
      BY <1>0, <3>1, FaultKeepsLimit
  <2>3. /\ pc' \in [Calls -> States] /\ pc'[c] \notin Holding \cup {"queued"}
        /\ \A d \in Calls \ {c} :
               pc'[d] = pc[d] \/ {pc'[d], pc[d]} \cap (Holding \cup {"queued"}) = {}
    BY <1>0, <2>1, FailedMoves
  <2> QED
    BY <2>1, <2>2, <2>3, ReleaseCounts
<1>10. CASE ClosedUnlogged(c)
  BY <1>10, UnloggedCounts
<1>11. CASE Save(c)
  <2>1. pc[c] = "saving" /\ mix' = mix /\ UNCHANGED slots /\ lost' = lost
    BY <1>11 DEF Save
  <2>2. \/ c = Build /\ pc' = BuildSettles("built")
        \/ pc' = [pc EXCEPT ![c] = "closed"]
    BY <1>11 DEF Save
  <2>3. /\ pc' \in [Calls -> States]
        /\ \A d \in Calls : \/ pc'[d] = pc[d] \/ {pc'[d], pc[d]} \subseteq Holding
                            \/ {pc'[d], pc[d]} \cap (Holding \cup {"queued"}) = {}
    BY <1>0, <2>1, <2>2 DEF States, Holding, BuildSettles
  <2> QED
    BY <1>0, <2>1, <2>3, OthersCount
<1> QED
  BY <1>1, <1>2, <1>3, <1>4, <1>5, <1>6, <1>7, <1>8, <1>9, <1>10, <1>11 DEF Step

(* At first no call holds a slot.                                            *)
LEMMA InitCounts == Init => ClientInv
<1> SUFFICES ASSUME Init PROVE ClientInv
  OBVIOUS
<1>1. Holders = {}
  BY DEF Init, Holders
<1>2. Cardinality(Holders) = 0
  BY <1>1, FS_EmptySet
<1>3. Typed
  BY ClientConstants DEF Init, Typed, States
<1> QED
  BY <1>2, <1>3 DEF Init, ClientInv, WaitsOnce, Counted, NoneIdle

(* Every step keeps the count: of a call, of the provider, or of nobody.     *)
LEMMA StepCounts == ClientInv /\ [Next]_vars => ClientInv'
<1> SUFFICES ASSUME ClientInv, [Next]_vars PROVE ClientInv'
  OBVIOUS
<1>1. CASE \E c \in Calls : Step(c) \/ Begin(c) \/ ReadRecord(c)
  BY <1>1, CallCounts
<1>2. CASE \E s \in DOMAIN snaps : SnapshotLost(s)
  <2>1. Fault("snapshot") /\ UNCHANGED <<slots, pc, lost>>
    BY <1>2 DEF SnapshotLost
  <2>2. mix' \in MixOfCalls /\ mix'.max = mix.max
    BY <2>1, FaultKeepsLimit DEF ClientInv, Typed
  <2> QED
    BY <2>1, <2>2, OthersCount DEF ClientInv, Typed
<1>3. CASE UNCHANGED vars
  <2>1. UNCHANGED <<mix, slots, pc, lost>>
    BY <1>3 DEF vars
  <2> QED
    BY <2>1, OthersCount DEF ClientInv, Typed
<1> QED
  BY <1>1, <1>2, <1>3 DEF Next

-----------------------------------------------------------------------------
(* Whatever fails, and however restores, builds and forks nest, the count is *)
(* that of the sandboxes that are being made or are open and of the slots    *)
(* lost for good, and no slot is free while somebody queues for one          *)
(* (client.ts:1159-1172, and every catch that releases).                     *)
THEOREM SlotsCounted == Spec => []SlotsAreCounted
<1>1. ClientInv => SlotsAreCounted
  BY DEF ClientInv, Counted, NoneIdle, SlotsAreCounted
<1> QED
  BY <1>1, InitCounts, StepCounts, PTL DEF Spec

-----------------------------------------------------------------------------
(* The workflow.                                                             *)

(* What an attempt has of the items: those up to idx are taken, each by one  *)
(* worker, which has done it once when it no longer holds it; an attempt     *)
(* that is not bad has lost none.                                            *)
Holds(b, a, i) == \E w \in Workers : worker[b][a][w] = i

TakenOnce(b, a) ==
    /\ idx[b][a] <= flowMix.items
    /\ \A w \in Workers : worker[b][a][w] <= idx[b][a]
    /\ \A w, x \in Workers : worker[b][a][w] = worker[b][a][x] /\ worker[b][a][w] # 0 => w = x

DoneOnce(b, a) == \A i \in 1..Items :
    /\ ran[b][a][i] <= 1
    /\ ran[b][a][i] # 0 => i <= idx[b][a] /\ vars_[b][i] # 0 /\ ~Holds(b, a, i)

NoneLost(b, a) ==
    a <= attempt[b] /\ a \notin bad[b] =>
        /\ \A i \in 1..idx[b][a] : ran[b][a][i] # 0 \/ Holds(b, a, i)
        /\ \A w \in 1..Crew : worker[b][a][w] = 0 => idx[b][a] = flowMix.items

(* Only the last attempt may be without a failure, and it alone while the    *)
(* sandbox is flushing has workers then.                                     *)
Ahead(b, a) ==
    /\ a > attempt[b] => idx[b][a] = 0 /\ a \notin bad[b]
    /\ a \notin bad[b] /\ (\E w \in Workers : worker[b][a][w] # 0) =>
           a = attempt[b] /\ flowBox[b] = "flushing"

AttemptInv(b, a) == TakenOnce(b, a) /\ DoneOnce(b, a) /\ NoneLost(b, a) /\ Ahead(b, a)

Flushes(b) ==
    /\ flowBox[b] \in {"none", "creating", "ready"} => attempt[b] = 0
    /\ flowBox[b] \in {"flushing", "flushed", "closed"} => attempt[b] \in Attempts \ bad[b]
    /\ flowBox[b] = "backoff" => attempt[b] \in bad[b]

(* The stages before the one that runs are closed, those after it are not    *)
(* begun, and the promise tells how it ended.                                *)
StagesInOrder ==
    /\ \A b \in Boxes : flowBox[b] # "none" =>
          \E n \in DOMAIN flowMix.stages : n <= stage /\ b \in flowMix.stages[n]
    /\ \A n \in DOMAIN flowMix.stages : \A b \in flowMix.stages[n] :
          n < stage \/ promise = "resolved" => flowBox[b] = "closed"
    /\ promise = "rejected" =>
          stage \in DOMAIN flowMix.stages
          /\ \E b \in flowMix.stages[stage] : flowBox[b] \in {"failed", "left"}

FlowInv ==
    /\ FlowTypeOK /\ StagesInOrder
    /\ \A b \in Boxes : Flushes(b) /\ \A a \in Attempts : AttemptInv(b, a)

BoxStates == {"none", "creating", "ready", "flushing", "backoff", "flushed", "threw", "closed",
              "failed", "left"}
SameFlow ==
    /\ flowMix' \in MixOfWorkflows /\ flowMix'.stages = flowMix.stages
    /\ flowMix'.items = flowMix.items /\ flowMix'.concurrency = flowMix.concurrency

(* A fault is spent, or none is: the workflow is the same.                   *)
LEMMA FaultKeepsFlow ==
    ASSUME flowMix \in MixOfWorkflows,
           flowMix' = flowMix \/ \E f \in {"create", "op", "close"} : FlowFault(f)
    PROVE  SameFlow
<1>1. CASE flowMix' = flowMix
  BY <1>1 DEF SameFlow
<1>2. ASSUME NEW f \in {"create", "op", "close"}, FlowFault(f) PROVE SameFlow
  <2>1. flowMix.faults[f] - 1 \in Nat
    BY <1>2 DEF FlowFault, MixOfWorkflows
  <2>2. flowMix' = [flowMix EXCEPT !.faults = [flowMix.faults EXCEPT ![f] = flowMix.faults[f] - 1]]
    BY <1>2 DEF FlowFault
  <2>3. [flowMix.faults EXCEPT ![f] = flowMix.faults[f] - 1] \in [{"create", "op", "close"} -> Nat]
    BY <2>1 DEF MixOfWorkflows
  <2> QED
    BY <2>2, <2>3 DEF SameFlow, MixOfWorkflows
<1> QED
  BY <1>1, <1>2

(* There are as many workers as the concurrency and the items allow, and one *)
(* when there is an item.                                                    *)
LEMMA CrewFits ==
    ASSUME flowMix \in MixOfWorkflows
    PROVE  Crew \in 0..flowMix.items /\ (flowMix.items # 0 => Crew # 0)
<1> DEFINE m == Max({flowMix.concurrency, 1})
<1>1. flowMix.items \in Nat /\ flowMix.concurrency \in Nat
  BY WorkflowConstants DEF MixOfWorkflows
<1>2. m \in Nat /\ m >= 1
  <2>1. \E x \in {flowMix.concurrency, 1} : \A y \in {flowMix.concurrency, 1} : x >= y
    BY <1>1
  <2>2. m \in {flowMix.concurrency, 1} /\ \A y \in {flowMix.concurrency, 1} : m >= y
    BY <2>1 DEF Max
  <2> QED
    BY <1>1, <2>2
<1> HIDE DEF m
<1>3. \E x \in {m, flowMix.items} : \A y \in {m, flowMix.items} : x <= y
  BY <1>1, <1>2
<1>4. Min({m, flowMix.items}) \in {m, flowMix.items} /\ \A y \in {m, flowMix.items} : Min({m, flowMix.items}) <= y
  BY <1>3 DEF Min
<1> QED
  BY <1>1, <1>2, <1>4 DEF Crew, m

(* An attempt that the step does not touch keeps what it has, if it is not   *)
(* made the last one, or loses its place.                                    *)
LEMMA AttemptStays ==
    ASSUME FlowInv, SameFlow, NEW b \in Boxes, NEW a \in Attempts,
           idx'[b][a] = idx[b][a], worker'[b][a] = worker[b][a], ran'[b][a] = ran[b][a],
           \A i \in 1..Items : vars_[b][i] # 0 => vars_'[b][i] # 0,
           a <= attempt'[b] /\ a \notin bad'[b] => a <= attempt[b] /\ a \notin bad[b],
           a > attempt'[b] => a > attempt[b] /\ a \notin bad'[b],
           a \notin bad'[b] /\ (\E w \in Workers : worker[b][a][w] # 0) =>
               a = attempt'[b] /\ flowBox'[b] = "flushing"
    PROVE  AttemptInv(b, a)'
<1>1. AttemptInv(b, a)
  BY DEF FlowInv
<1>2. Crew' = Crew
  BY DEF Crew, SameFlow
<1>3. \A i : Holds(b, a, i)' = Holds(b, a, i)
  BY DEF Holds
<1>4. TakenOnce(b, a)'
  BY <1>1 DEF AttemptInv, TakenOnce, SameFlow
<1>5. DoneOnce(b, a)'
  BY <1>1, <1>3 DEF AttemptInv, DoneOnce
<1>6. NoneLost(b, a)'
  BY <1>1, <1>2, <1>3 DEF AttemptInv, NoneLost, SameFlow
<1>7. Ahead(b, a)'
  BY <1>1 DEF AttemptInv, Ahead
<1> QED
  BY <1>4, <1>5, <1>6, <1>7 DEF AttemptInv

(* Nor does anything change in a sandbox that the step leaves alone, or only *)
(* starts, or ends.                                                          *)
LEMMA BoxStays ==
    ASSUME FlowInv, SameFlow, NEW b \in Boxes, UNCHANGED <<attempt, flow>>,
           flowBox[b] = "flushing" => flowBox'[b] = "flushing"
    PROVE  \A a \in Attempts : AttemptInv(b, a)'
<1> SUFFICES ASSUME NEW a \in Attempts PROVE AttemptInv(b, a)'
  OBVIOUS
<1>1. AttemptInv(b, a)
  BY DEF FlowInv
<1>2. attempt[b] \in Nat /\ a \in Nat
  BY WorkflowConstants DEF FlowInv, FlowTypeOK, Attempts
<1> QED
  BY <1>1, <1>2, AttemptStays DEF AttemptInv, Ahead, flow

(* A step within one sandbox leaves the order of the stages as it was.       *)
LEMMA OrderStays ==
    ASSUME FlowInv, SameFlow, NEW b \in Boxes, UNCHANGED <<promise, stage>>,
           \A c \in Boxes \ {b} : flowBox'[c] = flowBox[c],
           flowBox'[b] = flowBox[b] \/ flowBox[b] \notin Over
    PROVE  StagesInOrder'
<1>1. flowMix.stages \in Seq(SUBSET Boxes)
  BY DEF FlowInv, FlowTypeOK, MixOfWorkflows
<1>2. \A n \in DOMAIN flowMix.stages : flowMix.stages[n] \subseteq Boxes
  BY <1>1
<1> QED
  BY <1>2 DEF FlowInv, StagesInOrder, SameFlow, Over

(* A sandbox settles: its stage is the one that runs, and the next one       *)
(* starts when it was the last of it to close.                               *)
LEMMA SettlesKeeps ==
    ASSUME FlowInv, SameFlow, NEW b \in Boxes, UNCHANGED <<attempt, flow>>,
           NEW how \in {"closed", "failed", "left"}, Settles(b, how),
           flowBox[b] \in {"creating", "flushed", "threw"}, how = "closed" => flowBox[b] = "flushed"
    PROVE  FlowInv'
<1> DEFINE last == Len(flowMix.stages)
<1>1. /\ flowMix.stages \in Seq(SUBSET Boxes) /\ DOMAIN flowMix.stages = 1..last /\ last \in Nat
      /\ \A n \in 1..last : flowMix.stages[n] \subseteq Boxes
      /\ flowMix.items \in Nat
  BY WorkflowConstants DEF FlowInv, FlowTypeOK, MixOfWorkflows
<1>2. stage \in Nat /\ stage >= 1 /\ (last >= 1 => stage <= last)
  <2>1. \E x \in {1, last} : \A y \in {1, last} : x >= y
    BY <1>1
  <2>2. Max({1, last}) \in {1, last} /\ \A y \in {1, last} : Max({1, last}) >= y
    BY <2>1 DEF Max
  <2> QED
    BY <1>1, <2>2 DEF FlowInv, FlowTypeOK
<1>3. stage \in 1..last /\ b \in flowMix.stages[stage] /\ promise # "resolved"
  <2>1. PICK n \in DOMAIN flowMix.stages : n <= stage /\ b \in flowMix.stages[n]
    BY DEF FlowInv, StagesInOrder
  <2>2. ~(n < stage \/ promise = "resolved")
    BY <2>1 DEF FlowInv, StagesInOrder
  <2> QED
    BY <1>1, <1>2, <2>1, <2>2
<1>4. \A m, n \in 1..last : m # n => flowMix.stages[m] \cap flowMix.stages[n] = {}
  BY <1>1 DEF FlowInv, FlowTypeOK, Apart
<1>5. flowBox \in [Boxes -> BoxStates]
  BY DEF FlowInv, FlowTypeOK, BoxStates
<1> DEFINE now == [flowBox EXCEPT ![b] = how]
           over == \A d \in flowMix.stages[stage] : now[d] = "closed"
<1>6. \A c \in Boxes : now[c] = IF c = b THEN how ELSE flowBox[c]
  BY <1>5
<1>7. \/ how # "closed" /\ promise' = "rejected" /\ flowBox' = now /\ stage' = stage
      \/ /\ how = "closed" /\ over /\ stage < last /\ stage' = stage + 1 /\ promise' = promise
         /\ flowBox' = [d \in Boxes |-> IF d = b THEN "closed" ELSE Starts(stage + 1)[d]]
      \/ /\ how = "closed" /\ ~(over /\ stage < last)
         /\ promise' = (IF over THEN "resolved" ELSE promise)
         /\ flowBox' = now /\ stage' = stage
  BY DEF Settles
<1>8. \A c \in Boxes : flowBox'[c] =
          IF c = b THEN how
          ELSE IF stage' = stage + 1 /\ c \in flowMix.stages[stage'] THEN "creating" ELSE flowBox[c]
  <2>1. CASE flowBox' = now /\ stage' = stage
    BY <1>2, <1>6, <2>1
  <2>2. CASE how = "closed" /\ stage < last /\ stage' = stage + 1
             /\ flowBox' = [d \in Boxes |-> IF d = b THEN "closed" ELSE Starts(stage + 1)[d]]
    BY <1>1, <1>2, <2>2 DEF Starts
  <2> HIDE DEF now, over
  <2> QED
    BY <1>7, <2>1, <2>2
<1>9. \A c \in flowMix.stages[stage] \ {b} : flowBox'[c] = flowBox[c]
  BY <1>1, <1>2, <1>3, <1>4, <1>7, <1>8
<1>10. \A c \in Boxes : c # b /\ flowBox'[c] # flowBox[c] => flowBox[c] = "none" /\ flowBox'[c] = "creating"
  <2> SUFFICES ASSUME NEW c \in Boxes, c # b, flowBox'[c] # flowBox[c], flowBox[c] # "none" PROVE FALSE
    BY <1>8
  <2>1. stage' = stage + 1 /\ c \in flowMix.stages[stage + 1] /\ stage + 1 \in 1..last
    BY <1>1, <1>2, <1>7, <1>8
  <2>2. PICK n \in 1..last : n <= stage /\ c \in flowMix.stages[n]
    BY <1>1 DEF FlowInv, StagesInOrder
  <2> QED
    BY <1>2, <1>4, <2>1, <2>2
<1>11. flowBox' \in [Boxes -> BoxStates]
  <2>1. DOMAIN flowBox' = Boxes /\ flowBox' = [c \in Boxes |-> flowBox'[c]]
    BY <1>5, <1>7
  <2>2. \A c \in Boxes : flowBox'[c] \in BoxStates
    BY <1>5, <1>8 DEF BoxStates
  <2> QED
    BY <2>1, <2>2
<1>12. FlowTypeOK'
  <2>1. Apart(flowMix)'
    BY DEF FlowInv, FlowTypeOK, Apart, SameFlow
  <2>2. stage' \in 1..Max({1, last}) /\ promise' \in {"pending", "resolved", "rejected"}
    <3>1. \E x \in {1, last} : \A y \in {1, last} : x >= y
      BY <1>1
    <3>2. Max({1, last}) \in {1, last} /\ \A y \in {1, last} : Max({1, last}) >= y
      BY <3>1 DEF Max
    <3> QED
      BY <1>1, <1>2, <1>7, <3>2 DEF FlowInv, FlowTypeOK
  <2> QED
    BY <1>11, <2>1, <2>2 DEF FlowInv, FlowTypeOK, SameFlow, flow, BoxStates
<1>13. StagesInOrder'
  <2>1. \A c \in Boxes : flowBox'[c] # "none" => \E n \in 1..last : n <= stage' /\ c \in flowMix.stages[n]
    <3>1. \A c \in Boxes : flowBox[c] # "none" => \E n \in 1..last : n <= stage' /\ c \in flowMix.stages[n]
      <4>1. \A c \in Boxes : flowBox[c] # "none" => \E n \in 1..last : n <= stage /\ c \in flowMix.stages[n]
        BY <1>1 DEF FlowInv, StagesInOrder
      <4>2. stage' \in Nat /\ stage <= stage'
        BY <1>2, <1>7
      <4> QED
        BY <1>2, <4>1, <4>2
    <3> QED
      BY <1>1, <1>2, <1>7, <1>8, <3>1
  <2>2. ASSUME NEW n \in 1..last, NEW c \in flowMix.stages[n], n < stage' \/ promise' = "resolved"
        PROVE  flowBox'[c] = "closed"
    <3>1. n <= stage
      BY <1>1, <1>2, <1>3, <1>7, <2>2
    <3>2. CASE n < stage
      <4>1. flowBox[c] = "closed" /\ c # b
        BY <1>1, <1>3, <3>2 DEF FlowInv, StagesInOrder
      <4> QED
        BY <1>1, <1>10, <4>1
    <3>3. CASE n = stage
      <4>1. how = "closed" /\ over
        BY <1>2, <1>3, <1>7, <2>2, <3>3
      <4> QED
        BY <1>1, <1>6, <1>8, <1>9, <3>3, <4>1
    <3> QED
      BY <1>2, <3>1, <3>2, <3>3
  <2>3. ASSUME promise' = "rejected"
        PROVE  stage' = stage /\ \E c \in flowMix.stages[stage] : flowBox'[c] \in {"failed", "left"}
    <3>1. CASE how # "closed"
      BY <1>1, <1>3, <1>7, <1>8, <3>1
    <3>2. CASE how = "closed"
      <4>1. promise = "rejected"
        BY <1>7, <2>3, <3>2
      <4>2. PICK c \in flowMix.stages[stage] : flowBox[c] \in {"failed", "left"}
        BY <4>1 DEF FlowInv, StagesInOrder
      <4>3. c # b /\ now[c] # "closed"
        BY <1>1, <1>3, <1>6, <4>2
      <4> QED
        BY <1>3, <1>7, <1>9, <3>2, <4>2, <4>3
    <3> QED
      BY <3>1, <3>2
  <2> QED
    BY <1>1, <1>3, <2>1, <2>2, <2>3 DEF StagesInOrder, SameFlow
<1>14. ASSUME NEW c \in Boxes PROVE Flushes(c)' /\ \A a \in Attempts : AttemptInv(c, a)'
  <2>1. Flushes(c)
    BY DEF FlowInv
  <2>2. Flushes(c)'
    <3>1. CASE c = b
      BY <1>8, <2>1, <3>1 DEF Flushes, flow
    <3>2. CASE c # b
      BY <1>10, <2>1, <3>2 DEF Flushes, flow
    <3> QED
      BY <3>1, <3>2
  <2>3. flowBox[c] = "flushing" => flowBox'[c] = "flushing"
    BY <1>10
  <2> QED
    BY <2>2, <2>3, BoxStays
<1> QED
  BY <1>12, <1>13, <1>14 DEF FlowInv

(* What a step within one sandbox keeps of the types: the rest is of the     *)
(* sandbox itself.                                                           *)
LEMMA InsideTyped ==
    ASSUME FlowInv, SameFlow, UNCHANGED <<promise, stage>>, flowBox' \in [Boxes -> BoxStates],
           attempt' \in [Boxes -> 0..MaxAttempts], idx' \in [Boxes -> [Attempts -> 0..Items]],
           worker' \in [Boxes -> [Attempts -> [Workers -> 0..Items]]],
           bad' \in [Boxes -> SUBSET Attempts], vars_' \in [Boxes -> [1..Items -> 0..MaxAttempts]],
           ran' \in [Boxes -> [Attempts -> [1..Items -> Nat]]]
    PROVE  FlowTypeOK'
<1>1. Apart(flowMix)'
  BY DEF FlowInv, FlowTypeOK, Apart, SameFlow
<1> QED
  BY <1>1 DEF FlowInv, FlowTypeOK, SameFlow, BoxStates

(* The sandbox is there, and its operations are flushed.                     *)
LEMMA CreatedKeeps ==
    ASSUME FlowInv, NEW b \in Boxes, BoxCreated(b)
    PROVE  FlowInv'
<1> USE DEF FlowInv
<1>1. CASE flowBox' = [flowBox EXCEPT ![b] = "ready"] /\ UNCHANGED <<flowMix, promise, stage, attempt, flow>>
  <2>1. SameFlow
    BY <1>1, FaultKeepsFlow DEF FlowTypeOK
  <2>2. FlowTypeOK'
    BY <1>1, <2>1, InsideTyped DEF FlowTypeOK, flow, BoxStates
  <2>3. StagesInOrder'
    BY <1>1, <2>1, OrderStays DEF BoxCreated, Over, FlowTypeOK
  <2>4. ASSUME NEW c \in Boxes PROVE Flushes(c)' /\ \A a \in Attempts : AttemptInv(c, a)'
    <3>1. flowBox'[c] = IF c = b THEN "ready" ELSE flowBox[c]
      BY <1>1 DEF FlowTypeOK
    <3>2. Flushes(c)'
      BY <1>1, <3>1 DEF Flushes, BoxCreated, flow
    <3>3. flowBox[c] = "flushing" => flowBox'[c] = "flushing"
      BY <3>1 DEF BoxCreated
    <3> QED
      BY <1>1, <2>1, <3>2, <3>3, BoxStays
  <2> QED
    BY <2>2, <2>3, <2>4
<1>2. CASE FlowFault("create") /\ Settles(b, "failed")
  <2>1. SameFlow
    BY <1>2, FaultKeepsFlow DEF FlowTypeOK
  <2> QED
    BY <1>2, <2>1, SettlesKeeps DEF BoxCreated
<1> QED
  BY <1>1, <1>2 DEF BoxCreated

(* It is closed, or its close() has failed.                                  *)
LEMMA ClosedKeeps ==
    ASSUME FlowInv, NEW b \in Boxes, BoxClosed(b)
    PROVE  FlowInv'
<1>1. SameFlow
  BY FaultKeepsFlow DEF FlowInv, FlowTypeOK, BoxClosed
<1>2. UNCHANGED <<attempt, flow>>
  BY DEF BoxClosed
<1>3. CASE flowBox[b] = "flushed" /\ Settles(b, "closed")
  BY <1>1, <1>2, <1>3, SettlesKeeps
<1>4. CASE flowBox[b] = "threw" /\ Settles(b, "failed")
  BY <1>1, <1>2, <1>4, SettlesKeeps
<1>5. CASE flowBox[b] \in {"flushed", "threw"} /\ Settles(b, "left")
  BY <1>1, <1>2, <1>5, SettlesKeeps
<1> QED
  BY <1>3, <1>4, <1>5 DEF BoxClosed

(* An attempt begins: its workers hold the first items, each its own.        *)
LEMMA AttemptKeeps ==
    ASSUME FlowInv, NEW b \in Boxes, NextAttempt(b)
    PROVE  FlowInv'
<1> USE DEF FlowInv
<1>1. SameFlow /\ UNCHANGED <<promise, stage, bad, ran, vars_>>
  BY FaultKeepsFlow DEF NextAttempt, FlowTypeOK
<1>2. /\ flowMix.items \in 0..Items /\ flowMix.attempts \in 0..MaxAttempts /\ Items \in Nat
      /\ MaxAttempts \in Nat /\ attempt[b] \in 0..MaxAttempts
  BY WorkflowConstants DEF FlowTypeOK, MixOfWorkflows
<1>3. Crew \in 0..flowMix.items /\ (flowMix.items # 0 => Crew # 0) /\ Crew' = Crew
  BY <1>1, CrewFits DEF FlowTypeOK, Crew, SameFlow
<1>4. flowBox[b] \in {"ready", "backoff"} /\ (flowBox[b] = "ready" => attempt[b] = 0)
      /\ (flowBox[b] = "backoff" => attempt[b] \in bad[b])
  BY DEF NextAttempt, Flushes
<1>A. PICK A \in Nat : A = attempt[b] + 1
  BY <1>2
<1>5. CASE A > flowMix.attempts
  <2>1. flowBox' = [flowBox EXCEPT ![b] = "threw"] /\ UNCHANGED <<attempt, flow>>
    BY <1>1, <1>5, <1>A DEF NextAttempt, flow
  <2>2. \A c \in Boxes : flowBox'[c] = IF c = b THEN "threw" ELSE flowBox[c]
    BY <2>1 DEF FlowTypeOK
  <2>3. FlowTypeOK'
    BY <1>1, <2>1, InsideTyped DEF FlowTypeOK, flow, BoxStates
  <2>4. StagesInOrder'
    BY <1>1, <1>4, <2>2, OrderStays DEF Over
  <2>5. ASSUME NEW c \in Boxes PROVE Flushes(c)' /\ \A a \in Attempts : AttemptInv(c, a)'
    <3>1. Flushes(c)'
      BY <2>1, <2>2 DEF Flushes, flow
    <3>2. flowBox[c] = "flushing" => flowBox'[c] = "flushing"
      BY <1>4, <2>2
    <3> QED
      BY <1>1, <2>1, <3>1, <3>2, BoxStays
  <2> QED
    BY <2>3, <2>4, <2>5
<1>6. CASE A <= flowMix.attempts
  <2> DEFINE crew == [w \in Workers |-> IF w <= Crew THEN w ELSE 0]
             there == IF Crew = 0 THEN "flushed" ELSE "flushing"
  <2>1. /\ attempt' = [attempt EXCEPT ![b] = A]
        /\ idx' = [idx EXCEPT ![b] = [idx[b] EXCEPT ![A] = Crew]]
        /\ worker' = [worker EXCEPT ![b] = [worker[b] EXCEPT ![A] = crew]]
        /\ flowBox' = [flowBox EXCEPT ![b] = there]
    BY <1>2, <1>6, <1>A DEF NextAttempt
  <2>2. A \in Attempts /\ A \in 0..MaxAttempts /\ A # attempt[b]
    BY <1>2, <1>6, <1>A DEF Attempts
  <2>3. crew \in [Workers -> 0..Items] /\ Crew \in 0..Items
    BY <1>2, <1>3 DEF Workers
  <2>4. there \in BoxStates
    BY DEF BoxStates
  <2> HIDE DEF crew, there
  <2>5. /\ \A c \in Boxes \ {b} : /\ attempt'[c] = attempt[c] /\ flowBox'[c] = flowBox[c]
                                  /\ idx'[c] = idx[c] /\ worker'[c] = worker[c]
        /\ attempt'[b] = A /\ flowBox'[b] = there /\ idx'[b][A] = Crew /\ worker'[b][A] = crew
        /\ \A a \in Attempts \ {A} : idx'[b][a] = idx[b][a] /\ worker'[b][a] = worker[b][a]
    BY <2>1, <2>2 DEF FlowTypeOK
  <2>6. FlowTypeOK'
    <3>1. idx' \in [Boxes -> [Attempts -> 0..Items]]
      BY <2>1, <2>2, <2>3 DEF FlowTypeOK
    <3>2. worker' \in [Boxes -> [Attempts -> [Workers -> 0..Items]]]
      BY <2>1, <2>2, <2>3 DEF FlowTypeOK
    <3> QED
      BY <1>1, <2>1, <2>2, <2>4, <3>1, <3>2, InsideTyped DEF FlowTypeOK, BoxStates
  <2>7. StagesInOrder'
    BY <1>1, <1>4, <2>5, OrderStays DEF Over
  <2>8. A \notin bad[b] /\ idx[b][A] = 0
    BY <1>2, <1>A, <2>2 DEF AttemptInv, Ahead
  <2>9. ASSUME NEW c \in Boxes \ {b} PROVE Flushes(c)' /\ \A a \in Attempts : AttemptInv(c, a)'
    <3>1. Flushes(c)'
      BY <1>1, <2>5 DEF Flushes
    <3>2. ASSUME NEW a \in Attempts PROVE AttemptInv(c, a)'
      <4>1. AttemptInv(c, a)
        OBVIOUS
      <4>2. attempt[c] \in Nat /\ a \in Nat
        BY <1>2 DEF FlowTypeOK, Attempts
      <4> QED
        BY <1>1, <2>5, <4>1, <4>2, AttemptStays DEF AttemptInv, Ahead
    <3> QED
      BY <3>1, <3>2
  <2>10. Flushes(b)'
    BY <1>1, <2>2, <2>5, <2>8 DEF Flushes, there
  <2>11. ASSUME NEW a \in Attempts \ {A} PROVE AttemptInv(b, a)'
    <3>1. AttemptInv(b, a)
      OBVIOUS
    <3>2. a \in Nat
      BY <1>2 DEF Attempts
    <3>3. a <= A => a <= attempt[b]
      BY <1>2, <1>A, <3>2
    <3>4. a > A => a > attempt[b]
      BY <1>2, <1>A, <3>2
    <3>5. a \notin bad[b] => \A w \in Workers : worker[b][a][w] = 0
      BY <1>4, <3>1 DEF AttemptInv, Ahead
    <3> QED
      BY <1>1, <2>5, <3>1, <3>3, <3>4, <3>5, AttemptStays DEF AttemptInv, Ahead
  <2>12. AttemptInv(b, A)'
    <3>1. AttemptInv(b, A)
      BY <2>2
    <3>2. \A w \in Workers : worker'[b][A][w] = IF w <= Crew THEN w ELSE 0
      BY <2>5 DEF crew
    <3>3. flowMix'.items = flowMix.items
      BY <1>1 DEF SameFlow
    <3>4. TakenOnce(b, A)'
      BY <1>2, <1>3, <2>5, <3>2, <3>3 DEF TakenOnce, Workers
    <3>5. \A i \in 1..Items : ran[b][A][i] = 0
      BY <1>2, <2>2, <2>8, <3>1 DEF AttemptInv, DoneOnce, FlowTypeOK
    <3>6. DoneOnce(b, A)'
      BY <1>1, <3>5 DEF DoneOnce
    <3>7. NoneLost(b, A)'
      <4>1. \A i \in 1..Crew : i \in Workers /\ worker'[b][A][i] = i
        BY <1>2, <1>3, <3>2 DEF Workers
      <4>2. \A i \in 1..Crew : Holds(b, A, i)'
        BY <4>1 DEF Holds
      <4> QED
        BY <1>2, <1>3, <2>5, <4>1, <4>2 DEF NoneLost
    <3>8. Ahead(b, A)'
      <4>1. (\E w \in Workers : worker'[b][A][w] # 0) => Crew # 0
        BY <1>3, <3>2 DEF Workers
      <4> QED
        BY <1>2, <2>2, <2>5, <4>1 DEF Ahead, there
    <3> QED
      BY <3>4, <3>6, <3>7, <3>8 DEF AttemptInv
  <2> QED
    BY <2>6, <2>7, <2>9, <2>10, <2>11, <2>12
<1> QED
  BY <1>2, <1>5, <1>6

(* A step of a worker is in its attempt alone: it moves that one worker, and *)
(* takes at most the next item.                                              *)
LEMMA OthersWork ==
    ASSUME FlowInv, SameFlow, NEW b \in Boxes, NEW a \in Attempts, attempt' = attempt,
           idx' = [idx EXCEPT ![b] = [idx[b] EXCEPT ![a] = idx'[b][a]]],
           worker' = [worker EXCEPT ![b] = [worker[b] EXCEPT ![a] = worker'[b][a]]],
           ran' = [ran EXCEPT ![b] = [ran[b] EXCEPT ![a] = ran'[b][a]]],
           \A c \in Boxes \ {b} : UNCHANGED <<flowBox[c], bad[c], vars_[c]>>,
           bad'[b] \in {bad[b], bad[b] \cup {a}},
           \A i \in 1..Items : vars_[b][i] # 0 => vars_'[b][i] # 0,
           a \notin bad[b] => a = attempt[b] /\ flowBox[b] = "flushing",
           a \in bad[b] => flowBox'[b] = flowBox[b],
           Flushes(b)', AttemptInv(b, a)'
    PROVE  \A c \in Boxes : Flushes(c)' /\ \A e \in Attempts : AttemptInv(c, e)'
<1> USE DEF FlowInv
<1>1. \A c \in Boxes, e \in Attempts : c # b \/ e # a =>
          idx'[c][e] = idx[c][e] /\ worker'[c][e] = worker[c][e] /\ ran'[c][e] = ran[c][e]
  BY DEF FlowTypeOK
<1>2. \A c \in Boxes, e \in Attempts : attempt[c] \in Nat /\ e \in Nat
  BY WorkflowConstants DEF FlowTypeOK, Attempts
<1>3. ASSUME NEW c \in Boxes \ {b} PROVE Flushes(c)' /\ \A e \in Attempts : AttemptInv(c, e)'
  <2>1. Flushes(c)'
    BY DEF Flushes
  <2>2. ASSUME NEW e \in Attempts PROVE AttemptInv(c, e)'
    <3>1. AttemptInv(c, e)
      OBVIOUS
    <3> QED
      BY <1>1, <1>2, <3>1, AttemptStays DEF AttemptInv, Ahead
  <2> QED
    BY <2>1, <2>2
<1>4. ASSUME NEW e \in Attempts \ {a} PROVE AttemptInv(b, e)'
  <2>1. AttemptInv(b, e)
    OBVIOUS
  <2>2. e \notin bad[b] /\ (\E w \in Workers : worker[b][e][w] # 0) => flowBox'[b] = flowBox[b]
    BY <1>2, <2>1 DEF AttemptInv, Ahead
  <2>3. e \in bad'[b] <=> e \in bad[b]
    OBVIOUS
  <2> QED
    BY <1>1, <1>2, <2>1, <2>2, <2>3, AttemptStays DEF AttemptInv, Ahead
<1> QED
  BY <1>3, <1>4

(* An operation is done: its item is no longer held and was not done before, *)
(* and the one that is taken is nobody's yet.                                *)
LEMMA DoneKeeps ==
    ASSUME FlowInv, NEW b \in Boxes, NEW a \in Attempts, NEW w \in Workers, OpDone(b, a, w)
    PROVE  FlowInv'
<1> USE DEF FlowInv
<1> DEFINE there == IF a \notin bad[b] /\ \A x \in Workers : worker'[b][a][x] = 0
                    THEN "flushed" ELSE flowBox[b]
<1>1. SameFlow /\ UNCHANGED <<promise, stage, attempt, bad>>
  BY FaultKeepsFlow DEF OpDone, FlowTypeOK
<1>2. /\ flowMix.items \in 0..Items /\ Items \in Nat /\ MaxAttempts \in Nat
      /\ Crew' = Crew /\ Crew \in 0..flowMix.items /\ flowMix'.items = flowMix.items
  BY <1>1, WorkflowConstants, CrewFits DEF FlowTypeOK, MixOfWorkflows, SameFlow, Crew
<1>3. AttemptInv(b, a) /\ idx[b][a] \in 0..Items /\ \A x \in Workers : worker[b][a][x] \in 0..Items
  BY DEF FlowTypeOK
<1>4. PICK i \in 1..Items : i = worker[b][a][w]
  BY <1>2, <1>3 DEF OpDone
<1>5. ran[b][a][i] = 0 /\ i <= idx[b][a]
  BY <1>3, <1>4 DEF AttemptInv, DoneOnce, TakenOnce, Holds
<1>6. /\ ran' = [ran EXCEPT ![b] = [ran[b] EXCEPT ![a] = [ran[b][a] EXCEPT ![i] = 1]]]
      /\ vars_' = [vars_ EXCEPT ![b] = [vars_[b] EXCEPT ![i] = a]]
      /\ flowBox' = IF there = "flushed" THEN [flowBox EXCEPT ![b] = "flushed"] ELSE flowBox
  <2>1. ran[b][a][i] + 1 = 1
    BY <1>5
  <2>2. a \notin bad[b] => flowBox[b] = "flushing"
    BY <1>3, <1>4 DEF AttemptInv, Ahead, OpDone
  <2>3. ran' = [ran EXCEPT ![b] = [ran[b] EXCEPT ![a] = [ran[b][a] EXCEPT ![i] = ran[b][a][i] + 1]]]
    BY <1>4 DEF OpDone
  <2>4. vars_' = [vars_ EXCEPT ![b] = [vars_[b] EXCEPT ![i] = a]]
    BY <1>4 DEF OpDone
  <2>5. flowBox' = IF there = "flushed" THEN [flowBox EXCEPT ![b] = "flushed"] ELSE flowBox
    <3>1. CASE a \notin bad[b] /\ \A x \in Workers : worker'[b][a][x] = 0
      BY <3>1 DEF OpDone
    <3>2. CASE ~(a \notin bad[b] /\ \A x \in Workers : worker'[b][a][x] = 0)
      <4>1. flowBox' = flowBox /\ there = flowBox[b]
        BY <3>2 DEF OpDone
      <4>2. flowBox[b] = "flushed" => [flowBox EXCEPT ![b] = "flushed"] = flowBox
        BY DEF FlowTypeOK
      <4> QED
        BY <4>1, <4>2
    <3> QED
      BY <3>1, <3>2
  <2> QED
    BY <2>1, <2>3, <2>4, <2>5
<1>7. PICK k \in 0..Items :
          /\ worker' = [worker EXCEPT ![b] = [worker[b] EXCEPT ![a] = [worker[b][a] EXCEPT ![w] = k]]]
          /\ \/ /\ k = idx[b][a] + 1 /\ k <= flowMix.items
                /\ idx' = [idx EXCEPT ![b] = [idx[b] EXCEPT ![a] = k]]
             \/ k = 0 /\ idx' = idx /\ idx[b][a] >= flowMix.items
  <2>1. CASE idx[b][a] < flowMix.items
    <3>1. idx[b][a] + 1 \in 0..Items /\ idx[b][a] + 1 <= flowMix.items
      BY <1>2, <1>3, <2>1
    <3>2. /\ idx' = [idx EXCEPT ![b] = [idx[b] EXCEPT ![a] = idx[b][a] + 1]]
          /\ worker' = [worker EXCEPT ![b] = [worker[b] EXCEPT ![a] = [worker[b][a] EXCEPT ![w] = idx[b][a] + 1]]]
      BY <2>1 DEF OpDone, Takes
    <3> QED
      BY <3>1, <3>2
  <2>2. CASE ~(idx[b][a] < flowMix.items)
    BY <1>2, <1>3, <2>2 DEF OpDone, Takes
  <2> QED
    BY <2>1, <2>2
<1>8. /\ \A x \in Workers : worker'[b][a][x] = IF x = w THEN k ELSE worker[b][a][x]
      /\ \A j \in 1..Items : ran'[b][a][j] = IF j = i THEN 1 ELSE ran[b][a][j]
      /\ \A j \in 1..Items : vars_'[b][j] = IF j = i THEN a ELSE vars_[b][j]
      /\ idx'[b][a] = IF k = 0 THEN idx[b][a] ELSE k
  <2>1. \A x \in Workers : worker'[b][a][x] = IF x = w THEN k ELSE worker[b][a][x]
    BY <1>7 DEF FlowTypeOK
  <2>2. \A j \in 1..Items : ran'[b][a][j] = IF j = i THEN 1 ELSE ran[b][a][j]
    <3>1. ran \in [Boxes -> [Attempts -> [1..Items -> Nat]]]
      BY DEF FlowTypeOK
    <3>2. ran[b] \in [Attempts -> [1..Items -> Nat]]
      BY <3>1
    <3>3. ran[b][a] \in [1..Items -> Nat]
      BY <3>2
    <3>4. ran'[b] = [ran[b] EXCEPT ![a] = [ran[b][a] EXCEPT ![i] = 1]]
      BY <1>6, <3>1
    <3>5. ran'[b][a] = [ran[b][a] EXCEPT ![i] = 1]
      BY <3>2, <3>4
    <3> QED
      BY <3>3, <3>5
  <2>3. \A j \in 1..Items : vars_'[b][j] = IF j = i THEN a ELSE vars_[b][j]
    BY <1>6 DEF FlowTypeOK
  <2>4. CASE k = idx[b][a] + 1 /\ idx' = [idx EXCEPT ![b] = [idx[b] EXCEPT ![a] = k]]
    BY <1>3, <2>1, <2>2, <2>3, <2>4 DEF FlowTypeOK
  <2>5. CASE k = 0 /\ idx' = idx
    BY <2>1, <2>2, <2>3, <2>5
  <2> QED
    BY <1>7, <2>4, <2>5
<1>9. a # 0 /\ a \in 0..MaxAttempts
  BY <1>2 DEF Attempts
<1>10. FlowTypeOK'
  <2>1. idx' \in [Boxes -> [Attempts -> 0..Items]]
    <3>1. CASE idx' = idx
      BY <3>1 DEF FlowTypeOK
    <3>2. CASE idx' = [idx EXCEPT ![b] = [idx[b] EXCEPT ![a] = k]]
      BY <3>2 DEF FlowTypeOK
    <3> QED
      BY <1>7, <3>1, <3>2
  <2>2. worker' \in [Boxes -> [Attempts -> [Workers -> 0..Items]]]
    BY <1>7 DEF FlowTypeOK
  <2>3. ran' \in [Boxes -> [Attempts -> [1..Items -> Nat]]]
    BY <1>6 DEF FlowTypeOK
  <2>4. vars_' \in [Boxes -> [1..Items -> 0..MaxAttempts]]
    BY <1>6, <1>9 DEF FlowTypeOK
  <2>5. flowBox' \in [Boxes -> BoxStates]
    BY <1>6 DEF FlowTypeOK, BoxStates
  <2> QED
    BY <1>1, <2>1, <2>2, <2>3, <2>4, <2>5, InsideTyped DEF FlowTypeOK
<1>11. a \notin bad[b] => a = attempt[b] /\ flowBox[b] = "flushing"
  BY <1>3, <1>4 DEF AttemptInv, Ahead
<1>12. /\ flowBox'[b] = there /\ \A c \in Boxes \ {b} : flowBox'[c] = flowBox[c]
       /\ a \in bad[b] => flowBox'[b] = flowBox[b]
  BY <1>6 DEF FlowTypeOK
<1>13. StagesInOrder'
  <2>1. flowBox'[b] = flowBox[b] \/ flowBox[b] \notin Over
    BY <1>11, <1>12 DEF Over
  <2> QED
    BY <1>1, <1>12, <2>1, OrderStays
<1>14. Flushes(b)'
  BY <1>1, <1>11, <1>12 DEF Flushes
<1>15. AttemptInv(b, a)'
  <2>1. TakenOnce(b, a)'
    BY <1>2, <1>3, <1>4, <1>7, <1>8 DEF AttemptInv, TakenOnce
  <2>2. DoneOnce(b, a)'
    <3>1. ASSUME NEW j \in 1..Items, ran'[b][a][j] # 0
          PROVE  j <= idx'[b][a] /\ vars_'[b][j] # 0 /\ ~Holds(b, a, j)'
      <4>1. j <= idx[b][a] /\ vars_'[b][j] # 0
        BY <1>3, <1>5, <1>8, <1>9, <3>1 DEF AttemptInv, DoneOnce
      <4>2. \A x \in Workers \ {w} : worker[b][a][x] # j
        BY <1>3, <1>4, <1>8, <3>1 DEF AttemptInv, DoneOnce, TakenOnce, Holds
      <4>3. k # j
        BY <1>3, <1>7, <4>1
      <4> QED
        BY <1>3, <1>7, <1>8, <4>1, <4>2, <4>3 DEF Holds
    <3>2. \A j \in 1..Items : ran'[b][a][j] <= 1
      BY <1>3, <1>8 DEF AttemptInv, DoneOnce
    <3> QED
      BY <3>1, <3>2 DEF DoneOnce
  <2>3. NoneLost(b, a)'
    <3> SUFFICES ASSUME a \notin bad[b], a <= attempt[b]
                 PROVE  /\ \A j \in 1..idx'[b][a] : ran'[b][a][j] # 0 \/ Holds(b, a, j)'
                        /\ \A x \in 1..Crew : worker'[b][a][x] = 0 => idx'[b][a] = flowMix.items
      BY <1>1, <1>2 DEF NoneLost
    <3>1. ASSUME NEW j \in 1..idx'[b][a] PROVE ran'[b][a][j] # 0 \/ Holds(b, a, j)'
      <4>1. j \in 1..Items
        BY <1>2, <1>3, <1>8
      <4>2. CASE j = k
        BY <1>8, <4>2 DEF Holds
      <4>3. CASE j # k /\ j # i
        <5>1. j \in 1..idx[b][a]
          BY <1>3, <1>7, <1>8, <4>3
        <5>2. ran[b][a][j] # 0 \/ \E x \in Workers \ {w} : worker[b][a][x] = j
          BY <1>3, <1>4, <4>3, <5>1 DEF AttemptInv, NoneLost, Holds
        <5> QED
          BY <1>8, <4>1, <4>3, <5>2 DEF Holds
      <4> QED
        BY <1>8, <4>1, <4>2, <4>3
    <3>2. ASSUME NEW x \in 1..Crew, worker'[b][a][x] = 0 PROVE idx'[b][a] = flowMix.items
      <4>1. x \in Workers
        BY <1>2 DEF Workers
      <4>2. CASE k # 0 /\ x # w
        BY <1>2, <1>3, <1>4, <1>7, <1>8, <3>2, <4>1, <4>2 DEF AttemptInv, NoneLost
      <4>3. CASE k = 0
        BY <1>2, <1>3, <1>7, <1>8, <4>3 DEF AttemptInv, TakenOnce
      <4> QED
        BY <1>8, <3>2, <4>1, <4>2, <4>3
    <3> QED
      BY <3>1, <3>2
  <2>4. Ahead(b, a)'
    BY <1>1, <1>3, <1>9, <1>11, <1>12 DEF Ahead, AttemptInv, Attempts
  <2> QED
    BY <2>1, <2>2, <2>3, <2>4 DEF AttemptInv
<1>16. \A c \in Boxes : Flushes(c)' /\ \A e \in Attempts : AttemptInv(c, e)'
  <2>1. idx' = [idx EXCEPT ![b] = [idx[b] EXCEPT ![a] = idx'[b][a]]]
    BY <1>7, <1>8 DEF FlowTypeOK
  <2>2. worker' = [worker EXCEPT ![b] = [worker[b] EXCEPT ![a] = worker'[b][a]]]
    BY <1>7 DEF FlowTypeOK
  <2>3. ran' = [ran EXCEPT ![b] = [ran[b] EXCEPT ![a] = ran'[b][a]]]
    BY <1>6 DEF FlowTypeOK
  <2>4. \A c \in Boxes \ {b} : vars_'[c] = vars_[c]
    BY <1>6 DEF FlowTypeOK
  <2>5. \A j \in 1..Items : vars_[b][j] # 0 => vars_'[b][j] # 0
    BY <1>8, <1>9
  <2> QED
    BY <1>1, <1>11, <1>12, <1>14, <1>15, <2>1, <2>2, <2>3, <2>4, <2>5, OthersWork
<1> QED
  BY <1>10, <1>13, <1>16

(* An operation fails: its worker ends, and the attempt is bad.              *)
LEMMA FailsKeeps ==
    ASSUME FlowInv, NEW b \in Boxes, NEW a \in Attempts, NEW w \in Workers, OpFails(b, a, w)
    PROVE  FlowInv'
<1> USE DEF FlowInv
<1> DEFINE there == IF a \in bad[b] THEN flowBox[b]
                    ELSE IF a < flowMix.attempts THEN "backoff" ELSE "threw"
<1>1. SameFlow /\ UNCHANGED <<promise, stage, attempt, idx, ran, vars_>>
  BY FaultKeepsFlow DEF OpFails, FlowTypeOK
<1>2. Items \in Nat /\ MaxAttempts \in Nat /\ Crew' = Crew /\ flowMix'.items = flowMix.items
  BY <1>1, WorkflowConstants DEF SameFlow, Crew
<1>3. AttemptInv(b, a) /\ \A x \in Workers : worker[b][a][x] \in 0..Items
  BY DEF FlowTypeOK
<1>4. /\ worker' = [worker EXCEPT ![b] = [worker[b] EXCEPT ![a] = [worker[b][a] EXCEPT ![w] = 0]]]
      /\ bad' = [bad EXCEPT ![b] = bad[b] \cup {a}]
      /\ flowBox' = IF a \in bad[b] THEN flowBox ELSE [flowBox EXCEPT ![b] = there]
  BY DEF OpFails
<1>5. /\ \A x \in Workers : worker'[b][a][x] = IF x = w THEN 0 ELSE worker[b][a][x]
      /\ bad'[b] = bad[b] \cup {a} /\ flowBox'[b] = there
      /\ \A c \in Boxes \ {b} : flowBox'[c] = flowBox[c] /\ bad'[c] = bad[c]
  BY <1>4 DEF FlowTypeOK
<1>6. a \notin bad[b] => a = attempt[b] /\ flowBox[b] = "flushing"
  BY <1>3 DEF AttemptInv, Ahead, OpFails
<1>7. FlowTypeOK'
  <2>1. worker' \in [Boxes -> [Attempts -> [Workers -> 0..Items]]]
    BY <1>2, <1>4 DEF FlowTypeOK
  <2>2. bad' \in [Boxes -> SUBSET Attempts]
    BY <1>4 DEF FlowTypeOK
  <2>3. flowBox' \in [Boxes -> BoxStates]
    BY <1>4 DEF FlowTypeOK, BoxStates
  <2> QED
    BY <1>1, <2>1, <2>2, <2>3, InsideTyped DEF FlowTypeOK
<1>8. StagesInOrder'
  <2>1. flowBox'[b] = flowBox[b] \/ flowBox[b] \notin Over
    BY <1>5, <1>6 DEF Over
  <2> QED
    BY <1>1, <1>5, <2>1, OrderStays
<1>9. Flushes(b)'
  <2>1. CASE a \in bad[b]
    BY <1>1, <1>5, <2>1 DEF Flushes
  <2>2. CASE a \notin bad[b]
    BY <1>1, <1>5, <1>6, <2>2 DEF Flushes
  <2> QED
    BY <2>1, <2>2
<1>10. AttemptInv(b, a)'
  <2>1. TakenOnce(b, a)'
    <3>1. idx'[b][a] = idx[b][a] /\ idx[b][a] \in 0..Items
      BY <1>1 DEF FlowTypeOK
    <3> QED
      BY <1>2, <1>3, <1>5, <3>1 DEF AttemptInv, TakenOnce
  <2>2. DoneOnce(b, a)'
    <3>1. \A i \in 1..Items : Holds(b, a, i)' => Holds(b, a, i)
      BY <1>5 DEF Holds
    <3> QED
      BY <1>1, <1>3, <3>1 DEF AttemptInv, DoneOnce
  <2>3. NoneLost(b, a)'
    BY <1>5 DEF NoneLost
  <2>4. Ahead(b, a)'
    <3>1. ~(a > attempt[b])
      <4>1. CASE a > attempt[b]
        <5>1. idx[b][a] = 0 /\ a \notin bad[b]
          BY <1>3, <4>1 DEF AttemptInv, Ahead
        <5> QED
          BY <1>2, <1>6, <4>1, <5>1 DEF FlowTypeOK, Attempts
      <4> QED
        BY <4>1
    <3> QED
      BY <1>1, <1>5, <3>1 DEF Ahead
  <2> QED
    BY <2>1, <2>2, <2>3, <2>4 DEF AttemptInv
<1>11. \A c \in Boxes : Flushes(c)' /\ \A e \in Attempts : AttemptInv(c, e)'
  <2>1. idx' = [idx EXCEPT ![b] = [idx[b] EXCEPT ![a] = idx'[b][a]]]
    BY <1>1 DEF FlowTypeOK
  <2>2. worker' = [worker EXCEPT ![b] = [worker[b] EXCEPT ![a] = worker'[b][a]]]
    BY <1>4 DEF FlowTypeOK
  <2>3. ran' = [ran EXCEPT ![b] = [ran[b] EXCEPT ![a] = ran'[b][a]]]
    BY <1>1 DEF FlowTypeOK
  <2>4. a \in bad[b] => flowBox'[b] = flowBox[b]
    BY <1>5
  <2> QED
    BY <1>1, <1>5, <1>6, <1>9, <1>10, <2>1, <2>2, <2>3, <2>4, OthersWork
<1> QED
  BY <1>7, <1>8, <1>11

(* No sandbox has an attempt yet, and only the first stage is there.         *)
LEMMA InitFlows == FlowInit => FlowInv
<1> SUFFICES ASSUME FlowInit PROVE FlowInv
  OBVIOUS
<1> DEFINE last == Len(flowMix.stages)
<1>1. flowMix \in MixOfWorkflows /\ Apart(flowMix) /\ Items \in Nat /\ MaxAttempts \in Nat
  BY WorkflowConstants DEF FlowInit
<1>2. /\ flowMix.stages \in Seq(SUBSET Boxes) /\ last \in Nat /\ DOMAIN flowMix.stages = 1..last
      /\ \A n \in 1..last : flowMix.stages[n] \subseteq Boxes
      /\ flowMix.items \in Nat /\ (flowMix.stages # <<>> => last >= 1)
  BY <1>1 DEF MixOfWorkflows
<1>3. 1 \in 1..Max({1, last})
  <2>1. \E x \in {1, last} : \A y \in {1, last} : x >= y
    BY <1>2
  <2>2. Max({1, last}) \in {1, last} /\ \A y \in {1, last} : Max({1, last}) >= y
    BY <2>1 DEF Max
  <2> QED
    BY <1>2, <2>2
<1>4. FlowTypeOK
  <2>1. attempt \in [Boxes -> 0..MaxAttempts] /\ bad \in [Boxes -> SUBSET Attempts]
    BY <1>1 DEF FlowInit
  <2>2. idx \in [Boxes -> [Attempts -> 0..Items]]
    BY <1>1 DEF FlowInit
  <2>3. worker \in [Boxes -> [Attempts -> [Workers -> 0..Items]]]
    BY <1>1 DEF FlowInit
  <2>4. ran \in [Boxes -> [Attempts -> [1..Items -> Nat]]]
    BY DEF FlowInit
  <2>5. vars_ \in [Boxes -> [1..Items -> 0..MaxAttempts]]
    BY <1>1 DEF FlowInit
  <2> QED
    BY <1>1, <1>3, <2>1, <2>2, <2>3, <2>4, <2>5 DEF FlowInit, FlowTypeOK
<1>5. StagesInOrder
  <2>1. stage = 1 /\ promise # "rejected" /\ (promise = "resolved" => flowMix.stages = <<>>)
    BY DEF FlowInit
  <2>2. \A b \in Boxes : flowBox[b] # "none" => flowMix.stages # <<>> /\ b \in flowMix.stages[1]
    BY DEF FlowInit
  <2> QED
    BY <1>2, <2>1, <2>2 DEF StagesInOrder
<1>6. ASSUME NEW b \in Boxes PROVE Flushes(b) /\ \A a \in Attempts : AttemptInv(b, a)
  <2>1. attempt[b] = 0 /\ bad[b] = {} /\ flowBox[b] \in {"creating", "none"}
    BY DEF FlowInit
  <2>2. Flushes(b)
    BY <2>1 DEF Flushes
  <2>3. ASSUME NEW a \in Attempts PROVE AttemptInv(b, a)
    <3>1. /\ idx[b][a] = 0 /\ \A w \in Workers : worker[b][a][w] = 0
          /\ \A i \in 1..Items : ran[b][a][i] = 0
      BY DEF FlowInit
    <3>2. a \in Nat /\ a > 0
      BY <1>1 DEF Attempts
    <3> QED
      BY <1>2, <2>1, <3>1, <3>2 DEF AttemptInv, TakenOnce, DoneOnce, NoneLost, Ahead
  <2> QED
    BY <2>2, <2>3
<1> QED
  BY <1>4, <1>5, <1>6 DEF FlowInv

(* Every step of a workflow keeps the invariant.                             *)
LEMMA StepFlows == FlowInv /\ [FlowNext]_flowVars => FlowInv'
<1> SUFFICES ASSUME FlowInv, [FlowNext]_flowVars PROVE FlowInv'
  OBVIOUS
<1>1. ASSUME NEW b \in Boxes, FlowStep(b) PROVE FlowInv'
  BY <1>1, CreatedKeeps, AttemptKeeps, ClosedKeeps, DoneKeeps, FailsKeeps DEF FlowStep
<1>2. CASE UNCHANGED flowVars
  <2>1. SameFlow /\ UNCHANGED <<promise, stage, flowBox, attempt, flow>>
    BY <1>2, FaultKeepsFlow DEF FlowInv, FlowTypeOK, flowVars
  <2>2. FlowTypeOK'
    BY <2>1, InsideTyped DEF FlowInv, FlowTypeOK, flow, BoxStates
  <2>3. StagesInOrder'
    BY <2>1 DEF FlowInv, StagesInOrder, SameFlow
  <2>4. ASSUME NEW b \in Boxes PROVE Flushes(b)' /\ \A a \in Attempts : AttemptInv(b, a)'
    <3>1. Flushes(b)'
      BY <2>1 DEF FlowInv, Flushes, flow
    <3> QED
      BY <2>1, <3>1, BoxStays
  <2> QED
    BY <2>2, <2>3, <2>4 DEF FlowInv
<1> QED
  BY <1>1, <1>2 DEF FlowNext

(* A closed sandbox has had an attempt without a failure, whose workers have *)
(* all ended: none of its items is held, so each was done.                   *)
LEMMA FlowsAreTrue == FlowInv => WorkflowsAreTrue
<1> SUFFICES ASSUME FlowInv PROVE WorkflowsAreTrue
  OBVIOUS
<1> USE DEF FlowInv
<1>1. /\ flowMix.items \in 0..Items /\ Items \in Nat /\ flowMix.stages \in Seq(SUBSET Boxes)
      /\ MaxAttempts \in Nat
  BY WorkflowConstants DEF FlowTypeOK, MixOfWorkflows
<1>2. \A n \in DOMAIN flowMix.stages : n \in Nat /\ flowMix.stages[n] \subseteq Boxes
  BY <1>1
<1>3. ASSUME NEW b \in Boxes, flowBox[b] = "closed" PROVE Finished(b)
  <2>1. PICK a \in Attempts : a = attempt[b] /\ a \notin bad[b]
    BY <1>3 DEF Flushes
  <2>2. AttemptInv(b, a)
    OBVIOUS
  <2>3. \A w \in Workers : worker[b][a][w] = 0
    BY <1>3, <2>1, <2>2 DEF AttemptInv, Ahead
  <2>4. a <= attempt[b]
    BY <1>1, <2>1 DEF Attempts
  <2>5. ASSUME NEW i \in 1..flowMix.items PROVE ran[b][a][i] = 1 /\ vars_[b][i] # 0
    <3>1. 1 \in 1..Crew /\ 1 \in Workers
      <4>1. flowMix.items # 0 /\ flowMix.items \in Nat
        BY <1>1
      <4>2. Crew \in 0..flowMix.items /\ Crew # 0
        BY <4>1, CrewFits DEF FlowTypeOK
      <4> QED
        BY <1>1, <4>2 DEF Workers
    <3>2. idx[b][a] = flowMix.items
      BY <2>1, <2>2, <2>3, <2>4, <3>1 DEF AttemptInv, NoneLost
    <3>3. i \in 1..idx[b][a] /\ i \in 1..Items
      BY <1>1, <3>2
    <3>4. ~Holds(b, a, i)
      BY <2>3 DEF Holds
    <3>5. ran[b][a][i] # 0
      BY <2>1, <2>2, <2>4, <3>3, <3>4 DEF AttemptInv, NoneLost
    <3>6. ran[b][a][i] \in Nat
      <4>1. ran \in [Boxes -> [Attempts -> [1..Items -> Nat]]]
        BY DEF FlowTypeOK
      <4>2. ran[b] \in [Attempts -> [1..Items -> Nat]]
        BY <4>1
      <4>3. ran[b][a] \in [1..Items -> Nat]
        BY <4>2
      <4> QED
        BY <3>3, <4>3
    <3> QED
      BY <2>2, <3>3, <3>5, <3>6 DEF AttemptInv, DoneOnce
  <2> QED
    BY <1>3, <2>1, <2>5 DEF Finished
<1>4. ASSUME NEW n \in DOMAIN flowMix.stages, NEW b \in flowMix.stages[n]
      PROVE  /\ promise = "resolved" => Finished(b)
             /\ flowBox[b] # "none" => \A m \in 1..(n - 1) : \A d \in flowMix.stages[m] : Finished(d)
  <2>1. promise = "resolved" => Finished(b)
    BY <1>2, <1>3 DEF StagesInOrder
  <2>2. ASSUME flowBox[b] # "none", NEW m \in 1..(n - 1), NEW d \in flowMix.stages[m] PROVE Finished(d)
    <3>1. PICK k \in DOMAIN flowMix.stages : k <= stage /\ b \in flowMix.stages[k]
      BY <1>2, <2>2 DEF StagesInOrder
    <3>2. k = n
      BY <3>1 DEF FlowTypeOK, Apart
    <3>3. m \in DOMAIN flowMix.stages /\ m < n
      BY <1>1
    <3>4. stage \in Nat
      <4>1. Max({1, Len(flowMix.stages)}) \in Nat
        <5>1. \E x \in {1, Len(flowMix.stages)} : \A y \in {1, Len(flowMix.stages)} : x >= y
          BY <1>1
        <5> QED
          BY <1>1, <5>1 DEF Max
      <4> QED
        BY <4>1 DEF FlowTypeOK
    <3>5. m < stage
      BY <1>2, <3>1, <3>2, <3>3, <3>4
    <3> QED
      BY <1>2, <1>3, <3>3, <3>5 DEF StagesInOrder
  <2> QED
    BY <2>1, <2>2
<1>5. \A b \in Boxes, a \in Attempts, i \in 1..Items : ran[b][a][i] <= 1
  BY DEF AttemptInv, DoneOnce
<1>6. promise = "rejected" => \E b \in flowMix.stages[stage] : flowBox[b] \in {"failed", "left"}
  BY DEF StagesInOrder
<1> QED
  BY <1>2, <1>4, <1>5, <1>6 DEF WorkflowsAreTrue

(* In every behaviour a workflow that resolves has closed every sandbox,     *)
(* with each item done once in its last attempt, no attempt does an item     *)
(* twice, and no stage begins before those above it are through              *)
(* (workflow-builder.ts:110-134, sandbox-builder.ts:270-324).                *)
THEOREM WorkflowsTrue == FlowSpec => []WorkflowsAreTrue
<1>1. FlowInit => FlowInv
  BY InitFlows
<1>2. FlowInv /\ [FlowNext]_flowVars => FlowInv'
  BY StepFlows
<1>3. FlowInv => WorkflowsAreTrue
  BY FlowsAreTrue
<1> QED
  BY <1>1, <1>2, <1>3, PTL DEF FlowSpec

-----------------------------------------------------------------------------
(* The start of an agent.                                                    *)

(* The types that StartTypeOK leaves out, and that a record names a snapshot *)
(* there was.                                                                *)
SnapStates == {"ready", "blank", "gone"}
There(records, n) == \A r \in records : r.snap \in 1 .. n
WriteTyped(w, n) == w \in [records : SUBSET Records, writing : BOOLEAN] /\ There(w.records, n)

DiskTyped ==
    /\ startMix \in MixOfStarts /\ startSnaps \in Seq(SnapStates)
    /\ file # Nil => file \in SUBSET Records /\ There(file, Len(startSnaps))
    /\ io = [c \in StartCalls |-> io[c]]
    /\ \A c \in StartCalls : io[c] # Nil => WriteTyped(io[c], Len(startSnaps))

(* The containers of a call that are not given up.                           *)
BoxesOf(c) == {b \in startBoxes \ unclosed : b[1] = c}
Live == {"installing", "storing", "starting", "finding", "extracting", "remembering", "closing",
         "dropping", "up"}

(* A call that writes the file has a container only when it goes on to start *)
(* the bridge there, and has taken a snapshot of it.                         *)
StoresWell(c) ==
    /\ io[c] # Nil => startPc[c] = "storing"
    /\ startPc[c] = "storing" =>
          /\ after[c] \in {"creating", "starting", "idle"}
          /\ (after[c] = "starting" /\ startMade[c] # 0) \/ BoxesOf(c) = {}

(* Where a start is, and what hit it when it fails.                          *)
FailsWell(c) ==
    /\ startPc[c] \in {"finding", "extracting"} => StartKind(c) = "restore"
    /\ startPc[c] = "remembering" => StartKind(c) = "spawn"
    /\ startPc[c] = "dropping" => StartKind(c) # "start"
    /\ startPc[c] = "closing" => startFrom[c] # 0 \/ c \in hurt
    /\ startPc[c] = "failed" /\ StartKind(c) = "start" => c \in hurt

CallClean(c) ==
    /\ \A b \in BoxesOf(c) : b[2] = startFrom[c] /\ startPc[c] \in Live
    /\ StoresWell(c) /\ FailsWell(c)

AllClean == \A c \in StartCalls : CallClean(c)
StartInv == StartTypeOK /\ DiskTyped /\ after = [c \in StartCalls |-> after[c]] /\ AllClean

(* A fault takes one from the faults that are left and nothing else from the *)
(* mix.                                                                      *)
LEMMA FaultKeepsStart ==
    ASSUME startMix \in MixOfStarts, NEW f \in Faults, StartFault(f)
    PROVE  /\ startMix' \in MixOfStarts /\ startMix'.kind = startMix.kind
           /\ startMix'.spec = startMix.spec /\ startMix'.setup = startMix.setup
<1> DEFINE fs == [startMix.faults EXCEPT ![f] = startMix.faults[f] - 1]
<1>1. startMix' = [startMix EXCEPT !.faults = fs]
  BY DEF StartFault
<1>2. fs \in [Faults -> Nat]
  <2>1. startMix.faults \in [Faults -> Nat] /\ startMix.faults[f] - 1 \in Nat
    BY DEF MixOfStarts, StartFault
  <2> QED
    BY <2>1
<1> HIDE DEF fs
<1> QED
  BY <1>1, <1>2 DEF MixOfStarts

(* What every step of a call leaves of the others: they stand where they     *)
(* stood, and none of their containers is made or forgotten.                 *)
Only(c) ==
    /\ \A d \in StartCalls \ {c} :
          /\ startPc'[d] = startPc[d] /\ startFrom'[d] = startFrom[d] /\ startMade'[d] = startMade[d]
          /\ after'[d] = after[d] /\ io'[d] = io[d]
    /\ startMix'.kind = startMix.kind
    /\ startBoxes' \subseteq startBoxes \cup {Box(c)}
    /\ unclosed \subseteq unclosed' /\ hurt \subseteq hurt'

(* So that what was true of them stays true.                                 *)
LEMMA OthersStayClean ==
    ASSUME AllClean, NEW c \in StartCalls, Only(c), NEW d \in StartCalls \ {c}
    PROVE  CallClean(d)'
<1>1. CallClean(d)
  BY DEF AllClean
<1>2. /\ startPc'[d] = startPc[d] /\ startFrom'[d] = startFrom[d] /\ startMade'[d] = startMade[d]
      /\ after'[d] = after[d] /\ io'[d] = io[d] /\ startMix'.kind = startMix.kind
      /\ startBoxes' \subseteq startBoxes \cup {Box(c)}
      /\ unclosed \subseteq unclosed' /\ hurt \subseteq hurt'
  BY DEF Only
<1>3. BoxesOf(d)' \subseteq BoxesOf(d)
  BY <1>2 DEF BoxesOf, Box
<1>4. StoresWell(d)'
  BY <1>1, <1>2, <1>3 DEF CallClean, StoresWell
<1>5. FailsWell(d)'
  BY <1>1, <1>2 DEF CallClean, FailsWell, StartKind
<1> QED
  BY <1>1, <1>2, <1>3, <1>4, <1>5 DEF CallClean

(* And what it has to establish for the call itself.                         *)
StepsClean(c) == Only(c) /\ CallClean(c)'

(* The writes of the file.                                                   *)
LEMMA WritesClean ==
    ASSUME StartInv, NEW c \in StartCalls, ReadForWrite(c) \/ Truncate(c) \/ Written(c) \/ StoreFails(c)
    PROVE  StepsClean(c)
<1> USE DEF StartInv, StartTypeOK, DiskTyped, Goto, provider, history, disk
<1>1. CallClean(c)
  BY DEF AllClean
<1>2. CASE ReadForWrite(c) \/ Truncate(c)
  <2>1. /\ UNCHANGED <<startPc, startFrom, startMade, after, startMix, startBoxes, unclosed, hurt>>
        /\ startPc[c] = "storing"
        /\ \A d \in StartCalls \ {c} : io'[d] = io[d]
    BY <1>1, <1>2 DEF ReadForWrite, Truncate, CallClean, StoresWell
  <2> QED
    BY <1>1, <2>1 DEF StepsClean, Only, CallClean, StoresWell, FailsWell, BoxesOf, StartKind
<1>3. CASE Written(c)
  <2>1. startPc[c] = "storing" /\ startPc'[c] = after[c] /\ io'[c] = Nil
    BY <1>1, <1>3 DEF Written, Writers, CallClean, StoresWell
  <2>2. UNCHANGED <<startFrom, startMade, startMix, startBoxes, unclosed, hurt>>
    BY <1>3 DEF Written
  <2>3. Only(c)
    BY <1>3, <2>2 DEF Written, Only
  <2> QED
    BY <1>1, <2>1, <2>2, <2>3 DEF StepsClean, CallClean, StoresWell, FailsWell, BoxesOf, StartKind, Live
<1>4. CASE StoreFails(c)
  <2>1. /\ UNCHANGED <<startFrom, startMade, io, startBoxes, unclosed>> /\ hurt' = hurt \cup {c}
        /\ startPc[c] = "storing" /\ io[c] = Nil
        /\ startPc'[c] = IF startMade[c] # 0 THEN "closing" ELSE "failed"
    BY <1>4 DEF StoreFails
  <2>2. startMix'.kind = startMix.kind
    BY <1>4, FaultKeepsStart DEF StoreFails, Faults
  <2>3. Only(c)
    BY <1>4, <2>1, <2>2 DEF StoreFails, Only
  <2> QED
    BY <1>1, <2>1, <2>2, <2>3 DEF StepsClean, CallClean, StoresWell, FailsWell, BoxesOf, StartKind, Live
<1> QED
  BY <1>2, <1>3, <1>4

(* The load of the agent, up to its container.                               *)
LEMMA LoadsClean ==
    ASSUME StartInv, NEW c \in StartCalls,
           \/ Begins(c) \/ LookUp(c) \/ Restored(c) \/ RestoreFails(c) \/ BoxMade(c) \/ CreateFails(c)
    PROVE  StepsClean(c)
<1> USE DEF StartInv, StartTypeOK, DiskTyped, Goto, provider, history, disk
<1>1. CallClean(c)
  BY DEF AllClean
<1>2. CASE Begins(c) \/ LookUp(c)
  <2>1. /\ UNCHANGED <<startMade, after, io, startMix, startBoxes, unclosed, hurt>>
        /\ startPc[c] \in {"idle", "reading"} /\ startPc'[c] \in {"creating", "reading", "restoring"}
    BY <1>2 DEF Begins, LookUp
  <2>2. Only(c)
    BY <1>2, <2>1 DEF Begins, LookUp, Only
  <2> QED
    BY <1>1, <2>1, <2>2 DEF StepsClean, CallClean, StoresWell, FailsWell, BoxesOf, StartKind, Live
<1>3. CASE Restored(c) \/ BoxMade(c)
  <2>1. /\ UNCHANGED <<startFrom, startMade, after, io, startMix, unclosed, hurt>>
        /\ startBoxes' = startBoxes \cup {Box(c)}
        /\ startPc[c] \in {"restoring", "creating"} /\ startPc'[c] \in {"starting", "installing"}
    BY <1>3 DEF Restored, BoxMade
  <2>2. Only(c)
    BY <1>3, <2>1 DEF Restored, BoxMade, Only
  <2> QED
    BY <1>1, <2>1, <2>2 DEF StepsClean, CallClean, StoresWell, FailsWell, BoxesOf, Box, StartKind, Live
<1>4. CASE RestoreFails(c)
  <2>1. /\ UNCHANGED <<startMade, io, hurt>>
        /\ startPc[c] = "restoring" /\ startPc'[c] = "storing" /\ after'[c] = "creating"
    BY <1>4 DEF RestoreFails, Store
  <2>2. startMix'.kind = startMix.kind
    BY <1>4, FaultKeepsStart DEF RestoreFails, MakingFails, Faults
  <2>3. Only(c)
    BY <1>4, <2>1, <2>2 DEF RestoreFails, MakingFails, Store, Only
  <2>4. BoxesOf(c)' \subseteq BoxesOf(c)
    BY <1>4 DEF RestoreFails, MakingFails, BoxesOf
  <2>5. BoxesOf(c) = {}
    BY <1>1, <2>1 DEF CallClean, Live
  <2> QED
    BY <1>1, <2>1, <2>2, <2>3, <2>4, <2>5 DEF StepsClean, CallClean, StoresWell, FailsWell, BoxesOf, StartKind, Live
<1>5. CASE CreateFails(c)
  <2>1. /\ UNCHANGED <<startFrom, startMade, after, io>>
        /\ startPc[c] = "creating" /\ startPc'[c] = "failed" /\ hurt' = hurt \cup {c}
    BY <1>5 DEF CreateFails
  <2>2. startMix'.kind = startMix.kind
    BY <1>5, FaultKeepsStart DEF CreateFails, MakingFails, Faults
  <2>3. Only(c)
    BY <1>5, <2>1, <2>2 DEF CreateFails, MakingFails, Only
  <2>4. BoxesOf(c)' \subseteq BoxesOf(c)
    BY <1>5 DEF CreateFails, MakingFails, BoxesOf
  <2>5. BoxesOf(c) = {}
    BY <1>1, <2>1 DEF CallClean, Live
  <2> QED
    BY <1>1, <2>1, <2>2, <2>3, <2>4, <2>5 DEF StepsClean, CallClean, StoresWell, FailsWell, BoxesOf, StartKind, Live
<1> QED
  BY <1>2, <1>3, <1>4, <1>5

(* What is installed in it, and the bridge.                                  *)
LEMMA BridgesClean ==
    ASSUME StartInv, NEW c \in StartCalls,
           \/ Installed(c) \/ InstallFails(c) \/ BridgeStarted(c) \/ StartFails(c)
           \/ CheckpointsFound(c) \/ Extracted(c) \/ Remembered(c)
    PROVE  StepsClean(c)
<1> USE DEF StartInv, StartTypeOK, DiskTyped, Goto, provider, history, disk
<1>1. CallClean(c)
  BY DEF AllClean
<1>2. CASE Installed(c)
  <2>1. /\ UNCHANGED <<startFrom, io, startBoxes, unclosed, hurt>>
        /\ startPc[c] = "installing" /\ startPc'[c] = "storing" /\ after'[c] = "starting"
        /\ startMade'[c] = Len(startSnaps) + 1
    BY <1>2 DEF Installed, Store
  <2>2. startMix'.kind = startMix.kind
    BY <1>2, FaultKeepsStart DEF Installed, Faults
  <2>3. Only(c)
    BY <1>2, <2>1, <2>2 DEF Installed, Store, Only
  <2>4. startMade'[c] # 0
    BY <2>1
  <2> QED
    BY <1>1, <2>1, <2>2, <2>3, <2>4 DEF StepsClean, CallClean, StoresWell, FailsWell, BoxesOf, StartKind, Live
<1>3. CASE InstallFails(c)
  <2>1. /\ UNCHANGED <<startFrom, startMade, after, io, startBoxes, unclosed>>
        /\ startPc[c] = "installing" /\ startPc'[c] = "closing" /\ hurt' = hurt \cup {c}
    BY <1>3 DEF InstallFails
  <2>2. startMix'.kind = startMix.kind
    BY <1>3, FaultKeepsStart DEF InstallFails, Faults
  <2>3. Only(c)
    BY <1>3, <2>1, <2>2 DEF InstallFails, Only
  <2> QED
    BY <1>1, <2>1, <2>2, <2>3 DEF StepsClean, CallClean, StoresWell, FailsWell, BoxesOf, StartKind, Live
<1>4. CASE StartFails(c)
  <2>1. /\ UNCHANGED <<startFrom, startMade, after, io, startBoxes, unclosed>>
        /\ startPc[c] = "starting" /\ startPc'[c] = "closing"
        /\ hurt' = IF startFrom[c] = 0 THEN hurt \cup {c} ELSE hurt
    BY <1>4 DEF StartFails
  <2>2. startMix'.kind = startMix.kind
    BY <1>4, FaultKeepsStart DEF StartFails, Faults
  <2>3. Only(c)
    BY <1>4, <2>1, <2>2 DEF StartFails, Only
  <2> QED
    BY <1>1, <2>1, <2>2, <2>3 DEF StepsClean, CallClean, StoresWell, FailsWell, BoxesOf, StartKind, Live
<1>5. CASE BridgeStarted(c)
  <2>1. /\ UNCHANGED <<startFrom, startMade, after, io, startMix, startBoxes, unclosed, hurt>>
        /\ startPc[c] = "starting"
        /\ startPc'[c] = CASE StartKind(c) = "restore" -> "finding"
                           [] StartKind(c) = "spawn" -> "remembering" [] OTHER -> "up"
    BY <1>5 DEF BridgeStarted
  <2>2. Only(c)
    BY <1>5, <2>1 DEF BridgeStarted, Only
  <2> QED
    BY <1>1, <2>1, <2>2 DEF StepsClean, CallClean, StoresWell, FailsWell, BoxesOf, StartKind, Live
<1>6. CASE CheckpointsFound(c)
  <2>1. /\ UNCHANGED <<startFrom, startMade, after, io, startBoxes, hurt>>
        /\ startPc[c] = "finding"
        /\ \/ startPc'[c] \in {"up", "extracting"} /\ unclosed' = unclosed
           \/ startPc'[c] = "failed" /\ unclosed' = unclosed \cup {Box(c)}
    BY <1>6 DEF CheckpointsFound
  <2>2. startMix'.kind = startMix.kind
    BY <1>6, FaultKeepsStart DEF CheckpointsFound, Faults
  <2>3. Only(c)
    BY <1>6, <2>1, <2>2 DEF CheckpointsFound, Only
  <2>4. \A b \in BoxesOf(c) : b = Box(c)
    BY <1>1 DEF BoxesOf, CallClean, Box
  <2> QED
    BY <1>1, <2>1, <2>2, <2>3, <2>4 DEF StepsClean, CallClean, StoresWell, FailsWell, BoxesOf, StartKind, Live
<1>7. CASE Extracted(c) \/ Remembered(c)
  <2>1. /\ UNCHANGED <<startFrom, startMade, after, io, startBoxes, unclosed, hurt>>
        /\ startPc[c] \in {"extracting", "remembering"} /\ startPc'[c] \in {"up", "dropping"}
    BY <1>7 DEF Extracted, Remembered
  <2>2. startMix'.kind = startMix.kind
    BY <1>7, FaultKeepsStart DEF Extracted, Remembered, Faults
  <2>3. Only(c)
    BY <1>7, <2>1, <2>2 DEF Extracted, Remembered, Only
  <2> QED
    BY <1>1, <2>1, <2>2, <2>3 DEF StepsClean, CallClean, StoresWell, FailsWell, BoxesOf, StartKind, Live
<1> QED
  BY <1>2, <1>3, <1>4, <1>5, <1>6, <1>7

(* What is closed: of the call no container is left that is not given up.    *)
LEMMA ClosesClean ==
    ASSUME StartInv, NEW c \in StartCalls, Undone(c) \/ Dropped(c) \/ AgentCloses(c)
    PROVE  StepsClean(c)
<1> USE DEF StartInv, StartTypeOK, DiskTyped, Goto, provider, history, disk
<1>1. CallClean(c)
  BY DEF AllClean
<1>2. Closes(c) /\ UNCHANGED <<startMade, io, hurt>>
  BY DEF Undone, LoadClosed, Dropped, AgentCloses, StartsOver, GivesUp, Closes, Store
<1>3. startMix'.kind = startMix.kind
  BY <1>2, FaultKeepsStart DEF Closes, Faults
<1>4. /\ startBoxes' \subseteq startBoxes /\ unclosed \subseteq unclosed'
      /\ Box(c) \notin startBoxes' \ unclosed'
  BY <1>2 DEF Closes
<1>5. \A b \in startBoxes : b = <<b[1], b[2]>>
  <2>1. startBoxes \subseteq StartCalls \X (0 .. Len(startSnaps))
    BY Zenon DEF StartTypeOK
  <2> QED
    BY <2>1
<1>6. BoxesOf(c)' = {}
  <2>1. \A b \in BoxesOf(c) : b = Box(c)
    BY <1>1, <1>5 DEF BoxesOf, CallClean, Box
  <2>2. BoxesOf(c)' \subseteq BoxesOf(c)
    BY <1>4 DEF BoxesOf
  <2> QED
    BY <1>4, <2>1, <2>2 DEF BoxesOf
<1>7. /\ startPc[c] \in {"closing", "dropping", "up"}
      /\ \/ startPc'[c] = "failed" /\ startPc[c] = "dropping"
         \/ startPc'[c] = "failed" /\ startPc[c] = "closing" /\ startFrom[c] = 0
         \/ startPc'[c] = "storing" /\ after'[c] = "idle"
         \/ startPc'[c] = "down"
  BY DEF Undone, LoadClosed, Dropped, AgentCloses, StartsOver, GivesUp, Store
<1>8. Only(c)
  BY <1>2, <1>3, <1>4 DEF Only, Undone, LoadClosed, Dropped, AgentCloses, StartsOver, GivesUp, Store
<1> QED
  BY <1>1, <1>2, <1>3, <1>6, <1>7, <1>8 DEF StepsClean, CallClean, StoresWell, FailsWell, StartKind

(* Where a call can be.                                                      *)
Places == {"idle", "reading", "restoring", "creating", "installing", "storing", "starting", "finding",
           "extracting", "remembering", "closing", "dropping", "up", "down", "failed"}

(* A step of a call.                                                         *)
CallSteps(c) ==
    \/ ReadForWrite(c) \/ Truncate(c) \/ Written(c) \/ StoreFails(c)
    \/ Begins(c) \/ LookUp(c) \/ Restored(c) \/ RestoreFails(c) \/ BoxMade(c) \/ CreateFails(c)
    \/ Installed(c) \/ InstallFails(c) \/ BridgeStarted(c) \/ StartFails(c)
    \/ CheckpointsFound(c) \/ Extracted(c) \/ Remembered(c)
    \/ Undone(c) \/ Dropped(c) \/ AgentCloses(c)

(* The types, by variable: the mix, whose faults are used up,                *)
LEMMA MixStays ==
    ASSUME StartInv, NEW c \in StartCalls, CallSteps(c)
    PROVE  startMix' \in MixOfStarts
<1>1. startMix \in MixOfStarts
  BY DEF StartInv, DiskTyped
<1>2. UNCHANGED startMix \/ \E f \in Faults : StartFault(f)
  BY DEF CallSteps, ReadForWrite, Truncate, Written, StoreFails, Begins, LookUp, Restored, RestoreFails, MakingFails,
         BoxMade, CreateFails, Installed, InstallFails, BridgeStarted, StartFails, CheckpointsFound,
         Extracted, Remembered, Undone, LoadClosed, Dropped, AgentCloses, Closes, Faults
<1> QED
  BY <1>1, <1>2, FaultKeepsStart

(* the snapshots, which become more,                                         *)
LEMMA SnapsStay ==
    ASSUME StartInv, NEW c \in StartCalls, CallSteps(c)
    PROVE  /\ startSnaps' \in Seq(SnapStates) /\ Len(startSnaps') \in Nat
           /\ Len(startSnaps) <= Len(startSnaps') /\ Len(startSnaps) \in Nat
           /\ Installed(c) => Len(startSnaps') = Len(startSnaps) + 1
<1>1. startSnaps \in Seq(SnapStates)
  BY DEF StartInv, DiskTyped
<1>2. CASE Installed(c)
  BY <1>1, <1>2 DEF Installed, SnapStates
<1>3. CASE ~Installed(c)
  <2>1. UNCHANGED startSnaps
    BY <1>3 DEF CallSteps, ReadForWrite, Truncate, Written, StoreFails, Begins, LookUp, Restored,
         RestoreFails, MakingFails, BoxMade, CreateFails, InstallFails, BridgeStarted, StartFails, CheckpointsFound,
         Extracted, Remembered, Undone, LoadClosed, Dropped, AgentCloses, Closes, provider
  <2> QED
    BY <1>1, <1>3, <2>1
<1> QED
  BY <1>2, <1>3

(* the places,                                                               *)
LEMMA PlacesStay ==
    ASSUME StartInv, NEW c \in StartCalls, CallSteps(c)
    PROVE  startPc' \in [StartCalls -> Places]
<1>1. startPc \in [StartCalls -> Places]
  BY DEF StartInv, StartTypeOK, Places
<1>2. startPc' = startPc \/ \E p \in Places : startPc' = [startPc EXCEPT ![c] = p]
  <2>1. CASE Written(c)
    <3>1. after[c] \in Places
      BY <2>1 DEF StartInv, AllClean, CallClean, StoresWell, Written, Writers, Places
    <3> QED
      BY <2>1, <3>1 DEF Written, Goto
  <2>2. CASE ~Written(c)
    BY <2>2 DEF CallSteps, ReadForWrite, Truncate, StoreFails, Begins, LookUp, Restored, RestoreFails, MakingFails,
         BoxMade, CreateFails, Installed, InstallFails, BridgeStarted, StartFails, CheckpointsFound,
         Extracted, Remembered, Undone, LoadClosed, Dropped, AgentCloses, Closes, StartsOver, GivesUp,
         Store, Goto, Places
  <2> QED
    BY <2>1, <2>2
<1> QED
  BY <1>1, <1>2

(* the numbers of snapshots,                                                 *)
LEMMA NumbersStay ==
    ASSUME StartInv, NEW c \in StartCalls, CallSteps(c)
    PROVE  /\ startFrom' \in [StartCalls -> 0 .. Len(startSnaps')]
           /\ startMade' \in [StartCalls -> 0 .. Len(startSnaps')]
<1>1. /\ startFrom \in [StartCalls -> 0 .. Len(startSnaps)]
      /\ startMade \in [StartCalls -> 0 .. Len(startSnaps)]
  BY DEF StartInv, StartTypeOK
<1>2. startFrom' = startFrom \/ \E n \in 0 .. Len(startSnaps) : startFrom' = [startFrom EXCEPT ![c] = n]
  <2>1. CASE LookUp(c)
    BY <2>1 DEF LookUp, Contents, StartInv, DiskTyped, There
  <2>2. CASE ~LookUp(c)
    BY <2>2, SnapsStay DEF CallSteps, ReadForWrite, Truncate, Written, StoreFails, Begins, Restored, RestoreFails, MakingFails,
         BoxMade, CreateFails, Installed, InstallFails, BridgeStarted, StartFails, CheckpointsFound,
         Extracted, Remembered, Undone, LoadClosed, Dropped, AgentCloses, Closes, StartsOver, GivesUp
  <2> QED
    BY <2>1, <2>2
<1>3. startMade' = startMade \/ startMade' = [startMade EXCEPT ![c] = Len(startSnaps')]
  <2>1. CASE Installed(c)
    BY <2>1, SnapsStay DEF Installed
  <2>2. CASE ~Installed(c)
    BY <2>2 DEF CallSteps, ReadForWrite, Truncate, Written, StoreFails, Begins, LookUp, Restored, RestoreFails, MakingFails,
         BoxMade, CreateFails, InstallFails, BridgeStarted, StartFails, CheckpointsFound,
         Extracted, Remembered, Undone, LoadClosed, Dropped, AgentCloses, Closes, StartsOver, GivesUp
  <2> QED
    BY <2>1, <2>2
<1> QED
  BY <1>1, <1>2, <1>3, SnapsStay

(* the sets of calls and of containers,                                      *)
LEMMA SetsStay ==
    ASSUME StartInv, NEW c \in StartCalls, CallSteps(c)
    PROVE  /\ rebuild' \subseteq StartCalls /\ gates' \subseteq StartCalls /\ clash' \subseteq StartCalls
           /\ startBoxes' \cup unclosed' \subseteq StartCalls \X (0 .. Len(startSnaps'))
<1>1. /\ rebuild \subseteq StartCalls /\ gates \subseteq StartCalls /\ clash \subseteq StartCalls
      /\ startBoxes \cup unclosed \subseteq StartCalls \X (0 .. Len(startSnaps))
  BY Zenon DEF StartInv, StartTypeOK
<1>2. gates' \subseteq gates \cup {c} /\ rebuild' \subseteq rebuild \cup {c}
  BY DEF CallSteps, ReadForWrite, Truncate, Written, StoreFails, Begins, LookUp, Restored, RestoreFails, MakingFails,
         BoxMade, CreateFails, Installed, InstallFails, BridgeStarted, StartFails, CheckpointsFound,
         Extracted, Remembered, Undone, LoadClosed, Dropped, AgentCloses, Closes, StartsOver, GivesUp
<1>3. clash' \subseteq clash \cup Writers \cup {c}
  BY DEF CallSteps, ReadForWrite, Truncate, Written, StoreFails, Begins, LookUp, Restored, RestoreFails, MakingFails,
         BoxMade, CreateFails, Installed, InstallFails, BridgeStarted, StartFails, CheckpointsFound,
         Extracted, Remembered, Undone, LoadClosed, Dropped, AgentCloses, Closes, StartsOver, GivesUp, Store, disk
<1>4. startBoxes' \cup unclosed' \subseteq startBoxes \cup unclosed \cup {Box(c)}
  BY DEF CallSteps, ReadForWrite, Truncate, Written, StoreFails, Begins, LookUp, Restored, RestoreFails, MakingFails,
         BoxMade, CreateFails, Installed, InstallFails, BridgeStarted, StartFails, CheckpointsFound,
         Extracted, Remembered, Undone, LoadClosed, Dropped, AgentCloses, Closes, StartsOver, GivesUp,
         provider, history
<1>5. Box(c) \in StartCalls \X (0 .. Len(startSnaps))
  BY DEF Box, StartInv, StartTypeOK
<1>6. Writers \subseteq StartCalls
  BY DEF Writers
<1>7. 0 .. Len(startSnaps) \subseteq 0 .. Len(startSnaps')
  BY SnapsStay
<1> QED
  BY <1>1, <1>2, <1>3, <1>4, <1>5, <1>6, <1>7

(* the file, and what is written to it: only records of snapshots there were,*)
LEMMA DiskStays ==
    ASSUME StartInv, NEW c \in StartCalls, CallSteps(c)
    PROVE  DiskTyped'
<1>1. startMix \in MixOfStarts /\ startMix' \in MixOfStarts
  BY MixStays DEF StartInv, DiskTyped
<1>2. startSnaps' \in Seq(SnapStates) /\ \A n \in 1 .. Len(startSnaps) : n \in 1 .. Len(startSnaps')
  BY SnapsStay
<1>3. /\ file # Nil => file \in SUBSET Records /\ There(file, Len(startSnaps))
      /\ io = [d \in StartCalls |-> io[d]]
      /\ \A d \in StartCalls : io[d] # Nil => WriteTyped(io[d], Len(startSnaps))
  BY DEF StartInv, DiskTyped
<1>4. ASSUME NEW rs, There(rs, Len(startSnaps)) PROVE There(rs, Len(startSnaps'))
  BY <1>2, <1>4 DEF There
<1>5. /\ file' # Nil => file' \in SUBSET Records /\ There(file', Len(startSnaps))
      /\ io' = [d \in StartCalls |-> io'[d]]
      /\ \A d \in StartCalls : io'[d] # Nil => WriteTyped(io'[d], Len(startSnaps))
  <2>1. CASE ReadForWrite(c)
    <3>1. Contents \in SUBSET Records /\ There(Contents, Len(startSnaps))
      BY <1>3 DEF Contents, There
    <3>2. Spec_(c) \in STRING /\ startMix.setup[c] \in Nat
      BY <1>1 DEF MixOfStarts, Spec_
    <3>3. startMade[c] # 0 => startMade[c] \in 1 .. Len(startSnaps) /\ startMade[c] \in Nat
      BY SnapsStay DEF StartInv, StartTypeOK
    <3>4. Changed(c, Contents) \in SUBSET Records /\ There(Changed(c, Contents), Len(startSnaps))
      BY <3>1, <3>2, <3>3 DEF Changed, OfSpec, Record, Records, There
    <3>5. file' = file /\ io' = [io EXCEPT ![c] = [records |-> Changed(c, Contents), writing |-> FALSE]]
      BY <2>1 DEF ReadForWrite
    <3>6. io'[c] = [records |-> Changed(c, Contents), writing |-> FALSE] /\ \A d \in StartCalls \ {c} : io'[d] = io[d]
      BY <1>3, <3>5
    <3>7. io' = [d \in StartCalls |-> io'[d]]
      BY <1>3, <3>5
    <3> QED
      BY <1>3, <3>4, <3>5, <3>6, <3>7 DEF WriteTyped
  <2>2. CASE Truncate(c)
    <3>1. file' = Nil /\ io' = [io EXCEPT ![c] = [io[c] EXCEPT !.writing = TRUE]] /\ io[c] # Nil
      BY <2>2 DEF Truncate
    <3>2. WriteTyped(io'[c], Len(startSnaps)) /\ \A d \in StartCalls \ {c} : io'[d] = io[d]
      BY <1>3, <3>1 DEF WriteTyped
    <3>3. io' = [d \in StartCalls |-> io'[d]]
      BY <1>3, <3>1
    <3> QED
      BY <1>3, <3>1, <3>2, <3>3 DEF WriteTyped
  <2>3. CASE Written(c)
    <3>1. file' \in {io[c].records, Nil} /\ io' = [io EXCEPT ![c] = Nil] /\ io[c] # Nil
      BY <2>3 DEF Written, Writers
    <3>2. io' = [d \in StartCalls |-> io'[d]] /\ io'[c] = Nil /\ \A d \in StartCalls \ {c} : io'[d] = io[d]
      BY <1>3, <3>1
    <3> QED
      BY <1>3, <3>1, <3>2 DEF WriteTyped
  <2>4. CASE ~(ReadForWrite(c) \/ Truncate(c) \/ Written(c))
    <3>1. UNCHANGED <<file, io>>
      BY <2>4 DEF CallSteps, StoreFails, Begins, LookUp, Restored, RestoreFails, MakingFails, BoxMade, CreateFails,
         Installed, InstallFails, BridgeStarted, StartFails, CheckpointsFound, Extracted, Remembered,
         Undone, LoadClosed, Dropped, AgentCloses, Closes, StartsOver, GivesUp, Store, disk
    <3> QED
      BY <1>3, <3>1 DEF WriteTyped
  <2> QED
    BY <2>1, <2>2, <2>3, <2>4
<1>6. /\ file' # Nil => There(file', Len(startSnaps'))
      /\ \A d \in StartCalls : io'[d] # Nil => WriteTyped(io'[d], Len(startSnaps'))
  BY <1>4, <1>5 DEF WriteTyped
<1> QED
  BY <1>1, <1>2, <1>5, <1>6 DEF DiskTyped

(* and where a call goes on.                                                 *)
LEMMA AfterStays ==
    ASSUME StartInv, NEW c \in StartCalls, CallSteps(c)
    PROVE  after' = [d \in StartCalls |-> after'[d]]
<1>1. after = [d \in StartCalls |-> after[d]]
  BY DEF StartInv
<1>2. after' = after \/ \E a : after' = [after EXCEPT ![c] = a]
  BY DEF CallSteps, ReadForWrite, Truncate, Written, StoreFails, Begins, LookUp, Restored, RestoreFails, MakingFails,
         BoxMade, CreateFails, Installed, InstallFails, BridgeStarted, StartFails, CheckpointsFound,
         Extracted, Remembered, Undone, LoadClosed, Dropped, AgentCloses, Closes, StartsOver, GivesUp, Store, disk
<1> QED
  BY <1>1, <1>2

(* A step of a call keeps the invariant.                                     *)
LEMMA CallsClean ==
    ASSUME StartInv, NEW c \in StartCalls, CallSteps(c)
    PROVE  StartInv'
<1>1. StepsClean(c)
  BY WritesClean, LoadsClean, BridgesClean, ClosesClean DEF CallSteps
<1>2. AllClean'
  BY <1>1, OthersStayClean DEF StepsClean, AllClean, StartInv
<1>3. StartTypeOK'
  BY PlacesStay, NumbersStay, SetsStay DEF StartTypeOK, Places
<1> QED
  BY <1>2, <1>3, DiskStays, AfterStays DEF StartInv

(* A snapshot is lost, and nothing else happens.                             *)
LEMMA LossClean ==
    ASSUME StartInv, NEW s \in DOMAIN startSnaps, SnapshotGone(s)
    PROVE  StartInv'
<1>1. UNCHANGED <<startPc, startFrom, rebuild, startMade, startBoxes, gates, file, io, clash, after, unclosed, hurt>>
  BY DEF SnapshotGone, disk, history
<1>2. startSnaps \in Seq(SnapStates) /\ startMix \in MixOfStarts
  BY DEF StartInv, DiskTyped
<1>3. startSnaps' \in Seq(SnapStates) /\ Len(startSnaps') = Len(startSnaps)
  BY <1>2 DEF SnapshotGone, SnapStates
<1>4. startMix' \in MixOfStarts /\ startMix'.kind = startMix.kind
  BY <1>2, FaultKeepsStart DEF SnapshotGone, Faults
<1>5. StartTypeOK'
  <2>1. StartTypeOK
    BY DEF StartInv
  <2> QED
    BY <1>1, <1>3, <2>1 DEF StartTypeOK
<1>6. DiskTyped'
  BY <1>1, <1>3, <1>4 DEF StartInv, DiskTyped, WriteTyped, There
<1>7. AllClean'
  BY <1>1, <1>4 DEF StartInv, AllClean, CallClean, StoresWell, FailsWell, BoxesOf, StartKind
<1> QED
  BY <1>1, <1>5, <1>6, <1>7 DEF StartInv

(* At first there is no container, and the records are those of the mix.     *)
LEMMA InitClean == StartInit => StartInv
<1> SUFFICES ASSUME StartInit PROVE StartInv
  OBVIOUS
<1> USE DEF StartInit
<1>1. startMix \in MixOfStarts /\ \A r \in startMix.records : r.snap \in 1 .. Len(startMix.snaps)
  BY StartConstants
<1>2. startSnaps \in Seq(SnapStates) /\ Len(startSnaps) \in Nat /\ file \in SUBSET Records
      /\ rebuild \subseteq StartCalls
  BY <1>1 DEF MixOfStarts, SnapStates
<1>3. There(file, Len(startSnaps))
  BY <1>1 DEF There
<1>4. io = [c \in StartCalls |-> io[c]] /\ \A c \in StartCalls : io[c] = Nil
  OBVIOUS
<1>5. DiskTyped
  BY <1>1, <1>2, <1>3, <1>4 DEF DiskTyped
<1>6. StartTypeOK
  <2>1. startBoxes \cup unclosed = {} /\ gates = {} /\ clash = {}
    OBVIOUS
  <2>2. startPc \in [StartCalls -> Places]
    BY DEF Places
  <2>3. startFrom \in [StartCalls -> 0 .. Len(startSnaps)] /\ startMade \in [StartCalls -> 0 .. Len(startSnaps)]
    BY <1>2
  <2> QED
    BY <1>2, <2>1, <2>2, <2>3 DEF StartTypeOK, Places
<1>7. AllClean
  BY <1>4 DEF AllClean, CallClean, StoresWell, FailsWell, BoxesOf
<1> QED
  BY <1>5, <1>6, <1>7 DEF StartInv

(* Every step keeps the invariant.                                           *)
LEMMA StepClean == StartInv /\ [StartNext]_startVars => StartInv'
<1> SUFFICES ASSUME StartInv, [StartNext]_startVars PROVE StartInv'
  OBVIOUS
<1>1. ASSUME NEW c \in StartCalls, Begins(c) \/ StartStep(c) \/ AgentCloses(c) PROVE StartInv'
  BY <1>1, CallsClean DEF CallSteps, StartStep
<1>2. ASSUME NEW s \in DOMAIN startSnaps, SnapshotGone(s) PROVE StartInv'
  BY <1>2, LossClean
<1>3. CASE UNCHANGED startVars
  <2>1. UNCHANGED <<startMix, startSnaps, startPc, startFrom, rebuild, startMade, startBoxes, gates, file, io,
                    clash, after, unclosed, hurt>>
    BY <1>3 DEF startVars, provider, disk, history
  <2>2. StartTypeOK'
    BY <2>1 DEF StartInv, StartTypeOK
  <2>3. DiskTyped'
    BY <2>1 DEF StartInv, DiskTyped, WriteTyped, There
  <2>4. AllClean'
    BY <2>1 DEF StartInv, AllClean, CallClean, StoresWell, FailsWell, BoxesOf, StartKind
  <2> QED
    BY <2>1, <2>2, <2>3, <2>4 DEF StartInv
<1> QED
  BY <1>1, <1>2, <1>3 DEF StartNext

(* Every variable of a start keeps its type.                                 *)
THEOREM StartsTyped == StartSpec => []StartTypeOK
<1>1. StartInv => StartTypeOK
  BY DEF StartInv
<1> QED
  BY <1>1, InitClean, StepClean, PTL DEF StartSpec

(* However starts, restores and spawns overlap, and whatever fails, a call   *)
(* that fails leaves no container it was handed that nobody tried to close,  *)
(* but when the ledger cannot be read; and a start fails only when something *)
(* else than a snapshot on record is wrong                                   *)
(* (factory.ts:259-304, 368-375, 772-776, 821-828).                          *)
THEOREM StartsClean == StartSpec => []StartsAreClean
<1>1. StartInv => StartsAreClean
  <2> SUFFICES ASSUME StartInv PROVE StartsAreClean
    OBVIOUS
  <2>1. FailuresLeaveNothing
    <3> SUFFICES ASSUME NEW b \in startBoxes \ unclosed
                 PROVE  b[2] = startFrom[b[1]] /\ startPc[b[1]] \in Live
      BY DEF FailuresLeaveNothing, Live
    <3>1. startBoxes \subseteq StartCalls \X (0 .. Len(startSnaps))
      BY Zenon DEF StartInv, StartTypeOK
    <3>2. b[1] \in StartCalls /\ b \in BoxesOf(b[1])
      BY <3>1 DEF BoxesOf
    <3> QED
      BY <3>2 DEF StartInv, AllClean, CallClean
  <2>2. HitIsNoWorse
    BY DEF StartInv, AllClean, CallClean, FailsWell, HitIsNoWorse
  <2> QED
    BY <2>1, <2>2 DEF StartsAreClean
<1> QED
  BY <1>1, InitClean, StepClean, PTL DEF StartSpec

-----------------------------------------------------------------------------
(* The commands of a sandbox.                                                *)

(* The types that ExecTypeOK leaves out.                                     *)
Events == [type : {"none", "stdout", "eof", "broken", "end"}, code : Nat]
Ats == {"never", "off"} \cup Waiting \cup Settled
CmdTyped == cmd \in [Execs -> [at : Ats, event : Events, channel : Nat, exitCode : Nat]]
HandleTyped == handle \in [Execs -> [chunks : Nat, done : BOOLEAN, hasErr : BOOLEAN,
                                     wakeup : Readers \cup {Nobody}]]
ReaderTyped == reader \in [Readers -> [at : {"never", "off", "runs", "waits", "over", "threw"}, pos : Nat]]
ProcTyped == /\ proc \in [Execs -> {"none", "runs", "zero", "one", "interrupted", "killed"}]
             /\ wrote \in [Execs -> Nat] /\ wire \in [Execs -> Seq(Events)]
             /\ cut \in [Execs -> {"no", "signal", "lost", "pause", "close"}]
BoxTyped == /\ left \in MixOfExecs /\ channel \in Nat \ {0}
            /\ box \in {"up", "frozen", "gone"}
            /\ lifecycle \in {"open", "pausing", "paused", "closing", "closed"}
            /\ pendingReaders \subseteq (1 .. channel) \X Execs
            /\ \A e \in Execs : cmd[e].at \in {"start", "request"} => cmd[e].channel \in 1 .. channel

ExecTyped == CmdTyped /\ HandleTyped /\ ReaderTyped /\ ProcTyped /\ BoxTyped

(* What was written is in the handle, with the event that is on its way      *)
(* there, and on the wire; once the command has ended, its end comes last.   *)
Asked == {"never", "off", "channel", "start", "request"}
Held(e) == IF cmd[e].event = Out THEN 1 ELSE 0
Exited(e) == proc[e] \in {"zero", "one", "interrupted"}

AllWritten(e) ==
    /\ \A n \in 1 .. Len(wire[e]) : wire[e][n] = Out
    /\ handle[e].chunks + Held(e) + Len(wire[e]) = wrote[e]
EndsLast(e) ==
    LET last == Len(wire[e])
    IN  /\ last # 0
        /\ \A n \in 1 .. last : n # last => wire[e][n] = Out
        /\ wire[e][last].type = "end" /\ (wire[e][last].code = 0 <=> proc[e] = "zero")
        /\ handle[e].chunks + Held(e) + last = wrote[e] + 1

(* An end tells what the command did, and leaves nothing to come.            *)
Told(e, code) ==
    /\ Exited(e) /\ (code = 0 <=> proc[e] = "zero")
    /\ handle[e].chunks = wrote[e]

StreamIs(e) ==
    CASE cmd[e].at \in Asked -> /\ proc[e] = "none" /\ wire[e] = <<>>
                                /\ wrote[e] = 0 /\ handle[e].chunks = 0 /\ cmd[e].event = NoEvent
      [] cmd[e].at = "read"  -> /\ cmd[e].event = NoEvent
                                /\ (proc[e] = "runs" /\ AllWritten(e)) \/ (Exited(e) /\ EndsLast(e))
      [] cmd[e].at = "emit"  -> \/ /\ cmd[e].event = Out
                                   /\ (proc[e] = "runs" /\ AllWritten(e)) \/ (Exited(e) /\ EndsLast(e))
                                \/ cmd[e].event.type = "end" /\ Told(e, cmd[e].event.code)
      [] cmd[e].at = "complete" -> Told(e, cmd[e].exitCode)
      [] cmd[e].at = "ok"    -> Told(e, 0)
      [] cmd[e].at = "failed" -> proc[e] # "zero" /\ handle[e].chunks = wrote[e] /\ Exited(e)
      [] OTHER -> TRUE

(* Before its request nothing of a command can be cut off, and a handle is   *)
(* done when its stream is over.                                             *)
CommandTrue(e) ==
    /\ cut[e] = "no" => StreamIs(e)
    /\ \A p \in pendingReaders : p[2] = e => cmd[e].at \notin Asked
    /\ cmd[e].at \in Asked => proc[e] = "none"
    /\ handle[e].done => cmd[e].at \in {"complete"} \cup Settled

ReaderTrue(r) ==
    /\ reader[r].at = "waits" /\ Companions(r) = {} => handle[Of[r]].wakeup = r /\ ~handle[Of[r]].done
    /\ reader[r].at = "over" => reader[r].pos = handle[Of[r]].chunks /\ handle[Of[r]].done

ExecInv == ExecTyped /\ (\A e \in Execs : CommandTrue(e)) /\ (\A r \in Readers : ReaderTrue(r))

(* What the mix still allows, once it has been used.                         *)
LEMMA UseKeepsExec ==
    ASSUME left \in MixOfExecs, NEW what \in {"chunks", "faults", "losses", "pauses", "closes"}, Use(what)
    PROVE  left' \in MixOfExecs /\ left'.signals = left.signals /\ left'.exits = left.exits
<1>1. left' = [left EXCEPT ![what] = left[what] - 1] /\ left[what] > 0
  BY DEF Use
<1>2. CASE what = "chunks"
  BY <1>1, <1>2 DEF MixOfExecs
<1>3. CASE what = "faults"
  BY <1>1, <1>3 DEF MixOfExecs
<1>4. CASE what = "losses"
  BY <1>1, <1>4 DEF MixOfExecs
<1>5. CASE what = "pauses"
  BY <1>1, <1>5 DEF MixOfExecs
<1>6. CASE what = "closes"
  BY <1>1, <1>6 DEF MixOfExecs
<1> QED
  BY <1>2, <1>3, <1>4, <1>5, <1>6

(* A command whose stream nobody touches stays as it is.                     *)
LEMMA CommandStays ==
    ASSUME NEW d \in Execs, CommandTrue(d), cmd'[d] = cmd[d], proc'[d] = proc[d], wire'[d] = wire[d],
           wrote'[d] = wrote[d], cut'[d] = cut[d] \/ cut'[d] # "no",
           handle'[d].chunks = handle[d].chunks, handle'[d].done = handle[d].done,
           \A p \in pendingReaders' : p[2] = d => p \in pendingReaders
    PROVE  CommandTrue(d)'
<1>1. CASE cut'[d] = "no"
  <2>1. StreamIs(d)
    BY <1>1 DEF CommandTrue
  <2>2. AllWritten(d)' = AllWritten(d) /\ EndsLast(d)' = EndsLast(d) /\ Exited(d)' = Exited(d)
    BY DEF AllWritten, EndsLast, Exited, Held
  <2>3. StreamIs(d)'
    BY <2>1, <2>2 DEF StreamIs, Told, Exited
  <2> QED
    BY <2>3 DEF CommandTrue
<1>2. CASE cut'[d] # "no"
  BY <1>2 DEF CommandTrue
<1> QED
  BY <1>1, <1>2

(* A reader whose handle nobody touches stays as it is.                      *)
LEMMA ReadersStay ==
    ASSUME \A r \in Readers : ReaderTrue(r), reader' = reader,
           Of \in [Readers -> Execs],
           \A e \in Execs : /\ handle'[e].wakeup = handle[e].wakeup /\ handle'[e].done = handle[e].done
                            /\ handle'[e].chunks = handle[e].chunks
    PROVE  \A r \in Readers : ReaderTrue(r)'
<1> SUFFICES ASSUME NEW r \in Readers PROVE ReaderTrue(r)'
  OBVIOUS
<1>1. Companions(r)' = Companions(r)
  BY DEF Companions
<1> QED
  BY <1>1 DEF ReaderTrue

(* A notification wakes the reader the handle knows.                         *)
LEMMA Notifying ==
    ASSUME ExecInv, NEW e \in Execs, cmd[e].at \notin {"complete"} \cup Settled,
           NEW h \in [chunks : Nat, done : BOOLEAN, hasErr : BOOLEAN, wakeup : {Nobody}],
           handle' = [handle EXCEPT ![e] = h], reader' = Wakes(e, reader)
    PROVE  HandleTyped' /\ ReaderTyped' /\ \A r \in Readers : ReaderTrue(r)'
<1>1. HandleTyped /\ ReaderTyped /\ Of \in [Readers -> Execs] /\ ~handle[e].done
  BY ExecConstants DEF ExecInv, ExecTyped, CommandTrue
<1>2. HandleTyped' /\ handle'[e] = h /\ \A d \in Execs \ {e} : handle'[d] = handle[d]
  BY <1>1 DEF HandleTyped
<1>3. \A r \in Readers : reader'[r] = IF r = handle[e].wakeup THEN [reader[r] EXCEPT !.at = "runs"] ELSE reader[r]
  BY DEF Wakes
<1>4. ASSUME NEW r \in Readers
      PROVE  /\ reader'[r].pos = reader[r].pos
             /\ reader'[r].at = IF r = handle[e].wakeup THEN "runs" ELSE reader[r].at
             /\ reader'[r] \in [at : {"never", "off", "runs", "waits", "over", "threw"}, pos : Nat]
  <2>1. reader[r] \in [at : {"never", "off", "runs", "waits", "over", "threw"}, pos : Nat]
    BY <1>1 DEF ReaderTyped
  <2>2. CASE r = handle[e].wakeup
    <3>1. reader'[r] = [reader[r] EXCEPT !.at = "runs"]
      BY <1>3, <2>2
    <3> QED
      BY <2>1, <2>2, <3>1
  <2>3. CASE r # handle[e].wakeup
    BY <1>3, <2>1, <2>3
  <2> QED
    BY <2>2, <2>3
<1>5. ReaderTyped'
  BY <1>4 DEF ReaderTyped, Wakes
<1>6. ASSUME NEW r \in Readers PROVE ReaderTrue(r)'
  <2>1. ReaderTrue(r)
    BY DEF ExecInv
  <2>2. CASE reader'[r].at = "waits" /\ Companions(r)' = {}
    <3>1. reader[r].at = "waits" /\ r # handle[e].wakeup
      BY <1>4, <2>2
    <3>2. Companions(r) \subseteq Companions(r)' \cup {handle[e].wakeup}
      BY <1>4 DEF Companions
    <3>3. ASSUME NEW q \in Companions(r), q = handle[e].wakeup PROVE FALSE
      <4>1. q \in Readers \ {r} /\ Of[q] = Of[r] /\ reader'[q].at = "runs"
        BY <1>4, <3>3 DEF Companions
      <4>2. q \in Companions(r)'
        BY <4>1 DEF Companions
      <4> QED
        BY <2>2, <4>2
    <3>4. Companions(r) = {}
      BY <2>2, <3>2, <3>3
    <3>5. handle[Of[r]].wakeup = r /\ ~handle[Of[r]].done
      BY <2>1, <3>1, <3>4 DEF ReaderTrue
    <3>6. Of[r] # e
      BY <3>1, <3>5
    <3>7. handle'[Of[r]] = handle[Of[r]]
      BY <1>1, <1>2, <3>6
    <3> QED
      BY <2>2, <3>5, <3>7 DEF ReaderTrue
  <2>3. CASE reader'[r].at = "over"
    <3>1. reader[r].at = "over"
      BY <1>4, <2>3
    <3>2. reader[r].pos = handle[Of[r]].chunks /\ handle[Of[r]].done
      BY <2>1, <3>1 DEF ReaderTrue
    <3>3. Of[r] # e
      BY <1>1, <3>2
    <3>4. handle'[Of[r]] = handle[Of[r]]
      BY <1>1, <1>2, <3>3
    <3> QED
      BY <1>4, <2>3, <3>2, <3>4 DEF ReaderTrue
  <2> QED
    BY <2>2, <2>3 DEF ReaderTrue
<1> QED
  BY <1>2, <1>5, <1>6

(* A call that moves on.                                                     *)
LEMMA Goes ==
    ASSUME CmdTyped, NEW e \in Execs, NEW a \in Ats, GoesTo(e, a)
    PROVE  /\ CmdTyped' /\ \A d \in Execs \ {e} : cmd'[d] = cmd[d]
           /\ cmd'[e].at = a /\ cmd'[e].event = cmd[e].event
           /\ cmd'[e].channel = cmd[e].channel /\ cmd'[e].exitCode = cmd[e].exitCode
<1>1. cmd' = [cmd EXCEPT ![e] = [cmd[e] EXCEPT !.at = a]]
  BY DEF GoesTo
<1>2. [cmd[e] EXCEPT !.at = a] \in [at : Ats, event : Events, channel : Nat, exitCode : Nat]
  BY DEF CmdTyped
<1> QED
  BY <1>1, <1>2 DEF CmdTyped

(* And one that throws.                                                      *)
LEMMA Throwing ==
    ASSUME ExecInv, NEW e \in Execs, cmd[e].at \notin {"complete"} \cup Settled, Throws(e)
    PROVE  /\ CmdTyped' /\ HandleTyped' /\ ReaderTyped' /\ \A r \in Readers : ReaderTrue(r)'
           /\ \A d \in Execs \ {e} : cmd'[d] = cmd[d] /\ handle'[d] = handle[d]
           /\ cmd'[e].at = "thrown"
<1>1. CmdTyped /\ HandleTyped
  BY DEF ExecInv, ExecTyped
<1>2. GoesTo(e, "thrown") /\ "thrown" \in Ats
  BY DEF Throws, Ats, Settled
<1>3. PICK h : h = [[handle[e] EXCEPT !.wakeup = Nobody, !.done = TRUE] EXCEPT !.hasErr = TRUE]
  OBVIOUS
<1>4. h \in [chunks : Nat, done : BOOLEAN, hasErr : BOOLEAN, wakeup : {Nobody}]
  BY <1>1, <1>3 DEF HandleTyped
<1>5. handle' = [handle EXCEPT ![e] = h] /\ reader' = Wakes(e, reader)
  BY <1>3 DEF Throws, Notified
<1>6. HandleTyped' /\ ReaderTyped' /\ \A r \in Readers : ReaderTrue(r)'
  BY <1>4, <1>5, Notifying
<1>7. \A d \in Execs \ {e} : handle'[d] = handle[d]
  BY <1>1, <1>5 DEF HandleTyped
<1> QED
  BY <1>1, <1>2, <1>6, <1>7, Goes

(* A step of one command leaves the others as they are.                      *)
LEMMA OthersRun ==
    ASSUME ExecInv, NEW e \in Execs,
           \A d \in Execs \ {e} : /\ cmd'[d] = cmd[d] /\ proc'[d] = proc[d] /\ wire'[d] = wire[d]
                                  /\ wrote'[d] = wrote[d] /\ cut'[d] = cut[d] /\ handle'[d] = handle[d],
           \A p \in pendingReaders' : p[2] # e => p \in pendingReaders
    PROVE  \A d \in Execs \ {e} : CommandTrue(d)'
<1> SUFFICES ASSUME NEW d \in Execs, d # e PROVE CommandTrue(d)'
  OBVIOUS
<1>1. CommandTrue(d)
  BY DEF ExecInv
<1>2. \A p \in pendingReaders' : p[2] = d => p \in pendingReaders
  OBVIOUS
<1> QED
  BY <1>1, <1>2, CommandStays

(* exec() is called.                                                         *)
LEMMA IssueTrue == ASSUME ExecInv, NEW e \in Execs, Issue(e) PROVE ExecInv'
<1>1. ExecTyped /\ CommandTrue(e) /\ Of \in [Readers -> Execs]
  BY ExecConstants DEF ExecInv
<1>2. CmdTyped /\ GoesTo(e, "channel") /\ "channel" \in Ats
  BY <1>1 DEF Issue, ExecTyped, Ats, Waiting
<1>3. /\ CmdTyped' /\ \A d \in Execs \ {e} : cmd'[d] = cmd[d]
      /\ cmd'[e].at = "channel" /\ cmd'[e].event = cmd[e].event
  BY <1>2, Goes
<1>4. cmd[e].at = "off" /\ UNCHANGED <<left, box, proc, wrote, wire, handle, reader, pendingReaders, channel, lifecycle, cut>>
  BY DEF Issue
<1>5. \A d \in Execs \ {e} : CommandTrue(d)'
  BY <1>3, <1>4, OthersRun
<1>6. CommandTrue(e)'
  BY <1>1, <1>3, <1>4 DEF CommandTrue, StreamIs, Asked, Settled
<1>7. \A r \in Readers : ReaderTrue(r)'
  BY <1>1, <1>4, ReadersStay DEF ExecInv
<1>8. \A d \in Execs : cmd'[d].at \in {"start", "request"} => cmd'[d] = cmd[d]
  BY <1>3
<1>9. ExecTyped'
  BY <1>1, <1>3, <1>4, <1>8 DEF ExecTyped, HandleTyped, ReaderTyped, ProcTyped, BoxTyped
<1> QED
  BY <1>5, <1>6, <1>7, <1>9 DEF ExecInv

(* A command that throws is out of every account.                            *)
LEMMA ThrowingTrue ==
    ASSUME ExecInv, NEW e \in Execs, cmd[e].at \notin {"complete"} \cup Settled, Throws(e),
           left' \in MixOfExecs, UNCHANGED <<box, wrote, channel, lifecycle>>,
           pendingReaders' \subseteq pendingReaders, ProcTyped',
           \A d \in Execs \ {e} : /\ proc'[d] = proc[d] /\ wire'[d] = wire[d] /\ cut'[d] = cut[d]
    PROVE  ExecInv'
<1>1. /\ CmdTyped' /\ HandleTyped' /\ ReaderTyped' /\ \A r \in Readers : ReaderTrue(r)'
      /\ \A d \in Execs \ {e} : cmd'[d] = cmd[d] /\ handle'[d] = handle[d]
      /\ cmd'[e].at = "thrown"
  BY Throwing
<1>2. \A d \in Execs \ {e} : CommandTrue(d)'
  BY <1>1, OthersRun
<1>3. CommandTrue(e)'
  BY <1>1 DEF CommandTrue, StreamIs, Asked, Settled
<1>4. \A d \in Execs : cmd'[d].at \in {"start", "request"} => cmd'[d] = cmd[d]
  BY <1>1
<1>5. BoxTyped'
  BY <1>4 DEF ExecInv, ExecTyped, BoxTyped
<1> QED
  BY <1>1, <1>2, <1>3, <1>5 DEF ExecInv, ExecTyped

(* The ledger fails.                                                         *)
LEMMA ExecFailsTrue ==
    ASSUME ExecInv, NEW e \in Execs, cmd[e].at \notin {"complete"} \cup Settled, ExecFails(e),
           UNCHANGED <<box, proc, wrote, wire, channel, lifecycle, cut>>, pendingReaders' \subseteq pendingReaders
    PROVE  ExecInv'
<1>1. left \in MixOfExecs /\ Use("faults") /\ Throws(e) /\ ProcTyped
  BY DEF ExecFails, ExecInv, ExecTyped, BoxTyped
<1>2. left' \in MixOfExecs
  BY <1>1, UseKeepsExec
<1>3. ProcTyped'
  BY <1>1 DEF ProcTyped
<1> QED
  BY <1>1, <1>2, <1>3, ThrowingTrue

(* The call has its channel, or throws: the sandbox is paused.               *)
LEMMA GetChannelTrue == ASSUME ExecInv, NEW e \in Execs, GetChannel(e) PROVE ExecInv'
<1>1. ExecTyped /\ CommandTrue(e) /\ Of \in [Readers -> Execs]
  BY ExecConstants DEF ExecInv
<1>2. cmd[e].at = "channel" /\ UNCHANGED <<box, proc, wrote, wire, pendingReaders, channel, lifecycle, cut>>
  BY DEF GetChannel
<1>3. CASE cmd' = [cmd EXCEPT ![e].at = "start", ![e].channel = channel] /\ UNCHANGED <<left, handle, reader>>
  <2>1. PICK c : c = [cmd[e] EXCEPT !.at = "start", !.channel = channel]
    OBVIOUS
  <2>2. /\ c \in [at : Ats, event : Events, channel : Nat, exitCode : Nat]
        /\ c.at = "start" /\ c.channel = channel /\ c.event = cmd[e].event
    BY <1>1, <2>1 DEF ExecTyped, CmdTyped, BoxTyped, Ats, Waiting
  <2>3. cmd' = [cmd EXCEPT ![e] = c]
    BY <1>3, <2>1
  <2>4. CmdTyped' /\ cmd'[e] = c /\ \A d \in Execs \ {e} : cmd'[d] = cmd[d]
    BY <1>1, <2>2, <2>3 DEF ExecTyped, CmdTyped
  <2>5. \A d \in Execs \ {e} : CommandTrue(d)'
    BY <1>2, <1>3, <2>4, OthersRun
  <2>6. CommandTrue(e)'
    BY <1>1, <1>2, <1>3, <2>2, <2>4 DEF CommandTrue, StreamIs, Asked, Settled
  <2>7. \A r \in Readers : ReaderTrue(r)'
    BY <1>1, <1>3, ReadersStay DEF ExecInv
  <2>8. BoxTyped'
    <3>1. \A d \in Execs : cmd'[d].at \in {"start", "request"} => cmd'[d].channel \in 1 .. channel
      BY <1>1, <2>2, <2>4 DEF ExecTyped, BoxTyped
    <3> QED
      BY <1>1, <1>2, <1>3, <3>1 DEF ExecTyped, BoxTyped
  <2> QED
    BY <1>1, <1>2, <1>3, <2>4, <2>5, <2>6, <2>7, <2>8 DEF ExecInv, ExecTyped, HandleTyped, ReaderTyped, ProcTyped
<1>4. CASE Throws(e) /\ UNCHANGED left
  <2>1. left' \in MixOfExecs /\ ProcTyped' /\ cmd[e].at \notin {"complete"} \cup Settled
    BY <1>1, <1>2, <1>4 DEF ExecTyped, BoxTyped, ProcTyped, Settled
  <2> QED
    BY <1>2, <1>4, <2>1, ThrowingTrue
<1> QED
  BY <1>3, <1>4 DEF GetChannel

(* The ledger has heard of the start, or fails.                              *)
LEMMA StartToldTrue == ASSUME ExecInv, NEW e \in Execs, StartTold(e) PROVE ExecInv'
<1>1. ExecTyped /\ CommandTrue(e) /\ Of \in [Readers -> Execs]
  BY ExecConstants DEF ExecInv
<1>2. cmd[e].at = "start" /\ UNCHANGED <<box, proc, wrote, wire, pendingReaders, channel, lifecycle, cut>>
  BY DEF StartTold
<1>3. CASE GoesTo(e, "request") /\ UNCHANGED <<left, handle, reader>>
  <2>1. CmdTyped /\ "request" \in Ats
    BY <1>1 DEF ExecTyped, Ats, Waiting
  <2>2. /\ CmdTyped' /\ \A d \in Execs \ {e} : cmd'[d] = cmd[d]
        /\ cmd'[e].at = "request" /\ cmd'[e].event = cmd[e].event /\ cmd'[e].channel = cmd[e].channel
    BY <1>3, <2>1, Goes
  <2>3. \A d \in Execs \ {e} : CommandTrue(d)'
    BY <1>2, <1>3, <2>2, OthersRun
  <2>4. CommandTrue(e)'
    BY <1>1, <1>2, <1>3, <2>2 DEF CommandTrue, StreamIs, Asked, Settled
  <2>5. \A r \in Readers : ReaderTrue(r)'
    BY <1>1, <1>3, ReadersStay DEF ExecInv
  <2>6. \A d \in Execs : cmd'[d].at \in {"start", "request"} =>
            cmd'[d].channel = cmd[d].channel /\ cmd[d].at \in {"start", "request"}
    BY <1>2, <2>2
  <2>7. BoxTyped'
    BY <1>1, <1>2, <1>3, <2>6 DEF ExecTyped, BoxTyped
  <2> QED
    BY <1>1, <1>2, <1>3, <2>2, <2>3, <2>4, <2>5, <2>7 DEF ExecInv, ExecTyped, HandleTyped, ReaderTyped, ProcTyped
<1>4. CASE ExecFails(e)
  BY <1>2, <1>4, ExecFailsTrue DEF Settled
<1> QED
  BY <1>3, <1>4 DEF StartTold

(* The request is answered: nothing has been written yet.                    *)
LEMMA RequestTrue == ASSUME ExecInv, NEW e \in Execs, Request(e) PROVE ExecInv'
<1>1. ExecTyped /\ CommandTrue(e) /\ Of \in [Readers -> Execs]
  BY ExecConstants DEF ExecInv
<1>2. cmd[e].at = "request" /\ UNCHANGED <<box, wrote, wire, channel, lifecycle, cut>>
  BY DEF Request
<1>3. CASE /\ GoesTo(e, "read") /\ proc' = [proc EXCEPT ![e] = "runs"]
           /\ pendingReaders' \subseteq pendingReaders \cup {<<cmd[e].channel, e>>}
           /\ UNCHANGED <<left, handle, reader>>
  <2>1. CmdTyped /\ "read" \in Ats
    BY <1>1 DEF ExecTyped, Ats, Waiting
  <2>2. /\ CmdTyped' /\ \A d \in Execs \ {e} : cmd'[d] = cmd[d]
        /\ cmd'[e].at = "read" /\ cmd'[e].event = cmd[e].event
    BY <1>3, <2>1, Goes
  <2>3. ProcTyped' /\ proc'[e] = "runs" /\ \A d \in Execs \ {e} : proc'[d] = proc[d]
    BY <1>1, <1>2, <1>3 DEF ExecTyped, ProcTyped
  <2>4. \A d \in Execs \ {e} : CommandTrue(d)'
    <3>1. \A p \in pendingReaders' : p[2] # e => p \in pendingReaders
      BY <1>3
    <3> QED
      BY <1>2, <1>3, <2>2, <2>3, <3>1, OthersRun
  <2>5. CommandTrue(e)'
    <3>1. cut[e] = "no" => /\ wire[e] = <<>> /\ wrote[e] = 0 /\ handle[e].chunks = 0 /\ cmd[e].event = NoEvent
      BY <1>1, <1>2 DEF CommandTrue, StreamIs, Asked
    <3>2. cut'[e] = "no" => AllWritten(e)'
      BY <1>2, <1>3, <2>2, <3>1 DEF AllWritten, Held, NoEvent, Out
    <3> QED
      BY <1>1, <1>2, <1>3, <2>2, <2>3, <3>1, <3>2 DEF CommandTrue, StreamIs, Asked, Settled
  <2>6. \A r \in Readers : ReaderTrue(r)'
    BY <1>1, <1>3, ReadersStay DEF ExecInv
  <2>7. BoxTyped'
    <3>1. \A d \in Execs : cmd'[d].at \in {"start", "request"} =>
              cmd'[d].channel = cmd[d].channel /\ cmd[d].at \in {"start", "request"}
      BY <2>2
    <3>2. <<cmd[e].channel, e>> \in (1 .. channel) \X Execs
      BY <1>1, <1>2 DEF ExecTyped, BoxTyped
    <3>3. pendingReaders' \subseteq (1 .. channel) \X Execs
      BY <1>1, <1>3, <3>2 DEF ExecTyped, BoxTyped
    <3> QED
      BY <1>1, <1>2, <1>3, <3>1, <3>3 DEF ExecTyped, BoxTyped
  <2> QED
    BY <1>1, <1>2, <1>3, <2>2, <2>3, <2>4, <2>5, <2>6, <2>7 DEF ExecInv, ExecTyped, HandleTyped, ReaderTyped
<1>4. CASE Throws(e) /\ UNCHANGED <<left, proc, pendingReaders>>
  <2>1. left' \in MixOfExecs /\ ProcTyped' /\ cmd[e].at \notin {"complete"} \cup Settled
    BY <1>1, <1>2, <1>4 DEF ExecTyped, BoxTyped, ProcTyped, Settled
  <2> QED
    BY <1>2, <1>4, <2>1, ThrowingTrue
<1>5. pendingReaders' = (IF HasSignal(e) THEN pendingReaders ELSE pendingReaders \cup {<<cmd[e].channel, e>>})
        => pendingReaders' \subseteq pendingReaders \cup {<<cmd[e].channel, e>>}
  OBVIOUS
<1> QED
  BY <1>3, <1>4, <1>5 DEF Request

(* A notification gives the handle a count, and says whether it is done.     *)
LEMMA Telling ==
    ASSUME ExecInv, NEW e \in Execs, cmd[e].at \notin {"complete"} \cup Settled, NEW done \in BOOLEAN,
           NEW n \in Nat,
           handle' = [handle EXCEPT ![e] = [Notified(handle[e], done) EXCEPT !.chunks = n]],
           reader' = Wakes(e, reader)
    PROVE  /\ HandleTyped' /\ ReaderTyped' /\ \A r \in Readers : ReaderTrue(r)'
           /\ handle'[e].chunks = n /\ handle'[e].done = done
           /\ \A d \in Execs \ {e} : handle'[d] = handle[d]
<1>1. HandleTyped
  BY DEF ExecInv, ExecTyped
<1>2. PICK h : h = [[handle[e] EXCEPT !.wakeup = Nobody, !.done = done] EXCEPT !.chunks = n]
  OBVIOUS
<1>3. /\ h \in [chunks : Nat, done : BOOLEAN, hasErr : BOOLEAN, wakeup : {Nobody}]
      /\ h.chunks = n /\ h.done = done
  BY <1>1, <1>2 DEF HandleTyped
<1>4. handle' = [handle EXCEPT ![e] = h]
  BY <1>2 DEF Notified
<1>5. HandleTyped' /\ ReaderTyped' /\ \A r \in Readers : ReaderTrue(r)'
  BY <1>3, <1>4, Notifying
<1>6. handle'[e] = h /\ \A d \in Execs \ {e} : handle'[d] = handle[d]
  BY <1>1, <1>4 DEF HandleTyped
<1> QED
  BY <1>3, <1>5, <1>6

(* A notification leaves the count of a handle alone.                        *)
LEMMA NotifiedKeepsCount ==
    ASSUME HandleTyped, NEW e \in Execs, NEW done \in BOOLEAN
    PROVE  Notified(handle[e], done) = [Notified(handle[e], done) EXCEPT !.chunks = handle[e].chunks]
<1>1. handle[e] \in [chunks : Nat, done : BOOLEAN, hasErr : BOOLEAN, wakeup : Readers \cup {Nobody}]
  BY DEF HandleTyped
<1>2. PICK h : h = handle[e]
  OBVIOUS
<1>3. h \in [chunks : Nat, done : BOOLEAN, hasErr : BOOLEAN, wakeup : Readers \cup {Nobody}]
  BY <1>1, <1>2
<1>4. [h EXCEPT !.wakeup = Nobody, !.done = done]
        = [[h EXCEPT !.wakeup = Nobody, !.done = done] EXCEPT !.chunks = h.chunks]
  BY <1>3
<1> QED
  BY <1>2, <1>4 DEF Notified

(* The rest of a wire, when its head is no end of it.                        *)
LEMMA TailOfWire ==
    ASSUME NEW w \in Seq(Events), w # <<>>
    PROVE  /\ Tail(w) \in Seq(Events) /\ Len(Tail(w)) = Len(w) - 1 /\ Len(w) \in Nat \ {0}
           /\ Head(w) = w[1] /\ Head(w) \in Events
           /\ \A n \in 1 .. Len(Tail(w)) : Tail(w)[n] = w[n + 1]
OBVIOUS

(* A read takes the head of the wire: an event, or the end of the stream.    *)
LEMMA ReadTrue == ASSUME ExecInv, NEW e \in Execs, Read(e) PROVE ExecInv'
<1>1. ExecTyped /\ CommandTrue(e) /\ Of \in [Readers -> Execs] /\ CmdTyped /\ HandleTyped
  BY ExecConstants DEF ExecInv, ExecTyped
<1>2. /\ cmd[e].at = "read" /\ wire[e] # <<>> /\ wire' = [wire EXCEPT ![e] = Tail(wire[e])]
      /\ UNCHANGED <<left, box, proc, wrote, channel, lifecycle, cut>>
  BY DEF Read
<1>3. PICK w : w = wire[e]
  OBVIOUS
<1>4. w \in Seq(Events) /\ w # <<>>
  BY <1>1, <1>2, <1>3 DEF ExecTyped, ProcTyped
<1>5. /\ Tail(w) \in Seq(Events) /\ Len(Tail(w)) = Len(w) - 1 /\ Len(w) \in Nat \ {0}
      /\ Head(w) = w[1] /\ Head(w) \in Events
      /\ \A n \in 1 .. Len(Tail(w)) : Tail(w)[n] = w[n + 1]
  BY <1>4, TailOfWire
<1>6. ProcTyped' /\ wire'[e] = Tail(w) /\ \A d \in Execs \ {e} : wire'[d] = wire[d]
  BY <1>1, <1>2, <1>3, <1>5 DEF ExecTyped, ProcTyped
<1>7. \A r \in Readers : ReaderTrue(r)
  BY DEF ExecInv
<1>8. cut[e] = "no" => /\ cmd[e].event = NoEvent
                       /\ (proc[e] = "runs" /\ AllWritten(e)) \/ (Exited(e) /\ EndsLast(e))
  BY <1>1, <1>2 DEF CommandTrue, StreamIs, Asked
<1>9. wire[e] = w /\ 1 \in 1 .. Len(w) /\ Len(w) \in 1 .. Len(w)
  BY <1>3, <1>5
<1>10. cut[e] = "no" => w[1] = Out \/ w[1].type = "end"
  BY <1>8, <1>9 DEF AllWritten, EndsLast
<1>14. Len(Tail(w)) = Len(w) - 1 /\ Len(w) \in Nat
  BY <1>5
<1>11. CASE Head(wire[e]) = Eof /\ GoesTo(e, "complete") /\ handle' = [handle EXCEPT ![e] = Notified(handle[e], TRUE)]
            /\ reader' = Wakes(e, reader) /\ pendingReaders' = Deregistered(e)
  <2>1. /\ CmdTyped' /\ \A d \in Execs \ {e} : cmd'[d] = cmd[d]
        /\ cmd'[e].at = "complete"
    BY <1>1, <1>11, Goes DEF Ats, Waiting
  <2>2. handle' = [handle EXCEPT ![e] = [Notified(handle[e], TRUE) EXCEPT !.chunks = handle[e].chunks]]
    BY <1>1, <1>11, NotifiedKeepsCount
  <2>3. /\ HandleTyped' /\ ReaderTyped' /\ \A r \in Readers : ReaderTrue(r)'
        /\ \A d \in Execs \ {e} : handle'[d] = handle[d]
    BY <1>1, <1>2, <1>11, <2>2, Telling DEF HandleTyped, Settled
  <2>4. pendingReaders' \subseteq pendingReaders
    BY <1>11 DEF Deregistered
  <2>5. \A d \in Execs \ {e} : CommandTrue(d)'
    BY <1>2, <1>6, <2>1, <2>3, <2>4, OthersRun
  <2>6. cut[e] # "no"
    BY <1>5, <1>9, <1>10, <1>11 DEF Eof, Out
  <2>7. CommandTrue(e)'
    BY <1>2, <2>1, <2>6 DEF CommandTrue, Asked
  <2>8. \A d \in Execs : cmd'[d].at \in {"start", "request"} => cmd'[d] = cmd[d]
    BY <2>1
  <2>9. BoxTyped'
    BY <1>1, <1>2, <2>4, <2>8 DEF ExecTyped, BoxTyped
  <2> QED
    BY <1>6, <2>1, <2>3, <2>5, <2>7, <2>9 DEF ExecInv, ExecTyped
<1>12. CASE Throws(e) /\ pendingReaders' = Deregistered(e)
  <2>1. left' \in MixOfExecs /\ cmd[e].at \notin {"complete"} \cup Settled /\ pendingReaders' \subseteq pendingReaders
    BY <1>1, <1>2, <1>12 DEF ExecTyped, BoxTyped, Settled, Deregistered
  <2> QED
    BY <1>2, <1>6, <1>12, <2>1, ThrowingTrue
<1>13. CASE /\ Head(wire[e]) \notin {Eof, Broken}
            /\ cmd' = [cmd EXCEPT ![e].at = "emit", ![e].event = Head(wire[e])]
            /\ UNCHANGED <<handle, reader, pendingReaders>>
  <2>1. PICK c : c = [cmd[e] EXCEPT !.at = "emit", !.event = Head(wire[e])]
    OBVIOUS
  <2>2. /\ c \in [at : Ats, event : Events, channel : Nat, exitCode : Nat]
        /\ c.at = "emit" /\ c.event = w[1]
    BY <1>1, <1>3, <1>5, <2>1 DEF CmdTyped, Ats, Waiting
  <2>3. cmd' = [cmd EXCEPT ![e] = c]
    BY <1>13, <2>1
  <2>4. CmdTyped' /\ cmd'[e] = c /\ \A d \in Execs \ {e} : cmd'[d] = cmd[d]
    BY <1>1, <2>2, <2>3 DEF CmdTyped
  <2>5. \A d \in Execs \ {e} : CommandTrue(d)'
    BY <1>2, <1>6, <1>13, <2>4, OthersRun
  <2>6. cut'[e] = "no" => StreamIs(e)'
    <3> SUFFICES ASSUME cut'[e] = "no" PROVE StreamIs(e)'
      OBVIOUS
    <3>1. cut[e] = "no" /\ cmd[e].event = NoEvent
      BY <1>2, <1>8
    <3>2. handle[e].chunks \in Nat /\ wrote[e] \in Nat
      BY <1>1 DEF HandleTyped, ExecTyped, ProcTyped
    <3>3. CASE proc[e] = "runs" /\ AllWritten(e)
      <4>1. w[1] = Out /\ handle[e].chunks + Len(w) = wrote[e] /\ \A n \in 1 .. Len(w) : w[n] = Out
        BY <1>9, <3>1, <3>2, <3>3, <1>5 DEF AllWritten, Held, NoEvent, Out
      <4>2. \A n \in 1 .. Len(Tail(w)) : n + 1 \in 1 .. Len(w)
        BY <1>5
      <4>3. \A n \in 1 .. Len(Tail(w)) : Tail(w)[n] = Out
        BY <1>5, <4>1, <4>2
      <4>4. Held(e)' = 1 /\ handle'[e].chunks + 1 + Len(Tail(w)) = wrote'[e]
        <5>1. Held(e)' = 1
          BY <2>2, <2>4, <4>1 DEF Held
        <5>2. handle'[e].chunks = handle[e].chunks /\ wrote'[e] = wrote[e]
          BY <1>2, <1>13
        <5> QED
          BY <1>14, <3>2, <4>1, <5>1, <5>2
      <4>5. AllWritten(e)'
        BY <1>6, <4>3, <4>4 DEF AllWritten
      <4> QED
        BY <1>2, <2>2, <2>4, <3>3, <4>1, <4>5 DEF StreamIs, Asked
    <3>4. CASE Exited(e) /\ EndsLast(e) /\ Len(w) # 1
      <4>1. /\ \A n \in 1 .. Len(w) : n # Len(w) => w[n] = Out
            /\ w[Len(w)].type = "end" /\ (w[Len(w)].code = 0 <=> proc[e] = "zero")
            /\ handle[e].chunks + Held(e) + Len(w) = wrote[e] + 1
        BY <1>9, <3>4 DEF EndsLast
      <4>2. w[1] = Out /\ handle[e].chunks + Len(w) = wrote[e] + 1
        <5>1. Held(e) = 0
          BY <3>1 DEF Held, NoEvent, Out
        <5>2. handle[e].chunks + Len(w) = wrote[e] + 1
          BY <1>14, <3>2, <4>1, <5>1
        <5>3. w[1] = Out
          BY <1>9, <3>4, <4>1
        <5> QED
          BY <5>2, <5>3
      <4>3. PICK m : m = Len(w)
        OBVIOUS
      <4>4. \A n \in 1 .. m - 1 : n + 1 \in 1 .. m /\ (n # m - 1 => n + 1 # m)
        <5>1. m \in Nat
          BY <1>14, <4>3
        <5> QED
          BY <5>1
      <4>5. \A n \in 1 .. m - 1 : n # m - 1 => Tail(w)[n] = Out
        BY <1>5, <4>1, <4>3, <4>4
      <4>6. m - 1 \in 1 .. m - 1 /\ Tail(w)[m - 1] = w[m] /\ m - 1 # 0
        BY <1>5, <3>4, <4>3
      <4>7. Held(e)' = 1 /\ handle'[e].chunks + 1 + (m - 1) = wrote'[e] + 1
        <5>1. Held(e)' = 1
          BY <2>2, <2>4, <4>2 DEF Held
        <5>2. handle'[e].chunks = handle[e].chunks /\ wrote'[e] = wrote[e]
          BY <1>2, <1>13
        <5> QED
          BY <1>14, <3>2, <4>2, <4>3, <5>1, <5>2
      <4>8. EndsLast(e)'
        <5>1. Len(wire'[e]) = m - 1 /\ wire'[e] = Tail(w) /\ proc'[e] = proc[e]
          BY <1>2, <1>5, <1>6, <4>3
        <5> QED
          BY <4>1, <4>3, <4>5, <4>6, <4>7, <5>1 DEF EndsLast
      <4>9. Exited(e)'
        BY <1>2, <3>4 DEF Exited
      <4> QED
        BY <2>2, <2>4, <4>2, <4>8, <4>9 DEF StreamIs, Asked
    <3>5. CASE Exited(e) /\ EndsLast(e) /\ Len(w) = 1
      <4>1. w[1].type = "end" /\ (w[1].code = 0 <=> proc[e] = "zero") /\ handle[e].chunks = wrote[e]
        BY <1>9, <3>1, <3>2, <3>5 DEF EndsLast, Held, NoEvent, Out
      <4>2. Told(e, w[1].code)'
        BY <1>2, <1>13, <3>5, <4>1 DEF Told, Exited
      <4>3. Told(e, cmd[e].event.code)'
        BY <2>2, <2>4, <4>2 DEF Told, Exited
      <4> QED
        BY <2>2, <2>4, <4>1, <4>3 DEF StreamIs, Asked
    <3> QED
      BY <1>8, <3>1, <3>3, <3>4, <3>5
  <2>7. CommandTrue(e)'
    BY <1>1, <1>2, <1>13, <2>2, <2>4, <2>6 DEF CommandTrue, Asked, Settled
  <2>8. \A r \in Readers : ReaderTrue(r)'
    BY <1>1, <1>7, <1>13, ReadersStay
  <2>9. \A d \in Execs : cmd'[d].at \in {"start", "request"} => cmd'[d] = cmd[d]
    BY <2>2, <2>4
  <2>10. BoxTyped'
    BY <1>1, <1>2, <1>13, <2>9 DEF ExecTyped, BoxTyped
  <2> QED
    BY <1>1, <1>6, <1>13, <2>4, <2>5, <2>7, <2>8, <2>10 DEF ExecInv, ExecTyped, HandleTyped, ReaderTyped
<1> QED
  BY <1>11, <1>12, <1>13 DEF Read

(* An event goes to the handle: one chunk more, or the exit status.          *)
LEMMA EmittedTrue == ASSUME ExecInv, NEW e \in Execs, Emitted(e) PROVE ExecInv'
<1>1. ExecTyped /\ CommandTrue(e) /\ Of \in [Readers -> Execs] /\ CmdTyped /\ HandleTyped
  BY ExecConstants DEF ExecInv, ExecTyped
<1>2. cmd[e].at = "emit" /\ UNCHANGED <<box, proc, wrote, wire, channel, lifecycle, cut>>
  BY DEF Emitted
<1>3. ProcTyped' /\ cmd[e].at \notin {"complete"} \cup Settled
  BY <1>1, <1>2 DEF ExecTyped, ProcTyped, Settled
<1>4. \/ /\ cmd[e].event = Out
         /\ (proc[e] = "runs" /\ AllWritten(e)) \/ (Exited(e) /\ EndsLast(e))
      \/ cmd[e].event.type = "end" /\ Told(e, cmd[e].event.code)
      \/ cut[e] # "no"
  BY <1>1, <1>2 DEF CommandTrue, StreamIs, Asked
<1>5. handle[e].chunks \in Nat /\ wrote[e] \in Nat /\ Len(wire[e]) \in Nat
  BY <1>1 DEF HandleTyped, ExecTyped, ProcTyped
<1>6. CASE /\ cmd[e].event = Out
           /\ cmd' = [cmd EXCEPT ![e].at = "read", ![e].event = NoEvent]
           /\ handle' = [handle EXCEPT ![e] = [Notified(@, FALSE) EXCEPT !.chunks = handle[e].chunks + 1]]
           /\ reader' = Wakes(e, reader)
           /\ UNCHANGED <<left, pendingReaders>>
  <2>1. PICK c : c = [cmd[e] EXCEPT !.at = "read", !.event = NoEvent]
    OBVIOUS
  <2>2. /\ c \in [at : Ats, event : Events, channel : Nat, exitCode : Nat]
        /\ c.at = "read" /\ c.event = NoEvent
    BY <1>1, <2>1 DEF CmdTyped, Ats, Waiting, NoEvent, Events
  <2>3. cmd' = [cmd EXCEPT ![e] = c]
    BY <1>6, <2>1
  <2>4. CmdTyped' /\ cmd'[e] = c /\ \A d \in Execs \ {e} : cmd'[d] = cmd[d]
    BY <1>1, <2>2, <2>3 DEF CmdTyped
  <2>7. /\ HandleTyped' /\ ReaderTyped' /\ \A r \in Readers : ReaderTrue(r)'
        /\ handle'[e].chunks = handle[e].chunks + 1 /\ handle'[e].done = FALSE
        /\ \A d \in Execs \ {e} : handle'[d] = handle[d]
    <3>1. PICK n \in Nat : n = handle[e].chunks + 1
      BY <1>5
    <3>2. handle' = [handle EXCEPT ![e] = [Notified(handle[e], FALSE) EXCEPT !.chunks = n]] /\ FALSE \in BOOLEAN
      BY <1>6, <3>1
    <3> QED
      BY <1>3, <1>6, <3>1, <3>2, Telling
  <2>8. \A d \in Execs \ {e} : CommandTrue(d)'
    BY <1>2, <1>6, <2>4, <2>7, OthersRun
  <2>9. Held(e) = 1 /\ Held(e)' = 0
    BY <1>6, <2>2, <2>4 DEF Held, NoEvent, Out
  <2>10. AllWritten(e) => AllWritten(e)'
    <3>1. handle[e].chunks + Held(e) + Len(wire[e]) = wrote[e]
            => handle'[e].chunks + Held(e)' + Len(wire[e]) = wrote[e]
      BY <1>5, <2>7, <2>9
    <3> QED
      BY <1>2, <3>1 DEF AllWritten
  <2>11. EndsLast(e) => EndsLast(e)'
    <3>1. handle[e].chunks + Held(e) + Len(wire[e]) = wrote[e] + 1
            => handle'[e].chunks + Held(e)' + Len(wire[e]) = wrote[e] + 1
      BY <1>5, <2>7, <2>9
    <3> QED
      BY <1>2, <3>1 DEF EndsLast
  <2>12. cut'[e] = "no" => StreamIs(e)'
    <3>1. cut[e] = "no" => (proc[e] = "runs" /\ AllWritten(e)) \/ (Exited(e) /\ EndsLast(e))
      BY <1>4, <1>6 DEF Out
    <3>2. cut'[e] = "no" => (proc'[e] = "runs" /\ AllWritten(e)') \/ (Exited(e)' /\ EndsLast(e)')
      BY <1>2, <2>10, <2>11, <3>1 DEF Exited
    <3> QED
      BY <2>2, <2>4, <3>2 DEF StreamIs, Asked
  <2>13. CommandTrue(e)'
    BY <2>2, <2>4, <2>7, <2>12 DEF CommandTrue, Asked
  <2>14. \A d \in Execs : cmd'[d].at \in {"start", "request"} => cmd'[d] = cmd[d]
    BY <2>2, <2>4
  <2>15. BoxTyped'
    BY <1>1, <1>2, <1>6, <2>14 DEF ExecTyped, BoxTyped
  <2> QED
    BY <1>3, <2>4, <2>7, <2>8, <2>13, <2>15 DEF ExecInv, ExecTyped
<1>7. CASE /\ cmd[e].event # Out
           /\ cmd' = [cmd EXCEPT ![e].at = "complete", ![e].event = NoEvent, ![e].exitCode = cmd[e].event.code]
           /\ handle' = [handle EXCEPT ![e] = Notified(@, TRUE)]
           /\ reader' = Wakes(e, reader)
           /\ UNCHANGED <<left, pendingReaders>>
  <2>1. PICK c : c = [cmd[e] EXCEPT !.at = "complete", !.event = NoEvent, !.exitCode = cmd[e].event.code]
    OBVIOUS
  <2>2. /\ c \in [at : Ats, event : Events, channel : Nat, exitCode : Nat]
        /\ c.at = "complete" /\ c.exitCode = cmd[e].event.code
    BY <1>1, <2>1 DEF CmdTyped, Ats, Waiting, NoEvent, Events
  <2>3. cmd' = [cmd EXCEPT ![e] = c]
    BY <1>7, <2>1
  <2>4. CmdTyped' /\ cmd'[e] = c /\ \A d \in Execs \ {e} : cmd'[d] = cmd[d]
    BY <1>1, <2>2, <2>3 DEF CmdTyped
  <2>5. handle' = [handle EXCEPT ![e] = [Notified(handle[e], TRUE) EXCEPT !.chunks = handle[e].chunks]]
    BY <1>1, <1>7, NotifiedKeepsCount
  <2>6. /\ HandleTyped' /\ ReaderTyped' /\ \A r \in Readers : ReaderTrue(r)'
        /\ handle'[e].chunks = handle[e].chunks
        /\ \A d \in Execs \ {e} : handle'[d] = handle[d]
    BY <1>3, <1>5, <1>7, <2>5, Telling
  <2>7. \A d \in Execs \ {e} : CommandTrue(d)'
    BY <1>2, <1>7, <2>4, <2>6, OthersRun
  <2>8. cut'[e] = "no" => StreamIs(e)'
    <3>1. cut[e] = "no" => Told(e, cmd[e].event.code)
      BY <1>4, <1>7
    <3>2. cut'[e] = "no" => Told(e, cmd[e].exitCode)'
      BY <1>2, <2>2, <2>4, <2>6, <3>1 DEF Told, Exited
    <3> QED
      BY <2>2, <2>4, <3>2 DEF StreamIs, Asked
  <2>9. CommandTrue(e)'
    BY <2>2, <2>4, <2>6, <2>8 DEF CommandTrue, Asked
  <2>10. \A d \in Execs : cmd'[d].at \in {"start", "request"} => cmd'[d] = cmd[d]
    BY <2>2, <2>4
  <2>11. BoxTyped'
    BY <1>1, <1>2, <1>7, <2>10 DEF ExecTyped, BoxTyped
  <2> QED
    BY <1>3, <2>4, <2>6, <2>7, <2>9, <2>11 DEF ExecInv, ExecTyped
<1>8. CASE ExecFails(e) /\ pendingReaders' = Deregistered(e)
  <2>1. pendingReaders' \subseteq pendingReaders
    BY <1>8 DEF Deregistered
  <2> QED
    BY <1>2, <1>3, <1>8, <2>1, ExecFailsTrue
<1> QED
  BY <1>6, <1>7, <1>8 DEF Emitted

(* A command settles as its exit status says.                                *)
LEMMA CompletesTrue == ASSUME ExecInv, NEW e \in Execs, Completes(e) PROVE ExecInv'
<1>1. ExecTyped /\ CommandTrue(e) /\ Of \in [Readers -> Execs] /\ CmdTyped
  BY ExecConstants DEF ExecInv, ExecTyped
<1>2. /\ cmd[e].at = "complete"
      /\ UNCHANGED <<box, proc, wrote, wire, handle, reader, pendingReaders, channel, lifecycle, cut>>
  BY DEF Completes
<1>3. PICK a \in Settled : GoesTo(e, a) /\ a = (IF a = "thrown" THEN "thrown" ELSE
                                                IF cmd[e].exitCode = 0 THEN "ok" ELSE "failed")
  BY DEF Completes, Settled
<1>4. a \in Ats
  BY DEF Ats
<1>5. /\ CmdTyped' /\ \A d \in Execs \ {e} : cmd'[d] = cmd[d]
      /\ cmd'[e].at = a
  BY <1>1, <1>3, <1>4, Goes
<1>6. left' \in MixOfExecs
  <2>1. left \in MixOfExecs
    BY <1>1 DEF ExecTyped, BoxTyped
  <2>2. left' = left \/ Use("faults")
    BY DEF Completes
  <2> QED
    BY <2>1, <2>2, UseKeepsExec
<1>7. \A d \in Execs \ {e} : CommandTrue(d)'
  BY <1>2, <1>5, OthersRun
<1>8. CommandTrue(e)'
  <2>1. cut[e] = "no" => Told(e, cmd[e].exitCode)
    BY <1>1, <1>2 DEF CommandTrue, StreamIs, Asked
  <2>2. cut'[e] = "no" => StreamIs(e)'
    <3>1. CASE a = "ok"
      BY <1>2, <1>3, <1>5, <2>1, <3>1 DEF StreamIs, Asked, Told, Exited
    <3>2. CASE a = "failed"
      BY <1>2, <1>3, <1>5, <2>1, <3>2 DEF StreamIs, Asked, Told, Exited
    <3>3. CASE a = "thrown"
      BY <1>5, <3>3 DEF StreamIs, Asked
    <3> QED
      BY <3>1, <3>2, <3>3 DEF Settled
  <2> QED
    BY <1>1, <1>2, <1>5, <2>2 DEF CommandTrue, Asked, Settled
<1>9. \A r \in Readers : ReaderTrue(r)'
  BY <1>1, <1>2, ReadersStay DEF ExecInv
<1>10. \A d \in Execs : cmd'[d].at \in {"start", "request"} => cmd'[d] = cmd[d]
  BY <1>5 DEF Settled
<1>11. BoxTyped'
  BY <1>1, <1>2, <1>6, <1>10 DEF ExecTyped, BoxTyped
<1> QED
  BY <1>1, <1>2, <1>5, <1>7, <1>8, <1>9, <1>11 DEF ExecInv, ExecTyped, HandleTyped, ReaderTyped, ProcTyped

(* A wire with one event more.                                               *)
LEMMA WireWith ==
    ASSUME NEW w \in Seq(Events), NEW x \in Events
    PROVE  /\ Append(w, x) \in Seq(Events) /\ Len(w) \in Nat /\ Len(Append(w, x)) = Len(w) + 1
           /\ Append(w, x)[Len(w) + 1] = x
           /\ \A n \in 1 .. Len(w) : Append(w, x)[n] = w[n]
OBVIOUS

(* A command that runs writes, or ends.                                      *)
LEMMA WritingTrue ==
    ASSUME ExecInv, NEW e \in Execs, proc[e] = "runs", cmd'[e] = cmd[e], handle'[e] = handle[e],
           cut'[e] = cut[e], pendingReaders' = pendingReaders,
           \/ /\ wire'[e] = Append(wire[e], Out) /\ wrote'[e] = wrote[e] + 1 /\ proc'[e] = "runs"
           \/ /\ \E code \in Nat : /\ wire'[e] = Append(wire[e], End(code))
                                   /\ proc'[e] \in {"zero", "one", "interrupted"}
                                   /\ code = 0 <=> proc'[e] = "zero"
              /\ wrote'[e] = wrote[e]
    PROVE  CommandTrue(e)'
<1>1. ExecTyped /\ CommandTrue(e)
  BY DEF ExecInv
<1>2. CASE cut[e] = "no" /\ cmd[e].at \in {"read", "emit"}
  <2>1. AllWritten(e) /\ (cmd[e].at = "read" => cmd[e].event = NoEvent) /\ (cmd[e].at = "emit" => cmd[e].event = Out)
    BY <1>1, <1>2 DEF CommandTrue, StreamIs, Asked, Exited, Told
  <2>2. PICK w \in Seq(Events) : w = wire[e]
    BY <1>1 DEF ExecTyped, ProcTyped
  <2>3. Held(e)' = Held(e) /\ handle[e].chunks \in Nat /\ wrote[e] \in Nat /\ Held(e) \in Nat
    BY <1>1 DEF Held, ExecTyped, HandleTyped, ProcTyped
  <2>4. handle[e].chunks + Held(e) + Len(w) = wrote[e] /\ \A n \in 1 .. Len(w) : w[n] = Out
    BY <2>1, <2>2 DEF AllWritten
  <2>5. CASE wire'[e] = Append(wire[e], Out) /\ wrote'[e] = wrote[e] + 1 /\ proc'[e] = "runs"
    <3>1. wire'[e] = Append(w, Out) /\ Out \in Events
      BY <2>2, <2>5 DEF Out, Events
    <3>2. /\ Len(w) \in Nat /\ Len(wire'[e]) = Len(w) + 1 /\ wire'[e][Len(w) + 1] = Out
          /\ \A n \in 1 .. Len(w) : wire'[e][n] = w[n]
      BY <3>1, WireWith
    <3>3. \A n \in 1 .. Len(wire'[e]) : wire'[e][n] = Out
      BY <2>4, <3>2
    <3>4. handle'[e].chunks + Held(e)' + Len(wire'[e]) = wrote'[e]
      <4>1. Len(w) \in Nat /\ Len(wire'[e]) = Len(w) + 1 /\ handle[e].chunks + Held(e) + Len(w) = wrote[e]
        BY <2>4, <3>2
      <4>2. PICK a \in Nat, h \in Nat, o \in Nat : a = handle[e].chunks /\ h = Held(e) /\ o = wrote[e]
        BY <2>3
      <4>3. handle'[e].chunks = a /\ Held(e)' = h /\ wrote'[e] = o + 1
        BY <2>3, <2>5, <4>2
      <4>4. a + h + Len(w) = o
        BY <4>1, <4>2
      <4> QED
        BY <4>1, <4>3, <4>4
    <3>5. AllWritten(e)'
      BY <3>3, <3>4 DEF AllWritten
    <3> QED
      BY <1>1, <1>2, <2>1, <2>5, <3>5 DEF CommandTrue, StreamIs, Asked
  <2>6. ASSUME NEW code \in Nat, wire'[e] = Append(wire[e], End(code)), wrote'[e] = wrote[e],
               proc'[e] \in {"zero", "one", "interrupted"}, code = 0 <=> proc'[e] = "zero"
        PROVE  CommandTrue(e)'
    <3>1. wire'[e] = Append(w, End(code)) /\ End(code) \in Events /\ End(code).type = "end" /\ End(code).code = code
      BY <2>2, <2>6 DEF End, Events
    <3>2. /\ Len(w) \in Nat /\ Len(wire'[e]) = Len(w) + 1 /\ wire'[e][Len(w) + 1] = End(code)
          /\ \A n \in 1 .. Len(w) : wire'[e][n] = w[n]
      BY <3>1, WireWith
    <3>3. \A n \in 1 .. Len(wire'[e]) : n # Len(wire'[e]) => wire'[e][n] = Out
      BY <2>4, <3>2
    <3>4. handle'[e].chunks + Held(e)' + Len(wire'[e]) = wrote'[e] + 1 /\ Len(wire'[e]) # 0
      <4>1. Len(w) \in Nat /\ Len(wire'[e]) = Len(w) + 1 /\ handle[e].chunks + Held(e) + Len(w) = wrote[e]
        BY <2>4, <3>2
      <4>2. PICK a \in Nat, h \in Nat, o \in Nat : a = handle[e].chunks /\ h = Held(e) /\ o = wrote[e]
        BY <2>3
      <4>3. handle'[e].chunks = a /\ Held(e)' = h /\ wrote'[e] = o
        BY <2>3, <2>6, <4>2
      <4>4. a + h + Len(w) = o
        BY <4>1, <4>2
      <4> QED
        BY <4>1, <4>3, <4>4
    <3>5. wire'[e][Len(wire'[e])].type = "end" /\ (wire'[e][Len(wire'[e])].code = 0 <=> proc'[e] = "zero")
      BY <2>6, <3>1, <3>2
    <3>6. EndsLast(e)' /\ Exited(e)'
      BY <2>6, <3>3, <3>4, <3>5 DEF EndsLast, Exited
    <3> QED
      BY <1>1, <1>2, <2>1, <3>6 DEF CommandTrue, StreamIs, Asked
  <2> QED
    BY <2>5, <2>6
<1>3. CASE cut[e] # "no" \/ cmd[e].at \notin {"read", "emit"}
  <2>1. cmd[e].at \notin Asked
    BY <1>1 DEF CommandTrue
  <2>2. cut[e] # "no" \/ cmd[e].at = "thrown"
    BY <1>1, <1>3, <2>1 DEF CommandTrue, StreamIs, Told, Exited, ExecTyped, CmdTyped, Ats, Waiting, Settled, Asked
  <2> QED
    BY <1>1, <2>1, <2>2 DEF CommandTrue, StreamIs, Asked
<1> QED
  BY <1>2, <1>3

(* What an interrupt does to the wires: it breaks the caller's, and ends one *)
(* command that runs.                                                        *)
LEMMA Interrupting ==
    ASSUME ProcTyped, NEW e \in Execs, Interrupts(e)
    PROVE  /\ wire' \in [Execs -> Seq(Events)]
           /\ proc' \in [Execs -> {"none", "runs", "zero", "one", "interrupted", "killed"}]
           /\ \A d \in Execs \ {e} :
                 \/ wire'[d] = wire[d] /\ proc'[d] = proc[d]
                 \/ /\ proc[d] = "runs" /\ proc'[d] = "interrupted"
                    /\ wire'[d] = Append(wire[d], End(1))
<1>1. <<Broken>> \in Seq(Events) /\ End(1) \in Events
  BY DEF Broken, End, Events
<1>2. PICK break : break = [wire EXCEPT ![e] = <<Broken>>]
  OBVIOUS
<1>3. break \in [Execs -> Seq(Events)] /\ \A d \in Execs \ {e} : break[d] = wire[d]
  BY <1>1, <1>2 DEF ProcTyped
<1>4. CASE wire' = break /\ proc' = proc
  BY <1>3, <1>4 DEF ProcTyped
<1>5. ASSUME NEW i \in Execs, Running(i), proc' = [proc EXCEPT ![i] = "interrupted"],
             wire' = IF i = e THEN break ELSE [break EXCEPT ![i] = Append(break[i], End(1))]
      PROVE  /\ wire' \in [Execs -> Seq(Events)]
             /\ proc' \in [Execs -> {"none", "runs", "zero", "one", "interrupted", "killed"}]
             /\ \A d \in Execs \ {e} :
                   \/ wire'[d] = wire[d] /\ proc'[d] = proc[d]
                   \/ /\ proc[d] = "runs" /\ proc'[d] = "interrupted"
                      /\ wire'[d] = Append(wire[d], End(1))
  <2>1. /\ proc' \in [Execs -> {"none", "runs", "zero", "one", "interrupted", "killed"}]
        /\ proc[i] = "runs" /\ proc'[i] = "interrupted" /\ \A d \in Execs \ {i} : proc'[d] = proc[d]
    BY <1>5 DEF ProcTyped, Running
  <2>2. CASE i = e
    BY <1>3, <1>5, <2>1, <2>2
  <2>3. CASE i # e
    <3>1. break[i] = wire[i] /\ wire[i] \in Seq(Events)
      BY <1>3, <2>3 DEF ProcTyped
    <3>2. Append(wire[i], End(1)) \in Seq(Events)
      BY <1>1, <3>1
    <3>3. wire' = [break EXCEPT ![i] = Append(wire[i], End(1))]
      BY <1>5, <2>3, <3>1
    <3>4. /\ wire' \in [Execs -> Seq(Events)] /\ wire'[i] = Append(wire[i], End(1))
          /\ \A d \in Execs \ {i} : wire'[d] = break[d]
      BY <1>3, <3>2, <3>3
    <3> QED
      BY <1>3, <2>1, <2>3, <3>4
  <2> QED
    BY <2>2, <2>3
<1>6. \/ wire' = break /\ proc' = proc
      \/ \E i \in Execs : /\ Running(i) /\ proc' = [proc EXCEPT ![i] = "interrupted"]
                          /\ wire' = IF i = e THEN break ELSE [break EXCEPT ![i] = Append(break[i], End(1))]
  BY <1>2 DEF Interrupts
<1> QED
  BY <1>4, <1>5, <1>6

(* An abort cuts off the command it is for, and may end another.             *)
LEMMA AbortTrue == ASSUME ExecInv, NEW e \in Execs, Abort(e) PROVE ExecInv'
<1>1. ExecTyped /\ CommandTrue(e) /\ Of \in [Readers -> Execs] /\ CmdTyped /\ HandleTyped /\ ProcTyped
  BY ExecConstants DEF ExecInv, ExecTyped
<1>2. /\ left' = [left EXCEPT !.signals = left.signals \ {e}] /\ cut' = [cut EXCEPT ![e] = "signal"]
      /\ UNCHANGED <<box, wrote, pendingReaders, channel, lifecycle>>
  BY DEF Abort
<1>3. left' \in MixOfExecs
  BY <1>1, <1>2 DEF ExecTyped, BoxTyped, MixOfExecs
<1>4. /\ cut' \in [Execs -> {"no", "signal", "lost", "pause", "close"}]
      /\ cut'[e] = "signal" /\ \A d \in Execs \ {e} : cut'[d] = cut[d]
  BY <1>1, <1>2 DEF ProcTyped
<1>5. /\ wire' \in [Execs -> Seq(Events)]
      /\ proc' \in [Execs -> {"none", "runs", "zero", "one", "interrupted", "killed"}]
      /\ \A d \in Execs \ {e} :
            \/ wire'[d] = wire[d] /\ proc'[d] = proc[d]
            \/ /\ proc[d] = "runs" /\ proc'[d] = "interrupted"
               /\ wire'[d] = Append(wire[d], End(1))
  <2>1. CASE Interrupts(e)
    BY <1>1, <2>1, Interrupting
  <2>2. CASE UNCHANGED <<proc, wire>>
    BY <1>1, <2>2 DEF ProcTyped
  <2> QED
    BY <2>1, <2>2 DEF Abort
<1>6. \/ Throws(e) /\ cmd[e].at \in {"channel", "start", "request"}
      \/ UNCHANGED <<cmd, handle, reader>> /\ cmd[e].at \in {"read", "emit"}
  BY DEF Abort
<1>7. /\ CmdTyped' /\ HandleTyped' /\ ReaderTyped' /\ \A r \in Readers : ReaderTrue(r)'
      /\ \A d \in Execs \ {e} : cmd'[d] = cmd[d] /\ handle'[d] = handle[d]
      /\ cmd'[e].at = "thrown" \/ (cmd'[e] = cmd[e] /\ handle'[e] = handle[e] /\ cmd[e].at \in {"read", "emit"})
  <2>1. CASE Throws(e) /\ cmd[e].at \in {"channel", "start", "request"}
    <3>1. cmd[e].at \notin {"complete"} \cup Settled
      BY <2>1 DEF Settled
    <3> QED
      BY <2>1, <3>1, Throwing
  <2>2. CASE UNCHANGED <<cmd, handle, reader>> /\ cmd[e].at \in {"read", "emit"}
    <3>1. \A r \in Readers : ReaderTrue(r)'
      BY <1>1, <2>2, ReadersStay DEF ExecInv
    <3> QED
      BY <1>1, <2>2, <3>1 DEF CmdTyped, HandleTyped, ReaderTyped, ExecTyped
  <2> QED
    BY <1>6, <2>1, <2>2
<1>8. ASSUME NEW d \in Execs, d # e PROVE CommandTrue(d)'
  <2>1. CommandTrue(d)
    BY DEF ExecInv
  <2>2. cmd'[d] = cmd[d] /\ handle'[d] = handle[d] /\ cut'[d] = cut[d] /\ wrote'[d] = wrote[d]
    BY <1>2, <1>4, <1>7, <1>8
  <2>3. CASE wire'[d] = wire[d] /\ proc'[d] = proc[d]
    BY <1>2, <2>1, <2>2, <2>3, CommandStays
  <2>4. CASE proc[d] = "runs" /\ proc'[d] = "interrupted" /\ wire'[d] = Append(wire[d], End(1))
    <3>1. \E code \in Nat : /\ wire'[d] = Append(wire[d], End(code))
                            /\ proc'[d] \in {"zero", "one", "interrupted"}
                            /\ code = 0 <=> proc'[d] = "zero"
      <4>1. 1 \in Nat /\ 1 # 0
        OBVIOUS
      <4> QED
        BY <2>4, <4>1
    <3> QED
      BY <1>2, <2>2, <2>4, <3>1, WritingTrue
  <2> QED
    BY <1>5, <1>8, <2>3, <2>4
<1>9. CommandTrue(e)'
  BY <1>1, <1>2, <1>4, <1>7 DEF CommandTrue, Asked, Settled
<1>10. \A d \in Execs : cmd'[d].at \in {"start", "request"} => cmd'[d] = cmd[d]
  BY <1>7
<1>11. BoxTyped'
  BY <1>1, <1>2, <1>3, <1>10 DEF ExecTyped, BoxTyped
<1>12. ProcTyped'
  BY <1>1, <1>2, <1>4, <1>5 DEF ProcTyped
<1> QED
  BY <1>7, <1>8, <1>9, <1>11, <1>12 DEF ExecInv, ExecTyped

(* What the container does to one command of those it runs.                  *)
LEMMA ProcessTrue == ASSUME ExecInv, NEW e \in Execs, Process(e) PROVE ExecInv'
<1>1. ExecTyped /\ CommandTrue(e) /\ Of \in [Readers -> Execs] /\ ProcTyped /\ left \in MixOfExecs
  BY ExecConstants DEF ExecInv, ExecTyped, BoxTyped
<1>2. UNCHANGED <<box, sdk, reader>>
  BY DEF Process, Exits, Writes, Lost
<1>3. wire[e] \in Seq(Events) /\ wrote[e] \in Nat
  BY <1>1 DEF ProcTyped
<1>4. /\ left' \in MixOfExecs /\ ProcTyped'
      /\ \A d \in Execs \ {e} : /\ proc'[d] = proc[d] /\ wire'[d] = wire[d]
                                /\ wrote'[d] = wrote[d] /\ cut'[d] = cut[d]
      /\ CommandTrue(e)'
  <2>1. CASE Writes(e)
    <3>1. /\ left' \in MixOfExecs /\ UNCHANGED <<proc, cut>> /\ proc[e] = "runs"
          /\ wire' = [wire EXCEPT ![e] = Append(wire[e], Out)] /\ wrote' = [wrote EXCEPT ![e] = wrote[e] + 1]
      BY <1>1, <2>1, UseKeepsExec DEF Writes, Running
    <3>2. Append(wire[e], Out) \in Seq(Events) /\ wrote[e] + 1 \in Nat
      BY <1>3 DEF Out, Events
    <3>3. ProcTyped'
      BY <1>1, <3>1, <3>2 DEF ProcTyped
    <3>4. /\ wire'[e] = Append(wire[e], Out) /\ wrote'[e] = wrote[e] + 1 /\ proc'[e] = "runs"
          /\ \A d \in Execs \ {e} : wire'[d] = wire[d] /\ wrote'[d] = wrote[d]
      BY <1>1, <3>1 DEF ProcTyped
    <3>5. CommandTrue(e)'
      BY <1>2, <3>1, <3>4, WritingTrue DEF sdk
    <3> QED
      BY <3>1, <3>3, <3>4, <3>5
  <2>2. CASE Exits(e)
    <3>1. /\ UNCHANGED <<left, wrote, cut>> /\ proc[e] = "runs"
          /\ \E code \in left.exits : /\ proc' = [proc EXCEPT ![e] = IF code = 0 THEN "zero" ELSE "one"]
                                      /\ wire' = [wire EXCEPT ![e] = Append(wire[e], End(code))]
      BY <2>2 DEF Exits, Running
    <3>2. PICK code \in Nat : /\ proc' = [proc EXCEPT ![e] = IF code = 0 THEN "zero" ELSE "one"]
                              /\ wire' = [wire EXCEPT ![e] = Append(wire[e], End(code))]
      BY <1>1, <3>1 DEF MixOfExecs
    <3>3. Append(wire[e], End(code)) \in Seq(Events)
      BY <1>3 DEF End, Events
    <3>4. ProcTyped'
      BY <1>1, <3>1, <3>2, <3>3 DEF ProcTyped
    <3>5. /\ wire'[e] = Append(wire[e], End(code)) /\ wrote'[e] = wrote[e]
          /\ proc'[e] \in {"zero", "one", "interrupted"} /\ (code = 0 <=> proc'[e] = "zero")
      BY <1>1, <3>1, <3>2 DEF ProcTyped
    <3>6. \A d \in Execs \ {e} : wire'[d] = wire[d] /\ wrote'[d] = wrote[d] /\ proc'[d] = proc[d]
      BY <1>1, <3>1, <3>2 DEF ProcTyped
    <3>7. CommandTrue(e)'
      <4>1. UNCHANGED <<cmd, handle, pendingReaders>> /\ cut'[e] = cut[e]
        BY <1>2, <3>1 DEF sdk
      <4> QED
        BY <3>1, <3>5, <4>1, WritingTrue
    <3> QED
      BY <1>1, <3>1, <3>4, <3>6, <3>7
  <2>3. CASE Lost(e)
    <3>1. /\ left' \in MixOfExecs /\ UNCHANGED <<proc, wrote>> /\ cmd[e].at \in {"read", "emit"}
          /\ wire' = [wire EXCEPT ![e] = Append(wire[e], Eof)] /\ cut' = [cut EXCEPT ![e] = "lost"]
      BY <1>1, <2>3, UseKeepsExec DEF Lost
    <3>2. Append(wire[e], Eof) \in Seq(Events)
      BY <1>3 DEF Eof, Events
    <3>3. ProcTyped'
      BY <1>1, <3>1, <3>2 DEF ProcTyped
    <3>4. cut'[e] # "no" /\ \A d \in Execs \ {e} : wire'[d] = wire[d] /\ cut'[d] = cut[d]
      BY <1>1, <3>1 DEF ProcTyped
    <3>5. CommandTrue(e)'
      BY <1>1, <1>2, <3>1, <3>4 DEF CommandTrue, sdk, Asked
    <3> QED
      BY <3>1, <3>3, <3>4, <3>5
  <2> QED
    BY <2>1, <2>2, <2>3 DEF Process
<1>5. \A d \in Execs \ {e} : CommandTrue(d)'
  BY <1>2, <1>4, OthersRun DEF sdk
<1>6. \A r \in Readers : ReaderTrue(r)'
  BY <1>1, <1>2, ReadersStay DEF ExecInv, sdk
<1>7. BoxTyped'
  BY <1>1, <1>2, <1>4 DEF ExecTyped, BoxTyped, sdk
<1> QED
  BY <1>1, <1>2, <1>4, <1>5, <1>6, <1>7 DEF ExecInv, ExecTyped, CmdTyped, HandleTyped, ReaderTyped, sdk

(* disposeConnections() ends the streams that were registered, and says so   *)
(* of those whose end nobody had seen.                                       *)
LEMMA Disposing ==
    ASSUME ExecInv, NEW how \in {"pause", "close"}, DisposeConnections(how),
           UNCHANGED <<proc, wrote, cmd, handle>>
    PROVE  /\ ProcTyped' /\ pendingReaders' \subseteq pendingReaders
           /\ \A e \in Execs : CommandTrue(e)'
<1>1. ExecTyped /\ ProcTyped
  BY DEF ExecInv, ExecTyped
<1>2. /\ wire' = [e \in Execs |-> IF e \in Cancelled(channel) THEN <<Eof>> ELSE wire[e]]
      /\ pendingReaders' = {p \in pendingReaders : p[1] # channel}
      /\ cut' = [e \in Execs |-> IF e \in Cancelled(channel) /\ cmd[e].at \in {"read", "emit"}
                                    /\ cmd[e].event.type # "end"
                                 THEN how ELSE cut[e]]
  BY DEF DisposeConnections
<1>3. <<Eof>> \in Seq(Events)
  BY DEF Eof, Events
<1>4. wire' \in [Execs -> Seq(Events)] /\ cut' \in [Execs -> {"no", "signal", "lost", "pause", "close"}]
  BY <1>1, <1>2, <1>3 DEF ProcTyped
<1>5. ProcTyped' /\ pendingReaders' \subseteq pendingReaders
  BY <1>1, <1>2, <1>4 DEF ProcTyped
<1>6. ASSUME NEW e \in Execs PROVE CommandTrue(e)'
  <2>1. CommandTrue(e)
    BY DEF ExecInv
  <2>2. CASE e \notin Cancelled(channel)
    <3>1. wire'[e] = wire[e] /\ cut'[e] = cut[e]
      BY <1>2, <2>2
    <3> QED
      BY <1>5, <2>1, <3>1, CommandStays
  <2>3. CASE e \in Cancelled(channel)
    <3>1. cmd[e].at \notin Asked
      <4>1. <<channel, e>> \in pendingReaders /\ <<channel, e>>[2] = e
        BY <2>3 DEF Cancelled
      <4> QED
        BY <2>1, <4>1 DEF CommandTrue
    <3>2. cut'[e] = "no" => StreamIs(e)'
      <4> SUFFICES ASSUME cut'[e] = "no" PROVE StreamIs(e)'
        OBVIOUS
      <4>1. cut[e] = "no" /\ (cmd[e].at \in {"read", "emit"} => cmd[e].event.type = "end")
        BY <1>2, <2>3
      <4>2. StreamIs(e)
        BY <2>1, <4>1 DEF CommandTrue
      <4>3. cmd[e].at # "read" /\ (cmd[e].at = "emit" => Told(e, cmd[e].event.code))
        BY <3>1, <4>1, <4>2 DEF StreamIs, Asked, Out, NoEvent
      <4> QED
        BY <3>1, <4>1, <4>2, <4>3 DEF StreamIs, Told, Exited, Asked
    <3> QED
      BY <2>1, <3>1, <3>2 DEF CommandTrue
  <2> QED
    BY <2>2, <2>3
<1> QED
  BY <1>5, <1>6

(* pause(), resume() and close().                                            *)
LEMMA LifecycleTrue == ASSUME ExecInv, Lifecycle PROVE ExecInv'
<1>1. /\ ExecTyped /\ Of \in [Readers -> Execs] /\ ProcTyped /\ left \in MixOfExecs
      /\ \A e \in Execs : CommandTrue(e)
  BY ExecConstants DEF ExecInv, ExecTyped, BoxTyped
<1>2. UNCHANGED <<wrote, cmd, handle, reader>>
  BY DEF Lifecycle, PauseBegins, PauseEnds, Resumed, CloseBegins, CloseEnds
<1>3. ProcTyped' /\ pendingReaders' \subseteq pendingReaders /\ \A e \in Execs : CommandTrue(e)'
  <2>1. CASE PauseEnds
    BY <1>2, <2>1, Disposing DEF PauseEnds
  <2>2. CASE CloseBegins
    BY <1>2, <2>2, Disposing DEF CloseBegins
  <2>3. CASE PauseBegins \/ Resumed
    <3>1. UNCHANGED <<proc, wire, pendingReaders, cut>>
      BY <2>3 DEF PauseBegins, Resumed
    <3>2. \A e \in Execs : CommandTrue(e)'
      BY <1>1, <1>2, <3>1, CommandStays
    <3> QED
      BY <1>1, <1>2, <3>1, <3>2 DEF ProcTyped
  <2>4. CASE CloseEnds
    <3>1. PICK dying : dying = {e \in Execs : proc[e] = "runs"}
      OBVIOUS
    <3>2. /\ proc' = [e \in Execs |-> IF e \in dying THEN "killed" ELSE proc[e]]
          /\ wire' = [e \in Execs |-> IF e \in dying /\ cmd[e].at \in {"read", "emit"}
                                      THEN Append(wire[e], Eof) ELSE wire[e]]
          /\ cut' = [e \in Execs |-> IF e \in dying /\ cut[e] = "no" THEN "close" ELSE cut[e]]
          /\ pendingReaders' = pendingReaders
      BY <2>4, <3>1 DEF CloseEnds
    <3>3. \A e \in Execs : wire[e] \in Seq(Events) /\ Append(wire[e], Eof) \in Seq(Events)
      BY <1>1 DEF ProcTyped, Eof, Events
    <3>4. wire' \in [Execs -> Seq(Events)]
      BY <3>2, <3>3
    <3>5. ProcTyped'
      BY <1>1, <1>2, <3>2, <3>4 DEF ProcTyped
    <3>6. ASSUME NEW e \in Execs PROVE CommandTrue(e)'
      <4>1. CASE e \in dying
        <5>1. cmd[e].at \notin Asked /\ cut'[e] # "no"
          BY <1>1, <3>1, <3>2, <4>1 DEF CommandTrue
        <5> QED
          BY <1>1, <1>2, <3>2, <5>1 DEF CommandTrue
      <4>2. CASE e \notin dying
        <5>1. proc'[e] = proc[e] /\ wire'[e] = wire[e] /\ cut'[e] = cut[e]
          BY <3>2, <4>2
        <5> QED
          BY <1>1, <1>2, <3>2, <5>1, CommandStays
      <4> QED
        BY <4>1, <4>2
    <3> QED
      BY <3>2, <3>5, <3>6
  <2> QED
    BY <2>1, <2>2, <2>3, <2>4 DEF Lifecycle
<1>4. /\ left' \in MixOfExecs /\ box' \in {"up", "frozen", "gone"}
      /\ lifecycle' \in {"open", "pausing", "paused", "closing", "closed"}
      /\ channel' = channel \/ channel' = channel + 1
  BY <1>1, UseKeepsExec DEF Lifecycle, PauseBegins, PauseEnds, Resumed, CloseBegins, CloseEnds, ExecTyped, BoxTyped
<1>5. BoxTyped'
  <2>1. channel' \in Nat \ {0} /\ (1 .. channel) \subseteq (1 .. channel')
    BY <1>1, <1>4 DEF ExecTyped, BoxTyped
  <2>2. pendingReaders' \subseteq (1 .. channel') \X Execs
    BY <1>1, <1>3, <2>1 DEF ExecTyped, BoxTyped
  <2>3. \A e \in Execs : cmd'[e].at \in {"start", "request"} => cmd'[e].channel \in 1 .. channel'
    BY <1>1, <1>2, <2>1 DEF ExecTyped, BoxTyped
  <2> QED
    BY <1>4, <2>1, <2>2, <2>3 DEF BoxTyped
<1>6. \A r \in Readers : ReaderTrue(r)'
  BY <1>1, <1>2, ReadersStay DEF ExecInv
<1> QED
  BY <1>1, <1>2, <1>3, <1>5, <1>6 DEF ExecInv, ExecTyped, CmdTyped, HandleTyped, ReaderTyped

(* A reader's step leaves the commands as they are, and a reader that waits  *)
(* takes the place of one that was not alone.                                *)
LEMMA ReadingTrue == ASSUME ExecInv, NEW r \in Readers, Reader(r) PROVE ExecInv'
<1>1. /\ ExecTyped /\ Of \in [Readers -> Execs] /\ ReaderTyped /\ HandleTyped
      /\ \A q \in Readers : ReaderTrue(q)
  BY ExecConstants DEF ExecInv, ExecTyped
<1>2. UNCHANGED <<left, box, proc, wrote, wire, cmd, pendingReaders, channel, lifecycle, cut>>
  BY DEF Reader, Subscribe, TakesChunk, ReaderEnds, Waits, sdk
<1>3. PICK was : was = reader[r]
  OBVIOUS
<1>4. was \in [at : {"never", "off", "runs", "waits", "over", "threw"}, pos : Nat]
  BY <1>1, <1>3 DEF ReaderTyped
<1>5. PICK now \in [at : {"off", "runs", "waits", "over", "threw"}, pos : Nat] :
          reader' = [reader EXCEPT ![r] = now]
  <2>1. CASE Subscribe(r)
    <3>1. reader' = [reader EXCEPT ![r] = [was EXCEPT !.at = "runs"]]
      BY <1>3, <2>1 DEF Subscribe
    <3> QED
      BY <1>4, <3>1
  <2>2. CASE TakesChunk(r)
    <3>1. reader' = [reader EXCEPT ![r] = [was EXCEPT !.pos = was.pos + 1]] /\ was.at = "runs"
      BY <1>3, <2>2 DEF TakesChunk
    <3>2. [was EXCEPT !.pos = was.pos + 1] \in [at : {"off", "runs", "waits", "over", "threw"}, pos : Nat]
      BY <1>4, <3>1
    <3> QED
      BY <3>1, <3>2
  <2>3. CASE ReaderEnds(r)
    <3>1. PICK a \in {"threw", "over"} : reader' = [reader EXCEPT ![r] = [was EXCEPT !.at = a]]
      BY <1>3, <2>3 DEF ReaderEnds
    <3> QED
      BY <1>4, <3>1
  <2>4. CASE Waits(r)
    <3>1. reader' = [reader EXCEPT ![r] = [was EXCEPT !.at = "waits"]]
      BY <1>3, <2>4 DEF Waits
    <3> QED
      BY <1>4, <3>1
  <2> QED
    BY <2>1, <2>2, <2>3, <2>4 DEF Reader
<1>6. /\ ReaderTyped' /\ reader'[r] = now /\ now.at # "never" /\ reader[r].at # "never"
      /\ \A q \in Readers \ {r} : reader'[q] = reader[q]
  <2>1. reader[r].at # "never"
    BY DEF Reader, Subscribe, TakesChunk, ReaderEnds, Waits
  <2> QED
    BY <1>1, <1>5, <2>1 DEF ReaderTyped
<1>7. \A q \in Readers : Companions(q)' = Companions(q)
  BY <1>6 DEF Companions
<1>8. /\ HandleTyped'
      /\ \A e \in Execs : handle'[e].chunks = handle[e].chunks /\ handle'[e].done = handle[e].done
      /\ \A e \in Execs : handle'[e].wakeup = handle[e].wakeup \/ (Waits(r) /\ e = Of[r])
      /\ Waits(r) => handle'[Of[r]].wakeup = r
  <2>1. CASE Waits(r)
    <3>1. Of[r] \in Execs /\ handle' = [handle EXCEPT ![Of[r]] = [handle[Of[r]] EXCEPT !.wakeup = r]]
      BY <1>1, <2>1 DEF Waits
    <3>2. PICK h : h = [handle[Of[r]] EXCEPT !.wakeup = r]
      OBVIOUS
    <3>3. /\ h \in [chunks : Nat, done : BOOLEAN, hasErr : BOOLEAN, wakeup : Readers \cup {Nobody}]
          /\ h.chunks = handle[Of[r]].chunks /\ h.done = handle[Of[r]].done /\ h.wakeup = r
      BY <1>1, <3>1, <3>2 DEF HandleTyped
    <3>4. handle' = [handle EXCEPT ![Of[r]] = h]
      BY <3>1, <3>2
    <3>5. HandleTyped' /\ handle'[Of[r]] = h /\ \A e \in Execs \ {Of[r]} : handle'[e] = handle[e]
      BY <1>1, <3>1, <3>3, <3>4 DEF HandleTyped
    <3> QED
      BY <2>1, <3>3, <3>5
  <2>2. CASE ~Waits(r)
    <3>1. handle' = handle
      BY <2>2 DEF Reader, Subscribe, TakesChunk, ReaderEnds, sdk
    <3> QED
      BY <1>1, <2>2, <3>1 DEF HandleTyped
  <2> QED
    BY <2>1, <2>2
<1>9. \A e \in Execs : CommandTrue(e)'
  BY <1>2, <1>8, CommandStays DEF ExecInv
<1>10. ASSUME NEW q \in Readers, q # r PROVE ReaderTrue(q)'
  <2>1. ReaderTrue(q) /\ reader'[q] = reader[q] /\ Companions(q)' = Companions(q) /\ Of[q] \in Execs
    BY <1>1, <1>6, <1>7, <1>10
  <2>2. Of[q] = Of[r] => Companions(q) # {}
    BY <1>6, <1>10 DEF Companions
  <2> QED
    BY <1>8, <2>1, <2>2 DEF ReaderTrue
<1>11. ReaderTrue(r)'
  <2>1. Of[r] \in Execs
    BY <1>1
  <2>2. CASE Subscribe(r) \/ TakesChunk(r)
    <3>1. now.at = "runs"
      <4>1. reader' = [reader EXCEPT ![r].at = "runs"] \/ (was.at = "runs" /\ reader' = [reader EXCEPT ![r].pos = @ + 1])
        BY <1>3, <2>2 DEF Subscribe, TakesChunk
      <4> QED
        BY <1>1, <1>3, <1>4, <1>6, <4>1 DEF ReaderTyped
    <3> QED
      BY <1>6, <3>1 DEF ReaderTrue
  <2>3. CASE ReaderEnds(r)
    <3>1. reader[r].pos = handle[Of[r]].chunks /\ handle[Of[r]].done
      BY <2>3 DEF ReaderEnds
    <3>2. now.pos = reader[r].pos /\ now.at \in {"threw", "over"}
      <4>1. PICK a \in {"threw", "over"} : reader' = [reader EXCEPT ![r] = [reader[r] EXCEPT !.at = a]]
        BY <2>3 DEF ReaderEnds
      <4> QED
        BY <1>1, <1>3, <1>4, <1>6, <4>1 DEF ReaderTyped
    <3> QED
      BY <1>6, <1>8, <2>1, <3>1, <3>2 DEF ReaderTrue
  <2>4. CASE Waits(r)
    <3>1. ~handle[Of[r]].done
      BY <2>4 DEF Waits
    <3>2. now.at = "waits"
      <4>1. reader' = [reader EXCEPT ![r].at = "waits"]
        BY <2>4 DEF Waits
      <4> QED
        BY <1>1, <1>3, <1>4, <1>6, <4>1 DEF ReaderTyped
    <3> QED
      BY <1>6, <1>8, <2>1, <2>4, <3>1, <3>2 DEF ReaderTrue
  <2> QED
    BY <2>2, <2>3, <2>4 DEF Reader
<1>12. BoxTyped' /\ CmdTyped' /\ ProcTyped'
  BY <1>1, <1>2 DEF ExecTyped, BoxTyped, CmdTyped, ProcTyped
<1> QED
  BY <1>6, <1>8, <1>9, <1>10, <1>11, <1>12 DEF ExecInv, ExecTyped

(* In the initial states no command has been called.                         *)
LEMMA InitExec == ASSUME ExecInit PROVE ExecInv
<1>1. left \in MixOfExecs /\ NoEvent \in Events
  BY ExecConstants DEF ExecInit, NoEvent, Events
<1>2. CmdTyped
  BY <1>1 DEF ExecInit, CmdTyped, Ats, Waiting, Settled
<1>3. HandleTyped /\ ReaderTyped
  BY DEF ExecInit, HandleTyped, ReaderTyped
<1>4. ProcTyped
  <2>1. <<>> \in Seq(Events)
    OBVIOUS
  <2> QED
    BY <2>1 DEF ExecInit, ProcTyped
<1>5. BoxTyped
  BY <1>1 DEF ExecInit, BoxTyped
<1>6. ASSUME NEW e \in Execs PROVE CommandTrue(e)
  <2>1. cmd[e].at \in {"off", "never"} /\ cmd[e].event = NoEvent /\ handle[e].done = FALSE /\ handle[e].chunks = 0
    BY <1>6 DEF ExecInit
  <2> QED
    BY <1>6, <2>1 DEF ExecInit, CommandTrue, StreamIs, Asked
<1>7. ASSUME NEW r \in Readers PROVE ReaderTrue(r)
  BY <1>7 DEF ExecInit, ReaderTrue
<1> QED
  BY <1>2, <1>3, <1>4, <1>5, <1>6, <1>7 DEF ExecInv, ExecTyped

(* Every step keeps the commands true.                                       *)
LEMMA StepExec == ASSUME ExecInv, [ExecNext]_execVars PROVE ExecInv'
<1>1. CASE UNCHANGED execVars
  <2>1. UNCHANGED <<left, box, proc, wrote, wire, cmd, handle, reader, pendingReaders, channel, lifecycle, cut>>
    BY <1>1 DEF execVars, sdk
  <2>2. Of \in [Readers -> Execs]
    BY ExecConstants
  <2>3. (\A e \in Execs : CommandTrue(e)') /\ (\A r \in Readers : ReaderTrue(r)')
    BY <2>1, <2>2, CommandStays, ReadersStay DEF ExecInv
  <2> QED
    BY <2>1, <2>3 DEF ExecInv, ExecTyped, CmdTyped, HandleTyped, ReaderTyped, ProcTyped, BoxTyped
<1>2. CASE Lifecycle
  BY <1>2, LifecycleTrue
<1>3. ASSUME NEW r \in Readers, Reader(r) PROVE ExecInv'
  BY <1>3, ReadingTrue
<1>4. ASSUME NEW e \in Execs, Issue(e) \/ ExecStep(e) \/ Abort(e) \/ Process(e) PROVE ExecInv'
  BY <1>4, IssueTrue, GetChannelTrue, StartToldTrue, RequestTrue, ReadTrue, EmittedTrue, CompletesTrue,
     AbortTrue, ProcessTrue DEF ExecStep
<1> QED
  BY <1>1, <1>2, <1>3, <1>4 DEF ExecNext

(* What the invariant says of results and readers.                           *)
LEMMA ExecInvImplies == ASSUME ExecInv PROVE ExecsAreTrue /\ ExecTypeOK
<1>1. ResultsAreTrue
  <2> SUFFICES ASSUME NEW e \in Execs, cmd[e].at \in {"ok", "failed"}, cut[e] = "no"
               PROVE  (cmd[e].at = "ok" <=> proc[e] = "zero") /\ handle[e].chunks = wrote[e]
    BY DEF ResultsAreTrue
  <2> QED
    BY DEF ExecInv, CommandTrue, StreamIs, Asked, Told, Exited
<1>2. NoReaderForgotten /\ ReadersSeeAll
  BY DEF ExecInv, ReaderTrue, NoReaderForgotten, ReadersSeeAll
<1>3. ExecTypeOK
  BY DEF ExecInv, ExecTyped, CmdTyped, HandleTyped, ReaderTyped, ProcTyped, BoxTyped, ExecTypeOK, Ats
<1> QED
  BY <1>1, <1>2, <1>3 DEF ExecsAreTrue

(* In every state of every sandbox: a command that was not cut off succeeds  *)
(* exactly when the process exited with 0 and its handle has all that was    *)
(* written; a reader that ends without an error has had all of the handle;   *)
(* one that waits alone is the one _notify() wakes, and the handle is not    *)
(* done (exec-handle.ts:132-228).                                            *)
THEOREM ExecsTrue == ExecSpec => []ExecsAreTrue
<1>1. ExecInit => ExecInv
  BY InitExec
<1>2. ExecInv /\ [ExecNext]_execVars => ExecInv'
  BY StepExec
<1>3. ExecInv => ExecsAreTrue
  BY ExecInvImplies
<1> QED
  BY <1>1, <1>2, <1>3, PTL DEF ExecSpec

(* What each variable holds, a stream registered only with a channel there   *)
(* has been.                                                                 *)
THEOREM ExecsTyped == ExecSpec => []ExecTypeOK
<1>1. ExecInit => ExecInv
  BY InitExec
<1>2. ExecInv /\ [ExecNext]_execVars => ExecInv'
  BY StepExec
<1>3. ExecInv => ExecTypeOK
  BY ExecInvImplies
<1> QED
  BY <1>1, <1>2, <1>3, PTL DEF ExecSpec
=============================================================================
