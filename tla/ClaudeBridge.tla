----------------------------- MODULE ClaudeBridge -----------------------------
(***************************************************************************)
(* The bridge between the daemon and Claude Code                           *)
(* (packages/agent/src/bridge/claude-bridge.ts): an HTTP server that runs  *)
(* one query() of the Agent SDK per turn and parks the tool calls that a   *)
(* policy wants approved. The SDK is external: it reports a session, asks  *)
(* for tools, reports a result, and ends or throws; it keeps its sessions  *)
(* on disk, continues the one written last, and forks one up to a message  *)
(* that is in it, or fails to.                                             *)
(*                                                                         *)
(* An action is one callback. A promise that settles runs its continuation *)
(* later, as a microtask: `jobs'. Only the end of the SDK's stream, itself *)
(* a promise, may overtake one.                                            *)
(***************************************************************************)
EXTENDS Naturals, Sequences, FiniteSets, SequencesExt

CONSTANTS
    Turns,    \* POST /prompt requests, numbered as they come
    Forks,    \* POST /fork requests
    Asks,     \* tool calls the policy wants approved
    Tool,     \* the tool of each: their targets differ
    Mixes,    \* what the initial states choose from: which of them there are, and
              \* how many restarts there may be
    None

VARIABLES
    left,       \* what the mix still allows
    session,    \* state.sessionId, 0 for null
    resume,     \* config.resume: an earlier bridge ran in this sandbox
    hist,       \* external: the turns each session holds, in order
    latest,     \* external: the session written last, 0 when there is none
    active,     \* the turn of state.active
    base,       \* the session it resumes, 0 for a new one
    aborted,    \* state.active.abort.signal.aborted
    known,      \* the SDK has reported the session of the active turn
    finished,   \* runTurn's `finished'
    pc,         \* what became of each /prompt
    concl,      \* the conclusions each stream was sent
    forkPc,     \* the /fork requests, with the copy they wait for
    pending,    \* state.pending, with the turn that asked
    verdict,    \* how each ask was settled
    jobs,       \* settled asks whose continuation has not run
    convo,      \* history: the turns of the conversation, less what a fork left out
    kept,       \* history: what each fork is to keep of it
    overlapped  \* history: a turn was started while a fork was under way

turn == <<active, base, aborted, known, finished, pc, concl>>
gate == <<pending, verdict>>
disk == <<hist, latest>>
past == <<convo, kept, overlapped>>
vars == <<left, session, resume, disk, turn, forkPc, gate, jobs, past>>

Quiet == jobs = <<>>
Parked == {p[1] : p \in pending}

(* settle() of several requests; their continuations follow `rest'.         *)
Settle(as, kind, rest) ==
    /\ pending' = {p \in pending : p[1] \notin as}
    /\ verdict' = [a \in Asks |-> IF a \in as THEN kind ELSE verdict[a]]
    /\ \E order \in SetToSeqs(as) : jobs' = rest \o order

-----------------------------------------------------------------------------
(* The HTTP server.                                                        *)

Free == active = None

(* The session a new turn goes on from: options.resume, else options.continue. *)
Current == IF session # 0 THEN session ELSE IF resume THEN latest ELSE 0

Prompt(t) ==
    /\ Quiet /\ t \in left.turns /\ \A u \in left.turns : t <= u
    /\ left' = [left EXCEPT !.turns = @ \ {t}]
    /\ IF ~Free
       THEN pc' = [pc EXCEPT ![t] = "refused"]
            /\ UNCHANGED <<active, base, aborted, known, finished, concl, overlapped>>
       ELSE /\ active' = t /\ base' = Current /\ aborted' = FALSE /\ known' = FALSE /\ finished' = FALSE
            /\ pc' = [pc EXCEPT ![t] = "running"]
            /\ overlapped' = (overlapped \/ \E f \in Forks : forkPc[f].at = "forking")
            /\ UNCHANGED concl
    /\ UNCHANGED <<session, resume, disk, forkPc, gate, jobs, convo, kept>>

(* The signal's listeners settle what was parked before it; a second abort   *)
(* has none.                                                                 *)
Abort ==
    /\ Quiet /\ active # None /\ ~aborted
    /\ aborted' = TRUE
    /\ Settle(Parked, "reject", jobs)
    /\ UNCHANGED <<left, session, resume, disk, active, base, known, finished, pc, concl, forkPc,
                   past>>

PermissionResponse(a, kind) ==
    /\ Quiet /\ a \in Parked
    /\ Settle({a}, kind, jobs)
    /\ UNCHANGED <<left, session, resume, disk, turn, forkPc, past>>

ApprovalTimesOut(a) ==
    /\ Quiet /\ a \in Parked
    /\ Settle({a}, "reject", jobs)
    /\ UNCHANGED <<left, session, resume, disk, turn, forkPc, past>>

(* The rest of canUseTool(): an "always" clears what is held for the tool.   *)
Continuation ==
    /\ ~Quiet
    /\ LET a == Head(jobs)
           same == IF verdict[a] = "always" THEN {b \in Parked : Tool[b] = Tool[a]} ELSE {}
       IN  Settle(same, "once", Tail(jobs))
    /\ UNCHANGED <<left, session, resume, disk, turn, forkPc, past>>

Upto(s, u) == SubSeq(s, 1, SelectInSeq(s, LAMBDA t : t = u))
Written == UNION {Range(hist[i]) : i \in DOMAIN hist}
NoFork(how) == [at |-> how, copy |-> <<>>]

(* POST /fork at a message of turn u.                                        *)
Fork(f, u) ==
    /\ Quiet /\ f \in left.forks
    /\ left' = [left EXCEPT !.forks = @ \ {f}]
    /\ forkPc' = [forkPc EXCEPT ![f] =
                    IF session = 0 \/ ~Free THEN NoFork("refused")
                    ELSE [at |-> "forking", copy |-> Upto(hist[session], u)]]
    /\ kept' = [kept EXCEPT ![f] = Upto(convo, u)]
    /\ UNCHANGED <<session, resume, disk, turn, gate, jobs, convo, overlapped>>

(* The SDK wrote the copy, if the session holds the turn it ends with.       *)
CopyWritten(f) ==
    /\ forkPc[f].copy # <<>>
    /\ hist' = Append(hist, forkPc[f].copy)
    /\ latest' = Len(hist) + 1
    /\ convo' = kept[f]

ForkReturns(f) ==
    /\ Quiet /\ forkPc[f].at = "forking"
    /\ \/ /\ CopyWritten(f)
          /\ session' = Len(hist) + 1
          /\ forkPc' = [forkPc EXCEPT ![f] = NoFork("forked")]
       \/ forkPc' = [forkPc EXCEPT ![f] = NoFork("failed")] /\ UNCHANGED <<session, disk, convo>>
    /\ UNCHANGED <<left, resume, turn, gate, jobs, kept, overlapped>>

(* The bridge is started anew: its memory is gone, its stream is cut. A fork *)
(* under way may have been written, unknown to whoever asked for it.         *)
Restart ==
    /\ left.restarts > 0
    /\ left' = [left EXCEPT !.restarts = @ - 1]
    /\ session' = 0
    /\ resume' = TRUE
    /\ pc' = [t \in Turns |-> IF t = active THEN "cut" ELSE pc[t]]
    /\ active' = None
    /\ pending' = {}
    /\ jobs' = <<>>
    /\ forkPc' = [f \in Forks |->
                    IF forkPc[f].at = "forking" THEN NoFork("failed") ELSE forkPc[f]]
    /\ \/ \E f \in Forks : forkPc[f].at = "forking" /\ CopyWritten(f)
       \/ UNCHANGED <<disk, convo>>
    /\ UNCHANGED <<base, aborted, known, finished, concl, verdict, kept, overlapped>>

-----------------------------------------------------------------------------
(* The SDK's stream, as runTurn() reads it.                                *)

(* system/init: the session it resumes, or a new one.                        *)
SdkInit ==
    /\ Quiet /\ active # None /\ ~known
    /\ known' = TRUE
    /\ convo' = Append(convo, active)
    /\ \/ /\ base # 0
          /\ hist' = [hist EXCEPT ![base] = Append(@, active)]
          /\ session' = base
       \/ /\ base = 0
          /\ hist' = Append(hist, <<active>>)
          /\ session' = Len(hist) + 1
    /\ latest' = session'
    /\ UNCHANGED <<left, resume, active, base, aborted, finished, pc, concl, forkPc, gate, jobs,
                   kept, overlapped>>

(* canUseTool(), of a call the policy wants approved and no "always" covers. *)
SdkAsks(a) ==
    /\ Quiet /\ active # None /\ known /\ ~finished /\ a \in left.asks
    /\ left' = [left EXCEPT !.asks = @ \ {a}]
    /\ pending' = pending \cup {<<a, active>>}
    /\ UNCHANGED <<session, resume, disk, turn, forkPc, verdict, jobs, past>>

(* The result, once the SDK has the answers it waits for.                    *)
SdkResult ==
    /\ Quiet /\ active # None /\ known /\ ~finished /\ Parked = {}
    /\ finished' = TRUE
    /\ \E how \in {"completed", "error"} : concl' = [concl EXCEPT ![active] = Append(@, how)]
    /\ UNCHANGED <<left, session, resume, disk, active, base, aborted, known, pc, forkPc, gate, jobs,
                   past>>

(* Mutant: the last frame is sent whether or not the result was.             *)
ConcludeAgain == Append(concl[active], IF aborted THEN "aborted" ELSE "error")

Conclude ==
    IF finished THEN concl[active]
    ELSE Append(concl[active], IF aborted THEN "aborted" ELSE "error")

(* The stream ends or throws: what follows the loop, and the finally block,  *)
(* in which every request still held is rejected before `active' is cleared. *)
SdkEnds ==
    /\ active # None
    /\ concl' = [concl EXCEPT ![active] = Conclude]
    /\ Settle(Parked, "reject", jobs)
    /\ pc' = [pc EXCEPT ![active] = "over"]
    /\ active' = None
    /\ UNCHANGED <<left, session, resume, disk, base, aborted, known, finished, forkPc, past>>

-----------------------------------------------------------------------------
Init ==
    /\ left \in Mixes
    /\ session = 0 /\ resume = FALSE
    /\ hist = <<>> /\ latest = 0
    /\ active = None /\ base = 0 /\ aborted = FALSE /\ known = FALSE /\ finished = FALSE
    /\ pc = [t \in Turns |-> "idle"]
    /\ concl = [t \in Turns |-> <<>>]
    /\ forkPc = [f \in Forks |-> NoFork("idle")]
    /\ pending = {}
    /\ verdict = [a \in Asks |-> "none"]
    /\ jobs = <<>>
    /\ convo = <<>> /\ kept = [f \in Forks |-> <<>>] /\ overlapped = FALSE

Next ==
    \/ \E t \in Turns : Prompt(t)
    \/ \E f \in Forks : ForkReturns(f) \/ \E u \in Written : Fork(f, u)
    \/ \E a \in Asks :
          \/ SdkAsks(a) \/ ApprovalTimesOut(a)
          \/ \E kind \in {"once", "always", "reject"} : PermissionResponse(a, kind)
    \/ Restart \/ Abort \/ Continuation \/ SdkInit \/ SdkResult \/ SdkEnds

Spec == Init /\ [][Next]_vars

(* Timers fire and promises continue; the SDK ends a turn it has a result    *)
(* for, or was told to abort. Nobody has to answer an approval.              *)
Fairness ==
    /\ WF_vars(Continuation) /\ WF_vars(SdkInit) /\ WF_vars(SdkResult)
    /\ WF_vars((finished \/ aborted) /\ SdkEnds)
    /\ \A a \in Asks : WF_vars(ApprovalTimesOut(a))

FairSpec == Spec /\ Fairness

-----------------------------------------------------------------------------
(* "a turn has exactly one" done (claude-bridge.ts:435): a stream that is    *)
(* over was sent one conclusion, one that runs at most one, whichever of     *)
(* result, abort and exception comes first, and `aborted' only after an      *)
(* abort.                                                                    *)
OneConclusion ==
    /\ \A t \in Turns : Len(concl[t]) = 1 \/ (concl[t] = <<>> /\ pc[t] # "over")
    /\ finished /\ active # None => concl[active] \in {<<"completed">>, <<"error">>}

(* A request for approval is held for the turn that made it: the end of the  *)
(* turn settles what it left, so that none is answered into the next one.    *)
AsksEndWithTurn == \A p \in pending : p[2] = active

(* The session a turn would go on from has exactly the turns of the          *)
(* conversation, in order: across forks, which cut it at the message they    *)
(* name, and restarts of the bridge, after which the session written last is *)
(* continued. Unless a turn was started while a fork was under way:          *)
(* whichever of the two sets state.sessionId last wins (claude-bridge.ts:    *)
(* 417-419, 527-543).                                                        *)
SessionCarriesOn ==
    overlapped \/ (IF Current = 0 THEN <<>> ELSE hist[Current]) = convo

(* A turn comes to its end although nobody answers what it asks: the bridge  *)
(* is free again, and again.                                                 *)
TurnsEnd == []<>(active = None)
=============================================================================
