----------------------------- MODULE CodexBridge -----------------------------
(***************************************************************************)
(* The bridge of the Codex harness (packages/agent/src/bridge/             *)
(* codex-bridge.ts): one turn at a time, driven over JSON-RPC to           *)
(* `codex app-server'. A turn awaits its thread (the one it has, the one a *)
(* previous bridge saved, or a new one), then the answer to turn/start,    *)
(* then `done', which turn/completed resolves; meanwhile it can be         *)
(* aborted, the server can die, requests time out, approvals are parked    *)
(* for the host, a fork moves the thread and the bridge is restarted.      *)
(*                                                                         *)
(* Lines that come in one chunk are handled before the promises they       *)
(* settle continue: `jobs' holds those continuations, in order. Any other  *)
(* callback runs when there are none.                                      *)
(*                                                                         *)
(* The app-server is outside src/: it answers in order, may refuse a turn, *)
(* a resume or a fork, keeps its threads on disk, forks one up to a turn   *)
(* that is in it, obeys an interrupt that names its running turn and that  *)
(* turn's thread, and ends turns when it likes.                            *)
(***************************************************************************)
EXTENDS Naturals, Sequences, FiniteSets, SequencesExt

CONSTANTS
    Turns,    \* POST /prompt requests, numbered as they come; also the ids the server
              \* gives their turns
    Forks,    \* POST /fork requests
    Dialogs,  \* approvals the server may ask for
    Mixes,    \* what the initial states choose from: which of them there are, the turns
              \* that may be aborted, how many timeouts and restarts there may be
    None

VARIABLES
    left,          \* what the mix still allows
    server,        \* the app-server, as the bridge sees it; state.ready is "up"
    resume,        \* config.resume: an earlier bridge ran in this sandbox
    file,          \* THREAD_FILE, 0 when there is none
    thread,        \* state.threadId, 0 for null
    active,        \* whose response state.active holds
    turnId,        \* state.active.turnId
    abortPending,  \* state.active.abortPending
    finished,      \* state.active.finish() was called
    pc,            \* what each runTurn awaits, or how it ended
    concl,         \* what each stream was told: None for an error, or the turn whose end it reports
    forkPc,        \* the /fork requests
    rpc,           \* the requests whose answer is awaited
    jobs,          \* settled promises whose continuation has not run
    held,          \* state.pending: the approvals parked for the host
    toServer, toBridge,                \* stdin and stdout of the app-server
    srv, srvThread, hist, asked, dlg,  \* app-server: running turn, its thread, turns per thread
    aborting,      \* history: turns told to abort
    convo,         \* history: the turns of the conversation, as far as its streams were told
    kept,          \* history: what each fork is to keep of it
    unsaved,       \* history: THREAD_FILE could not be written
    broken         \* history: a fork landed in a turn, or a thread was not saved or not resumed

turn == <<active, turnId, abortPending, finished, pc, concl>>
where == <<file, thread>>
calls == <<forkPc, rpc, jobs>>
pipes == <<toServer, toBridge>>
app == <<srv, srvThread, hist, asked, dlg>>
talk == <<convo, kept>>
past == <<aborting, talk, unsaved, broken>>
vars == <<left, server, resume, where, turn, calls, held, pipes, app, past>>

ready == server = "up"
Idle == jobs = <<>>

-----------------------------------------------------------------------------
(* interruptIfRequested(): what is written to the server once the turn id is *)
(* `id' and an abort is wanted. It names the thread of this moment.          *)
Interrupts(wanted, id) ==
    IF wanted /\ id # None /\ thread # 0 THEN << <<"interrupt", id, thread>> >> ELSE <<>>

(* What is still parked is declined, after `out' was written.                *)
DeclineParked(out) ==
    /\ held' = {}
    /\ toServer' = toServer \o out \o << <<"answer", held>> >>

Vacate ==
    /\ active' = None
    /\ turnId' = None
    /\ abortPending' = FALSE
    /\ finished' = FALSE

(* The finally of runTurn. *)
TurnOver(t, how, out) ==
    /\ pc' = [pc EXCEPT ![t] = how]
    /\ Vacate
    /\ DeclineParked(out)

(* request(), by turn t: it now awaits `step', of the thread `th'. *)
Ask(t, step, th) ==
    /\ pc' = [pc EXCEPT ![t] = step]
    /\ rpc' = rpc \cup {<<step, t>>}
    /\ toServer' = Append(toServer, <<step, t, th>>)

Busy == active # None

(* POST /prompt and the first step of ensureThread(). *)
Prompt(t) ==
    /\ Idle
    /\ pc[t] = "idle" /\ t \in left.turns
    /\ \A u \in left.turns : u < t => pc[u] # "idle"
    /\ IF ~ready \/ Busy
       THEN /\ pc' = [pc EXCEPT ![t] = "refused"]
            /\ UNCHANGED <<active, turnId, abortPending, finished, rpc, toServer>>
       ELSE /\ active' = t
            /\ turnId' = None
            /\ abortPending' = FALSE
            /\ finished' = FALSE
            /\ IF thread # 0 THEN Ask(t, "start", thread)
               ELSE IF resume /\ file # 0 THEN Ask(t, "resume", file)
               ELSE Ask(t, "thread", 0)
    /\ UNCHANGED <<left, server, resume, where, concl, forkPc, jobs, held, toBridge, app, past>>

(* Mutant: an abort before the turn id is known is forgotten.                *)
NoteAbort == FALSE

(* An abort is only noted until the turn id is known. *)
AbortNoted == turnId = None

(* POST /abort; bound: of the turns the mix says, one for each. *)
Abort ==
    /\ Idle
    /\ active # None
    /\ active \in left.aborts \ aborting
    /\ aborting' = aborting \cup {active}
    /\ abortPending' = AbortNoted
    /\ toServer' = toServer \o Interrupts(TRUE, turnId)
    /\ UNCHANGED <<left, server, resume, where, active, turnId, finished, pc, concl, calls, held,
                   toBridge, app, talk, unsaved, broken>>

(* The turns whose end a stream was told. *)
Told == {t \in Turns : \E u \in Turns : t \in {concl[u][i] : i \in DOMAIN concl[u]}}

Upto(s, u) == SubSeq(s, 1, SelectInSeq(s, LAMBDA t : t = u))

(* POST /fork at turn u, whose id a stream was given. *)
Fork(f, u) ==
    /\ Idle
    /\ forkPc[f] = "idle" /\ f \in left.forks
    /\ IF thread = 0 \/ active # None
       THEN forkPc' = [forkPc EXCEPT ![f] = "refused"] /\ UNCHANGED <<rpc, toServer, kept>>
       ELSE /\ forkPc' = [forkPc EXCEPT ![f] = "asked"]
            /\ rpc' = rpc \cup {<<"fork", f>>}
            /\ toServer' = Append(toServer, <<"fork", f, thread, u>>)
            /\ kept' = [kept EXCEPT ![f] = Upto(convo, u)]
    /\ UNCHANGED <<left, server, resume, where, turn, jobs, held, toBridge, app, aborting, convo,
                   unsaved, broken>>

(* request() rejects after RPC_TIMEOUT_MS. A resume that fails becomes a new *)
(* thread; else runTurn reports the error and is over, whatever the server   *)
(* does with the request later. Bound: the timeouts of a server that is up.  *)
RequestTimesOut ==
    /\ Idle
    /\ IF ready THEN left.timeouts > 0 /\ left' = [left EXCEPT !.timeouts = @ - 1]
       ELSE UNCHANGED left
    /\ \E r \in rpc :
         \/ /\ r[1] = "fork"
            /\ rpc' = rpc \ {r}
            /\ forkPc' = [forkPc EXCEPT ![r[2]] = "failed"]
            /\ UNCHANGED <<turn, held, toServer, broken>>
         \/ /\ r[1] = "resume"
            /\ pc' = [pc EXCEPT ![r[2]] = "thread"]
            /\ rpc' = (rpc \ {r}) \cup {<<"thread", r[2]>>}
            /\ toServer' = IF ready THEN Append(toServer, <<"thread", r[2], 0>>) ELSE toServer
            /\ broken' = TRUE
            /\ UNCHANGED <<active, turnId, abortPending, finished, concl, forkPc, held>>
         \/ /\ r[1] \in {"thread", "start"}
            /\ rpc' = rpc \ {r}
            /\ concl' = [concl EXCEPT ![r[2]] = Append(@, None)]
            /\ TurnOver(r[2], IF r[1] = "start" THEN "failed" ELSE "over", <<>>)
            /\ UNCHANGED <<forkPc, broken>>
    /\ UNCHANGED <<server, resume, where, jobs, toBridge, app, aborting, talk, unsaved>>

-----------------------------------------------------------------------------
(* One line of the server's stdout. *)
Line(kind) ==
    /\ toBridge # <<>>
    /\ Head(toBridge)[1] = kind
    /\ toBridge' = Tail(toBridge)

(* An answer settles the promise of its request, if that still waits. *)
LineAnswer ==
    /\ Line("answer")
    /\ LET r == Head(toBridge)[2]
       IN  IF r \in rpc THEN rpc' = rpc \ {r} /\ jobs' = Append(jobs, <<r, Head(toBridge)[3]>>)
           ELSE UNCHANGED <<rpc, jobs>>
    /\ UNCHANGED <<left, server, resume, where, turn, forkPc, held, toServer, app, past>>

LineStarted ==
    /\ Line("started")
    /\ LET u == Head(toBridge)[2]
       IN  IF active = None THEN UNCHANGED <<turnId, abortPending, toServer>>
           ELSE /\ turnId' = u
                /\ toServer' = toServer \o Interrupts(abortPending, u)
                /\ abortPending' = (abortPending /\ thread = 0)
    /\ UNCHANGED <<left, server, resume, where, active, finished, pc, concl, calls, held, app, past>>

(* The completion of u ends the active turn, unless that has another id. A   *)
(* turn whose id is not known yet takes any.                                 *)
EndsActive(u) == active # None /\ (turnId = None \/ u = turnId)

LineCompleted ==
    /\ Line("completed")
    /\ LET u == Head(toBridge)[2]
       IN  IF ~EndsActive(u) THEN UNCHANGED <<finished, concl, jobs, convo>>
           ELSE /\ convo' = Append(convo, u)
                /\ concl' = [concl EXCEPT ![active] = Append(@, u)]
                /\ finished' = TRUE
                /\ jobs' = IF pc[active] = "run" /\ ~finished
                           THEN Append(jobs, << <<"done", active>>, 1 >>) ELSE jobs
    /\ UNCHANGED <<left, server, resume, where, active, turnId, abortPending, pc, forkPc, rpc, held,
                   toServer, app, aborting, kept, unsaved, broken>>

(* An approval the policy does not decide is parked (decide(), park()). *)
LineApproval ==
    /\ Line("ask")
    /\ held' = held \cup {Head(toBridge)[2]}
    /\ UNCHANGED <<left, server, resume, where, turn, calls, toServer, app, past>>

-----------------------------------------------------------------------------
(* The continuation of a settled promise: v is the answer, 0 an error. *)
Continues(step, t, v) ==
    /\ jobs # <<>>
    /\ Head(jobs) = << <<step, t>>, v >>
    /\ jobs' = Tail(jobs)
    /\ UNCHANGED <<left, server, resume, toBridge, app, aborting, kept>>

ThreadResumed(t) ==
    /\ \/ \E v \in 1..Len(hist) :
            /\ Continues("resume", t, v)
            /\ thread' = v
            /\ Ask(t, "start", v)
            /\ UNCHANGED broken
       \/ /\ Continues("resume", t, 0)
          /\ Ask(t, "thread", 0)
          /\ broken' = TRUE
          /\ UNCHANGED thread
    /\ UNCHANGED <<file, active, turnId, abortPending, finished, concl, forkPc, held, convo, unsaved>>

(* Mutant: the new thread is not saved.                                      *)
KeepFile(v) == UNCHANGED <<file, unsaved>>

(* writeFileSync(): one that fails, and leaves the file as it was or empty,  *)
(* is passed over in silence.                                                *)
SaveThread(v) ==
    \/ file' = v /\ unsaved' = FALSE
    \/ file' \in {file, 0} /\ unsaved' = TRUE

ThreadStarted(t) ==
    /\ \E v \in 1..Len(hist) :
         /\ Continues("thread", t, v)
         /\ thread' = v
         /\ SaveThread(v)
         /\ Ask(t, "start", v)
    /\ UNCHANGED <<active, turnId, abortPending, finished, concl, forkPc, held, convo, broken>>

(* The answer to turn/start gives the turn id, unless turn/started did. The  *)
(* turn may have been finished already.                                      *)
TurnStarted(t) ==
    LET known == turnId # None
        out == IF known THEN <<>> ELSE Interrupts(abortPending, t)
    IN  /\ Continues("start", t, 1)
        /\ IF finished THEN TurnOver(t, "over", out)
           ELSE /\ pc' = [pc EXCEPT ![t] = "run"]
                /\ turnId' = IF known THEN turnId ELSE t
                /\ abortPending' = (abortPending /\ known)
                /\ toServer' = toServer \o out
                /\ UNCHANGED <<active, finished, held>>
        /\ UNCHANGED <<where, concl, forkPc, rpc, convo, unsaved, broken>>

TurnRefused(t) ==
    /\ Continues("start", t, 0)
    /\ concl' = [concl EXCEPT ![t] = Append(@, None)]
    /\ TurnOver(t, "over", <<>>)
    /\ UNCHANGED <<where, forkPc, rpc, convo, unsaved, broken>>

Done(t) ==
    /\ Continues("done", t, 1)
    /\ TurnOver(t, "over", <<>>)
    /\ UNCHANGED <<where, concl, forkPc, rpc, convo, unsaved, broken>>

Forked(f) ==
    /\ \E v \in 1..Len(hist) :
         /\ Continues("fork", f, v)
         /\ thread' = v
         /\ SaveThread(v)
    /\ forkPc' = [forkPc EXCEPT ![f] = "done"]
    /\ convo' = kept[f]
    /\ broken' = (broken \/ active # None)
    /\ UNCHANGED <<turn, rpc, held, toServer>>

ForkFails(f) ==
    /\ Continues("fork", f, 0)
    /\ forkPc' = [forkPc EXCEPT ![f] = "failed"]
    /\ UNCHANGED <<where, turn, rpc, held, toServer, convo, unsaved, broken>>

-----------------------------------------------------------------------------
(* The host's answer, or the timer; "always" settles what is parked for the  *)
(* same tool too.                                                            *)
Settle(ds) ==
    /\ Idle
    /\ ds # {}
    /\ ds \subseteq held
    /\ held' = held \ ds
    /\ toServer' = IF server = "down" THEN toServer ELSE Append(toServer, <<"answer", ds>>)
    /\ UNCHANGED <<left, server, resume, where, turn, calls, toBridge, app, past>>

ServerStops ==
    /\ srv' = None
    /\ asked' = {}
    /\ toServer' = <<>>
    /\ forkPc' = [f \in Forks |-> IF forkPc[f] = "asked" THEN "failed" ELSE forkPc[f]]

(* The exit handler fails the requests in flight and tells the active stream *)
(* (which says it twice when it was awaiting an answer). A resume that fails *)
(* asks the dead server for a thread. The server is not started again. Lines *)
(* already printed still arrive.                                             *)
ServerExits ==
    /\ Idle
    /\ server \in {"up", "starting"}
    /\ server' = "down"
    /\ ServerStops
    /\ IF active = None THEN rpc' = {} /\ UNCHANGED <<turn, held, broken>>
       ELSE IF pc[active] = "resume"
       THEN /\ rpc' = {<<"thread", active>>}
            /\ pc' = [pc EXCEPT ![active] = "thread"]
            /\ concl' = [concl EXCEPT ![active] = Append(@, None)]
            /\ finished' = TRUE
            /\ broken' = TRUE
            /\ UNCHANGED <<active, turnId, abortPending, held>>
       ELSE /\ rpc' = {}
            /\ concl' = [concl EXCEPT ![active] =
                           @ \o IF pc[active] = "run" THEN <<None>> ELSE <<None, None>>]
            /\ pc' = [pc EXCEPT ![active] = "over"]
            /\ Vacate
            /\ held' = {}
            /\ UNCHANGED broken
    /\ UNCHANGED <<left, resume, where, jobs, toBridge, srvThread, hist, dlg, aborting, talk, unsaved>>

(* The bridge is started anew, in this sandbox or in one restored from it:   *)
(* what it held in memory is gone, its streams are cut. It goes on with the  *)
(* thread of the file, an earlier one or none if the last was not saved.     *)
Restart ==
    /\ left.restarts > 0
    /\ left' = [left EXCEPT !.restarts = @ - 1]
    /\ server' = "starting"
    /\ resume' = TRUE
    /\ thread' = 0
    /\ pc' = [t \in Turns |-> IF t = active THEN "cut" ELSE pc[t]]
    /\ Vacate
    /\ rpc' = {}
    /\ jobs' = <<>>
    /\ held' = {}
    /\ ServerStops
    /\ toBridge' = <<>>
    /\ broken' = (broken \/ unsaved)
    /\ UNCHANGED <<file, concl, srvThread, hist, dlg, aborting, talk, unsaved>>

(* startServer() had its answer to `initialize'. *)
ServerReady ==
    /\ Idle
    /\ server = "starting"
    /\ server' = "up"
    /\ UNCHANGED <<left, resume, where, turn, calls, held, pipes, app, past>>

-----------------------------------------------------------------------------
(* The app-server. *)
Says(ms) == toBridge' = toBridge \o ms
Answer(step, x, v) == <<"answer", <<step, x>>, v>>

Reads(kind) ==
    /\ ready
    /\ toServer # <<>>
    /\ Head(toServer)[1] = kind
    /\ toServer' = Tail(toServer)
    /\ UNCHANGED <<left, server, resume, where, turn, calls, held, past>>

NewThread == Len(hist) + 1

SrvThread ==
    /\ Reads("thread")
    /\ Says(<<Answer("thread", Head(toServer)[2], NewThread)>>)
    /\ hist' = Append(hist, <<>>)
    /\ UNCHANGED <<srv, srvThread, asked, dlg>>

SrvResume ==
    /\ Reads("resume")
    /\ \E v \in {0, Head(toServer)[3]} : Says(<<Answer("resume", Head(toServer)[2], v)>>)
    /\ UNCHANGED app

SrvStart ==
    LET t == Head(toServer)[2]
        yes == Answer("start", t, 1)
    IN  /\ Reads("start")
        /\ \/ /\ srv = None
              /\ srv' = t
              /\ srvThread' = Head(toServer)[3]
              /\ \/ Says(<<yes, <<"started", t>> >>)
                 \/ Says(<< <<"started", t>>, yes>>)
           \/ Says(<<Answer("start", t, 0)>>) /\ UNCHANGED <<srv, srvThread>>
        /\ UNCHANGED <<hist, asked, dlg>>

(* The copy ends with the turn that was named.                               *)
SrvFork ==
    LET f == Head(toServer)[2]
        old == hist[Head(toServer)[3]]
        u == Head(toServer)[4]
    IN  /\ Reads("fork")
        /\ \/ /\ Contains(old, u)
              /\ Says(<<Answer("fork", f, NewThread)>>)
              /\ hist' = Append(hist, Upto(old, u))
           \/ Says(<<Answer("fork", f, 0)>>) /\ UNCHANGED hist
        /\ UNCHANGED <<srv, srvThread, asked, dlg>>

Concluded(h) == [h EXCEPT ![srvThread] = Append(@, srv)]

SrvInterrupt ==
    /\ Reads("interrupt")
    /\ IF srv # None /\ srv = Head(toServer)[2] /\ srvThread = Head(toServer)[3]
       THEN /\ Says(<< <<"completed", srv>> >>)
            /\ hist' = Concluded(hist)
            /\ srv' = None
            /\ asked' = {}
       ELSE UNCHANGED <<toBridge, hist, srv, asked>>
    /\ UNCHANGED <<srvThread, dlg>>

SrvAnswer ==
    /\ Reads("answer")
    /\ asked' = asked \ Head(toServer)[2]
    /\ UNCHANGED <<toBridge, srv, srvThread, hist, dlg>>

SrvAsks(d) ==
    /\ srv # None
    /\ dlg[d] = "new" /\ d \in left.dialogs
    /\ dlg' = [dlg EXCEPT ![d] = "asked"]
    /\ asked' = asked \cup {d}
    /\ Says(<< <<"ask", d>> >>)
    /\ UNCHANGED <<left, server, resume, where, turn, calls, held, toServer, srv, srvThread, hist, past>>

SrvCompletes ==
    /\ srv # None
    /\ asked = {}
    /\ Says(<< <<"completed", srv>> >>)
    /\ hist' = Concluded(hist)
    /\ srv' = None
    /\ UNCHANGED <<left, server, resume, where, turn, calls, held, toServer, srvThread, asked, dlg, past>>

-----------------------------------------------------------------------------
Init ==
    /\ left \in Mixes
    /\ server = "up"
    /\ resume = FALSE
    /\ file = 0
    /\ thread = 0
    /\ active = None
    /\ turnId = None
    /\ abortPending = FALSE
    /\ finished = FALSE
    /\ pc = [t \in Turns |-> "idle"]
    /\ concl = [t \in Turns |-> <<>>]
    /\ forkPc = [f \in Forks |-> "idle"]
    /\ rpc = {}
    /\ jobs = <<>>
    /\ held = {}
    /\ toServer = <<>>
    /\ toBridge = <<>>
    /\ srv = None
    /\ srvThread = 0
    /\ hist = <<>>
    /\ asked = {}
    /\ dlg = [d \in Dialogs |-> "new"]
    /\ aborting = {}
    /\ convo = <<>>
    /\ kept = [f \in Forks |-> <<>>]
    /\ unsaved = FALSE
    /\ broken = FALSE

HandleLine == LineAnswer \/ LineStarted \/ LineCompleted \/ LineApproval

Continuation ==
    \/ \E t \in Turns :
          ThreadResumed(t) \/ ThreadStarted(t) \/ TurnStarted(t) \/ TurnRefused(t) \/ Done(t)
    \/ \E f \in Forks : Forked(f) \/ ForkFails(f)

SrvReads == SrvThread \/ SrvResume \/ SrvStart \/ SrvFork \/ SrvInterrupt \/ SrvAnswer

Next ==
    \/ \E t \in Turns : Prompt(t)
    \/ \E f \in Forks, u \in Told : Fork(f, u)
    \/ Abort \/ RequestTimesOut \/ ServerExits \/ Restart \/ ServerReady
    \/ HandleLine \/ Continuation \/ SrvReads \/ SrvCompletes
    \/ \E d \in Dialogs : SrvAsks(d)
    \/ \E ds \in SUBSET held : Settle(ds)

Spec == Init /\ [][Next]_vars

(* The bridge reads every line, its promises continue, its timers fire, the  *)
(* server reads every request and ends a turn that waits for nothing, but    *)
(* need not end one that was aborted unless it is told. Nobody has to answer *)
(* an approval, and nothing to restart the bridge.                           *)
Fairness ==
    /\ WF_vars(HandleLine) /\ WF_vars(Continuation) /\ WF_vars(SrvReads)
    /\ WF_vars(RequestTimesOut /\ ~ready)
    /\ WF_vars(active \notin aborting /\ SrvCompletes)
    /\ \A d \in Dialogs : WF_vars(Settle({d}))

FairSpec == Spec /\ Fairness

-----------------------------------------------------------------------------
(* A turn/start that timed out may still be run by the server: a turn        *)
(* without a stream.                                                         *)
Ghost == \E t \in Turns : pc[t] = "failed"

(* The stream of a turn reports one end, and it is the end of that turn; an  *)
(* error and a completion never both. A stray completion must not end the    *)
(* wrong stream, whether it comes before or after the answer to turn/start,  *)
(* unless a turn/start timed out before (codex-bridge.ts:269-373, 490-534).  *)
OneOwnConclusion ==
    ~Ghost => \A t \in Turns :
        \/ concl[t] \in {<<>>, <<t>>}
        \/ concl[t] # <<>> /\ \A i \in DOMAIN concl[t] : concl[t][i] = None

(* When no turn runs no approval stays parked: the end of a turn declines    *)
(* what it left, and none can arrive after it. Not once the server died or a *)
(* timed-out turn runs on (codex-bridge.ts:164-190, 521-533).                *)
IdleHoldsNothing == ready /\ ~Ghost /\ active = None => held = {}

(* Of the turns whose end was told, a new turn goes on from exactly those of *)
(* the conversation, in order: across forks, which cut it at the turn they   *)
(* name and come back if they fail, and restarts of the bridge. Unless a     *)
(* fork asked for while idle landed in a later turn, which it then leaves    *)
(* behind, a thread could not be saved before a restart or resumed after it, *)
(* which the bridge passes over, or a timed-out turn runs on, which may end  *)
(* another (codex-bridge.ts:454-486, 630-648).                               *)
NothingForgotten ==
    [][srv = None /\ srv' # None /\ ~Ghost /\ ~broken =>
         SelectSeq(hist[srvThread'], LAMBDA t : t \in Told) = convo]_vars

(* Every turn ends: one that waits for nobody, one whose approvals nobody    *)
(* answers, one whose server dies, and one that was aborted, also before it  *)
(* had an id and although nothing else would end it. Unless a fork landed in *)
(* a turn (the interrupt then names another thread) or a timed-out turn runs *)
(* on.                                                                       *)
TurnsEnd == []<>(active = None \/ Ghost \/ broken)
=============================================================================
