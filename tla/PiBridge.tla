------------------------------- MODULE PiBridge -------------------------------
(***************************************************************************)
(* The bridge that runs in a sandbox between the host and the Pi coding    *)
(* agent (packages/agent/src/bridge/pi-bridge.ts). HTTP requests come in,  *)
(* JSON lines go to Pi's stdin, Pi's stdout comes back as lines, and one   *)
(* object `state` ties them together. The bridge is one thread: a handler, *)
(* a timer or a line is one step.                                          *)
(*                                                                         *)
(* Pi itself is outside src/: it is modelled by the lines it may read and  *)
(* print. It rejects a prompt when a turn is running, and an abort unwinds *)
(* only once no tool call waits for a permission (pi-bridge.ts:819).       *)
(***************************************************************************)
EXTENDS Naturals, Sequences, FiniteSets

CONSTANTS
    Requests,   \* the HTTP requests that expect an answer later
    Stamp,      \* Date.now() of each: two may fall in the same millisecond
    Dialogs,    \* the extension_ui_requests Pi may raise
    Tool,       \* the tool each is about
    Operators,  \* the /permission-stream connections
    Mixes,      \* what the initial states choose from: which requests, dialogs
                \* and connections there are, and whether a policy is active
    MaxGen,     \* bound: how often Pi is started
    None

Commands == {"cmd", "bash", "steer", "abort"}
Kinds == {"none", "prompt", "inject"} \cup Commands

ASSUME BridgeConstants ==
    /\ DOMAIN Stamp = Requests
    /\ Mixes \subseteq [kind : [Requests -> Kinds], policy : BOOLEAN,
                        dialogs : SUBSET Dialogs, operators : SUBSET Operators]
    /\ None \notin Requests \cup Operators

VARIABLES
    mix,          \* the mix of this behaviour: kind is the endpoint of each request,
                  \* policy is POLICY_ACTIVE
    proc,         \* state.proc is set
    gen,          \* state.gen
    ready,        \* state.ready
    probed,       \* the 500 ms timer of this generation has fired
    active,       \* state.active
    queue,        \* state.queue
    pendingCmds,  \* state.pendingCmds
    timer,        \* the command timers that are running, by the request that set them
    perms,        \* state.pendingPermissions: "none", or "armed" / "suspended" by its timer
    channel,      \* state.permissionChannel
    conn,         \* the permission-stream connections
    res,          \* the HTTP response of each request
    stdin, stdout,\* the pipes
    piTurn, piAsking, piAborts, dlg, \* Pi: its turn, the dialogs and aborts it awaits
    forgotten     \* history: the requests whose response the bridge lost sight of

bridge == <<mix, proc, gen, ready, probed>>
work == <<active, queue, res>>
cmds == <<pendingCmds, timer, forgotten>>
gate == <<perms, channel, conn>>
pi == <<piTurn, piAsking, piAborts, dlg>>
vars == <<bridge, work, cmds, gate, stdin, stdout, pi>>

Kind(r) == mix.kind[r]
Injected(r) == Kind(r) = "inject"
(* The id of a command is a prefix and the time. *)
Id(r) == <<Kind(r), Stamp[r]>>
Ids == Commands \X {Stamp[r] : r \in Requests}
Waiting == {pendingCmds[i] : i \in Ids} \ {None}
Queued == {queue[i] : i \in DOMAIN queue}
Asked == {d \in Dialogs : perms[d] # "none"}
(* The requests the bridge will still answer. *)
Held == Queued \cup Waiting \cup ({active} \ {None})

-----------------------------------------------------------------------------
(* rpc(): a line to Pi, or nothing when there is none. *)
Rpc(in, m) == IF proc THEN Append(in, m) ELSE in

(* flush(): the injections at the head of the queue are sent and answered at *)
(* once; the prompt behind them is sent if no other is active.               *)
LeadingInjections(q) ==
    CHOOSE k \in 0..Len(q) :
        /\ \A i \in 1..k : Injected(q[i])
        /\ k < Len(q) => ~Injected(q[k + 1])

(* Mutant: the prompt is sent while another is active.                       *)
SendsRegardless(q, k, a) == k < Len(q)

(* A prompt is sent when no other is active.                                 *)
SendsPrompt(q, k, a) == k < Len(q) /\ a = None

Flush(q, a, rs, in) ==
    IF ~ready' \/ ~proc
    THEN queue' = q /\ active' = a /\ res' = rs /\ stdin' = in
    ELSE LET k == LeadingInjections(q)
             n == IF SendsPrompt(q, k, a) THEN k + 1 ELSE k
         IN  /\ queue' = SubSeq(q, n + 1, Len(q))
             /\ active' = IF n > k THEN q[n] ELSE a
             /\ res' = [r \in Requests |->
                          IF \E i \in 1..k : q[i] = r THEN "done" ELSE rs[r]]
             /\ stdin' = in \o [i \in 1..n |-> <<"prompt", q[i]>>]

(* The responses after the active prompt's stream is ended with `how`, and *)
(* after every command in flight is failed.                                *)
EndActive(how) == IF active = None THEN res ELSE [res EXCEPT ![active] = how]
FailAll ==
    [r \in Requests |-> IF r \in Waiting \cup {active} THEN "error" ELSE res[r]]

(* Mutant: commands are failed and stay registered.                          *)
KeepPendingCmds == UNCHANGED cmds

CleanupPendingCmds ==
    /\ pendingCmds' = [i \in Ids |-> None]
    /\ timer' = [r \in Requests |-> timer[r] /\ r \notin Waiting]
    /\ UNCHANGED forgotten

CancelPendingPermissions == perms' = [d \in Dialogs |-> "none"]

Fresh(r) == res[r] = "new"

-----------------------------------------------------------------------------
(* startPi(): whatever the old Pi owed is failed, the old Pi is killed, the  *)
(* queue is kept. Answers to its dialogs go down a pipe that is closed.      *)
StartPi ==
    /\ gen < MaxGen
    /\ res' = FailAll
    /\ active' = None
    /\ CleanupPendingCmds
    /\ CancelPendingPermissions
    /\ proc' = TRUE
    /\ ready' = FALSE
    /\ gen' = gen + 1
    /\ probed' = FALSE
    /\ stdin' = <<>>
    /\ stdout' = <<>>
    /\ piTurn' = None
    /\ piAsking' = {}
    /\ piAborts' = {}
    /\ dlg' = [d \in Dialogs |-> IF dlg[d] = "asking" THEN "settled" ELSE dlg[d]]
    /\ UNCHANGED <<mix, queue, channel, conn>>

(* POST /reload-env restarts Pi and answers at once. *)
ReloadEnv == StartPi

(* The exit handler. Lines Pi printed before it died may still arrive.       *)
PiExits ==
    /\ proc
    /\ proc' = FALSE
    /\ ready' = FALSE
    /\ res' = FailAll
    /\ active' = None
    /\ CleanupPendingCmds
    /\ CancelPendingPermissions
    /\ stdin' = <<>>
    /\ piTurn' = None
    /\ piAsking' = {}
    /\ piAborts' = {}
    /\ dlg' = [d \in Dialogs |-> IF dlg[d] = "asking" THEN "settled" ELSE dlg[d]]
    /\ UNCHANGED <<mix, gen, probed, queue, channel, conn, stdout>>

Probe ==
    /\ proc
    /\ ~probed
    /\ probed' = TRUE
    /\ stdin' = Rpc(stdin, <<"probe">>)
    /\ UNCHANGED <<mix, proc, gen, ready, work, cmds, gate, stdout, pi>>

-----------------------------------------------------------------------------
(* POST /prompt, with streamingBehavior for an injection. *)
Prompt(r) ==
    /\ Fresh(r)
    /\ Kind(r) \in {"prompt", "inject"}
    /\ UNCHANGED ready
    /\ Flush(Append(queue, r), active, [res EXCEPT ![r] = "open"], stdin)
    /\ UNCHANGED <<mix, proc, gen, probed, cmds, gate, stdout, pi>>

(* Mutant: a command waits for its ack and nothing else.                     *)
AwaitAck(r, rs, in, qs) ==
    /\ res' = [rs EXCEPT ![r] = "open"]
    /\ forgotten' = forgotten \cup qs \cup ({pendingCmds[Id(r)]} \ {None})
    /\ pendingCmds' = [pendingCmds EXCEPT ![Id(r)] = r]
    /\ stdin' = Rpc(in, <<Kind(r), r>>)
    /\ UNCHANGED timer

(* rpcWithAck(), after the handler left `rs` and wrote `in` and forgot `qs`. *)
(* A command that still waits under the same id is forgotten as well.        *)
RpcWithAck(r, rs, in, qs) ==
    /\ res' = [rs EXCEPT ![r] = "open"]
    /\ forgotten' = forgotten \cup qs \cup ({pendingCmds[Id(r)]} \ {None})
    /\ pendingCmds' = [pendingCmds EXCEPT ![Id(r)] = r]
    /\ timer' = [timer EXCEPT ![r] = TRUE]
    /\ stdin' = Rpc(in, <<Kind(r), r>>)

Refuse(r) ==
    /\ res' = [res EXCEPT ![r] = "refused"]
    /\ UNCHANGED <<cmds, stdin>>

(* Every endpoint that only forwards a command and waits for its ack. *)
Command(r) ==
    /\ Fresh(r)
    /\ Kind(r) = "cmd"
    /\ RpcWithAck(r, res, stdin, {})
    /\ UNCHANGED <<bridge, active, queue, gate, stdout, pi>>

Bash(r) ==
    /\ Fresh(r)
    /\ Kind(r) = "bash"
    /\ IF ready /\ proc THEN RpcWithAck(r, res, stdin, {}) ELSE Refuse(r)
    /\ UNCHANGED <<bridge, active, queue, gate, stdout, pi>>

Steer(r) ==
    /\ Fresh(r)
    /\ Kind(r) = "steer"
    /\ IF active # None THEN RpcWithAck(r, res, stdin, {}) ELSE Refuse(r)
    /\ UNCHANGED <<bridge, active, queue, gate, stdout, pi>>

(* The held dialogs are cancelled, the queued prompts forgotten (their       *)
(* responses stay open), the active stream is ended, and Pi is told.         *)
Abort(r) ==
    /\ Fresh(r)
    /\ Kind(r) = "abort"
    /\ CancelPendingPermissions
    /\ queue' = <<>>
    /\ active' = None
    /\ RpcWithAck(r, EndActive("aborted"), Rpc(stdin, <<"answer", Asked>>), Queued)
    /\ UNCHANGED <<bridge, channel, conn, stdout, pi>>

(* The timeout of a command answers whichever request holds the id by then;  *)
(* the one of a bash command answers its own.                                *)
CommandTimeout(r) ==
    LET p == pendingCmds[Id(r)]
        late == IF Kind(r) = "bash" THEN r ELSE p
    IN  /\ timer[r]
        /\ timer' = [timer EXCEPT ![r] = FALSE]
        /\ pendingCmds' = [pendingCmds EXCEPT ![Id(r)] = None]
        /\ forgotten' = forgotten \cup ({p} \ {None, late})
        /\ res' = IF p = None THEN res ELSE [res EXCEPT ![late] = "timeout"]
        /\ UNCHANGED <<bridge, active, queue, gate, stdin, stdout, pi>>

-----------------------------------------------------------------------------
(* handleLine(): one line of Pi's stdout. *)
Line(kind) ==
    /\ stdout # <<>>
    /\ Head(stdout)[1] = kind
    /\ stdout' = Tail(stdout)

LineProbe ==
    /\ Line("probe")
    /\ ready' = TRUE
    /\ Flush(queue, active, res, stdin)
    /\ UNCHANGED <<mix, proc, gen, probed, cmds, gate, pi>>

(* A rejected prompt ends whatever stream is active. *)
LineRejected ==
    /\ Line("reject")
    /\ UNCHANGED ready
    /\ IF active = None THEN UNCHANGED <<work, stdin>>
       ELSE Flush(queue, None, EndActive("rejected"), stdin)
    /\ UNCHANGED <<mix, proc, gen, probed, cmds, gate, pi>>

LineAck ==
    /\ Line("ack")
    /\ LET i == Id(Head(stdout)[2])
           p == pendingCmds[i]
       IN  IF p = None THEN UNCHANGED <<cmds, res>>
           ELSE /\ pendingCmds' = [pendingCmds EXCEPT ![i] = None]
                /\ timer' = [timer EXCEPT ![p] = FALSE]
                /\ res' = [res EXCEPT ![p] = "done"]
                /\ UNCHANGED forgotten
    /\ UNCHANGED <<bridge, active, queue, gate, stdin, pi>>

(* The events of a turn are written to the active stream, if there is one. *)
LineForwarded ==
    /\ Line("event")
    /\ UNCHANGED <<bridge, work, cmds, gate, stdin, pi>>

LineAgentEnd ==
    /\ Line("end")
    /\ UNCHANGED ready
    /\ IF active = None THEN UNCHANGED <<work, stdin>>
       ELSE Flush(queue, None, EndActive("done"), stdin)
    /\ UNCHANGED <<mix, proc, gen, probed, cmds, gate, pi>>

(* Under a policy a dialog is the gate's: it is held, and its clock runs     *)
(* unless an operator is watching. Without one it is cancelled at once.      *)
LineDialog ==
    /\ Line("ask")
    /\ LET d == Head(stdout)[2]
       IN  IF mix.policy
           THEN /\ perms' = [perms EXCEPT ![d] =
                               IF channel = None THEN "armed" ELSE "suspended"]
                /\ UNCHANGED stdin
           ELSE /\ stdin' = Rpc(stdin, <<"answer", {d}>>)
                /\ UNCHANGED perms
    /\ UNCHANGED <<bridge, work, cmds, channel, conn, pi>>

-----------------------------------------------------------------------------
(* POST /permission-response; "always" and "reject" also settle what is held *)
(* for the same tool (resolveMatchingPending).                               *)
PermissionResponse(d, batch) ==
    LET settled == {d} \cup {e \in Asked : batch /\ Tool[e] = Tool[d]}
    IN  /\ d \in Asked
        /\ perms' = [e \in Dialogs |-> IF e \in settled THEN "none" ELSE perms[e]]
        /\ stdin' = Rpc(stdin, <<"answer", settled>>)
        /\ UNCHANGED <<bridge, work, cmds, channel, conn, stdout, pi>>

ExpirePermission(d) ==
    /\ perms[d] = "armed"
    /\ perms' = [perms EXCEPT ![d] = "none"]
    /\ stdin' = Rpc(stdin, <<"answer", {d}>>)
    /\ UNCHANGED <<bridge, work, cmds, channel, conn, stdout, pi>>

(* The clocks of the held dialogs stop (suspendPermissionTimers) or start.   *)
SetTimers(mode) ==
    perms' = [d \in Dialogs |-> IF perms[d] = "none" THEN "none" ELSE mode]

(* GET /permission-stream. A new subscriber replaces the one before it,      *)
(* whose close event is still to come.                                       *)
Attach(o) ==
    /\ conn[o] = "new"
    /\ conn' = [conn EXCEPT ![o] = "open"]
    /\ channel' = o
    /\ SetTimers("suspended")
    /\ UNCHANGED <<bridge, work, cmds, stdin, stdout, pi>>

(* Mutant: a replaced subscriber clears the channel of its successor.        *)
ClosedAny(o) ==
    /\ conn[o] = "open"
    /\ conn' = [conn EXCEPT ![o] = "closed"]
    /\ channel' = None
    /\ SetTimers("armed")
    /\ UNCHANGED <<bridge, work, cmds, stdin, stdout, pi>>

Closed(o) ==
    /\ conn[o] = "open"
    /\ conn' = [conn EXCEPT ![o] = "closed"]
    /\ IF channel = o THEN channel' = None /\ SetTimers("armed")
       ELSE UNCHANGED <<channel, perms>>
    /\ UNCHANGED <<bridge, work, cmds, stdin, stdout, pi>>

-----------------------------------------------------------------------------
(* Pi. *)
Prints(m) == stdout' = stdout \o m

(* Pi reads a line: it starts a turn or rejects the prompt, acks a command   *)
(* or keeps silent, takes an answer, or notes an abort.                      *)
PiReads ==
    /\ proc
    /\ stdin # <<>>
    /\ stdin' = Tail(stdin)
    /\ LET m == Head(stdin)
       IN  \/ m[1] = "probe" /\ Prints(<<m>>) /\ UNCHANGED pi
           \/ /\ m[1] = "prompt"
              /\ piTurn = None
              /\ piTurn' = m[2]
              /\ UNCHANGED <<piAsking, piAborts, dlg, stdout>>
           \/ /\ m[1] = "prompt"
              /\ Injected(m[2]) /\ piTurn # None
              /\ UNCHANGED <<pi, stdout>>
           \/ m[1] = "prompt" /\ Prints(<< <<"reject", m[2]>> >>) /\ UNCHANGED pi
           \/ /\ m[1] \in Commands \ {"abort"}
              /\ \/ Prints(<< <<"ack", m[2]>> >>)
                 \/ UNCHANGED stdout
              /\ UNCHANGED pi
           \/ /\ m[1] = "abort"
              /\ piAborts' = piAborts \cup {m[2]}
              /\ UNCHANGED <<piTurn, piAsking, dlg, stdout>>
           \/ /\ m[1] = "answer"
              /\ piAsking' = piAsking \ m[2]
              /\ dlg' = [d \in Dialogs |-> IF d \in m[2] THEN "settled" ELSE dlg[d]]
              /\ UNCHANGED <<piTurn, piAborts, stdout>>
    /\ UNCHANGED <<bridge, work, cmds, gate>>

(* Bound: one event in the pipe at a time. *)
PiEmits ==
    /\ piTurn # None
    /\ stdout = <<>>
    /\ Prints(<< <<"event", piTurn>> >>)
    /\ UNCHANGED <<bridge, work, cmds, gate, stdin, pi>>

PiAsks(d) ==
    /\ piTurn # None
    /\ piAborts = {}
    /\ dlg[d] = "new"
    /\ dlg' = [dlg EXCEPT ![d] = "asking"]
    /\ piAsking' = piAsking \cup {d}
    /\ Prints(<< <<"ask", d>> >>)
    /\ UNCHANGED <<bridge, work, cmds, gate, stdin, piTurn, piAborts>>

PiEndsTurn ==
    /\ piTurn # None
    /\ piAsking = {}
    /\ Prints(<< <<"end", piTurn>> >>)
    /\ piTurn' = None
    /\ UNCHANGED <<bridge, work, cmds, gate, stdin, piAsking, piAborts, dlg>>

PiAborted(r) ==
    /\ r \in piAborts
    /\ piTurn = None
    /\ piAborts' = piAborts \ {r}
    /\ Prints(<< <<"ack", r>> >>)
    /\ UNCHANGED <<bridge, work, cmds, gate, stdin, piTurn, piAsking, dlg>>

-----------------------------------------------------------------------------
Init ==
    /\ mix \in Mixes
    /\ proc = TRUE
    /\ gen = 1
    /\ ready = FALSE
    /\ probed = FALSE
    /\ active = None
    /\ queue = <<>>
    /\ pendingCmds = [i \in Ids |-> None]
    /\ timer = [r \in Requests |-> FALSE]
    /\ forgotten = {}
    /\ perms = [d \in Dialogs |-> "none"]
    /\ channel = None
    /\ conn = [o \in Operators |-> IF o \in mix.operators THEN "new" ELSE "closed"]
    /\ res = [r \in Requests |-> "new"]
    /\ stdin = <<>>
    /\ stdout = <<>>
    /\ piTurn = None
    /\ piAsking = {}
    /\ piAborts = {}
    /\ dlg = [d \in Dialogs |-> IF d \in mix.dialogs THEN "new" ELSE "settled"]

HandleLine == LineProbe \/ LineRejected \/ LineAck \/ LineForwarded \/ LineAgentEnd \/ LineDialog

Request(r) == Prompt(r) \/ Command(r) \/ Bash(r) \/ Steer(r) \/ Abort(r)

Next ==
    \/ ReloadEnv \/ PiExits \/ Probe \/ HandleLine
    \/ \E r \in Requests : Request(r) \/ CommandTimeout(r) \/ PiAborted(r)
    \/ \E d \in Dialogs :
          \/ ExpirePermission(d) \/ PiAsks(d)
          \/ \E batch \in BOOLEAN : PermissionResponse(d, batch)
    \/ \E o \in Operators : Attach(o) \/ Closed(o)
    \/ PiReads \/ PiEmits \/ PiEndsTurn

Spec == Init /\ [][Next]_vars

(* The event loop handles what arrives and fires due timers; a Pi that runs  *)
(* reads its stdin, and a turn that waits for nothing ends. Nobody is        *)
(* obliged to answer a dialog, to attach, or to restart Pi.                  *)
FairSpec ==
    /\ Spec
    /\ WF_vars(HandleLine) /\ WF_vars(Probe) /\ WF_vars(PiReads) /\ WF_vars(PiEndsTurn)
    /\ \A r \in Requests : WF_vars(CommandTimeout(r)) /\ WF_vars(PiAborted(r))
    /\ \A d \in Dialogs : WF_vars(ExpirePermission(d))

-----------------------------------------------------------------------------
(* Every variable has its type.                                              *)
TypeOK ==
    /\ proc \in BOOLEAN /\ ready \in BOOLEAN /\ probed \in BOOLEAN
    /\ gen \in Nat
    /\ active \in Requests \cup {None}
    /\ queue \in Seq(Requests)
    /\ pendingCmds \in [Ids -> Requests \cup {None}]
    /\ timer \in [Requests -> BOOLEAN]
    /\ forgotten \subseteq Requests
    /\ perms \in [Dialogs -> {"none", "armed", "suspended"}]
    /\ channel \in Operators \cup {None}
    /\ conn \in [Operators -> {"new", "open", "closed"}]
    /\ res \in [Requests -> {"new", "open", "done", "error", "aborted", "rejected",
                              "timeout", "refused"}]

(* What the bridge still holds, in its queue, as the active prompt or as a   *)
(* pending command, is an open response: none is ended twice or written to   *)
(* after its end, whichever of ack, timeout, abort, exit and restart is      *)
(* first (pi-bridge.ts:238-322, 330-341, 611-657).                           *)
HeldIsOpen == \A r \in Held : res[r] = "open"

(* No prompt waits behind an idle Pi: when Pi is ready and nothing is        *)
(* active, the queue is empty. Every path that clears `active` must flush,   *)
(* empty the queue, or take Pi down.                                         *)
NoPromptBehindIdlePi == ready /\ proc /\ active = None => queue = <<>>

(* The auto-deny clock of a held dialog runs exactly when no operator is     *)
(* attached, and an operator who attached stays the one who is until its own *)
(* connection closes or another attaches: the close event of a replaced one, *)
(* which comes late, arms nothing (pi-bridge.ts:207-225, 682-720).           *)
ClockRunsUnlessWatched ==
    /\ [](\A d \in Asked : perms[d] = (IF channel = None THEN "armed" ELSE "suspended"))
    /\ [][channel # None /\ channel' # channel =>
             \/ conn'[channel] = "closed"
             \/ channel' # None /\ conn[channel'] = "new"]_vars

(* A turn was cut off from its stream: by /abort, by a rejection (which ends *)
(* whatever is active), or because an injection that found Pi idle became a  *)
(* turn without a stream.                                                    *)
Cut == \E r \in Requests :
    res[r] \in {"aborted", "rejected"} \/ (Injected(r) /\ res[r] = "done")

(* The bridge does not know whose line it reads: it writes to `active`. Each *)
(* line still reaches the stream of its own turn, across exits and restarts  *)
(* of Pi, until some turn is cut off (pi-bridge.ts:365-377, 403-627).        *)
LinesReachTheirTurn ==
    [][/\ stdout # <<>>
       /\ stdout' = Tail(stdout)
       /\ Head(stdout)[1] \in {"event", "end"}
       /\ active # None
       => active = Head(stdout)[2] \/ Cut]_vars

(* While Pi stays up and no operator holds the clock, every response that is *)
(* open comes to its end: turns end because their dialogs expire, queued     *)
(* prompts follow, commands are acknowledged or time out. Except for those   *)
(* the bridge itself lost sight of, which stay open for ever: a prompt that  *)
(* was queued when /abort emptied the queue (pi-bridge.ts:822), a command    *)
(* whose id was taken by one of the same millisecond (pi-bridge.ts:330-332). *)
(* A request is open once at most: all end when none is, again and again.    *)
ResponsesEnd ==
    <>[](proc /\ channel = None) => []<>(\A r \in Requests : res[r] = "open" => r \in forgotten)
=============================================================================
