----------------------------- MODULE ExecStream -----------------------------
(***************************************************************************)
(* Commands of one sandbox as they run: exec() of SandboxCore, the         *)
(* ExecHandle it returns with the readers of its output (packages/core/src/*)
(* sandbox/core.ts, exec-handle.ts), parseSSE and disposeConnections of    *)
(* the channel (packages/opensandbox/src/exec.ts), and pause(), resume(),  *)
(* close() around them (sandbox/lifecycle.ts).  Commands are strict.       *)
(*                                                                         *)
(* A channel is numbered: pause() forgets the one there is, and the next   *)
(* exec() gets another.  A command with a signal has a channel of its own  *)
(* (withSignal), whose streams the channel it came from does not know.     *)
(***************************************************************************)
EXTENDS Naturals, Sequences, FiniteSets

CONSTANTS
    Execs,       \* the calls of exec()
    Readers,     \* generators of stdout(), for await or pipe()
    Of,          \* the handle of each
    ExecMixes,   \* bounds: what the initial states choose from
    Nobody

(* What the initial states choose from.                                    *)
MixOfExecs ==
    [execs : SUBSET Execs, readers : SUBSET Readers, signals : SUBSET Execs, exits : SUBSET Nat,
     chunks : Nat, faults : Nat, losses : Nat, pauses : Nat, closes : Nat]

ASSUME ExecConstants ==
    /\ ExecMixes \subseteq MixOfExecs
    /\ Of \in [Readers -> Execs] /\ Nobody \notin Readers

VARIABLES
    left,        \* what the mix still allows
    box,         \* external: the container: "up", "frozen", "gone"
    proc,        \* external: each command: "none", "runs", or its exit status
    wrote,       \* external: how many chunks of output each has written
    wire,        \* each response: what nobody has read
    cmd,         \* of each call: where it is, the event it holds, its channel and its
                 \* exitCode as far as it is known
    handle,      \* of each ExecHandle: how many _chunks, _done, _hasErr, _wakeup
    reader,      \* where each reader is, and its pos
    pendingReaders, \* the streams that each channel can cancel
    channel,     \* the channel exec() will use; the next one has a higher number
    lifecycle,   \* pause(): under way, or _paused; close()
    cut          \* history: how the stream of a command was cut off, or "no"

sdk == <<cmd, handle, pendingReaders, channel, lifecycle>>
execVars == <<left, box, proc, wrote, wire, sdk, reader, cut>>

Running(e) == proc[e] = "runs" /\ box = "up"
Out == [type |-> "stdout", code |-> 0]
Eof == [type |-> "eof", code |-> 0]
Broken == [type |-> "broken", code |-> 0]
End(code) == [type |-> "end", code |-> code]       \* isExecTerminal
NoEvent == [type |-> "none", code |-> 0]

Use(what) == left[what] > 0 /\ left' = [left EXCEPT ![what] = @ - 1]
HasSignal(e) == e \in left.signals

(* Where a call waits: for the channel, the ledger, the response, a read,    *)
(* the ledger again, and the ledger once more.                               *)
Waiting == {"channel", "start", "request", "read", "emit", "complete"}
Settled == {"ok", "failed", "thrown"}
GoesTo(e, at) == cmd' = [cmd EXCEPT ![e].at = at]

-----------------------------------------------------------------------------
(* _notify() wakes the last reader that waits.                               *)
Notified(h, done) == [h EXCEPT !.wakeup = Nobody, !.done = done]
Wakes(e, rs) ==
    [r \in Readers |-> IF r = handle[e].wakeup THEN [rs[r] EXCEPT !.at = "runs"] ELSE rs[r]]

(* _drain throws: the handle is done, and has an error.                      *)
Throws(e) ==
    /\ GoesTo(e, "thrown")
    /\ handle' = [handle EXCEPT ![e] = [Notified(@, TRUE) EXCEPT !.hasErr = TRUE]]
    /\ reader' = Wakes(e, reader)

ExecFails(e) == Use("faults") /\ Throws(e)

-----------------------------------------------------------------------------
(* exec() *)
Issue(e) ==
    /\ cmd[e].at = "off"
    /\ GoesTo(e, "channel")
    /\ UNCHANGED <<left, box, proc, wrote, wire, handle, reader, pendingReaders, channel, lifecycle, cut>>

(* getExecClient() *)
GetChannel(e) ==
    /\ cmd[e].at = "channel"
    /\ \/ /\ lifecycle # "paused"
          /\ cmd' = [cmd EXCEPT ![e].at = "start", ![e].channel = channel]
          /\ UNCHANGED <<left, handle, reader>>
       \/ lifecycle = "paused" /\ Throws(e) /\ UNCHANGED left
    /\ UNCHANGED <<box, proc, wrote, wire, pendingReaders, channel, lifecycle, cut>>

(* emit(ExecStart) *)
StartTold(e) ==
    /\ cmd[e].at = "start"
    /\ \/ GoesTo(e, "request") /\ UNCHANGED <<left, handle, reader>>
       \/ ExecFails(e)
    /\ UNCHANGED <<box, proc, wrote, wire, pendingReaders, channel, lifecycle, cut>>

(* executeCommand(): the request reaches execd, and is answered; a frozen    *)
(* container does not answer.                                                *)
Request(e) ==
    /\ cmd[e].at = "request"
    /\ \/ /\ box = "up"
          /\ GoesTo(e, "read")
          /\ proc' = [proc EXCEPT ![e] = "runs"]
          /\ pendingReaders' = IF HasSignal(e) THEN pendingReaders
                               ELSE pendingReaders \cup {<<cmd[e].channel, e>>}
          /\ UNCHANGED <<left, handle, reader>>
       \/ box = "gone" /\ Throws(e) /\ UNCHANGED <<left, proc, pendingReaders>>
    /\ UNCHANGED <<box, wrote, wire, channel, lifecycle, cut>>

Deregistered(e) == {p \in pendingReaders : p[2] # e}

(* Mutant: the status of a command that fails goes by unseen.                *)
EmittedUnseen(e) ==
    /\ cmd[e].at = "emit"
    /\ \/ /\ cmd[e].event = Out
          /\ cmd' = [cmd EXCEPT ![e].at = "read", ![e].event = NoEvent]
          /\ handle' = [handle EXCEPT ![e] = [Notified(@, FALSE) EXCEPT !.chunks = handle[e].chunks + 1]]
          /\ reader' = Wakes(e, reader)
          /\ UNCHANGED <<left, pendingReaders>>
       \/ /\ cmd[e].event # Out
          /\ cmd' = [cmd EXCEPT ![e].at = "complete", ![e].event = NoEvent]
          /\ handle' = [handle EXCEPT ![e] = Notified(@, TRUE)]
          /\ reader' = Wakes(e, reader)
          /\ UNCHANGED <<left, pendingReaders>>
       \/ ExecFails(e) /\ pendingReaders' = Deregistered(e)
    /\ UNCHANGED <<box, proc, wrote, wire, channel, lifecycle, cut>>

(* A read: parseSSE yields an event, which goes to the ledger before it goes *)
(* to the handle, or sees the end of the stream, which it takes for the end  *)
(* of the command.                                                           *)
Read(e) ==
    /\ cmd[e].at = "read" /\ wire[e] # <<>>
    /\ wire' = [wire EXCEPT ![e] = Tail(@)]
    /\ \/ /\ Head(wire[e]) = Eof
          /\ GoesTo(e, "complete")
          /\ handle' = [handle EXCEPT ![e] = Notified(@, TRUE)]
          /\ reader' = Wakes(e, reader)
          /\ pendingReaders' = Deregistered(e)
       \/ /\ Head(wire[e]) = Broken
          /\ Throws(e)
          /\ pendingReaders' = Deregistered(e)
       \/ /\ Head(wire[e]) \notin {Eof, Broken}
          /\ cmd' = [cmd EXCEPT ![e].at = "emit", ![e].event = Head(wire[e])]
          /\ UNCHANGED <<handle, reader, pendingReaders>>
    /\ UNCHANGED <<left, box, proc, wrote, channel, lifecycle, cut>>

(* emit(ExecEvent), and the loop of _drain.  After its terminal event a      *)
(* stream stays open, and can be cancelled.                                  *)
Emitted(e) ==
    /\ cmd[e].at = "emit"
    /\ \/ /\ cmd[e].event = Out
          /\ cmd' = [cmd EXCEPT ![e].at = "read", ![e].event = NoEvent]
          /\ handle' = [handle EXCEPT ![e] = [Notified(@, FALSE) EXCEPT !.chunks = handle[e].chunks + 1]]
          /\ reader' = Wakes(e, reader)
          /\ UNCHANGED <<left, pendingReaders>>
       \/ /\ cmd[e].event # Out
          /\ cmd' = [cmd EXCEPT ![e].at = "complete", ![e].event = NoEvent,
                                ![e].exitCode = cmd[e].event.code]
          /\ handle' = [handle EXCEPT ![e] = Notified(@, TRUE)]
          /\ reader' = Wakes(e, reader)
          /\ UNCHANGED <<left, pendingReaders>>
       \/ ExecFails(e) /\ pendingReaders' = Deregistered(e)
    /\ UNCHANGED <<box, proc, wrote, wire, channel, lifecycle, cut>>

(* onDone(): emit(ExecComplete), CommandError.  Nothing of it reaches the    *)
(* readers.                                                                  *)
Completes(e) ==
    /\ cmd[e].at = "complete"
    /\ \/ GoesTo(e, IF cmd[e].exitCode = 0 THEN "ok" ELSE "failed") /\ UNCHANGED left
       \/ Use("faults") /\ GoesTo(e, "thrown")
    /\ UNCHANGED <<box, proc, wrote, wire, handle, reader, pendingReaders, channel, lifecycle, cut>>

(* opts.signal aborts.  Before the request the call throws; from then on its *)
(* read does, and a listener asks execd to interrupt "whichever one the      *)
(* channel is running".                                                      *)
Interrupts(e) ==
    LET running == {i \in Execs : Running(i)}
        break == [wire EXCEPT ![e] = <<Broken>>]
    IN  \/ running = {} /\ wire' = break /\ UNCHANGED proc
        \/ \E i \in running :
              /\ proc' = [proc EXCEPT ![i] = "interrupted"]
              /\ wire' = IF i = e THEN break ELSE [break EXCEPT ![i] = Append(@, End(1))]

Abort(e) ==
    /\ HasSignal(e)
    /\ left' = [left EXCEPT !.signals = @ \ {e}]
    /\ \/ /\ cmd[e].at \in {"channel", "start"}
          /\ Throws(e)
          /\ UNCHANGED <<proc, wire>>
       \/ /\ cmd[e].at = "request"
          /\ Throws(e)
          /\ Interrupts(e)
       \/ /\ cmd[e].at \in {"read", "emit"}
          /\ Interrupts(e)
          /\ UNCHANGED <<cmd, handle, reader>>
    /\ cut' = [cut EXCEPT ![e] = "signal"]
    /\ UNCHANGED <<box, wrote, pendingReaders, channel, lifecycle>>

-----------------------------------------------------------------------------
(* The commands, and what can happen to a connection.                        *)
Writes(e) ==
    /\ Use("chunks")
    /\ Running(e)
    /\ wrote' = [wrote EXCEPT ![e] = @ + 1]
    /\ wire' = [wire EXCEPT ![e] = Append(@, Out)]
    /\ UNCHANGED <<box, proc, sdk, reader, cut>>

Exits(e) ==
    /\ Running(e)
    /\ \E code \in left.exits :
          /\ proc' = [proc EXCEPT ![e] = IF code = 0 THEN "zero" ELSE "one"]
          /\ wire' = [wire EXCEPT ![e] = Append(@, End(code))]
    /\ UNCHANGED <<left, box, wrote, sdk, reader, cut>>

(* The connection of a command that runs is lost.                            *)
Lost(e) ==
    /\ Use("losses")
    /\ cmd[e].at \in {"read", "emit"} /\ proc[e] = "runs"
    /\ wire' = [wire EXCEPT ![e] = Append(@, Eof)]
    /\ cut' = [cut EXCEPT ![e] = "lost"]
    /\ UNCHANGED <<box, proc, wrote, sdk, reader>>

-----------------------------------------------------------------------------
(* disposeConnections(): a read under way, or the next one, ends the stream. *)
Cancelled(c) == {e \in Execs : <<c, e>> \in pendingReaders}

DisposeConnections(how) ==
    /\ wire' = [e \in Execs |-> IF e \in Cancelled(channel) THEN <<Eof>> ELSE wire[e]]
    /\ pendingReaders' = {p \in pendingReaders : p[1] # channel}
    /\ cut' = [e \in Execs |-> IF e \in Cancelled(channel) /\ cmd[e].at \in {"read", "emit"}
                                  /\ cmd[e].event.type # "end"
                               THEN how ELSE cut[e]]

(* pause(): the provider freezes the container; what is done about it, once  *)
(* it has answered.                                                          *)
PauseBegins ==
    /\ Use("pauses")
    /\ lifecycle = "open" /\ box = "up"
    /\ lifecycle' = "pausing" /\ box' = "frozen"
    /\ UNCHANGED <<proc, wrote, wire, cmd, handle, reader, pendingReaders, channel, cut>>

PauseEnds ==
    /\ lifecycle = "pausing"
    /\ lifecycle' = "paused"
    /\ DisposeConnections("pause")
    /\ channel' = channel + 1
    /\ UNCHANGED <<left, box, proc, wrote, cmd, handle, reader>>

Resumed ==
    /\ lifecycle = "paused"
    /\ lifecycle' = "open" /\ box' = "up"
    /\ UNCHANGED <<left, proc, wrote, wire, cmd, handle, reader, pendingReaders, channel, cut>>

CloseBegins ==
    /\ Use("closes")
    /\ lifecycle \in {"open", "paused"}
    /\ lifecycle' = "closing"
    /\ DisposeConnections("close")
    /\ UNCHANGED <<box, proc, wrote, cmd, handle, reader, channel>>

(* deleteSandbox(): the commands die, and their connections.                 *)
CloseEnds ==
    /\ lifecycle = "closing"
    /\ lifecycle' = "closed" /\ box' = "gone"
    /\ LET dying == {e \in Execs : proc[e] = "runs"}
       IN  /\ proc' = [e \in Execs |-> IF e \in dying THEN "killed" ELSE proc[e]]
           /\ wire' = [e \in Execs |-> IF e \in dying /\ cmd[e].at \in {"read", "emit"}
                                       THEN Append(wire[e], Eof) ELSE wire[e]]
           /\ cut' = [e \in Execs |-> IF e \in dying /\ cut[e] = "no" THEN "close" ELSE cut[e]]
    /\ UNCHANGED <<left, wrote, cmd, handle, reader, pendingReaders, channel>>

-----------------------------------------------------------------------------
(* stdout(): a chunk, the end, or a wait in the one place there is.          *)
Subscribe(r) ==
    /\ reader[r].at = "off" /\ cmd[Of[r]].at # "off"
    /\ reader' = [reader EXCEPT ![r].at = "runs"]
    /\ UNCHANGED <<left, box, proc, wrote, wire, sdk, cut>>

TakesChunk(r) ==
    /\ reader[r].at = "runs" /\ reader[r].pos < handle[Of[r]].chunks
    /\ reader' = [reader EXCEPT ![r].pos = @ + 1]
    /\ UNCHANGED <<left, box, proc, wrote, wire, sdk, cut>>

ReaderEnds(r) ==
    LET h == handle[Of[r]]
    IN  /\ reader[r].at = "runs" /\ reader[r].pos = h.chunks /\ h.done
        /\ reader' = [reader EXCEPT ![r].at = IF h.hasErr THEN "threw" ELSE "over"]
        /\ UNCHANGED <<left, box, proc, wrote, wire, sdk, cut>>

Waits(r) ==
    LET h == handle[Of[r]]
    IN  /\ reader[r].at = "runs" /\ reader[r].pos = h.chunks /\ ~h.done
        /\ reader' = [reader EXCEPT ![r].at = "waits"]
        /\ handle' = [handle EXCEPT ![Of[r]].wakeup = r]
        /\ UNCHANGED <<left, box, proc, wrote, wire, cmd, pendingReaders, channel, lifecycle, cut>>

-----------------------------------------------------------------------------
ExecInit ==
    /\ left \in ExecMixes
    /\ box = "up" /\ lifecycle = "open" /\ channel = 1 /\ pendingReaders = {}
    /\ proc = [e \in Execs |-> "none"]
    /\ wrote = [e \in Execs |-> 0]
    /\ wire = [e \in Execs |-> <<>>]
    /\ cmd = [e \in Execs |-> [at |-> IF e \in left.execs THEN "off" ELSE "never",
                               event |-> NoEvent, channel |-> 0, exitCode |-> 0]]
    /\ handle = [e \in Execs |-> [chunks |-> 0, done |-> FALSE, hasErr |-> FALSE, wakeup |-> Nobody]]
    /\ reader = [r \in Readers |-> [at |-> IF r \in left.readers THEN "off" ELSE "never", pos |-> 0]]
    /\ cut = [e \in Execs |-> "no"]

ExecStep(e) == GetChannel(e) \/ StartTold(e) \/ Request(e) \/ Read(e) \/ Emitted(e) \/ Completes(e)
Process(e) == Exits(e) \/ Writes(e) \/ Lost(e)
Lifecycle == PauseBegins \/ PauseEnds \/ Resumed \/ CloseBegins \/ CloseEnds
Reader(r) == Subscribe(r) \/ TakesChunk(r) \/ ReaderEnds(r) \/ Waits(r)

ExecNext ==
    \/ \E e \in Execs : Issue(e) \/ ExecStep(e) \/ Abort(e) \/ Process(e)
    \/ Lifecycle
    \/ \E r \in Readers : Reader(r)

ExecSpec == ExecInit /\ [][ExecNext]_execVars

(* The ledger, the provider and execd answer, every command exits, a pause   *)
(* ends, and the event loop runs the readers.                                *)
ExecFairness ==
    /\ \A e \in Execs : WF_execVars(ExecStep(e)) /\ SF_execVars(Exits(e))
    /\ WF_execVars(PauseEnds) /\ WF_execVars(Resumed) /\ WF_execVars(CloseEnds)
    /\ \A r \in Readers : WF_execVars(Reader(r))

ExecFairSpec == ExecSpec /\ ExecFairness

-----------------------------------------------------------------------------
ExecTypeOK ==
    /\ box \in {"up", "frozen", "gone"}
    /\ lifecycle \in {"open", "pausing", "paused", "closing", "closed"}
    /\ \A e \in Execs :
          /\ cmd[e].at \in {"never", "off"} \cup Waiting \cup Settled
          /\ proc[e] \in {"none", "runs", "zero", "one", "interrupted", "killed"}
          /\ handle[e].wakeup \in Readers \cup {Nobody}
    /\ \A r \in Readers : reader[r].at \in {"never", "off", "runs", "waits", "over", "threw"}
    /\ pendingReaders \subseteq (1 .. channel) \X Execs

(* A command that succeeds or fails did so in the sandbox, and all of its    *)
(* output is in the handle, unless its stream was cut off                    *)
(* (exec-handle.ts:132-196).                                                 *)
ResultsAreTrue == \A e \in Execs :
    cmd[e].at \in {"ok", "failed"} /\ cut[e] = "no" =>
        /\ cmd[e].at = "ok" <=> proc[e] = "zero"
        /\ handle[e].chunks = wrote[e]

(* A reader that waits alone will be woken: it is the one that _notify()     *)
(* knows, and the handle has an end to come (exec-handle.ts:198-228).        *)
Companions(r) == {q \in Readers \ {r} : Of[q] = Of[r] /\ reader[q].at # "never"}

NoReaderForgotten == \A r \in Readers :
    reader[r].at = "waits" /\ Companions(r) = {} =>
        handle[Of[r]].wakeup = r /\ ~handle[Of[r]].done

(* A reader that gets to the end has had all the output of the handle.       *)
ReadersSeeAll == \A r \in Readers :
    reader[r].at = "over" => reader[r].pos = handle[Of[r]].chunks /\ handle[Of[r]].done

(* A command that succeeds did so in the sandbox, a reader of its output     *)
(* has had all of it at the end, and one that waits alone will be woken      *)
(* (exec-handle.ts:132-228).                                                 *)
ExecsAreTrue == ResultsAreTrue /\ NoReaderForgotten /\ ReadersSeeAll

(* Every call of exec() settles, and every reader that is alone ends.        *)
Unsettled(e) == cmd[e].at \in Waiting
Reads(r) == reader[r].at \in {"runs", "waits"} /\ Companions(r) = {}
AllReturned == ~(\E e \in Execs : Unsettled(e)) /\ ~(\E r \in Readers : Reads(r))

(* "All pending exec calls will throw SandboxError until resume() is called" *)
(* (lifecycle.ts:22): none that a pause met succeeds.                        *)
PendingExecsThrow == \A e \in Execs : cut[e] = "pause" => cmd[e].at # "ok"
=============================================================================
