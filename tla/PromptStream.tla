---------------------------- MODULE PromptStream ----------------------------
(***************************************************************************)
(* The stream of one turn as a caller of the agent SDK reads it: sseStream *)
(* (packages/agent/src/harness/bridge.ts) over a connection to the bridge, *)
(* with instrument() around it (agent/session-control.ts).  The generator  *)
(* races a read against a timer, and waits on while a permission is open.  *)
(*                                                                         *)
(* Time passes in ticks, one per heartbeat of the bridge.  A chunk that    *)
(* waits for a read is read before the next tick.  A chunk is one frame:   *)
(* pings that wait together are read as one.                               *)
(***************************************************************************)
EXTENDS Naturals, Sequences, FiniteSets

CONSTANTS
    Window,      \* inactivityTimeoutMs, in ticks
    MaxWire,     \* bounds: chunks that wait for a read, timers that a permission
    MaxTimers,   \* outlasts, what the initial states choose from
    PromptMixes

(* What the initial states choose from.                                    *)
MixOfPrompts ==
    [prompts : Nat, texts : Nat, asks : Nat, faults : Nat, pauses : Nat, holds : Nat, leaves : Nat,
     closes : Nat]

ASSUME PromptConstants ==
    /\ Window \in Nat \ {0} /\ MaxWire \in Nat /\ MaxTimers \in Nat
    /\ PromptMixes \subseteq MixOfPrompts

VARIABLES
    left,        \* what the mix still allows
    quiet,       \* external: no byte comes, as the sandbox is paused, or the window
                 \* is shorter than the time between two pings
    turn,        \* external: the turn, as the bridge sees it
    dialogs,     \* external: the permissions the bridge holds open
    wire,        \* the chunks that nobody has read
    promptPc,    \* where the generator is
    idle,        \* Date.now() - lastEventAt
    race,        \* the race under way: its age, and when its timer fires
    dropped,     \* reads of races that the timer won: they are still pending
    pendingPermissions,
    promptConn,  \* the connection; an open one has its controller in pendingStreams
    disposed,    \* "no", "yes", or "early" when the stream was not open yet
    sent,        \* history: the events the bridge wrote, and those the caller was
    promptGot,   \* given
    timers,      \* history: how many timers won while a permission was open
    silent,      \* history: ticks without an event or a permission, and whether one
    wrote,       \* was written since the last
    slept        \* history: the caller took a tick or more over an event

promptVars == <<left, quiet, turn, dialogs, wire, promptPc, idle, race, dropped, pendingPermissions,
                promptConn, disposed, sent, promptGot, timers, silent, wrote, slept>>

bridge == <<turn, dialogs>>
reader == <<promptPc, idle, race, dropped, pendingPermissions, promptConn, disposed>>
past == <<sent, promptGot, timers, silent, wrote, slept>>

Concluded == {"returned", "timeout", "disconnected", "failed", "aborted", "left"}
Ping == [type |-> "ping", id |-> 0]
Finished == [type |-> "done", id |-> 0]
Error == [type |-> "error", id |-> 0]
Eof == [type |-> "eof", id |-> 0]
IsEvent(f) == f.type \in {"text", "permission_request", "permission_resolved"}

(* The events among frames, in their order.                                  *)
EventsOf(s) ==
    LET upTo[n \in 0 .. Len(s)] ==
          IF n = 0 THEN <<>> ELSE IF IsEvent(s[n]) THEN Append(upTo[n - 1], s[n]) ELSE upTo[n - 1]
    IN  upTo[Len(s)]

Use(what) == left[what] > 0 /\ left' = [left EXCEPT ![what] = @ - 1]
Capped(n) == IF n < Window THEN n + 1 ELSE Window
NoRace == [age |-> 0, limit |-> 0]

-----------------------------------------------------------------------------
(* The bridge, whose own modules are PiBridge, CodexBridge, ClaudeBridge.    *)
Writes(f) ==
    /\ turn = "running" /\ ~quiet /\ Len(wire) < MaxWire
    /\ wire' = Append(wire, f)
    /\ sent' = Append(sent, f)
    /\ wrote' = TRUE
    /\ UNCHANGED <<quiet, turn, reader, promptGot, timers, silent, slept>>

Text == Use("texts") /\ UNCHANGED dialogs /\ Writes([type |-> "text", id |-> 0])

Asks ==
    /\ Use("asks")
    /\ dialogs' = dialogs \cup {left.asks}
    /\ Writes([type |-> "permission_request", id |-> left.asks])

(* By onPermission, by another client, or by the bridge's own timeout.       *)
Decided(p) ==
    /\ p \in dialogs
    /\ dialogs' = dialogs \ {p}
    /\ UNCHANGED left
    /\ Writes([type |-> "permission_resolved", id |-> p])

(* The response ends; its end may get lost in the proxy (bridge.ts:53-55).   *)
Over(frames) ==
    /\ turn = "running" /\ ~quiet
    /\ turn' = "over" /\ dialogs' = {}
    /\ wire' = wire \o frames
    /\ UNCHANGED <<quiet, reader, past>>

Finishes == dialogs = {} /\ UNCHANGED left /\ (Over(<<Finished>>) \/ Over(<<Finished, Eof>>))
Breaks == Use("faults") /\ (Over(<<Error, Eof>>) \/ Over(<<Eof>>))

Quiet ==
    /\ Use("pauses")
    /\ turn = "running" /\ ~quiet /\ quiet' = TRUE
    /\ UNCHANGED <<bridge, wire, reader, past>>

Resumes ==
    /\ quiet /\ quiet' = FALSE
    /\ UNCHANGED <<left, bridge, wire, reader, past>>

-----------------------------------------------------------------------------
(* Mutant: the timer runs on while a human decides.                          *)
TopImpatient ==
    /\ promptPc = "top"
    /\ IF idle >= Window
       THEN promptPc' = "timeout" /\ UNCHANGED race
       ELSE promptPc' = "reading" /\ race' = [age |-> 0, limit |-> Window - idle]
    /\ UNCHANGED <<left, quiet, bridge, wire, idle, dropped, pendingPermissions, promptConn, disposed, past>>

(* The caller asks for its first event: the generator starts, with fetch().  *)
Starts ==
    /\ Use("prompts")
    /\ promptPc = "off" /\ promptPc' = "opening"
    /\ UNCHANGED <<quiet, bridge, wire, idle, race, dropped, pendingPermissions, promptConn, disposed, past>>

(* fetch() is answered, or refused.                                          *)
Open ==
    /\ promptPc = "opening"
    /\ \/ /\ promptPc' = "top" /\ idle' = 0 /\ promptConn' = "open"
          /\ UNCHANGED <<bridge, wire>>
       \/ /\ sent = <<>> /\ wire = <<>> /\ turn = "running"
          /\ promptPc' = "failed" /\ turn' = "over"
          /\ UNCHANGED <<idle, promptConn, dialogs, wire>>
    /\ UNCHANGED <<left, quiet, race, dropped, pendingPermissions, disposed, past>>

(* The top of the loop.                                                      *)
Top ==
    /\ promptPc = "top"
    /\ IF pendingPermissions = {} /\ idle >= Window
       THEN promptPc' = "timeout" /\ UNCHANGED race
       ELSE /\ promptPc' = "reading"
            /\ race' = [age |-> 0,
                        limit |-> IF pendingPermissions = {} THEN Window - idle ELSE Window]
    /\ UNCHANGED <<left, quiet, bridge, wire, idle, dropped, pendingPermissions, promptConn, disposed, past>>

Chunk == Head(wire)

(* What a chunk is to the set of permissions that are open.                  *)
Pending(f) ==
    CASE f.type = "permission_request" -> pendingPermissions \cup {f.id}
      [] f.type = "permission_resolved" -> pendingPermissions \ {f.id}
      [] OTHER -> pendingPermissions

(* The read wins.  The end of the stream settles every read there is.        *)
ReadsChunk ==
    /\ promptPc = "reading" /\ promptConn = "open" /\ wire # <<>>
    /\ dropped = 0 \/ Chunk = Eof
    /\ wire' = Tail(wire)
    /\ promptPc' = CASE Chunk = Ping -> "top" [] Chunk = Finished -> "returned" [] Chunk = Error -> "failed"
                [] Chunk = Eof -> "disconnected" [] OTHER -> "given"
    /\ promptConn' = IF Chunk = Eof THEN "closed" ELSE promptConn
    /\ IF IsEvent(Chunk)
       THEN /\ promptGot' = Append(promptGot, Chunk)
            /\ idle' = 0
            /\ pendingPermissions' = Pending(Chunk)
       ELSE UNCHANGED <<promptGot, idle, pendingPermissions>>
    /\ race' = NoRace
    /\ UNCHANGED <<left, quiet, bridge, dropped, disposed, sent, timers, silent, wrote, slept>>

(* A chunk goes to the read of an earlier race, which nobody looks at.       *)
ReadDropped ==
    /\ promptPc \notin Concluded /\ promptConn = "open"
    /\ dropped > 0 /\ wire # <<>> /\ Chunk # Eof
    /\ wire' = Tail(wire) /\ dropped' = dropped - 1
    /\ UNCHANGED <<left, quiet, bridge, promptPc, idle, race, pendingPermissions, promptConn, disposed, past>>

(* The timer wins.                                                           *)
TimerFires ==
    /\ promptPc = "reading" /\ promptConn = "open" /\ race.age >= race.limit
    /\ IF pendingPermissions # {}
       THEN /\ timers < MaxTimers
            /\ promptPc' = "top" /\ idle' = 0
            /\ dropped' = dropped + 1 /\ timers' = timers + 1
       ELSE promptPc' = "timeout" /\ UNCHANGED <<idle, dropped, timers>>
    /\ race' = NoRace
    /\ UNCHANGED <<left, quiet, bridge, wire, pendingPermissions, promptConn, disposed,
                   sent, promptGot, silent, wrote, slept>>

-----------------------------------------------------------------------------
(* The caller asks for the next event, or leaves its loop.                   *)
TakesEvent ==
    /\ promptPc = "given" /\ promptPc' = "top"
    /\ UNCHANGED <<left, quiet, bridge, wire, idle, race, dropped, pendingPermissions, promptConn, disposed, past>>

Leaves ==
    /\ Use("leaves")
    /\ promptPc = "given" /\ promptPc' = "left"
    /\ UNCHANGED <<quiet, bridge, wire, idle, race, dropped, pendingPermissions, promptConn, disposed, past>>

(* agent.close(): dispose() aborts what is registered.                       *)
Dispose ==
    /\ Use("closes")
    /\ disposed = "no"
    /\ disposed' = IF promptPc \in {"off", "opening"} THEN "early" ELSE "yes"
    /\ promptConn' = IF promptConn = "open" THEN "aborted" ELSE promptConn
    /\ UNCHANGED <<quiet, bridge, wire, promptPc, idle, race, dropped, pendingPermissions, past>>

(* A read of an aborted connection throws.                                   *)
ReadThrows ==
    /\ promptPc = "reading" /\ promptConn = "aborted"
    /\ promptPc' = "aborted"
    /\ UNCHANGED <<left, quiet, bridge, wire, idle, race, dropped, pendingPermissions, promptConn, disposed, past>>

-----------------------------------------------------------------------------
(* One tick, and a ping.  A caller may take ticks over an event.             *)
Tick ==
    /\ \/ promptPc = "reading" /\ race.age < race.limit /\ UNCHANGED <<left, slept>>
       \/ promptPc = "given" /\ Use("holds") /\ slept' = TRUE
    /\ promptConn = "open" /\ (wire = <<>> \/ (promptPc = "given" /\ dropped = 0))
    /\ idle' = Capped(idle)
    /\ race' = [race EXCEPT !.age = IF @ < race.limit THEN @ + 1 ELSE @]
    /\ wire' = IF turn = "running" /\ ~quiet /\ wire = <<>> THEN <<Ping>> ELSE wire
    /\ silent' = IF dialogs # {} THEN 0 ELSE IF wrote THEN 1 ELSE Capped(silent)
    /\ wrote' = FALSE
    /\ UNCHANGED <<quiet, bridge, promptPc, dropped, pendingPermissions, promptConn, disposed, sent, promptGot, timers>>

PromptInit ==
    /\ left \in PromptMixes
    /\ quiet = FALSE /\ turn = "running" /\ dialogs = {}
    /\ wire = <<>>
    /\ promptPc = "off" /\ idle = 0 /\ race = NoRace
    /\ dropped = 0 /\ pendingPermissions = {}
    /\ promptConn = "none" /\ disposed = "no"
    /\ sent = <<>> /\ promptGot = <<>>
    /\ timers = 0 /\ silent = 0 /\ wrote = FALSE /\ slept = FALSE

Bridge == Text \/ Asks \/ (\E p \in dialogs : Decided(p)) \/ Finishes \/ Breaks \/ Quiet \/ Resumes
Reader == Open \/ Top \/ ReadsChunk \/ ReadDropped \/ TimerFires \/ ReadThrows
Caller == Starts \/ TakesEvent \/ Leaves \/ Dispose
Under == promptPc \notin Concluded \cup {"off"}

PromptNext ==
    \/ Under /\ (Bridge \/ Reader \/ Tick)
    \/ Caller

PromptSpec == PromptInit /\ [][PromptNext]_promptVars

(* The clock and the event loop go on, a permission is decided in the end    *)
(* (by the bridge's PERMISSION_TIMEOUT_MS if nobody else does), a pause      *)
(* ends.  The turn itself may hang.                                          *)
PromptFairness ==
    /\ WF_promptVars(Reader) /\ WF_promptVars(TakesEvent)
    /\ WF_promptVars(Under /\ Tick) /\ WF_promptVars(Under /\ Resumes)
    /\ SF_promptVars(Under /\ \E p \in dialogs : Decided(p))

PromptFairSpec == PromptSpec /\ PromptFairness

-----------------------------------------------------------------------------
PromptTypeOK ==
    /\ left \in [DOMAIN left -> Nat]
    /\ quiet \in BOOLEAN /\ turn \in {"running", "over"}
    /\ promptPc \in {"off", "opening", "top", "reading", "given"} \cup Concluded
    /\ idle \in 0 .. Window /\ race \in [age : 0 .. Window, limit : 0 .. Window]
    /\ dropped \in 0 .. timers
    /\ promptConn \in {"none", "open", "closed", "aborted"}
    /\ disposed \in {"no", "yes", "early"}

(* A caller that reads on is given every event, in the order the bridge      *)
(* wrote them, but for one chunk per timer that ran out while a permission   *)
(* was open (bridge.ts:227-242).                                             *)
PromptIsFaithful ==
    LET seen == promptGot \o EventsOf(wire)
    IN  /\ timers = 0 => seen = sent
        /\ Len(sent) <= Len(seen) + timers - dropped
        /\ promptPc = "returned" => turn = "over"

(* Nobody is timed out while the bridge writes events faster than the window *)
(* or holds a permission open, unless the caller itself took its time over   *)
(* an event, or a permission outlasted a window (bridge.ts:221-243).         *)
TimeoutIsEarned == promptPc = "timeout" => silent = Window \/ slept \/ timers > 0

(* After dispose() the only connection is one that was being opened          *)
(* (bridge.ts:112-115).                                                      *)
DisposeReaches == disposed = "yes" => promptConn # "open"

(* A caller of prompt() that reads on is given what the bridge wrote, is     *)
(* timed out only when nothing came, and is let go of by close()             *)
(* (bridge.ts:112-115, 219-286).                                             *)
PromptsAreFaithful == PromptIsFaithful /\ TimeoutIsEarned /\ DisposeReaches

(* Every caller that reads on gets to an end, but for one whose generator    *)
(* waits for the resolution of a permission that went to a dropped read.     *)
Stranded == pendingPermissions \ dialogs # {} /\ timers > 0
Concludes == ~Under \/ Stranded
PromptReturns == []<>Concludes

(* "The events still flow through the stream" (session-control.ts:16-19): a  *)
(* caller that reads on misses none.                                         *)
FramesReachTheCaller == promptGot \o EventsOf(wire) = sent
=============================================================================
