------------------------------ MODULE RunClose ------------------------------
(***************************************************************************)
(* How a run of alineod is closed (engine/lifecycle.ts): by DELETE, or by  *)
(* itself once it is quiescent, racing turns that end, spawns that fork,   *)
(* notifications that are delivered, stops, and a restart of the daemon.   *)
(*                                                                         *)
(* Every agent of a run is in the subtree of its root, agent 1; agents are *)
(* numbered in the order of getRunAgentViews, so that the members a loop   *)
(* has still to see are a set, of which it takes the least next.  An       *)
(* action is one stretch of code between two awaits; `busy' keeps          *)
(* everything else out while a DELETE works through members it does not    *)
(* have to wait for.  `rows', `inbox' and `run' are SQLite state.  emit()  *)
(* runs its listeners before it returns: notify.ts first, then the         *)
(* reactive close of lifecycle.ts.  Every agent is spawned with a first    *)
(* prompt, and none is ever paused.                                        *)
(***************************************************************************)
EXTENDS Naturals, FiniteSets, FiniteSetsExt

CONSTANTS N,              \* the most agents the run may have
          Watch,          \* pairs <<s, a>>: s is notified when a ends
          Wake,           \* an idle subscriber is woken by a notification
          Deletes,        \* DELETE calls clients may make
          Nobody,         \* not a DELETE
          RunMixes        \* what a behaviour starts from: the policy of the run, the DELETE
                          \* calls made, and bounds on the rest

ASSUME RunAssumption ==
    /\ N \in Nat \ {0}
    /\ Watch \subseteq (1 .. N) \X (1 .. N)
    /\ Wake \in BOOLEAN /\ Nobody \notin Deletes
    /\ RunMixes \subseteq [closeWhen : {"explicit", "quiescent"}, deletes : SUBSET Deletes,
                        members : 1 .. N, prompts : Nat, stops : Nat, restarts : Nat]

VARIABLES
    mix,       \* the mix of this behaviour: runs.close_when, and bounds
    n,         \* agents spawned so far
    state,     \* agents.state
    turns,     \* how many turns of the agent alineod follows
    outcome,   \* agents.outcome, "none" until the first agent.ended
    handle,    \* handles.outcome, "pending" until settled
    released,  \* how many agent.released events the ledger has
    inbox,     \* agents with a pending inbox entry
    run,       \* closing_at is set; state is closed; run.closed events so far
    reg,       \* registered agents
    boxed,     \* agents whose row has a sandbox_id
    forking,   \* agents in provisionRoot or provisionChild
    deliver,   \* agents with a deliverPending call scheduled
    stopping,  \* what the stopAgent call holding the agent's lock is doing
    fin,       \* the finalizeRun loop: members left, the least being closed
    del,       \* the DELETE calls: where they are, members left
    busy,      \* the DELETE that has not reached an await
    prompts, stops, restarts

rows == <<n, state, outcome, handle, released, boxed>>
budget == <<mix, prompts, stops, restarts>>
closeVars == <<mix, n, state, turns, outcome, handle, released, boxed, inbox, run, reg, forking,
          deliver, stopping, fin, del, busy, prompts, stops, restarts>>

All == 1 .. N
Members == 1 .. n
TERMINAL == {"done", "failed", "aborted", "lost"}
ended(a) == outcome[a] # "none"

CloseInit ==
    /\ mix \in RunMixes
    /\ n = 1
    /\ state = [a \in All |-> "provisioning"]
    /\ turns = [a \in All |-> 0]
    /\ outcome = [a \in All |-> "none"]
    /\ handle = [a \in All |-> "pending"]
    /\ released = [a \in All |-> 0]
    /\ inbox = {} /\ deliver = {}
    /\ run = [closing |-> FALSE, closed |-> FALSE, events |-> 0]
    /\ reg = {} /\ boxed = {} /\ forking = {1}
    /\ stopping = [a \in All |-> "no"]
    /\ fin = {}
    /\ del = [d \in Deletes |-> [pc |-> "unsent", todo |-> {}]]
    /\ busy = Nobody
    /\ prompts = 0 /\ stops = 0 /\ restarts = 0

-----------------------------------------------------------------------------
(* finalizeRun.  The operators below take the state as an event has just   *)
(* left it: s, o the rows, i the inbox, r the registry, m the members.     *)

NextOpen(todo, r) == {a \in todo : \E b \in todo \cap r : b <= a}

RunClosed(claim) == [claim EXCEPT !.closed = TRUE, !.events = @ + 1]

(* claimRunClose.                                                          *)
Claimable == ~run.closing

(* Claim the close, list the members that have ended, and start to close   *)
(* the first one still registered; with none, run.closed follows at once.  *)
finalizeRun(o, r, m) ==
    IF ~Claimable THEN UNCHANGED <<run, fin>>
    ELSE LET todo == NextOpen({a \in 1 .. m : o[a] # "none"}, r)
             claim == [run EXCEPT !.closing = TRUE]
         IN  /\ fin' = todo
             /\ run' = IF todo = {} THEN RunClosed(claim) ELSE claim

quiescent(s, i, m) == \A a \in 1 .. m : s[a] \in TERMINAL /\ a \notin i

(* The listener on agent.ended, agent.released and inbox.dropped.          *)
React(s, o, i, r, m) ==
    IF mix.closeWhen = "quiescent" /\ ~run.closed /\ quiescent(s, i, m)
    THEN finalizeRun(o, r, m)
    ELSE UNCHANGED <<run, fin>>

(* agent.ended: the fold, then the notifications, then the reaction.       *)
Subscribers(a) == {s \in Members : <<s, a>> \in Watch}

EndAgent(a, st, o, h, r) ==
    /\ state' = [state EXCEPT ![a] = st]
    /\ outcome' = [outcome EXCEPT ![a] = o]
    /\ handle' = [handle EXCEPT ![a] = h]
    /\ inbox' = inbox \cup Subscribers(a)
    /\ deliver' = deliver \cup Subscribers(a)
    /\ React(state', outcome', inbox', r, n)

SettleIfPending(a, o) == IF handle[a] = "pending" THEN o ELSE handle[a]

(* Mutant: the closed member stays registered.                             *)
FinalizeKeeps ==
    /\ busy = Nobody /\ fin # {}
    /\ fin' = fin \ {Min(fin)}
    /\ run' = IF fin' = {} THEN RunClosed(run) ELSE run
    /\ released' = [released EXCEPT ![Min(fin)] = @ + 1]
    /\ UNCHANGED <<n, state, turns, outcome, handle, boxed, inbox, reg, forking, deliver, stopping,
                   del, busy, budget>>

(* The finalizer's close() returned.                                       *)
FinalizeNext ==
    /\ busy = Nobody /\ fin # {}
    /\ reg' = reg \ {Min(fin)}
    /\ fin' = NextOpen(fin \ {Min(fin)}, reg')
    /\ run' = IF fin' = {} THEN RunClosed(run) ELSE run
    /\ released' = [released EXCEPT ![Min(fin)] = @ + 1]
    /\ UNCHANGED <<n, state, turns, outcome, handle, boxed, inbox, forking, deliver, stopping, del,
                   busy, budget>>

-----------------------------------------------------------------------------
(* deleteRun: end every member the snapshot shows as not ended, waiting    *)
(* for abort() where the member is registered, then finalizeRun.           *)
DeleteBegin(d) ==
    /\ busy = Nobody /\ d \in mix.deletes /\ del[d].pc = "unsent"
    /\ busy' = d
    /\ del' = [del EXCEPT ![d] = [pc |-> "loop", todo |-> {a \in Members : ~ended(a)}]]
    /\ UNCHANGED <<rows, turns, inbox, run, reg, forking, deliver, stopping, fin, budget>>

DeleteAbort(d) ==
    /\ busy = d /\ del[d].todo # {} /\ Min(del[d].todo) \in reg
    /\ busy' = Nobody
    /\ del' = [del EXCEPT ![d].pc = "aborting"]
    /\ UNCHANGED <<rows, turns, inbox, run, reg, forking, deliver, stopping, fin, budget>>

DeleteEnds(d) ==
    /\ \/ busy = d /\ del[d].todo # {} /\ Min(del[d].todo) \notin reg
       \/ busy = Nobody /\ del[d].pc = "aborting"
    /\ busy' = d
    /\ del' = [del EXCEPT ![d] = [pc |-> "loop", todo |-> @.todo \ {Min(@.todo)}]]
    /\ LET a == Min(del[d].todo)
       IN  EndAgent(a, "aborted", "aborted", SettleIfPending(a, "aborted"), reg)
    /\ UNCHANGED <<n, turns, released, boxed, reg, forking, stopping, budget>>

DeleteFinalize(d) ==
    /\ busy = d /\ del[d].todo = {}
    /\ busy' = Nobody
    /\ del' = [del EXCEPT ![d].pc = "done"]
    /\ finalizeRun(outcome, reg, n)
    /\ UNCHANGED <<rows, turns, inbox, reg, forking, deliver, stopping, budget>>

-----------------------------------------------------------------------------
(* Turns and prompts. A prompt may come while a turn runs, and an agent may *)
(* be stopped or closed under its turn.                                    *)
Follows(a) == turns' = [turns EXCEPT ![a] = @ + 1]

(* driveTurn() settles what its own stream said, whatever became of the    *)
(* agent and whatever other turn runs.                                     *)
TurnEnds(a) ==
    /\ busy = Nobody /\ turns[a] > 0
    /\ turns' = [turns EXCEPT ![a] = @ - 1]
    /\ \/ EndAgent(a, "done", "success", "success", reg)
       \/ EndAgent(a, "failed", "failed", "failed", reg)
    /\ UNCHANGED <<n, released, boxed, reg, forking, stopping, del, busy, budget>>

(* catchUpTurn() settles nothing for an agent that was stopped or closed,  *)
(* nor where another turn is followed already.                             *)
FollowerYields(a) ==
    /\ busy = Nobody /\ turns[a] > 0
    /\ a \notin reg \/ state[a] = "aborted" \/ turns[a] > 1
    /\ turns' = [turns EXCEPT ![a] = @ - 1]
    /\ UNCHANGED <<rows, inbox, run, reg, forking, deliver, stopping, fin, del, busy, budget>>

(* POST /agents/:id/prompt takes the pending inbox with it.                *)
Prompt(a) ==
    /\ busy = Nobody /\ a \in reg
    /\ prompts < mix.prompts /\ prompts' = prompts + 1
    /\ state' = [state EXCEPT ![a] = "running"]
    /\ Follows(a)
    /\ inbox' = inbox \ {a}
    /\ UNCHANGED <<n, outcome, handle, released, boxed, run, reg, forking, deliver, stopping,
                   fin, del, busy, mix, stops, restarts>>

-----------------------------------------------------------------------------
(* Spawns.                                                                 *)
Spawn(p) ==
    /\ busy = Nobody /\ p \in reg /\ n < mix.members
    /\ n' = n + 1
    /\ forking' = forking \cup {n + 1}
    /\ UNCHANGED <<state, turns, outcome, handle, released, boxed, inbox, run, reg, deliver,
                   stopping, fin, del, busy, budget>>

(* Alineo.start() returned: provisionRoot registers and drives the root.   *)
RootStarts ==
    /\ busy = Nobody /\ 1 \in forking
    /\ forking' = forking \ {1} /\ reg' = reg \cup {1} /\ boxed' = boxed \cup {1}
    /\ state' = [state EXCEPT ![1] = "running"]
    /\ Follows(1)
    /\ UNCHANGED <<n, outcome, handle, released, inbox, run, deliver, stopping, fin, del, busy,
                   budget>>

(* parent.spawn() returned: a child that ended meanwhile is closed.        *)
ForkDone(c) ==
    /\ busy = Nobody /\ c \in forking \ {1}
    /\ forking' = forking \ {c}
    /\ IF ended(c)
       THEN /\ released' = [released EXCEPT ![c] = @ + 1]
            /\ UNCHANGED <<state, turns, reg, boxed>>
            /\ React(state, outcome, inbox, reg, n)
       ELSE /\ state' = [state EXCEPT ![c] = "running"]
            /\ Follows(c)
            /\ reg' = reg \cup {c} /\ boxed' = boxed \cup {c}
            /\ UNCHANGED <<released, run, fin>>
    /\ UNCHANGED <<n, outcome, handle, inbox, deliver, stopping, del, busy, budget>>

(* The fork failed; a child's failure does not overwrite `aborted'.        *)
ForkFails(c) ==
    /\ busy = Nobody /\ c \in forking
    /\ forking' = forking \ {c}
    /\ IF c # 1 /\ ended(c)
       THEN UNCHANGED <<state, outcome, handle, inbox, deliver, run, fin>>
       ELSE EndAgent(c, "failed", "failed", SettleIfPending(c, "failed"), reg)
    /\ UNCHANGED <<n, turns, released, boxed, reg, stopping, del, busy, budget>>

-----------------------------------------------------------------------------
(* deliverNow: drop, hold, steer into a running turn, or wake.             *)
Works(a) == state[a] = "running" \/ turns[a] > 0

Deliver(s) ==
    /\ busy = Nobody /\ s \in deliver
    /\ deliver' = deliver \ {s}
    /\ IF s \notin inbox \/ (s \notin reg /\ ~ended(s))
       THEN UNCHANGED <<inbox, state, turns, run, fin>>
       ELSE IF state[s] = "aborted" \/ s \notin reg
       THEN /\ inbox' = inbox \ {s}
            /\ UNCHANGED <<state, turns>>
            /\ React(state, outcome, inbox', reg, n)
       ELSE /\ UNCHANGED <<run, fin>>
            /\ \/ Works(s) /\ inbox' = inbox \ {s} /\ UNCHANGED <<state, turns>>
               \/ Works(s) /\ UNCHANGED <<inbox, state, turns>>    \* steer threw: held
               \/ ~Works(s) /\ Wake /\ inbox' = inbox \ {s}
                  /\ state' = [state EXCEPT ![s] = "running"] /\ Follows(s)
               \/ ~Works(s) /\ ~Wake /\ UNCHANGED <<inbox, state, turns>>
    /\ UNCHANGED <<n, outcome, handle, released, boxed, reg, forking, stopping, del, busy,
                   budget>>

-----------------------------------------------------------------------------
(* stopAgent under the agent's lock.                                       *)
StopBegin(a) ==
    /\ busy = Nobody /\ a \in Members /\ stopping[a] = "no"
    /\ stops < mix.stops /\ stops' = stops + 1
    /\ \/ /\ ended(a) /\ a \in reg
          /\ stopping' = [stopping EXCEPT ![a] = "releasing"]
          /\ UNCHANGED <<state, outcome, handle, inbox, deliver, run, fin>>
       \/ /\ ~ended(a) /\ a \in reg
          /\ stopping' = [stopping EXCEPT ![a] = "aborting"]
          /\ state' = [state EXCEPT ![a] = "aborted"]
          /\ UNCHANGED <<outcome, handle, inbox, deliver, run, fin>>
       \/ /\ ~ended(a) /\ a \notin reg
          /\ EndAgent(a, "aborted", "aborted", SettleIfPending(a, "aborted"), reg)
          /\ UNCHANGED stopping
    /\ UNCHANGED <<n, turns, released, boxed, reg, forking, del, busy, mix, prompts, restarts>>

StopEnd(a) ==
    /\ busy = Nobody /\ stopping[a] # "no"
    /\ stopping' = [stopping EXCEPT ![a] = "no"]
    /\ reg' = reg \ {a}
    /\ \/ /\ stopping[a] = "releasing"
          /\ released' = [released EXCEPT ![a] = @ + 1]
          /\ React(state, outcome, inbox, reg', n)
          /\ UNCHANGED <<state, outcome, handle, inbox, deliver>>
       \/ /\ stopping[a] = "aborting"
          /\ EndAgent(a, "aborted", "aborted", SettleIfPending(a, "aborted"), reg')
          /\ UNCHANGED released
    /\ UNCHANGED <<n, turns, boxed, forking, del, busy, budget>>

-----------------------------------------------------------------------------
(* kill -9 and rehydrate: rebuild() refolds the runs table, which has no   *)
(* event for closing_at; every open sandbox is reconnected (none is lost), *)
(* and one that a stop closed may be restored from its checkpoint when the *)
(* turn has settled over `aborted'; a turn whose handle is still pending   *)
(* is followed; spawns not yet forked are retried, pending inboxes tried   *)
(* again.                                                                  *)
LIVE == {"provisioning", "running"}
Reconnects(a) == released[a] = 0 /\ (state[a] \in LIVE \/ outcome[a] # "aborted")

Restart ==
    /\ busy = Nobody
    /\ restarts < mix.restarts /\ restarts' = restarts + 1
    /\ run' = [run EXCEPT !.closing = FALSE]
    /\ \E back \in SUBSET (boxed \ reg) : reg' = {a \in reg \cup back : Reconnects(a)}
    /\ turns' = [a \in All |->
          IF a \in reg' /\ state[a] = "running" /\ handle[a] = "pending" THEN 1 ELSE 0]
    /\ forking' = {a \in Members \ boxed : state[a] \in LIVE}
    /\ deliver' = inbox
    /\ stopping' = [a \in All |-> "no"]
    /\ fin' = {}
    /\ del' = [d \in Deletes |-> [pc |-> IF del[d].pc = "unsent" THEN "unsent" ELSE "done",
                                  todo |-> {}]]
    /\ UNCHANGED <<rows, inbox, busy, mix, prompts, stops>>

-----------------------------------------------------------------------------
DeleteStep == \E d \in Deletes : DeleteAbort(d) \/ DeleteEnds(d) \/ DeleteFinalize(d)

Settle == \/ RootStarts
          \/ \E a \in All :
                ForkDone(a) \/ ForkFails(a) \/ TurnEnds(a) \/ FollowerYields(a) \/ StopEnd(a)

Ask == \/ \E d \in Deletes : DeleteBegin(d)
       \/ \E a \in All : Prompt(a) \/ Spawn(a) \/ StopBegin(a)

CloseNext == FinalizeNext \/ DeleteStep \/ Settle \/ (\E a \in All : Deliver(a)) \/ Ask \/ Restart

CloseSpec == CloseInit /\ [][CloseNext]_closeVars

(* Closes, aborts, forks and turns return or fail; scheduled deliveries    *)
(* run.                                                                    *)
CloseFairness ==
    /\ WF_closeVars(FinalizeNext) /\ WF_closeVars(DeleteStep)
    /\ WF_closeVars(RootStarts \/ ForkFails(1))
    /\ \A a \in All :
          /\ WF_closeVars(ForkDone(a) \/ ForkFails(a))
          /\ WF_closeVars(TurnEnds(a) \/ FollowerYields(a)) /\ WF_closeVars(StopEnd(a))
          /\ WF_closeVars(Deliver(a))

CloseFairSpec == CloseSpec /\ CloseFairness

-----------------------------------------------------------------------------
(* Every variable has its type.                                            *)
CloseTypeOK ==
    /\ mix \in RunMixes
    /\ n \in All
    /\ state \in [All -> TERMINAL \cup LIVE]
    /\ turns \in [All -> Nat]
    /\ outcome \in [All -> {"none", "success", "failed", "aborted"}]
    /\ handle \in [All -> {"pending", "success", "failed", "aborted"}]
    /\ released \in [All -> Nat]
    /\ inbox \in SUBSET All /\ deliver \in SUBSET All
    /\ run \in [closing : BOOLEAN, closed : BOOLEAN, events : Nat]
    /\ boxed \in SUBSET Members /\ reg \in SUBSET boxed /\ forking \in SUBSET Members
    /\ stopping \in [All -> {"no", "releasing", "aborting"}]
    /\ fin \in SUBSET Members
    /\ del \in [Deletes -> [pc : {"unsent", "loop", "aborting", "done"}, todo : SUBSET Members]]
    /\ busy \in Deletes \cup {Nobody}
    /\ prompts \in 0 .. mix.prompts /\ stops \in 0 .. mix.stops /\ restarts \in 0 .. mix.restarts

(* run.closed is emitted once, however DELETEs, stops and the reactive     *)
(* close race (claimRunClose), and only by whoever holds the claim; a      *)
(* restart forgets the claim (ClosedStaysClosed, below).                   *)
ClosedOnce ==
    /\ run.closed <=> run.events > 0
    /\ restarts = 0 => run.events <= 1 /\ (run.closed => run.closing)

(* An agent whose release is in the ledger is not in the registry.         *)
ReleasedIsGone == \A a \in Members : released[a] > 0 => a \notin reg

(* Closing a run closes whoever was open: the claim lists every registered *)
(* member that has ended, and a member leaves the list only once it is out *)
(* of the registry, unless the daemon dies; and what was released stays    *)
(* out, also across a restart (lifecycle.ts:132-172, rehydrate.ts:45-84).  *)
CloseLeavesNothing ==
    /\ []ClosedOnce
    /\ [][/\ restarts' = restarts =>
                /\ ~run.closing /\ run'.closing => {a \in reg' : outcome'[a] # "none"} \subseteq fin'
                /\ \A a \in fin \ fin' : a \notin reg'
          /\ ReleasedIsGone']_closeVars

(* A DELETE leaves a closed run behind, however it races another DELETE,   *)
(* stops and spawns, unless the daemon dies meanwhile.                     *)
DeletesAreDone ==
    mix.restarts = 0 /\ (\E d \in Deletes : del[d].pc # "unsent") => run.closed

-----------------------------------------------------------------------------
(* What the comments and the docs say.                                     *)

(* run.closed: "The run finalized and its sandboxes were released"         *)
(* (docs, events.mdx).                                                     *)
ClosedMeansReleased == run.closed => reg = {}

(* The checks of the reactive close are chosen so that it does not         *)
(* "incorrectly close the run out from under a turn that had already       *)
(* begun", and "that turn's own eventual `agent.ended` is what correctly   *)
(* re-triggers this" (lifecycle.ts:183-189): but the end of a turn may be  *)
(* the end of one of two.                                                  *)
ClosesUnderNoTurn ==
    [][~run.closing /\ run'.closing /\ (\A d \in Deletes : del'[d].pc = del[d].pc)
       => \A a \in 1 .. n' : turns'[a] = 0]_closeVars

(* A second agent.released for an agent "would not be" a no-op, and is     *)
(* avoided (finalizeRun's comment).                                        *)
ReleasedOnce == \A a \in Members : released[a] <= 1

(* "a second DELETE on an already-closed run is a clean no-op"             *)
(* (deleteRun's comment): run.closed is not emitted again.                 *)
ClosedStaysClosed == run.events <= 1

(* "By the time this runs, every member is terminal by construction"       *)
(* (finalizeRun's comment): at the claim every member has ended.           *)
ClaimFindsAllEnded ==
    [][~run.closing /\ run'.closing => \A a \in 1 .. n' : outcome'[a] # "none"]_closeVars

(* "A member that's already ended ... is left alone" (deleteRun's comment):*)
(* a success is not turned into an abort.                                  *)
SuccessStands ==
    [][\A a \in Members : outcome[a] = "success" => outcome'[a] # "aborted"]_closeVars

(* With closeWhen "quiescent" the run closes itself once every agent in it *)
(* has ended and has nothing left to deliver (docs, http-api.mdx).         *)
QuiescentRunCloses ==
    mix.closeWhen = "quiescent" /\ quiescent(state, inbox, n)
        ~> run.closed \/ ~quiescent(state, inbox, n)
=============================================================================
