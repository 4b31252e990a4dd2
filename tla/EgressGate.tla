------------------------------ MODULE EgressGate ------------------------------
(***************************************************************************)
(* The approval gate of an agent's outbound network access                 *)
(* (packages/agent/src/agent/egress-approval.ts). A held host is denied at *)
(* the sidecar, and its credential is not in the vault. The sidecar        *)
(* reports a denied query to the gate, the gate asks the program, and on   *)
(* approval it opens the host and registers the credential: for good, or   *)
(* until a stream of the agent ends (session-control.ts, instrument()).    *)
(*                                                                         *)
(* Outside src/: the sidecar, its rules and its vault, which refuses a     *)
(* credential for a host that is denied, and its reports, which may come   *)
(* late; and the program, which answers when it likes.                     *)
(***************************************************************************)
EXTENDS Naturals, FiniteSets

CONSTANTS
    Hosts,     \* the held hosts, each with one credential
    Streams,   \* prompt() and bash() streams of the agent
    GateMixes, \* what the initial states choose from: the hosts and streams there are, whether
               \* streams overlap, and the bounds on expiries, late reports and faults
    None

VARIABLES
    gateMix,   \* the mix that was chosen, with what is left of its bounds
    rule,      \* sidecar: hosts that are allowed
    vault,     \* sidecar: hosts whose credential is registered
    reports,   \* reports on their way to the gate
    held,      \* gate.held
    seen,      \* gate.seen, less those older than DEDUP_TTL_MS
    ask,       \* of each host, where onDenied() is; gate.inFlight are those not "none"
    once,      \* gate.onceApproved
    stream,    \* where each stream is
    revert,    \* of each stream, the hosts its endTurn() has still to revert
    removed,   \* of each stream, whether the credential of the one in hand is removed
    handing,   \* of each stream, the host in hand
    broken     \* history: hosts of which a grant or a reversal failed halfway

sidecar == <<rule, vault, reports>>
gate == <<held, seen, ask, once>>
ends == <<stream, revert, removed, handing>>
gateVars == <<gateMix, sidecar, gate, ends, broken>>

Bound(b) == gateMix.left[b] > 0 /\ gateMix' = [gateMix EXCEPT !.left[b] = @ - 1]
InFlight == {h \in Hosts : ask[h] # "none"}

-----------------------------------------------------------------------------
(* The agent and the sidecar *)

Opens(s) ==
    /\ s \in gateMix.streams /\ stream[s] = "new"
    /\ gateMix.overlap \/ \A t \in Streams : stream[t] \in {"new", "ended"}
    /\ stream' = [stream EXCEPT ![s] = "open"]
    /\ UNCHANGED <<gateMix, sidecar, gate, revert, removed, handing, broken>>

(* A query for a denied host, during a stream. *)
Query(h) ==
    /\ h \in gateMix.hosts \ (rule \cup reports)
    /\ \E s \in Streams : stream[s] = "open"
    /\ reports' = reports \cup {h}
    /\ UNCHANGED <<gateMix, rule, vault, gate, ends, broken>>

-----------------------------------------------------------------------------
(* onDenied() *)

(* The report comes once, or is sent again. *)
Denied(h) ==
    /\ h \in reports
    /\ \/ reports' = reports \ {h} /\ UNCHANGED gateMix
       \/ Bound("late") /\ UNCHANGED reports
    /\ IF h \in held /\ h \notin seen /\ ask[h] = "none"
       THEN seen' = seen \cup {h} /\ ask' = [ask EXCEPT ![h] = "asked"]
       ELSE UNCHANGED <<seen, ask>>
    /\ UNCHANGED <<rule, vault, held, once, ends, broken>>

(* DEDUP_TTL_MS *)
Expires(h) ==
    /\ h \in seen /\ Bound("expiries")
    /\ seen' = seen \ {h}
    /\ UNCHANGED <<sidecar, held, ask, once, ends, broken>>

(* The handler answers, or throws, which is a denial. *)
Decide(h) ==
    /\ ask[h] = "asked"
    /\ \E d \in {"none", "opening once", "opening always"} : ask' = [ask EXCEPT ![h] = d]
    /\ UNCHANGED <<gateMix, sidecar, held, seen, once, ends, broken>>

Moves(h, here, there) == ask[h] = here /\ ask' = [ask EXCEPT ![h] = there]

Open(h) ==
    /\ \/ Moves(h, "opening once", "binding once")
       \/ Moves(h, "opening always", "binding always")
    /\ rule' = rule \cup {h}
    /\ UNCHANGED <<gateMix, vault, reports, held, seen, once, ends, broken>>

(* Mutant: an approval for one turn is not written down. *)
BindUnnoted(h) ==
    /\ h \in rule
    /\ Moves(h, "binding once", "none") \/ Moves(h, "binding always", "none")
    /\ held' = IF ask[h] = "binding always" THEN held \ {h} ELSE held
    /\ vault' = vault \cup {h}
    /\ UNCHANGED <<gateMix, rule, reports, seen, once, ends, broken>>

Bind(h) ==
    /\ h \in rule
    /\ \/ Moves(h, "binding once", "none") /\ once' = once \cup {h} /\ UNCHANGED held
       \/ Moves(h, "binding always", "none") /\ held' = held \ {h} /\ UNCHANGED once
    /\ vault' = vault \cup {h}
    /\ UNCHANGED <<gateMix, rule, reports, seen, ends, broken>>

(* The rule or the credential cannot be set: onDenied() throws, and the      *)
(* request is resolved with the decision all the same.                       *)
GrantFails(h) ==
    /\ ask[h] \notin {"none", "asked"}
    /\ \/ ask[h] \in {"binding once", "binding always"} /\ h \notin rule /\ UNCHANGED gateMix
       \/ Bound("faults")
    /\ ask' = [ask EXCEPT ![h] = "none"]
    /\ broken' = broken \cup {h}
    /\ UNCHANGED <<sidecar, held, seen, once, ends>>

-----------------------------------------------------------------------------
(* endTurn(), when a stream is over *)

Ends(s) ==
    /\ stream[s] = "open"
    /\ stream' = [stream EXCEPT ![s] = "ending"]
    /\ revert' = [revert EXCEPT ![s] = once \cap held]
    /\ once' = {}
    /\ UNCHANGED <<gateMix, sidecar, held, seen, ask, removed, handing, broken>>

TakeUp(s, h) ==
    /\ stream[s] = "ending" /\ handing[s] = None
    /\ h \in revert[s]
    /\ handing' = [handing EXCEPT ![s] = h]
    /\ UNCHANGED <<gateMix, sidecar, gate, stream, revert, removed, broken>>

(* The credential first; a failure of that is ignored. *)
RemoveCredential(s) ==
    /\ handing[s] \in Hosts /\ ~removed[s]
    /\ \/ vault' = vault \ {handing[s]} /\ UNCHANGED <<gateMix, broken>>
       \/ Bound("faults") /\ broken' = broken \cup {handing[s]} /\ UNCHANGED vault
    /\ removed' = [removed EXCEPT ![s] = TRUE]
    /\ UNCHANGED <<rule, reports, gate, stream, revert, handing>>

PutDown(s) == handing' = [handing EXCEPT ![s] = None] /\ removed' = [removed EXCEPT ![s] = FALSE]

Deny(s) ==
    /\ handing[s] \in Hosts /\ removed[s]
    /\ rule' = rule \ {handing[s]}
    /\ seen' = seen \ {handing[s]}
    /\ revert' = [revert EXCEPT ![s] = @ \ {handing[s]}]
    /\ PutDown(s)
    /\ UNCHANGED <<gateMix, vault, reports, held, ask, once, stream, broken>>

(* endTurn() throws, and what it had still to revert stays as it is. *)
DenyFails(s) ==
    /\ handing[s] \in Hosts /\ removed[s] /\ Bound("faults")
    /\ broken' = broken \cup revert[s]
    /\ revert' = [revert EXCEPT ![s] = {}]
    /\ PutDown(s)
    /\ UNCHANGED <<sidecar, gate, stream>>

Ended(s) ==
    /\ stream[s] = "ending" /\ revert[s] = {}
    /\ stream' = [stream EXCEPT ![s] = "ended"]
    /\ UNCHANGED <<gateMix, sidecar, gate, revert, removed, handing, broken>>

-----------------------------------------------------------------------------
GateInit ==
    /\ gateMix \in GateMixes
    /\ rule = {} /\ vault = {} /\ reports = {}
    /\ held = Hosts /\ seen = {} /\ once = {}
    /\ ask = [h \in Hosts |-> "none"]
    /\ stream = [s \in Streams |-> "new"]
    /\ revert = [s \in Streams |-> {}]
    /\ removed = [s \in Streams |-> FALSE]
    /\ handing = [s \in Streams |-> None]
    /\ broken = {}

Grants(h) == Open(h) \/ Bind(h) \/ GrantFails(h)
Reverts(s) ==
    \/ \E h \in Hosts : TakeUp(s, h)
    \/ RemoveCredential(s) \/ Deny(s) \/ DenyFails(s) \/ Ended(s)

GateNext ==
    \/ \E h \in Hosts : Query(h) \/ Denied(h) \/ Expires(h) \/ Decide(h) \/ Grants(h)
    \/ \E s \in Streams : Opens(s) \/ Ends(s) \/ Reverts(s)

(* Reports are delivered and calls of the sidecar return or fail. The        *)
(* program answers, and its streams end.                                     *)
GateFairness ==
    /\ \A h \in Hosts : WF_gateVars(Denied(h)) /\ WF_gateVars(Decide(h)) /\ WF_gateVars(Grants(h))
    /\ \A s \in Streams : WF_gateVars(Ends(s)) /\ WF_gateVars(Reverts(s))

GateSpec == GateInit /\ [][GateNext]_gateVars /\ GateFairness

-----------------------------------------------------------------------------
(* Every variable has its type. *)
GateTypeOK ==
    /\ rule \cup vault \cup reports \cup held \cup seen \cup once \cup broken \subseteq Hosts
    /\ ask \in [Hosts -> {"none", "asked", "opening once", "opening always",
                          "binding once", "binding always"}]
    /\ stream \in [Streams -> {"new", "open", "ending", "ended"}]
    /\ revert \in [Streams -> SUBSET Hosts] /\ removed \in [Streams -> BOOLEAN]
    /\ handing \in [Streams -> Hosts \cup {None}]

(* A host that is open is one that the gate will close, or was told to leave *)
(* open: however grants, their reversals, late reports and overlapping       *)
(* streams interleave, none is open and forgotten, unless the sidecar failed *)
(* (egress-approval.ts:177-237).                                             *)
OpenIsAccounted ==
    \A h \in rule \ broken :
        \/ h \in once \/ h \notin held
        \/ ask[h] \in {"binding once", "binding always"}
        \/ \E s \in Streams : h \in revert[s]

(* Every request that is raised is resolved, and every stream ends, whatever *)
(* the sidecar refuses (egress-approval.ts:195-237, session-control.ts:63).  *)
AllSettled == InFlight = {} /\ \A s \in Streams : stream[s] \in {"new", "ended"}
GateReturns == []<>AllSettled

-----------------------------------------------------------------------------
(* What does not hold: see the README. *)

(* "allow-once is reverted to deny when the turn ends" (examples,            *)
(* agent-egress-approval/README.md:37).                                      *)
OnceEndsWithTurn ==
    (\A s \in Streams : stream[s] \in {"new", "ended"}) => rule \cap held \subseteq broken

(* What was allowed always stays allowed. *)
AlwaysStays == [][\A h \in Hosts \ held : h \in rule => h \in rule']_gateVars

(* A credential is in the vault only while its host is open. *)
NoCredentialBehindDenial == vault \subseteq rule \cup broken
=============================================================================
