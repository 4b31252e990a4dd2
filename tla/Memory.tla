-------------------------------- MODULE Memory --------------------------------
(***************************************************************************)
(* The facts of one resource (packages/memory/src/memory.ts,               *)
(* compaction.ts; adapters/sqlite-memory/src/semantic.ts): they are        *)
(* remembered, compacted now and then, with a summary of what is dropped,  *)
(* and copied to the resource of a forked agent. A row of a fact and its   *)
(* row in the vector index are written one after the other. The calls of a *)
(* program interleave at every await.                                      *)
(*                                                                         *)
(* Outside src/: the embeddings provider, which may fail or answer without *)
(* a vector, and the summarizer.                                           *)
(***************************************************************************)
EXTENDS Naturals, Sequences, FiniteSets, FiniteSetsExt

CONSTANTS
    Calls,     \* the calls of remember(), compactSemanticMemory() and fork()
    FactMixes  \* what the initial states choose from: the kind of each call, the options of
               \* autoCompact, the ticks of the clock, and the faults

VARIABLES
    factMix,    \* the mix that was chosen, with the ticks and faults that are left
    factClock,  \* Date.now()
    made,       \* every fact there ever was, in order: its scope, rememberedAt, and the calls
                \* of remember() whose content it holds
    facts,      \* the rows of alineo_semantic_memory
    index,      \* the rows of the vector index
    vec,        \* vecAvailable
    sized,      \* vecDimensions is known to this process
    factCount,  \* rememberCounts
    factPc,     \* where each call is
    todo,       \* what it has listed: the facts to remove, or to copy
    owed,       \* history: the remembered calls when a fork began
    blanked,    \* history: a summary or a copy was left out for want of a vector
    factTorn    \* history: the facts whose two rows were not both written, or both removed

factStore == <<made, facts, index, sized, factTorn>>
memoryVars == <<factMix, factClock, factStore, vec, factCount, factPc, todo, owed, blanked>>

MixOfMemory ==
    [kind : [Calls -> {"none", "remember", "compact", "fork"}], auto : BOOLEAN, checkEvery : Nat,
     maxFacts : Nat, maxAge : Nat, summarize : BOOLEAN, ticks : Nat,
     faults : [{"embed", "blank", "summarize", "crash", "unloaded"} -> Nat]]

MemoryConstants == IsFiniteSet(Calls) /\ "parent" \notin Calls /\ FactMixes \subseteq MixOfMemory

ASSUME MemoryAssumption == MemoryConstants

Kind(c) == factMix.kind[c]
FactFault(f) == factMix.faults[f] > 0 /\ factMix' = [factMix EXCEPT !.faults[f] = @ - 1]
FactGoto(c, at) == factPc' = [factPc EXCEPT ![c] = at]

Facts(scope) == {f \in facts : made[f].scope = scope}
Holds(fs) == UNION {made[f].of : f \in fs}

-----------------------------------------------------------------------------
(* Rows for facts of the scope, which hold what the sets in `contents' say.  *)
Write(scope, contents) ==
    LET new == (Len(made) + 1)..(Len(made) + Len(contents))
    IN  /\ made' = made \o [i \in DOMAIN contents |->
                              [scope |-> scope, at |-> factClock, of |-> contents[i]]]
        /\ facts' = facts \cup new
        /\ index' = IF vec THEN index \cup new ELSE index
        /\ sized' = (sized \/ (vec /\ new # {}))
        /\ factTorn' = IF vec THEN factTorn ELSE factTorn \cup new

(* Memory.remember(): the provider's, then maybe a compaction of its own.    *)
FactBegins(c) ==
    /\ factPc[c] = "idle" /\ Kind(c) # "none"
    /\ FactGoto(c, IF Kind(c) = "remember" THEN "embed" ELSE "list")
    /\ owed' = [owed EXCEPT ![c] = IF Kind(c) = "fork" THEN Holds(Facts("parent")) ELSE {}]
    /\ UNCHANGED <<factMix, factClock, factStore, vec, factCount, todo, blanked>>

CheckEvery == Max({1, factMix.checkEvery})

Counted(c) ==
    /\ factCount' = IF factMix.auto THEN factCount + 1 ELSE factCount
    /\ FactGoto(c, IF factMix.auto /\ factCount' % CheckEvery = 0 THEN "list" ELSE "done")

Remembered(c) ==
    /\ factPc[c] = "embed"
    /\ \/ Write("parent", << {c} >>) /\ UNCHANGED factMix
       \/ FactFault("blank") /\ UNCHANGED factStore
    /\ Counted(c)
    /\ UNCHANGED <<factClock, vec, todo, owed, blanked>>

-----------------------------------------------------------------------------
(* compactPrunable()                                                         *)

Aged(fs) == {f \in fs : factMix.maxAge > 0 /\ factClock - made[f].at > factMix.maxAge}

(* Mutant: the list is cut at its other end.                                 *)
NewestFirst(fs) ==
    {s \in SUBSET fs : /\ Cardinality(fs \ s) = Min({factMix.maxFacts, Cardinality(fs)})
                       /\ \A f \in s, g \in fs \ s : made[f].at >= made[g].at}

(* Of facts of the same age any may be dropped: the order of listAll() is    *)
(* unspecified.                                                              *)
Oldest(fs) ==
    {s \in SUBSET fs : /\ Cardinality(fs \ s) = Min({factMix.maxFacts, Cardinality(fs)})
                       /\ \A f \in s, g \in fs \ s : made[f].at <= made[g].at}

Listed(c) ==
    LET all == Facts("parent")
        rest == all \ Aged(all)
    IN  /\ factPc[c] = "list" /\ Kind(c) # "fork"
        /\ \E excess \in Oldest(rest) :
              /\ todo' = [todo EXCEPT ![c] = Aged(all) \cup excess]
              /\ FactGoto(c, IF todo'[c] = {} THEN "done"
                         ELSE IF factMix.summarize THEN "summarize" ELSE "forget")
        /\ UNCHANGED <<factMix, factClock, factStore, vec, factCount, owed, blanked>>

Summarized(c) ==
    /\ factPc[c] = "summarize"
    /\ FactGoto(c, "consolidate")
    /\ UNCHANGED <<factMix, factClock, factStore, vec, factCount, todo, owed, blanked>>

(* A summary of all that goes is remembered, or left out without a word.     *)
Consolidated(c) ==
    /\ factPc[c] = "consolidate"
    /\ \/ Write("parent", << Holds(todo[c]) >>) /\ UNCHANGED <<factMix, blanked>>
       \/ FactFault("blank") /\ blanked' = TRUE /\ UNCHANGED factStore
    /\ FactGoto(c, "forget")
    /\ UNCHANGED <<factClock, vec, factCount, todo, owed>>

(* forget(): the rows of the index are found by the rows of the facts.       *)
Forget(c) ==
    /\ facts' = facts \ todo[c]
    /\ index' = IF vec THEN index \ (todo[c] \cap facts) ELSE index
    /\ factTorn' = IF vec THEN factTorn ELSE factTorn \cup (todo[c] \cap facts)

Forgotten(c) ==
    /\ factPc[c] = "forget"
    /\ Forget(c)
    /\ FactGoto(c, "done")
    /\ todo' = [todo EXCEPT ![c] = {}]
    /\ UNCHANGED <<factMix, factClock, made, sized, vec, factCount, owed, blanked>>

-----------------------------------------------------------------------------
(* Memory.fork()                                                             *)
ForkListed(c) ==
    /\ factPc[c] = "list" /\ Kind(c) = "fork"
    /\ todo' = [todo EXCEPT ![c] = Facts("parent")]
    /\ FactGoto(c, "copy")
    /\ UNCHANGED <<factMix, factClock, factStore, vec, factCount, owed, blanked>>

(* rememberMany(), in one transaction, of the facts that have a vector.      *)
Copied(c) ==
    /\ factPc[c] = "copy"
    /\ \E fs \in {todo[c]} \cup {todo[c] \ {f} : f \in todo[c]} :
          /\ IF fs = todo[c] THEN UNCHANGED <<factMix, blanked>>
                             ELSE FactFault("blank") /\ blanked' = TRUE
          /\ Write(c, [i \in 1..Cardinality(fs) |->
                         made[CHOOSE f \in fs : Cardinality({g \in fs : g <= f}) = i].of])
    /\ FactGoto(c, "done")
    /\ todo' = [todo EXCEPT ![c] = {}]
    /\ UNCHANGED <<factClock, vec, factCount, owed>>

-----------------------------------------------------------------------------
(* The embeddings provider or the summarizer fails, and the call with it.    *)
FactFails(c) ==
    /\ \/ factPc[c] \in {"embed", "consolidate", "copy"} /\ FactFault("embed")
       \/ factPc[c] = "summarize" /\ FactFault("summarize")
    /\ FactGoto(c, "failed")
    /\ UNCHANGED <<factClock, factStore, vec, factCount, todo, owed, blanked>>

(* Only the first of two statements ran: remember(), the call's own or that  *)
(* of its summary, has written the fact, forget() removed the index rows.    *)
TornWrite(of) ==
    /\ made' = Append(made, [scope |-> "parent", at |-> factClock, of |-> of])
    /\ facts' = facts \cup {Len(made) + 1}
    /\ factTorn' = factTorn \cup {Len(made) + 1}
    /\ UNCHANGED index

TornForget(c) ==
    /\ index' = index \ (todo[c] \cap facts)
    /\ factTorn' = factTorn \cup (todo[c] \cap facts)
    /\ UNCHANGED <<made, facts>>

(* The process dies, maybe between two statements, and another opens the     *)
(* file, in which the extension loads or not.                                *)
FactCrash ==
    /\ FactFault("crash")
    /\ \/ UNCHANGED <<made, facts, index, factTorn>>
       \/ /\ vec
          /\ \E c \in Calls :
                \/ factPc[c] = "embed" /\ TornWrite({c})
                \/ factPc[c] = "consolidate" /\ TornWrite(Holds(todo[c]))
                \/ factPc[c] = "forget" /\ TornForget(c)
    /\ \/ vec' = TRUE
       \/ vec' = FALSE /\ factMix.faults["unloaded"] > 0
    /\ sized' = FALSE /\ factCount' = 0
    /\ factPc' = [c \in Calls |->
                    IF factPc[c] \in {"idle", "done", "failed"} THEN factPc[c] ELSE "failed"]
    /\ UNCHANGED <<factClock, todo, owed, blanked>>

FactTick ==
    /\ factMix.ticks > 0 /\ factMix' = [factMix EXCEPT !.ticks = @ - 1]
    /\ factClock' = factClock + 1
    /\ UNCHANGED <<factStore, vec, factCount, factPc, todo, owed, blanked>>

MemoryInit ==
    /\ factMix \in FactMixes
    /\ factClock = 0 /\ made = <<>> /\ facts = {} /\ index = {}
    /\ vec = TRUE /\ sized = FALSE /\ factCount = 0
    /\ factPc = [c \in Calls |-> "idle"] /\ todo = [c \in Calls |-> {}]
    /\ owed = [c \in Calls |-> {}] /\ blanked = FALSE /\ factTorn = {}

MemoryNext ==
    \/ \E c \in Calls :
          \/ FactBegins(c) \/ Remembered(c) \/ Listed(c) \/ Summarized(c) \/ Consolidated(c)
          \/ Forgotten(c) \/ ForkListed(c) \/ Copied(c) \/ FactFails(c)
    \/ FactCrash \/ FactTick

MemorySpec == MemoryInit /\ [][MemoryNext]_memoryVars

-----------------------------------------------------------------------------
(* Every variable has its type.                                              *)
MemoryTypeOK ==
    /\ \A f \in DOMAIN made :
          made[f] \in [scope : {"parent"} \cup Calls, at : 0..factClock, of : SUBSET Calls]
    /\ facts \subseteq DOMAIN made /\ index \subseteq DOMAIN made /\ factTorn \subseteq DOMAIN made
    /\ vec \in BOOLEAN /\ sized \in BOOLEAN /\ factCount \in Nat
    /\ factPc \in [Calls -> {"idle", "embed", "list", "summarize", "consolidate", "forget", "copy",
                         "done", "failed"}]
    /\ todo \in [Calls -> SUBSET DOMAIN made]

(* Compactions that overlap do not drop more than one of them would: a fact  *)
(* with fewer than maxFacts as new as itself, and not too old, is there      *)
(* (compaction.ts:70-90).                                                    *)
NewestAreKept ==
    LET parents == {f \in DOMAIN made : made[f].scope = "parent"}
    IN  \A f \in parents \ facts :
           \/ Cardinality({g \in parents \ {f} : made[g].at >= made[f].at}) >= factMix.maxFacts
           \/ factMix.maxAge > 0 /\ factClock - made[f].at > factMix.maxAge

(* With a summarizer nothing that was remembered is lost, whatever overlaps  *)
(* and whoever dies in between, and a fork has all that was there when it    *)
(* began (compaction.ts:92-106, memory.ts:167-192).                          *)
NothingIsLost ==
    factMix.summarize /\ ~blanked =>
        /\ Holds({f \in DOMAIN made : made[f].scope = "parent"}) \subseteq Holds(Facts("parent"))
        /\ \A c \in Calls :
              Kind(c) = "fork" /\ factPc[c] = "done" => owed[c] \subseteq Holds(Facts(c))

(* Whatever dies or overlaps, a fact is in the index just when it is there,  *)
(* but for those whose own two statements were cut in two, or made without   *)
(* the extension: no other fact is ever missed, or found when it is gone     *)
(* (semantic.ts:133-309).                                                    *)
IndexIsFacts == \A f \in DOMAIN made \ factTorn : f \in index <=> f \in facts

FactsAreKept == NewestAreKept /\ NothingIsLost /\ IndexIsFacts

-----------------------------------------------------------------------------
(* What does not hold: see the README.                                       *)

(* "still correct" (semantic.ts:68): what was remembered can be recalled.    *)
RecallSeesAll == vec /\ sized => facts \subseteq index

(* "consolidates information instead of throwing it away" (compaction.ts:18).*)
SummariesAreKept == factMix.summarize =>
    Holds({f \in DOMAIN made : made[f].scope = "parent"}) \subseteq Holds(Facts("parent"))

(* "Drop the oldest facts beyond this count" (compaction.ts:10).             *)
CountIsKept == (\A c \in Calls : factPc[c] \in {"idle", "done"}) /\ factMix.auto /\ CheckEvery = 1
    => Cardinality(Facts("parent")) <= factMix.maxFacts
=============================================================================
