------------------------------- MODULE Gateway ------------------------------
(***************************************************************************)
(* Chat completions before and after the stream: the handler of            *)
(* gateway/app.py with its preflight (lane_a.py, router.py), the semantic  *)
(* cache (cache.py), the session map that rework is attributed with, the   *)
(* capacity fallback and the shadow replays.  Requests overlap wherever    *)
(* the handler awaits; what happens inside a stream is StreamRequest's     *)
(* and appears here as the way it ended.                                   *)
(*                                                                         *)
(* A prompt stands for all that _cache_scope_digest covers: the body, the  *)
(* tenant and the role.  Its question is the last user message.            *)
(***************************************************************************)
EXTENDS Integers, Sequences, FiniteSets, FiniteSetsExt, SequencesExt

CONSTANTS
    Requests,
    Sessions,
    Prompts,       \* records [question, impact, model, attached, role]
    Detectors,     \* of the preflight
    Ceiling,       \* buffer_above, strong_model_above and the cache's max_stakes
    Capacity,      \* entries the cache keeps
    MaxSessions,   \* turns the session map keeps
    MaxPolicies,   \* bound: changes of the policy the cache is stamped with
    MaxShadows     \* bound: shadow replays under way

NoSession == "none"

ASSUME GatewayAssumption ==
    /\ NoSession \notin Sessions
    /\ \A p \in Prompts :
          /\ p.question \subseteq {"long", "multi_part", "comparative", "conditional", "numeric"}
          /\ p.impact \in Nat /\ p.attached \in BOOLEAN
          /\ p.model \in {"auto", "cheap", "strong", "other"}
    /\ Ceiling \in Nat /\ Capacity \in Nat \ {0} /\ MaxSessions \in Nat \ {0}
    /\ MaxPolicies \in Nat /\ MaxShadows \in Nat

VARIABLES
    phase,     \* where each request is
    local,     \* what its handler keeps: its input, what it read when it came,
               \* the preflight's result (lane) and the model that serves it
    cache,     \* _entries, the least recently used first
    policy,    \* policy_version of the cache
    turns,     \* rework_sessions, in insertion order
    shadows,   \* shadow_tasks
    armed,     \* force directives (stub engine)
    rows,      \* requests ledger.record was called for
    edge,      \* history: the last rework edge that was recorded
    hit,       \* history: the last cache hit
    last       \* history: the request that answered last in each session

vars == <<phase, local, cache, policy, turns, shadows, armed, rows, edge, hit, last>>

NoRequest == "none"
NoLane    == <<>>
NoModel   == "none"
Phases == {"new", "preflight", "calling", "streaming", "replaying",
           "blocked", "ended", "refused", "gone"}

Init ==
    /\ phase = [r \in Requests |-> "new"] /\ local = [r \in Requests |-> <<>>]
    /\ cache = <<>> /\ policy = 0 /\ turns = <<>> /\ shadows = {} /\ armed = {}
    /\ rows = {} /\ edge = <<>> /\ hit = <<>>
    /\ last = [s \in Sessions |-> NoRequest]

\* The handler goes on to p with what it keeps, or leaves with nothing.
Move(r, p, kept) ==
    phase' = [phase EXCEPT ![r] = p] /\ local' = [local EXCEPT ![r] = kept]
Leave(r, p) == Move(r, p, <<>>)

-----------------------------------------------------------------------------
(* The preflight                                                            *)

\* What each detector does within the deadline. One that raises or is late is
\* dropped; "flags" is an injection score of 0.6 or more.
Outcomes == {"clear", "flags", "rule", "raises", "late"}

\* HeuristicDifficulty.score, in hundredths. The question is the set of what
\* makes it hard.
Difficulty(question, found, attempted) ==
    LET weight == [long |-> 100, multi_part |-> 80, comparative |-> 90,
                   conditional |-> 50, numeric |-> 70]
    IN  Max({weight[x] : x \in question} \cup {0}
            \cup IF ~found /\ attempted THEN {100} ELSE {})

DifficultyThreshold == 65

\* Router.route: stakes first, and only then how hard the question looks.
Routed(prompt, found, attempted) ==
    IF \/ prompt.impact >= Ceiling
       \/ Difficulty(prompt.question, found, attempted) >= DifficultyThreshold
    THEN "strong" ELSE "cheap"

\* LaneA._route: a flag outranks the router. retrieved_by is "none", and retrieval
\* taken for not attempted, whenever nothing was found.
Tier(prompt, flagged, context) ==
    LET found == context # "none"
    IN  IF flagged THEN "strong" ELSE Routed(prompt, found, found)

\* LaneA.run: retrieval gives `found` if the caller attached nothing.
Preflight(prompt, outcome, found) ==
    LET rules   == {d \in Detectors : outcome[d] = "rule"}
        flagged == rules # {} \/ \E d \in Detectors : outcome[d] = "flags"
        context == IF prompt.attached THEN "caller" ELSE found
    IN  [rules    |-> rules # {},
         degraded |-> \E d \in Detectors : outcome[d] \in {"raises", "late"},
         context  |-> context,
         buffered |-> flagged \/ prompt.impact >= Ceiling,
         tier     |-> Tier(prompt, flagged, context)]

\* _select_provider: an explicit model is honoured, an unknown one passed on.
SelectedModel(prompt, tier) == IF prompt.model = "auto" THEN tier ELSE prompt.model

\* _capacity_fallback_target, for an error of the right shape
MayFallBack(r) == local[r].lane.tier = "strong" /\ local[r].model = "strong"

-----------------------------------------------------------------------------
(* The semantic cache                                                       *)

\* (mutant: the context is not compared)
ValidContextIgnored(entry, prompt, context) ==
    entry.scope = prompt /\ entry.policy = policy

Valid(entry, prompt, context) ==
    entry.scope = prompt /\ entry.context = context /\ entry.policy = policy

\* SemanticCache.lookup: the place of the entry that answers, or 0. All entries of
\* one question are as similar to it, so that the first one wins.
Lookup(prompt, context) ==
    IF prompt.impact > Ceiling THEN 0
    ELSE SelectInSeq(cache, LAMBDA e :
             e.scope.question = prompt.question /\ Valid(e, prompt, context))

SameKey(e, f) == e.scope = f.scope /\ e.context = f.context

\* _cache_lookup: an embedding that fails is a miss.
CacheLookup(prompt, context) == {0, Lookup(prompt, context)}

\* SemanticCache.store: the entry of the same key is replaced, the least recently
\* used one goes.
Stored(entry) ==
    LET i    == SelectInSeq(cache, LAMBDA e : SameKey(e, entry))
        kept == Append(IF i = 0 THEN cache ELSE RemoveAt(cache, i), entry)
    IN  IF Len(kept) > Capacity THEN Tail(kept) ELSE kept

Touched(i) == Append(RemoveAt(cache, i), cache[i])

\* _store_cache: what a stream leaves in the cache when it ends.
StoreAnswer(r, answer, served, degraded) ==
    LET kept == local[r]
    IN  cache' = IF \/ degraded \/ ~answer.text \/ answer.verdicts # "passed"
                    \/ kept.prompt.impact > Ceiling
                 THEN cache
                 ELSE Stored([scope |-> kept.prompt, context |-> kept.lane.context,
                              policy |-> policy, model |-> served,
                              source |-> [answer |-> answer, tier |-> kept.lane.tier,
                                          degraded |-> kept.lane.degraded]])

-----------------------------------------------------------------------------
(* Sessions and rework                                                      *)

PreviousTurn(s) ==
    LET i == SelectInSeq(turns, LAMBDA t : t.session = s)
    IN  IF i = 0 THEN NoRequest ELSE turns[i].request

\* rework_sessions[session] = ...: a session that is there keeps its place, and
\* the oldest place goes when there are too many.
Remembered(s, r) ==
    LET i   == SelectInSeq(turns, LAMBDA t : t.session = s)
        all == IF i = 0 THEN Append(turns, [session |-> s, request |-> r])
                        ELSE [turns EXCEPT ![i].request = r]
    IN  IF Len(all) > MaxSessions THEN Tail(all) ELSE all

\* (mutant: the previous turn is looked up when the request ends)
AttributeLate(r) ==
    LET kept == local[r]
    IN  edge' = IF kept.session = NoSession \/ PreviousTurn(kept.session) = NoRequest THEN edge
                ELSE [child |-> r, parent |-> PreviousTurn(kept.session), latest |-> kept.latest]

\* _live_rework_edges, for a request that asks the same again: it is charged to
\* the turn that was the previous one when the request came.
Attribute(r) ==
    LET kept == local[r]
    IN  edge' = IF kept.previous = NoRequest THEN edge
                ELSE [child |-> r, parent |-> kept.previous, latest |-> kept.latest]

RememberTurn(r) ==
    LET s == local[r].session
    IN  IF s = NoSession THEN UNCHANGED <<turns, last>>
        ELSE turns' = Remembered(s, r) /\ last' = [last EXCEPT ![s] = r]

-----------------------------------------------------------------------------
(* The handler                                                              *)

\* Up to the first await: what it reads of the session it reads now.
Arrive(r) ==
    /\ phase[r] = "new"
    /\ \E p \in Prompts, s \in Sessions \cup {NoSession} :
          Move(r, "preflight",
               [prompt |-> p, session |-> s,
                previous |-> IF s = NoSession THEN NoRequest ELSE PreviousTurn(s),
                latest   |-> IF s = NoSession THEN NoRequest ELSE last[s],
                lane     |-> NoLane, model |-> NoModel])
    /\ armed' = armed \cup {r}
    /\ UNCHANGED <<cache, policy, turns, shadows, rows, edge, hit, last>>

\* A hard rule blocks before any provider sees the prompt.
Block(r) ==
    /\ Leave(r, "blocked") /\ rows' = rows \cup {r} /\ armed' = armed \ {r}
    /\ UNCHANGED <<cache, hit>>

Hit(r, i, kept) ==
    /\ Move(r, "replaying", kept) /\ cache' = Touched(i)
    /\ hit' = [entry |-> cache[i], prompt |-> kept.prompt, context |-> kept.lane.context,
               policy |-> policy]
    /\ UNCHANGED <<rows, armed>>

CallProvider(r, p, kept) ==
    /\ Move(r, p, [kept EXCEPT !.model = SelectedModel(kept.prompt, kept.lane.tier)])
    /\ UNCHANGED <<cache, rows, armed, hit>>

\* The preflight is over; up to the provider the handler does not wait. Only a
\* streamed request asks the cache.
PreflightEnds(r) ==
    /\ phase[r] = "preflight"
    /\ \E outcome \in [Detectors -> Outcomes], found \in {"index", "none"} :
          LET result == Preflight(local[r].prompt, outcome, found)
              kept   == [local[r] EXCEPT !.lane = result]
          IN  \/ result.rules /\ Block(r)
              \/ ~result.rules /\ CallProvider(r, "calling", kept)
              \/ /\ ~result.rules
                 /\ \E i \in CacheLookup(kept.prompt, kept.lane.context) :
                       \/ i = 0 /\ CallProvider(r, "streaming", kept)
                       \/ i # 0 /\ Hit(r, i, kept)
    /\ UNCHANGED <<policy, turns, shadows, edge, last>>

\* _schedule_shadow: some strong answers are asked again of the cheap tier.
Shadow(r, text) ==
    \/ UNCHANGED shadows
    \/ /\ local[r].lane.tier = "strong" /\ text /\ Cardinality(shadows) < MaxShadows
       /\ shadows' = shadows \cup {r}

Recorded(r) == rows' = rows \cup {r} /\ armed' = armed \ {r}

\* complete(), or its one retry on the cheap tier, answers.
CompletionEnds(r) ==
    /\ phase[r] = "calling" /\ Leave(r, "ended")
    /\ Attribute(r) /\ RememberTurn(r) /\ Shadow(r, TRUE) /\ Recorded(r)
    /\ UNCHANGED <<cache, policy, hit>>

\* The provider fails and there is no other to ask.
CompletionFails(r) ==
    /\ phase[r] = "calling" /\ Leave(r, "refused")
    /\ armed' = armed \ {r}
    /\ UNCHANGED <<cache, policy, turns, shadows, rows, edge, hit, last>>

\* The cheap tier fails as well: the exception leaves the handler.
FallbackFails(r) ==
    /\ phase[r] = "calling" /\ MayFallBack(r) /\ Leave(r, "refused")
    /\ UNCHANGED <<cache, policy, turns, shadows, armed, rows, edge, hit, last>>

\* What a stream comes to: the verdicts on its sentences, whether it has text,
\* and whether it calls a tool.
Answers == {a \in [verdicts : {"passed", "touched", "none"}, text : BOOLEAN, tools : BOOLEAN] :
                ~a.text => a.verdicts = "none"}

\* The finally block of _stream_response, at the end or after a disconnect.
StreamEnds(r) ==
    /\ phase[r] = "streaming" /\ Leave(r, "ended")
    /\ \E answer \in Answers, fell \in {FALSE, MayFallBack(r)} :
          /\ Shadow(r, answer.text)
          /\ StoreAnswer(r, answer, IF fell THEN "cheap" ELSE local[r].model,
                         local[r].lane.degraded \/ fell)
    /\ Attribute(r) /\ RememberTurn(r) /\ Recorded(r)
    /\ UNCHANGED <<policy, hit>>

\* _cached_stream_response after its last yield
ReplayEnds(r) ==
    /\ phase[r] = "replaying" /\ Leave(r, "ended")
    /\ Attribute(r) /\ RememberTurn(r) /\ Recorded(r)
    /\ UNCHANGED <<cache, policy, shadows, hit>>

\* The client goes away at a yield that no finally block protects: any of a
\* replay, or the first of a stream.
GoesAway(r) ==
    /\ phase[r] \in {"replaying", "streaming"} /\ Leave(r, "gone")
    /\ UNCHANGED <<cache, policy, turns, shadows, armed, rows, edge, hit, last>>

\* _run_shadow fails, has nothing to compare, or is judged and written.
ShadowEnds(r) ==
    /\ r \in shadows /\ shadows' = shadows \ {r}
    /\ UNCHANGED <<phase, local, cache, policy, turns, armed, rows, edge, hit, last>>

\* The cache is stamped with another policy; what it holds stays.
PolicyChanges ==
    /\ policy < MaxPolicies /\ policy' = policy + 1
    /\ UNCHANGED <<phase, local, cache, turns, shadows, armed, rows, edge, hit, last>>

Handle(r) ==
    \/ PreflightEnds(r) \/ CompletionEnds(r) \/ CompletionFails(r) \/ FallbackFails(r)
    \/ StreamEnds(r) \/ ReplayEnds(r)

Next ==
    \/ PolicyChanges
    \/ \E r \in Requests : Arrive(r) \/ Handle(r) \/ GoesAway(r) \/ ShadowEnds(r)

Spec == Init /\ [][Next]_vars

-----------------------------------------------------------------------------
(* Properties                                                               *)

\* A replayed answer was given to the same prompt with the same retrieved
\* context, under the policy of now and below the ceiling, by the model that was
\* asked, by a request that lost no detector and had every sentence passed
\* (SemanticCache.lookup and store, _store_cache).
ReplaysAreValid ==
    hit # <<>> =>
        LET e == hit.entry
        IN  /\ e.scope = hit.prompt /\ e.context = hit.context /\ e.policy = hit.policy
            /\ hit.prompt.impact <= Ceiling
            /\ e.source.answer.text /\ e.source.answer.verdicts = "passed"
            /\ ~e.source.degraded
            /\ e.model = SelectedModel(e.scope, e.source.tier)

\* Rework is charged to the turn that had answered last in the session when the
\* request came, however the requests of a session overlap (previous_turn).
ReworkNamesLatestTurn == edge # <<>> => edge.parent = edge.latest

\* What is replayed is all that was answered: an answer that called a tool is not
\* replayed as its text alone (_cached_stream_response: "Serve a safe cache hit
\* while preserving the observable contract").
ReplaysAreWhole == hit # <<>> => ~hit.entry.source.answer.tools
=============================================================================
