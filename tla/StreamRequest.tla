---------------------------- MODULE StreamRequest ---------------------------
(***************************************************************************)
(* One streamed chat completion: _stream_response of                       *)
(* interlock/gateway/app.py, an async generator that drives a CommitGate   *)
(* over the upstream's events, then judges the tool calls, then turns      *)
(* withheld sentences into a review hold, and in its `finally` block       *)
(* leaves the request's traces: ledger row, cache entry, shadow replay,    *)
(* tool taint.  The client may disconnect wherever the generator is        *)
(* suspended.                                                              *)
(*                                                                         *)
(* The gate is CommitGate's; this module decides when push() and finish()  *)
(* are called and what happens around them.                                *)
(***************************************************************************)
EXTENDS CommitGate

CONSTANTS
    MaxCalls    \* bound: tool calls one answer may request

ASSUME StreamAssumption == MaxCalls \in Nat /\ ~Escalates

VARIABLES
    phase,      \* where the generator is
    strong,     \* lane.tier = "strong"
    degraded,   \* lane.degraded: a Lane A detector was dropped
    touched,    \* an upstream event has arrived (completion_chars or ttft_ms)
    fellBack,   \* capacity_fallback: the cheap tier answers instead
    failed,     \* the upstream broke off (finish_reason "upstream_error")
    gap,        \* an unparseable chunk was forwarded unverified
    calls,      \* tool calls absorbed by the accumulator
    judged,     \* of those, calls the interlock has cleared
    repeats,    \* agent_tool_history: times the session asked for this one call
    toolFate,   \* "none", "released", "held" or "cut"
    holds,      \* review holds of this request in the ledger
    announced,  \* the holds whose id and token the client was sent
    done,       \* the [DONE] frame was sent
    traces,     \* ledger.record calls
    taint,      \* the request's entry in ToolInterlock._taint
    cached      \* what _store_cache stored for this answer

reqVars   == <<phase, strong, degraded>>
upVars    == <<touched, fellBack, failed, gap>>
toolVars  == <<calls, judged, repeats, toolFate>>
holdVars  == <<holds, announced>>
traceVars == <<done, traces, taint, cached>>
streamVars == <<vars, reqVars, upVars, toolVars, holdVars, traceVars>>

Phases   == {"opening", "streaming", "draining", "tools", "checking", "holding", "ending", "closed"}
LoopLimit == 3      \* repeats of one tool digest that cut an agent loop; a session
                    \* that was cut before behaves like one a repeat short of it
NoAnswer  == [sentences |-> 0, whole |-> FALSE]

\* A hold is a tool call, or the set of sentences it asks a human to review.
ToolHold         == [kind |-> "tool_call", sentences |-> {}]
ResponseHold(ss) == [kind |-> "response", sentences |-> ss]

StreamInit ==
    /\ Init
    /\ phase = "opening"
    /\ strong \in BOOLEAN /\ degraded \in BOOLEAN
    /\ touched = FALSE /\ fellBack = FALSE /\ failed = FALSE /\ gap = FALSE
    /\ calls = 0 /\ judged = 0 /\ repeats \in 0..(LoopLimit - 1) /\ toolFate = "none"
    /\ holds = {} /\ announced = {}
    /\ done = FALSE /\ traces = 0 /\ taint = TRUE /\ cached = NoAnswer

-----------------------------------------------------------------------------
(* The finally block                                                        *)

Answer == [sentences |-> closed + (IF open THEN 1 ELSE 0),
           whole |-> phase \notin {"opening", "streaming"} /\ ~failed]

\* _store_cache: only answers whose recorded decisions are all L0_pass.
Cacheable ==
    /\ ~degraded /\ ~fellBack
    /\ closed > 0 \/ open
    /\ decisions # <<>>
    /\ \A k \in DOMAIN decisions : decisions[k].action = "L0_pass"

\* The block runs without an await, whatever ended the try block.
CloseOut ==
    /\ phase' = "closed"
    /\ traces' = traces + 1
    /\ taint' = FALSE
    /\ cached' = IF Cacheable THEN Answer ELSE cached

-----------------------------------------------------------------------------
(* The upstream loop                                                        *)

\* The stakes frame is yielded before the try block is entered.
Open ==
    /\ phase = "opening"
    /\ phase' = "streaming"
    /\ UNCHANGED <<vars, strong, degraded, upVars, toolVars, holdVars, traceVars>>

\* A text event goes through gate.push(), which may first apply a verdict.
TextEvent ==
    /\ phase = "streaming"
    /\ PushCollects \/ Chunk
    /\ touched' = TRUE
    /\ UNCHANGED <<reqVars, fellBack, failed, gap, toolVars, holdVars, traceVars>>

\* A chunk that carries tool-call deltas is withheld from the client.
ToolEvent ==
    /\ phase = "streaming" /\ pc = "idle"
    /\ calls < MaxCalls
    /\ calls' = calls + 1
    /\ touched' = TRUE
    /\ UNCHANGED <<vars, reqVars, fellBack, failed, gap, judged, repeats, toolFate, holdVars, traceVars>>

\* An unparseable chunk of a buffered stream is forwarded as it is.
UnparsedEvent ==
    /\ phase = "streaming" /\ pc = "idle" /\ buffered
    /\ gap' = TRUE /\ touched' = TRUE
    /\ UNCHANGED <<vars, reqVars, fellBack, failed, toolVars, holdVars, traceVars>>

\* Leaving the loop calls gate.finish(), which returns at once if terminated.
Drain ==
    /\ phase = "streaming" /\ pc = "idle"
    /\ phase' = "draining"
    /\ IF state = "TERMINATED" THEN UNCHANGED vars ELSE Finish

UpstreamEnds ==
    /\ Drain
    /\ UNCHANGED <<strong, degraded, upVars, toolVars, holdVars, traceVars>>

UpstreamFails ==
    /\ Drain
    /\ failed' = TRUE
    /\ UNCHANGED <<strong, degraded, touched, fellBack, gap, toolVars, holdVars, traceVars>>

\* Mutant: the fallback is tried in the middle of an answer.
CapacityFallbackLate ==
    /\ phase = "streaming" /\ pc = "idle"
    /\ strong /\ ~fellBack
    /\ fellBack' = TRUE
    /\ UNCHANGED <<vars, reqVars, touched, failed, gap, toolVars, holdVars, traceVars>>

\* The strong tier failed before any event, and for the first time.
FallbackTarget == strong /\ ~touched /\ ~fellBack

\* A capacity error: the cheap tier takes over.
CapacityFallback ==
    /\ phase = "streaming" /\ pc = "idle"
    /\ FallbackTarget
    /\ fellBack' = TRUE
    /\ UNCHANGED <<vars, reqVars, touched, failed, gap, toolVars, holdVars, traceVars>>

\* Mutant: no watchdog.
GateRunsUnwatched ==
    /\ phase \in {"streaming", "draining"}
    /\ Resume
    /\ UNCHANGED <<reqVars, upVars, toolVars, holdVars, traceVars>>

\* push() and finish() resume by themselves; evaluations and watchdogs run on.
GateRuns ==
    /\ phase \in {"streaming", "draining"}
    /\ Resume \/ Watchdog
    /\ UNCHANGED <<reqVars, upVars, toolVars, holdVars, traceVars>>

EvaluationEnds ==
    /\ phase # "closed"
    /\ Evaluate
    /\ UNCHANGED <<reqVars, upVars, toolVars, holdVars, traceVars>>

Drained ==
    /\ phase = "draining" /\ pc = "idle"
    /\ phase' = "tools"
    /\ UNCHANGED <<vars, strong, degraded, upVars, toolVars, holdVars, traceVars>>

-----------------------------------------------------------------------------
(* The tool-call interlock                                                  *)

\* The next call is none the session keeps repeating, or the loop breaker has
\* not been reached, and the interlock clears it ...
CallCleared ==
    /\ phase = "tools" /\ judged < calls /\ toolFate = "none"
    /\ \/ repeats' = repeats
       \/ repeats' = repeats + 1 /\ repeats' < LoopLimit
    /\ judged' = judged + 1
    /\ UNCHANGED <<vars, reqVars, upVars, calls, toolFate, holdVars, traceVars>>

\* ... or check() freezes it and awaits persist_hold, ...
CallFrozen ==
    /\ phase = "tools" /\ judged < calls /\ toolFate = "none"
    /\ \/ repeats' = repeats
       \/ repeats' = repeats + 1 /\ repeats' < LoopLimit
    /\ phase' = "checking"
    /\ UNCHANGED <<vars, strong, degraded, upVars, calls, judged, toolFate, holdVars, traceVars>>

\* ... or its digest has come once too often.
CallCut ==
    /\ phase = "tools" /\ judged < calls /\ toolFate = "none"
    /\ repeats + 1 >= LoopLimit
    /\ repeats' = repeats + 1
    /\ toolFate' = "cut"
    /\ UNCHANGED <<vars, reqVars, upVars, calls, judged, holdVars, traceVars>>

\* Mutant: a held call is skipped and the judging goes on.
CallHeldContinues ==
    /\ phase = "checking"
    /\ holds' = holds \cup {ToolHold}
    /\ announced' = announced \cup {ToolHold}
    /\ judged' = judged + 1
    /\ phase' = "tools"
    /\ UNCHANGED <<vars, strong, degraded, upVars, calls, repeats, toolFate, traceVars>>

\* check() returns after the commit; the first hold ends the judging.
CallHeld ==
    /\ phase = "checking"
    /\ holds' = holds \cup {ToolHold}
    /\ announced' = announced \cup {ToolHold}
    /\ toolFate' = "held"
    /\ phase' = "tools"
    /\ UNCHANGED <<vars, strong, degraded, upVars, calls, judged, repeats, traceVars>>

\* All calls cleared: they are replayed as one chunk.  Held or cut: none is.
ToolsSettled ==
    /\ phase = "tools"
    /\ judged = calls \/ toolFate # "none"
    /\ toolFate' = IF calls > 0 /\ toolFate = "none" THEN "released" ELSE toolFate
    /\ phase' = "holding"
    /\ UNCHANGED <<vars, strong, degraded, upVars, calls, judged, repeats, holdVars, traceVars>>

-----------------------------------------------------------------------------
(* The response hold and the end                                            *)

HeldSentences == {decisions[k].idx : k \in {j \in DOMAIN decisions : decisions[j].action = "L4_hold"}}

\* The hold lists positions in the list of decisions, not sentence indices.
ListedSentences == {k \in DOMAIN decisions : decisions[k].action = "L4_hold"}

ResponseHeld ==
    /\ phase = "holding" /\ HeldSentences # {}
    /\ holds' = holds \cup {ResponseHold(ListedSentences)}
    /\ announced' = announced \cup {ResponseHold(ListedSentences)}
    /\ phase' = "ending"
    /\ UNCHANGED <<vars, strong, degraded, upVars, toolVars, traceVars>>

NothingHeld ==
    /\ phase = "holding" /\ HeldSentences = {}
    /\ phase' = "ending"
    /\ UNCHANGED <<vars, strong, degraded, upVars, toolVars, holdVars, traceVars>>

Complete ==
    /\ phase = "ending"
    /\ done' = TRUE
    /\ CloseOut
    /\ UNCHANGED <<vars, strong, degraded, upVars, toolVars, holdVars>>

\* The generator awaits something, or waits at a yield for the client to read.
Suspended == pc \in {"idle", "repair"} \/ (pc # "chunk" /\ pending # 0)

\* The client goes away.  Before the try block nothing is cleaned up; while a
\* hold is being persisted its thread may or may not still commit the row.
Disconnect ==
    /\ phase # "closed" /\ Suspended
    /\ IF phase = "opening"
       THEN phase' = "closed" /\ UNCHANGED <<traces, taint, cached>>
       ELSE CloseOut
    /\ \/ UNCHANGED holds
       \/ phase = "checking" /\ holds' = holds \cup {ToolHold}
       \/ /\ phase = "holding" /\ HeldSentences # {}
          /\ holds' = holds \cup {ResponseHold(ListedSentences)}
    /\ UNCHANGED <<vars, strong, degraded, upVars, toolVars, announced, done>>

\* Mutant: the error of persist_hold is swallowed.
PersistFailsQuietly ==
    /\ phase = "checking" \/ (phase = "holding" /\ HeldSentences # {})
    /\ phase' = IF phase = "checking" THEN "tools" ELSE "ending"
    /\ UNCHANGED <<vars, strong, degraded, upVars, toolVars, holdVars, traceVars>>

\* persist_hold raises: the generator fails and its finally block runs.
PersistFails ==
    /\ phase = "checking" \/ (phase = "holding" /\ HeldSentences # {})
    /\ CloseOut
    /\ UNCHANGED <<vars, strong, degraded, upVars, toolVars, holdVars, done>>

-----------------------------------------------------------------------------
Progress == \/ Open \/ GateRuns \/ Drained
            \/ CallCleared \/ CallFrozen \/ CallCut \/ CallHeld \/ ToolsSettled
            \/ ResponseHeld \/ NothingHeld \/ Complete

StreamNext == \/ Progress
              \/ TextEvent \/ ToolEvent \/ UnparsedEvent
              \/ UpstreamEnds \/ UpstreamFails \/ CapacityFallback
              \/ EvaluationEnds
              \/ Disconnect \/ PersistFails

\* The generator is resumed while the client reads and the ledger answers; an
\* answer is finite and every read of the upstream has a timeout, so the
\* upstream ends or fails; a push that has begun reaches its text.
StreamFairness ==
    /\ WF_streamVars(Progress)
    /\ WF_streamVars(pc = "chunk" /\ TextEvent)
    /\ SF_streamVars(UpstreamEnds \/ UpstreamFails)

StreamSpec == StreamInit /\ [][StreamNext]_streamVars /\ StreamFairness

-----------------------------------------------------------------------------
(* Properties                                                               *)

\* The calls of a turn are one decision: they reach the client only when the
\* text has drained and every one was cleared, never beside a frozen call or
\* one the loop breaker suppressed.
ToolCallsAllOrNothing ==
    toolFate = "released" =>
        /\ calls > 0 /\ judged = calls
        /\ ToolHold \notin holds
        /\ state = "TERMINATED" /\ pc = "idle"

\* An answer that completed with a sentence withheld for review has left a
\* durable response hold whose token the client knows.
CompletedReviewIsHeld ==
    done /\ HeldSentences # {} => \E h \in announced : h.kind = "response"

\* The cheap tier takes over only before anything of the strong tier's answer
\* has reached the gate, the tool accumulator or the client.
SingleModelAnswer ==
    [][fellBack' # fellBack =>
          closed = 0 /\ ~open /\ rawTo = 0 /\ released = <<>> /\ calls = 0 /\ ~gap]_streamVars

\* Every stream ends, whatever the verifiers, the upstream, the repairs and the
\* client do.
EveryStreamCloses == <>(phase = "closed")

\* app.py:997 says that any sentence the gate withheld for human review becomes
\* a durable hold (in buffered mode, where an L4 sentence is indeed withheld).
WithheldBecomesHold ==
    phase = "closed" /\ buffered =>
        \A i \in HeldSentences : \E h \in holds : i \in h.sentences

\* cache.py and _store_cache say that a cached answer passed verification
\* unchanged: each of its sentences has a recorded L0_pass.
CachedAnswersPassed ==
    \A i \in 1..cached.sentences :
        \E k \in DOMAIN decisions : decisions[k] = [idx |-> i, action |-> "L0_pass"]

\* app.py:820 says that the ledger row is written even when the client hangs up
\* mid-stream, and app.py:1150 that no taint is left behind.
EveryStreamLeavesItsTrace ==
    phase = "closed" => traces = 1 /\ ~taint
=============================================================================
