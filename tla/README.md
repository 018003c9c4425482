# TLA+ models of Interlock

Interlock is a gateway between a chat client and a language model. It estimates
what is at stake in a request (Lane A), prices every sentence of the answer
before or after it is sent (Lane B, the commit gate), freezes tool calls that
look induced, turns what a human must see into durable *holds*, and writes one
ledger row per request; a console shows all of it live.

This directory holds the models of its control: what may happen in which order,
with verdicts, watchdogs, disconnects, failing writes, kills and restarts
interleaved as asyncio, threads and SQLite allow. It also holds models of its
decisions: how an answer is cut into sentences, what is retrieved for it, measured
on it and decided about it, how it is repaired, how its tool calls are traced, and
how money, calibration and fairness are accounted. Text is a few symbols, a
probability or an amount a small integer or an exact fraction; only what the
properties tell apart is kept.

Contents: [parts](#parts-of-the-system), [plan](#plan),
[modules](#modules-and-the-code), [runs](#runs), [fairness](#fairness),
[proofs](#proofs), [where code and comments disagree](#where-code-and-comments-disagree),
[not modelled](#not-modelled).

## Parts of the system

Paths are under `src/interlock/`. *State* is what a part keeps between two of
its operations; *correct* is what makes it so.

| part | state | operations | talks to | correct when | modules |
|---|---|---|---|---|---|
| commit gate `gate/sentence_gate.py` | mode, the one pending evaluation, decisions, segmenter | `push`, `finish`, `escalate`, watchdog, repair loop | risk engine (task per sentence), repairer, annotator | text leaves in order, once, and only as its decision allows; every call returns; nothing is left behind | CommitGate, CommitPromise |
| segmenter `gate/segmenter.py` | the text of the open sentence, the reasoning flag, a carry | `push`, `flush` | the gate | no text is lost or repeated, and what is reasoning and where plain prose is cut do not depend on the chunks | Segmenter |
| repair, ladder `gate/repair.py`, `gate/ladder.py`, `observer/verifier.py` | last result | one repair call, `annotate`, claim verification | provider, risk engine | a replacement is one spoken sentence and re-verified | Repair, CommitGate |
| request handler `gateway/app.py` | per request: answer, decisions, tool calls, holds; per process: session tool history, rework sessions, shadow tasks | streaming and plain completion, cached replay, admin, review and upload routes, lifespan | everything | every stream closes, leaves its traces, and announces only what is durable | StreamRequest, Gateway |
| tool accumulation `interlock_tools/streaming.py` | partial calls by index | `absorb`, `assemble`, `raw_entries` | handler | fragments of one call are never mixed; a turn is released whole or not at all | ToolTaint, StreamRequest |
| hold interlock `interlock_tools/holds.py` | taint per request | `observe`, `check`, `resolve`, `sweep_expired`, `forget` | ledger, reviewers, sweeper task | a frozen call is durable before it is announced; one resolution; silence is never consent | HoldLedger, ToolTaint |
| provenance, reversibility `interlock_tools/` | none | pure decision on a call | interlock | a tainted argument of an irreversible tool is never allowed | ToolTaint |
| ledger `ledger/writer.py` | queue, writer task, one connection, write lock | `record`, `_drain`, `_write`, `persist_hold`, `resolve_hold`, `start`, `stop` | threads, SQLite | batches are atomic, drops are counted, holds survive | HoldLedger |
| accounting `ledger/{rework,regret,pricing,evidence}.py`, `economics_snapshot` | none | folds over rows | console, scripts | money is attributed once; what was not measured is not shown as a number | Accounts |
| Lane A, router, cache `gateway/{lane_a,router,cache}.py` | LRU of answers | detectors under one deadline, `route`, `lookup`, `store` | signals, retrieval, handler | a late detector degrades and never blocks; a hit has the same context, policy and scope | Gateway |
| governor `gateway/governor.py` | latency window, level, breaker | `observe`, `allow`, `record_*`, `force` | handler | it degrades under load, recovers, and does not oscillate | Governor |
| console hub `gateway/console_ws.py` and application `console/src/` | replay buffer, one queue per client; a browser's cursor | `connect`, `publish`, `_deliver`; socket, recovery, reducer | browsers | never blocks a request; replay and live events merge without loss or duplicates | ConsoleFeed |
| console host `console/app.py` | two tasks per websocket | accept, connect, relay | browser, gateway | a relay ends with either side, and what was sent before that is passed on | ConsoleProxy |
| risk engine `risk/` | armed directives | `evaluate`, `choose_action`, conformal threshold | observer, signals | the argmin over the rungs that are still possible | RiskDecision |
| calibration `risk/calibration.py`, `scripts/calibrate.py` | fitted maps | fit, cross-fit, save, load | risk engine | a report never rests on labels it was fitted to | Calibration |
| signals `signals/` | a registry of canaries | grounding, stakes, injection, canary, PII | risk engine, Lane A | more support never hurts, more at stake never costs less | Signals |
| observer `observer/` | one encoder, one cache of premises | `observe` in threads | risk engine | one load, however many threads; no call waits for ever; only trusted text is a premise | ObserverService |
| retrieval `retrieval/` | an index file | build, open, search, fuse | Lane A | a reader sees a whole corpus or none; every sentence can be cited | Retrieval |
| Lane C `lanec/` | e-value process, drift anchors | import, disagree, report, twins | ledger | no bet sees the outcome it is laid on | LaneC |
| judge audit `eval/judge_run.py`, `eval/openrouter_judge.py` | checkpoint files | `run_judgments`, one batch with retries | paid judge | an interrupted run resumes without paying twice; every attempt is accounted | JudgeRun, JudgeCall |
| evaluation `eval/` | splits, traces, candidates | split, seed, replay, select | risk engine | what is measured was not trained on; a selected policy is safe on every seed | Evaluation |

How they interact in one streamed request: Lane A runs its detectors and the router
picks a tier; a cached answer may be replayed instead. `_stream_response` reads the
upstream and calls `gate.push` for each text event; the gate starts an evaluation
task per closed sentence, which runs beside the stream; at the end `gate.finish`
settles what is outstanding. Then the tool calls are judged one by one, each frozen
one awaiting `ledger.persist_hold`; then withheld sentences become one response hold,
again awaited; then `[DONE]`. A `finally` block records the ledger batch (queued,
never awaited), stores the cache entry and forgets the taint. Reviewers, the
sweeper task and the ledger's writer task share the write lock and the one SQLite
connection.

What is hard: verdicts arrive at any point of a push; the watchdog races them;
state is read before an await and used after it; the client disconnects wherever
the generator is suspended; a cancelled `asyncio.to_thread` goes on running; a
process is killed inside a transaction; a reviewer reads a hold before waiting
for the lock; two requests of one session overlap; threads find one model unloaded.
`PROJECT.json` lists these under `hazards`, each at its line.

## Plan

1. `CommitGate`, `CommitPromise`: the gate and what it owes the reader. Done.
2. `StreamRequest` (extends `CommitGate`): one streamed request around the gate. Done.
3. `HoldLedger`: holds and batches on one database, with reviewers and crashes. Done.
4. `CommitGateProofs`: the gate's invariant for every bound. Done.
5. `ConsoleFeed`: the console's hub and a browser's projection client. Done.
6. `JudgeRun`: the paid judge audit, killed and resumed. Done.
7. `Gateway`: requests that overlap, their cache, sessions and shadows. Done.
8. `Segmenter`, `Retrieval`, `Signals`, `RiskDecision`, `Repair`, `ToolTaint`,
   composed in `MCPipeline`. Done.
9. `Governor`, `ObserverService`, `LaneC`, `Accounts`, `Calibration`, `JudgeCall`,
   `ConsoleProxy`, `Evaluation`, composed in `MCBackground`. Done.
10. `HoldLedgerProofs`: the ledger's promises, from who holds the lock and what the
    connection sees. Done.
11. `CommitGateProofs` again, `StreamRequestProofs`: completeness, the refinement of
    `CommitPromise`, and the request around the gate. Done.
12. `GatewayProofs`, `BackgroundProofs`: overlapping requests; the breaker, the
    observers and one call of the judge, for any number of threads and calls. Done.
13. `ConsoleFeedProofs`, `JudgeRunProofs`: the exact feed, the money of an audit. Done.
14. `PipelineProofs`: the decision on a sentence and the verdict on a tool call, for
    every policy. Done.
15. `GatewayProofs` again: what the gateway's retriever serves, how it ranks and how
    documents are cut into passages. Done.
16. `BackgroundProofs` and `PipelineProofs` again: the bets of Lane C, the accounts, the
    evaluation of candidate policies, what a repair sends, the signals, and the
    calibrators. Done.
17. `GatewayProofs` again: how the text of an answer is separated and cut. Done.

## Modules and the code

**CommitGate** models `CommitGate` of `gate/sentence_gate.py`. One coroutine
calls the gate, so `pc` says where it is: `idle` between calls, `chunk` in `push`
after a verdict was applied, `loop` in the loop over closed sentences, `drain` and
`settle` before and after the flush in `finish`, `repair` while a repair callback
is awaited. The code between two awaits is one action.

| code | model |
|---|---|
| `state`, `_buffered`, `_decisions`, `_sentence_idx` | `state`, `buffered`, `decisions`, `started` (positions count from 1) |
| `_pending`, `_pending_idx`, the task | `pending` (0 for None), `task`, `early` for `already_emitted` |
| `_segmenter` | `closed` sentences handed over, `open`: text of one more is kept |
| emissions | `rawTo` (bytes sent reach into this sentence), `released` |
| `_collect_pending`, `_apply`, `_release` | `Collect`, `Apply`, `Release` |
| `push` | `PushCollects`, then `PushUnbuffered`, or `PushBuffered` and the `Loop...` actions |
| `finish` | `Finish`, `FinishCollects`, `FinishStops`, `FinishFlushes`, `FinishReturns` |
| the engine task | `Evaluate`: any rung `unavailable_actions` leaves, or an exception |
| `wait_for(..., watchdog_s)` | `Watchdog`, wherever the coroutine waits for a running task |
| `_do_repair` | `BeginRepair`, `RepairSucceeds`, `RepairFails` |
| `escalate` | `Escalate`, only if `Escalates`: the gateway has no caller of it |

`skipped` is a history variable: sentences whose evaluation ended in a watchdog
or an exception and left no decision.

**CommitPromise** is the abstract specification: sentences are dealt with in
order, each is sent at most once, nothing is added after the end. `CommitGate`
defines the mapping (`Dealt`, `Copies`, `Over`) and `KeepsPromise`, which the
`stream` run checks as a property of the whole request.

**StreamRequest** extends the gate with `_stream_response` of `gateway/app.py`.
`phase` is the place in the generator. The gate's calls happen where the handler
makes them; `Disconnect` may strike wherever the generator is suspended, before
the `try` block too, where nothing is cleaned up. `CloseOut` is the `finally`
block. Tool calls are cleared, frozen (`CallFrozen`, then `CallHeld` after the
awaited write) or cut by the loop breaker. Lane A's results are free initial
values. Prices, frames for the console and timers are left out.

**HoldLedger** models `ledger/writer.py` and `interlock_tools/holds.py` around one
SQLite database: `disk` is what is committed, `view` what the shared connection
sees, so an open transaction is `view # disk`. Statements outside a transaction
commit at once. `lock` is the `asyncio.Lock`; `wpc` the writer task; `resolver`
the reviewers and the sweeper, each having *read* the hold before it waits for the
lock. `orphans` are threads of cancelled `persist_hold` calls, which still execute
their INSERT, under nobody's lock. `Fault` counts failing statements, disconnects
and kills up to `MaxFaults`. `told` is what a reviewer's HTTP response said.

**ConsoleFeed** models `ConsoleHub` (`gateway/console_ws.py`) and one browser's
`ProjectionConnection` (`console/src/api/projectionClient.ts`). An event is its
stream (the incarnation of the gateway) and number. `server` is the hub's side of the
socket: `accepted` between `websocket.accept()` and the registration of the client in
`connect()`, when the browser may already have seen `onopen`; then `joined`. `wire` is
what the transport holds. `recovery` is the request to `/console/recent`, answered
(`Answer`) and received (`Recovered`) at different times; `aside` holds what the
socket brings while `recovering`. `Publish` disconnects a client whose queue is full,
as the code does; `Restart` begins a new stream. What `publish` wrote to the frames
themselves, and the filter on known event names, are left out.

**JudgeRun** models the command `scripts/eval_manual_anchors.py` and what it calls:
`run_judgments` (`eval/judge_run.py`) and the retries of `OpenRouterJudge`. A plan is
one judge model with its output and metadata file; `file`, `synced`, `torn` and
`inFlight` are those files, the other program variables die with the process. `Load`
and `Refuse` are `load_run_cost` of every plan and the check of the shared cap,
`Exhausted` the end of a plan (no rows left, or `budget_cap`), `Dispatch` the metadata
write before the first request, `Retry` and `Judged` the attempts, `Record` one
flushed line, `Sync` the `fsync`, `Progress` the metadata write that lets go of the
batch. `Kill` covers signals and exceptions alike, `PowerLoss` keeps any prefix of
what was not synced. What `_load_state` recomputes from the file, and what the process
keeps equal to it, is derived (`Completed`, `Batches`, `Cost`). Money is in whole
units; the attempts whose cost is not reported cost at most the projection, the
reported one may cost more (`overrun`). `trusted` records that a batch was
reconciled from records no `fsync` had covered.

**Gateway** models several requests in one process: `chat_completions` and what it
calls in `gateway/app.py`, `LaneA.run`, the router and the semantic cache. A request's
`local` record is what its coroutine keeps; `sessions`, `cache`, `shadows`, `armed` and
the ledger's `rows` are shared. `PreflightEnds` is one step of the event loop, from the last
detector's answer to the call of the provider: it blocks on a hard rule, replays a hit, or
selects a model. `previous_turn` is read on arrival and used when the answer is
there (`Attribute`), which another request of the session may precede. Similarity of
questions is content-word sets; a lookup may miss what is similar enough
(`CacheLookup`), since the embedding is not the model's. `FallbackFails`,
`GoesAway` and `CompletionFails` keep what the code keeps: a failed fallback leaves
the directive armed.

**Segmenter** is `gate/segmenter.py` on words of a small alphabet: letters, a capital,
a title, a digit, a stop, blank, paragraph, fence and the marks and the name of a
reasoning tag, which are symbols of their own: a chunk may end between the name, each
of the blanks after it and the `>`. `Separate` takes reasoning out and keeps a possible
half tag as `carry`, if it is no longer than `MaxTag`; `Boundaries`, `RealBoundaries`
and `HardCut` are the boundary rules; `Push` cuts what may be cut and `Flush` emits the
rest, the carry first (`held` remembers it). `recut` remembers a hard cut whose window
starts with a blank, which repeats characters. `_refine_with_pysbd`, which hands every
closed sentence to the pysbd library and takes its parts instead, is left out: it reads
nothing but that sentence. pysbd is a dependency of the package.

**RiskDecision** is `risk/objective.py`, `risk/engine.py` and the conformal threshold.
`LossTable` is every rung's residual harm, nuisance and operation; `ChooseAction` the
first of the cheapest rungs that are possible, under hard rules and text already
sent; `Feasibility` and `RepairHint` what the engine adds. `Certify` selects the last
threshold that one of the two tests rejects over the recorded scores; the binomial tail
counts draws, so it stays an integer.

**ToolTaint** follows tool calls over the turns of a conversation, each a request: the
deltas of `ToolCallAccumulator` (`AbsorbOne`, `Assemble`), the tracing of each
argument to passages (`Traced`), `InfluencingTaint` with the label `Observe` keeps for the
request, and the policy of the tool (`Allowed`: its class, and its cap on an amount).

**Signals** is one detector call at a time: grounding (`GroundingSignals`), stakes
(`Estimate`), the canary registry with its lazily rebuilt matcher, injection
patterns and the demotion of what they hit, and the Verhoeff checksum of an Aadhaar
number, read digit by digit.

**Retrieval** is the index: `ChunkMarkdown`, a build that unlinks the old file,
creates the schema and commits (`BuildStarts` to `BuildCommits`, or `BuildDies`), a
gateway that opens whatever is there (`OpenRetriever`), and a search whose two arms
are fused by reciprocal ranks (`FusedScore`, compared as fractions).

**Repair** is a sentence on its way through `SentenceRepairer`: each of the gate's calls
makes up to `MaxAttempts` generations, each tidied (`Tidy`: reasoning, first line,
label, quotes), verified and accepted or not; and `Annotator` of `gate/ladder.py`.
A completion is a sequence of tokens. `MCRepair` gives it its instance.

**Evaluation** is the offline evaluation: the split of the corpus with its pinned
documents and its repair step, the seeded set, one arm over any decisions the engine
may take (`ComputeMetrics`), the replay of candidates over frozen tools, and the
selection: safety gates on every seed, then the Pareto front of the worst seed. Which
candidates change a reference decision is free.

**Governor** is `gateway/governor.py`: the breaker with its probe, calls in flight
that end later than the state they were admitted in, and the ladder driven by a p95
over a window, with recovery below three quarters of a threshold.

**ObserverService** models threads of `observer/server.py`, `observer/encoder.py`
and `signals/probe_signal.py`, statement by statement where they share: the
double-checked load under a lock, the LRU of premises, the cached context.

**LaneC** is the e-value monitor of `lanec/evalues.py` in exact fractions
(`Update`, `Extend`), the fairness pairs it is fed from, counterfactual twins, judge
disagreement, and the drift anchors.

**Accounts** draws up a ledger: prices by name or prefix, the net value with what
each request contributes, what the console is shown of it and when it calls it
available (`EconomicsSnapshot`, `EconomicsCapability`), rework edges, the regret
estimate with any interval its bootstrap may draw, and what an evidence pack says is
missing.

**Calibration** fits isotonic maps over a generated labelled set (the greatest of least
means, which is the map that pooling violators ends with, thinned to the knots
`sklearn` keeps), per class when there are enough examples, saves and reloads them, and
cross-fits for the reliability report with any split `sklearn` may draw.

**JudgeCall** is one call of `OpenRouterJudge.judge`: posts and answers (or timeouts,
429, 5xx, garbage), backoff with `Retry-After`, the parsing of a list of
judgments, the accounted cost, and the records written.

**ConsoleProxy** is `console_websocket` of `console/app.py`: a browser is let in by
its origin, and one task each way pumps frames (`Receive`, `Deliver`, `SeesEnd`) until the
first is over and the other is cancelled (`Stop`). Sending to a peer that has left
fails or goes unnoticed.

**MCPipeline** and **MCBackground** put the parts of one side together: their variable
`part` says which part a behaviour runs, the others stay in an initial state. They
share no variables, so one run checks each on its own instance.
**MCGateway** gives `Gateway` its prompts.

## Runs

| run | asks | instance | shows |
|---|---|---|---|
| `gate` | the gate alone | 3 sentences, 2 repair attempts, both modes, escalation | all properties of `CommitGate` |
| `stream` | a request with its gate | 2 sentences, 2 tool calls, every verdict and failure | the request's properties and `KeepsPromise` |
| `ledger` | holds and batches | 2 requests, 1 of them with a hold, 2 reviewers and the sweeper, 2 rows per batch, queue of 1, 2 faults | durability, accounting, one resolution, expiry |
| `feed` | the console's live feed | replay buffer of 2, queue of 4, 5 events in each of 2 streams, 2 faults | what the hub keeps is applied in order and once, a silent hub is caught up with |
| `judge` | the paid audit | 2 plans, 2 rows, 2 attempts, batches of 1 and 2, 3 commands, 2 faults | the cap holds over plans, retries and resumes; rows are paid once; every charge is on disk |
| `gateway` | overlapping requests | 3 requests, 2 sessions, 3 prompts, a cache of 1, 1 remembered session, 1 change of policy, 1 shadow | replays are valid, rework is charged to the latest turn |
| `pipeline` | the parts an answer passes | texts of 6 and 8, samples of 3, 2 turns of 2 calls, 3 corpora, 2 builds, 4-token completions | each part's properties |
| `background` | the parts beside the answers | 2 calls, 2 observers, 3 pairs, 3 turns, 4 labelled items, 2 seeds and 2 candidates, 2 judged items with 3 attempts, 2 frames each way | each part's properties, and that work begun ends |
| `stream_hold`, `stream_cache`, `governor_probe`, `repair_escalation` | one documented claim each | as above | a counterexample, see below |

Why the bounds are enough. The gate keeps one pending evaluation and one repair:
with three sentences there is one settled, one in flight and one to come, which is
every relation its code distinguishes; the proofs cover the rest. Two sentences
suffice in the request, where only the presence of a sentence, its verdict and its
position matter. Two tool calls are the least with an earlier and a later one. The
loop breaker's history before the request is an initial value 0 to 2, since three
repeats cut. Two rows make a batch that can be half written, a queue of one can be
full, two reviewers and the sweeper can all be waiting for one hold, and two faults
allow a failing statement followed by a kill. In the feed the queue is twice the
buffer as in the code, five events overflow a queue that is not delivered, and two
faults are a lost connection followed by a restart or a failing recovery. In the
audit two rows make one batch or two, two plans share the cap, which does not fit all
four rows at their worst, two attempts are one retry, and three commands with two
faults are a kill, a resume, a power loss and another resume.

In `gateway`, three requests are one that reads a session's last turn, one that
replaces it meanwhile, and one that evicts an entry or a session; requests and
sessions are symmetric, and only safety is checked. In `pipeline`, the four
alphabets of the segmenter separate tags and the fragments of tags, reasoning in prose,
abbreviations and decimals, and paragraphs and fences. Six symbols hold a tag with a
blank too many for the carry, a sentence, and a hard flush at five; of the marks of tags
alone a text has eight, which hold a block with text on both sides. A sample of three is the least whose conformal test can fail and
succeed, two turns are one whose taint is forgotten and the next, each with up to two
passages and two calls whose pieces interleave, two builds are an index replaced
under its reader. In `background`, the overheads are the equality cases of the four
thresholds and of the three-quarter margin, two calls can straddle an opening of the
breaker, two observers race for one load with room for one premise, three pairs raise
or fail to raise the alarm, three turns have a retry of a retry, four items in two
folds with at least two positives are fitted or skipped, five documents give a pinned
one and domains of every size around the split's rounding, three attempts are two
backoffs.

Deadlock checking is off in all runs because a request really ends: the gate after
`finish`, the stream when closed, the ledger when all has been resolved. That calls
and streams do end is a property (`CallsReturn`, `EveryStreamCloses`, `WorkEnds`).

What the properties mean, in the order of the hazards:

- `CommitBeforeEmit`, `InOrderOnce`, `UnbufferedIsVerbatim`: what reaches the
  reader, in every interleaving of chunks, verdicts, watchdogs and repairs.
- `OneInFlight`, `FinishedIsComplete`: no sentence is lost between the segmenter,
  the pending slot and the trace. `CallsReturn`: every call of the gate returns, if the
  verifier awaits: one that computes without awaiting blocks the loop, and no watchdog
  fires meanwhile.
- `SilentOnceTerminated`: after a block nothing follows, except the chunk an
  unbuffered push had in its hands (the code looks at `state` only on entry).
- `ToolCallsAllOrNothing`, `CompletedReviewIsHeld`, `SingleModelAnswer`: the three
  decisions of a request that take several awaits. `EveryStreamCloses`: it ends.
  `KeepsPromise`: the gate inside the request implements `CommitPromise`.
- `ToldIsTrue`, `HoldsResolveOnce`, `AnnouncedHoldsSurvive`,
  `BatchesAreAccountedFor`, `OverdueHoldsExpire`: the ledger's promises to
  reviewers, clients and the accounts. A hold that an orphaned thread inserts and nobody
  announces violates none of them; it is left to expire.
- `FeedIsExact`, `FeedCatchesUp`: replay over the socket, replay over HTTP and live
  events, merged by one cursor. Without the replay in `connect()` the events
  between an early answer of `/console/recent` and the registration of the socket are
  lost; setting events aside alone does not prevent that. What an overflow of a queue
  loses is not caught: that is `OverflowIsRecovered`, which fails.
- `ChargesAreOnDisk`, `SpendStaysUnderCap`, `RowsArePaidOnce`, `NothingMoreAboveCap`:
  the money of an audit, over all plans, attempts and resumed commands.
- `ReplaysAreValid`: an answer is replayed only in the scope, the context and under the
  policy it was given in, and if its sentences passed. `ReworkNamesLatestTurn`: an
  edge names the turn that had answered last in the session when the question arrived.
- `SegmentationIsSound`: however the text is chunked, reasoning is separated as by one
  push of the whole (`ReasoningIsSeparated`), visible text is neither lost nor repeated
  (`TextIsKept`), and prose without tags and long runs is cut alike
  (`PlainProseIsStable`). The exceptions are part of the properties: texts with a tag that
  is longer than the carry before its `>` (`TagsFit`), answers with a hard cut that began
  at a blank (`recut`), and what was held back when the text ended (`held`), which `flush`
  puts out, also when it is reasoning.
- `DecisionIsSound`: what the enforced threshold lets escape of the sample stays below
  the certified rate, higher stakes never choose less protection, and the table shown
  explains the choice.
- `CallsAreJudgedWhole`: interleaved deltas assemble to the calls the model sent, no call
  is labelled below any passage of its turn, and a released one was below its cap and
  reversible or untouched by anything untrusted.
- `SignalsAreSound`: an invented figure is seen, more context never raises a grounding
  signal, more at stake is never cheaper, a registered canary is found, what carries a
  signature is distrusted, the checksum catches single typos and adjacent swaps.
- `RetrievalIsSound`: a reader answers from one whole corpus or none, every sentence is
  in exactly one passage, and the order of hits respects both arms.
- `ShipsOneSpokenSentence`: what a repair sends is one line of what the model said
  aloud, on trusted evidence; an annotated sentence says what it said before.
- `EvaluationIsSound`: nothing trained on is measured, and the selected candidate is
  safe on each seed and dominated by none that is.
- `OneProbePerOpening`: a half-open breaker admits one call. `FollowsSteadyLoad`: under
  a load that stays, the level settles where that load belongs.
- `SharedStateIsSound`: one load, and a premise is trusted text of its own context.
  `WorkEnds`: every observation ends, whatever fails in another, and every relay ends
  with either peer, having passed on what that peer sent.
- `BetsAreFair`: whatever was seen, an observation at a tolerated rate is not
  expected to raise the e-value, which is never negative. `AccountsAddUp`:
  contributions sum to the net value, a turn is charged once, and nothing unmeasured
  is shown as a number.
- `CalibrationIsHonest`: maps are monotone, reloading changes nothing, a class that was
  skipped is said to be, and no item's label helped to score it. `JudgmentsAreSound`:
  labels are the judge's own, only transient failures are retried, all attempts are
  accounted.

Every property has a mutant in `PROJECT.json`: a definition of the model changed as
a bug would change the code (the operator next to the original, with a comment that
names the bug), under which the same run finds the property violated.

## Fairness

- `CommitGate`: the event loop resumes a coroutine that can run (weak fairness of
  `Resume` and of a push that has begun), and `asyncio.wait_for` fires. **No
  fairness on `Evaluate`**: a verifier may stall for ever, and the watchdog is what
  makes `CallsReturn` hold. Nobody must call the gate.
- `StreamRequest`: the generator is resumed as long as the client reads; the
  upstream ends or fails, because an answer is finite and every read has a timeout
  (`gateway/providers.py`). It is strong fairness because the end can be seen only
  between two pushes.
- `HoldLedger`: threads finish, the writer task and the sweeper's timer run, a dead
  process is restarted. The sweeper's turn at the lock is strongly fair: the
  `asyncio.Lock` is first come, first served, while others keep taking it.
  Reviewers, deadlines and faults are free.
- `ConsoleFeed`: delivery tasks, timers, requests and messages make progress (weak
  fairness of `Progress`). Publishing, faults and the user are free.
- `JudgeRun` states no liveness, so no fairness.
- `Governor`: time passes and requests are observed, since `FollowsSteadyLoad` is about a
  load that goes on. Failures, forced levels and calls are free.
- `ObserverService`: each thread runs on; nobody must call.
- `ConsoleProxy`: the event loop runs what is ready, a connection attempt is bounded
  in time (`open_timeout` of the library), and a peer that is there reads what it is
  sent or is found dead by its pings. Peers leave when they like.
- `MCBackground` states the fairness of these three for the part that runs. `Gateway`
  and the parts of `MCPipeline` state no liveness and no fairness.

## Proofs

The theorems hold for every value of the constants that the assumptions allow; what a
run shows on its instance, a theorem of the same property shows for all of them. The
assumptions say only that bounds are numbers, that names differ
(`NamesAssumption`, and `NoThread`, `NoSession` apart from threads and sessions),
that an embedder's name and width are those of one model (`EmbedderAssumption`, as
`load_embedder` makes it), that a corpus is a sequence of documents, and a document one of paragraphs of sentences
(`CorpusAssumption`), that documents, runs and amounts are finite sets and naturals
(`EvaluationAssumption`, `AccountsAssumption`), that the carry has room for a tag up to
its name (`SegmenterAssumption`, as `_MAX_TAG_LEN` does), that the scores of the calibration set
are finitely many and probabilities are counted in a unit that means and lines divide
(`CalibrationAssumption`: the model's fractions are then exact), that a completion is a sequence of tokens
and a sentence stops only at its end (`RepairAssumption`), that a policy's monetary bands
multiply by at least one and by more the larger the amount, as those of
`policies/banking.yaml` do and nothing in `core/policy.py` demands
(`SignalsAssumption`), and, where the code has no caller of `escalate`, `~Escalates` (`StreamAssumption`; an
explicit hypothesis of `GateKeepsPromise`).

| module | theorems | what the inductive invariant adds |
|---|---|---|
| `CommitGateProofs` | `CommitBeforeEmit`, `InOrderOnce`, `UnbufferedIsVerbatim`, `OneInFlight`, `SilentOnceTerminated`, `FinishedIsComplete`, the refinement `KeepsPromise` | where positions, modes and decisions stand, why a gate ended, which sentence each release is for |
| `StreamRequestProofs` | `KeepsPromise`, `FinishedIsComplete`, `ToolCallsAllOrNothing`, `CompletedReviewIsHeld`, `SingleModelAnswer` | what each phase of the request knows of its gate |
| `HoldLedgerProofs` | `ToldIsTrue`, `HoldsResolveOnce`, `AnnouncedHoldsSurvive`, `BatchesAreAccountedFor` | who holds the lock, what the connection sees |
| `ConsoleFeedProofs` | `FeedIsExact` | one run of events over three places |
| `GatewayProofs` | `ReplaysAreValid`, `ReworkNamesLatestTurn`, `RetrievalIsSound`, `SegmentationIsSound` | what a handler carries over its awaits; a file with rows was committed by one build of one corpus, and a reply is fused from two rankings; what may follow separates as if it followed all that was pushed, and what was handed over are the sentences of the text so far |
| `BackgroundProofs` | `OneProbePerOpening`, `SharedStateIsSound`, `JudgmentsAreSound`, `BetsAreFair`, `AccountsAddUp`, `CalibrationIsHonest` | the probe flag; who may load; what a batch may have been charged before each attempt; the monitor has counted as many as it saw; what was attributed live covers the turns so far; what was fitted, saved or reported was made of the triples that are there |
| `PipelineProofs` | `DecisionIsSound`, `CallsAreJudgedWhole`, `EvaluationIsSound`, `ShipsOneSpokenSentence`, `SignalsAreSound` | the certificate is what the recorded scores license; a decision is the choice from its table; what came of each call is under its index, and the running label covers the turn; every seed but the one in hand has a row of each candidate; the text in hand is cut from the completion kept with it; what is seen is what a detector makes of what it read |
| `JudgeRunProofs` | `ChargesAreOnDisk`, `SpendStaysUnderCap`, `RowsArePaidOnce`, `NothingMoreAboveCap` | what is committed per plan |

**The gate.** None of its properties is inductive alone. `IInv` adds to `TypeOK`:

- `Positions`: the pending sentence, or the one in repair, is the last one
  started; there is a task exactly when something is pending; what is started and
  still to be started together are the closed sentences, except after a block;
- `Modes`: which control states and places go with which mode, that `buffered` is
  never taken back, and that a blocked or finished gate has nothing pending;
- `Unbuffered`: before buffering the bytes are out up to the end of what the
  segmenter has seen, nothing was released and no repair runs;
- `Settled`: decisions come in the order of the sentences, never for the pending or
  a skipped one, and every started sentence not sent raw has its outcome or is
  pending;
- `Repairs`: the decisions about a sentence in repair are `L2_repair`;
- `Sent`: releases are in increasing order, of started sentences, none in repair;

and, as its last conjunct, `CommitBeforeEmit` itself. `InOrderOnce` needs `Sent` with
`Positions` (a release is for the last sentence started), `CommitBeforeEmit` needs
`Settled` and `Repairs` (the decision that led to the release is the only one about
that sentence). `SilentAtTheEnd` follows because a terminated gate has no enabled
release. For completeness, `Answered` says that a started sentence which was neither
sent nor is pending has a decision that excuses it, and `EndedByFinish` that a gate
which terminated without a blocking verdict has nothing open, pending or to start. For the refinement, each action that
collects a verdict is shown to be one `Deal` of the abstract specification or a stutter,
by what it does to `released` and `started`; `FinishReturns` is its end. The `gate` run
does not repeat `TypeOK`, which is proved.

**The request.** `DrivesGate` shows that whatever the generator does to its gate is a
step of the gate or none, so the gate's theorems hold inside every request. `StreamInv`
says for each phase what has already happened: nothing arrived while a fallback is
still allowed, the text has drained before a tool call is looked at, every call so far
was cleared while none is frozen, and a token stands for a response hold that is
durable.

**The ledger.** The properties speak of the disk, while the reviewers, the writer task,
orphaned threads and the sweeper see the connection. `LockInv` ties the lock to the one
place in the code that holds it. `ViewInv` says that the connection differs from the
disk only in the rows of the writer's batch and in holds orphaned INSERTs bring, and is
equal to it outside the writer's transaction; a hold that some stream has still to
insert is in neither. `BatchInv` says that a request waits in one place and is on disk
exactly if `fate` says so. A kill then costs exactly the open transaction.

**The feed.** What the hub sends over one socket is one run of consecutive events. The
client may have set the first of them aside, the next are on the wire, the last in the
queue (`Chain`). The run starts where the hub's buffer starts, or right behind the
cursor (`Starts`), and ends with the hub's last event while the socket is joined.
`RecoveryInv` says the same of the answer to `/console/recent`, whose request remembers a
cursor that does not move meanwhile. `FeedIsExact` follows, since applying a run that starts
there neither skips nor repeats.

**Overlapping requests.** Both maps the handlers share are ordered dictionaries, with one
entry per key. The cache holds verified answers only, under the model that gave them.
The session map, if it still has a session, names the request that answered last in it, so
what a handler read on arrival is either nothing or the latest turn of that moment.

**Breaker and observers.** Calls are counted in an opening only while the probe flag is
set. In the service, whoever loads holds the lock and found the model missing, and every
premise in the cache is the trusted part of the context whose key it has.

**One call of the judge.** Before each attempt the batch was charged at most the
projection for every attempt made, and an attempt is left (`CallInv`); afterwards the results
are those of the last ending, and the books hold its reported cost with the projection for
the others, or for each the projection or what the tokens are worth, if that is more
(`AccountCovers`). An item's
label is then the first word on it, if that is in order (`JudgmentIsFirstWord`), which holds for
lists of any length.

**The audit.** `RunInv` rests on `Committed`: per plan, the cost of the batches on disk
other than the one in flight, plus the reservation of the one in flight. It grows only
when a batch is dispatched, and then within the cap; it can only shrink when all records
of a batch are there, or be left as it is by a kill or a power loss, which leave a prefix of
the records. From that follow the cap, that what was charged is recorded or reserved
(`SpendInv`), and that a row once paid is in the file or in flight (`PaidInv`). The
parts hold as long as the run is `trusted`, and the cap as long as there was no
`overrun`, as in the properties themselves. Sums over records and plans are recursive
functions on the numbers of their terms; that a sum changes with one of its terms is proved
by induction (`Counting`).

**The decision.** The invariant is short, the work is in the operators, for every policy
file that `RiskAssumption` allows. A set of rows has a cheapest one because losses are
naturals (`CheapestOf`); annotating and holding are always open, so there is a runner-up.
What a rung leaves of the harm enters its loss with a factor that grows with the
impact (`LossIsLinear`), so the minimum moves to rungs that leave no more
(`MoreAtStakeLeavesLess`). Both tests of the certificate reject the less the more
escapes there are (`RejectedDown`; the binomial tail counts a growing set of draws), so
escapes below the selected threshold stay under the rate, and no higher threshold is
rejected.

**The verdict on a tool call.** `Arrived` says that what is under construction at an index
is what came so far of one call of the turn, and of that call only, so a complete stream
parses to what was sent in the order it was sent, for any number of calls and any
interleaving of their pieces. `RunningCovers` says that the label running with a request
covers everything its turn retrieved; whatever `influencing_taint` traces is folded with that
label, so a match with a trusted passage cannot hide the untrusted one beside it. A call
that was cut short may be judged on what came of it, with no amount. `TaintInv` was
checked by TLC on the instance of the `pipeline` run before it was proved.

**What is retrieved.** `IndexInv` is about the file rather than its readers: a build has
read a corpus that loads strictly before it unlinks the file, the file is without rows
until the build commits, and then it holds all passages of that corpus and the name of its
maker. So a reader that opens between two steps of a build, after a build that died, or
beside one that runs finds all or nothing; and `check_compatible` lets it serve rows only
if they were embedded as it embeds its questions.

That no sentence of a document is lost, repeated or moved is a fact about loops over
sequences. A loop is written as a run, one state per element (`HasRun`, `RunExists`), and
so is the concatenation that both sides of the claim speak of (`FlattenRuns`), so that an
induction over positions suffices (`Counting`): merging keeps the sentences taken so far
in their order and never understates how long a paragraph is (`MergedWhole`), splitting
keeps them and starts a new passage before one of two sentences gets over-long
(`SplitWhole`), and a passage that was not split was short enough already.

The order of the hits compares sums of fractions by their cross products. That is a strict
order of what the arms found (`BeforeIsOrder`), since equal scores are told apart by
place; a finite strict order lists each row once, by the number of rows before it
(`RankedIsSorted`). A row that is nowhere behind another, and ahead of it or alone in one
arm, has the greater sum (`AheadInOne`, `AheadInBoth`, `DominatesIsBefore`), for every
length of the rankings and either weight of the dense arm. A reply is what was fused
from two such rankings (`AnswerInv`), because a retriever that closes takes its
reply with it.

**The text of an answer.** `Separate` and `CutLong` recur over the rest of a text; that
such a function exists is proved once, by the length of the text (`SolutionExists`). The
claim on reasoning needs two facts about a text cut in two: without a tag in its first
half, what may become a tag is exactly what is held back (`ResumedAfterNone`, where a tag
that fits the carry matters), and with one, the text behind it is cut in two again
(`Resumed`). `TagInv` says then that any text that may still come separates behind the
carry as it would behind all that was pushed. For the text, each operation on sentences
keeps what is not blank (`SplitKeeps`, `CutKeeps`), and the flush puts the carry between
what is out and what is open (`TextInv`). Plain prose has no tags, fences, numbers or
long runs. What closes in it after a sentence is what would close in a text of its own
(`PlainGoesOn`), so the sentences out are always those of the text so far (`ProseInv`).
The equality of `PlainProseIsStable` is this at the end. The bounds on texts and chunks
have no part in the argument.

**The evaluation.** A domain with two documents or more is cut so that at least one is
left behind the cut (`CutLeavesOne`), so each is measured, and no document is dealt to both
sides. When the selection is made every candidate has a row for every seed, of counts
(`ReplayInv`). The candidates on the frontier are compared by three numbers, one after
the other, and a set of them that is not empty has a first one (`FirstOfFrontier`); a safe
candidate that were better throughout would itself be on the frontier and come before it.

**The repair.** What is left of a completion without its reasoning is collected by
position; what the model says aloud is heard token by token. `UnreasonedIsSpoken` says
that these are the same, by induction along the completion: whether a block is open
before a token (`Thinks`) changes at each token as the listener's mode does, also where
openers follow one another and where the budget cut a block off. The line, the label and
the quotes each take a part of a part (`PartsOfParts`). `RepairInv` keeps the text in hand
and the completion it is cut from together, over every retry.

**The signals.** What is unsupported is counted by position, over what any passage knows,
so one passage more can only lower it (`KnownShare`); a figure counts by its value. An
estimate is a product of four parts and the worst of a set of classes, each of which grows with
its own feature (`SeriousIsDearer`). For the checksum, `DTable` is the group of the
symmetries of a pentagon (`DTableIsD`, `DAssociates`), each row of `PTable` is the
second one applied to the row before it (`PRowsFollow`), and the second row lets no
two digits commute (`DAntisymmetric`): so digits that changed places are noticed after
any digits before them, at any position, and stay noticed (`DCancels`).

**The bets.** An e-value is a fraction, and reducing it leaves its value because the
greatest common divisor divides both parts (`ReducedIsSame`). A bet is at most half of
what would be ruin (`BetIsCapped`), so with K the denominator of the factor a one leaves
K + u(N - 1) and a zero K - u of K, none negative (`FactorsAreFair`). At the rate
p / 2N these are expected to leave K - uN(2 - p)/2N of K, no more than all, for every
tolerated p (`FairBet`), whatever was seen before the bet was placed.

**The accounts.** Totals are recursive functions on the positions of what is added.
That the contributions add up to the net value (`SharedOut`), is proved along the
positions by induction; the estimate is the resample that draws every run once
(`SampleAddsUp`). In a session the edges a turn contributes are none or one, and those
that escalate nothing only become fewer when later turns raise the hold a turn
resolves (`PlainStaysPlain`); a new turn's are what the gateway, which sees only that turn
and the one before, had attributed (`PlainIsSeenLive`).

**The calibrators.** `CalInv` says what was made of which triples: maps of those that are
there (`FitInv`), and a report or a copy of the maps that are there (`OutcomeInv`). The
work is in the regression, whose value at a score is a greatest of least means. It grows with the score because a greater score
has more ranges from below and fewer above (`PooledIsCurve`). For what it adds up to,
take the scores at one level: from the first of them on nothing is in deficit
(`NoDeficitFrom`): the ranges that lift a score to its level may start lower, but what
they take in there is at a lower level and only pulls them down. Up to the last nothing is
in excess (`NoExcessTo`), likewise. So the labels of a level add up to
the level times its items (`LevelAddsUp`), a bin holds whole levels, and the error on
what was fitted is nothing in each bin (`FittedAddsUp`). Knots on a line between equal
neighbours may go: the ends of each level stay (`EndsAreKept`), so the line through
what is left is the regression at every score (`ThinnedIsCurve`), and never falls between
(`CalibratedGrows`). A map fitted to knots is those knots (`PooledAgain`), and none is
on a line, so what is loaded is what was saved, at all scores (`SavedIsSame`). An item's
label is read by no fold that scores it, because `TrainedOn` leaves its fold out. The
bins are a partition of the items (`BinsCover`, `SumByBins`), and a sum of distances is
no less than the distance of the sums (`ReportAddsUp`).

Out of the prover's reach, and checked by TLC only:

- liveness: `CallsReturn`, `EveryStreamCloses`, `OverdueHoldsExpire`, `FeedCatchesUp`,
  `FollowsSteadyLoad`, `WorkEnds` rest on fairness;

Where the model computes along a sequence, the induction over its positions is written out
(`Least`, `Counting`): the library's theorems, which take an operator, cannot be used.

The four runs that expect a violation are counterexamples and need no proof.

## Where code and comments disagree

Four claims have a run that refutes them:

- `stream_hold`: a sentence withheld for review may end without a hold, or with a
  hold that names another sentence (positions in `decisions` are not sentences).
- `stream_cache`: an answer with sentences nobody judged, or a cut one, is cached.
- `governor_probe`: a half-open breaker whose probe failed keeps `_probing`: it
  refuses every call from then on, with none in flight.
- `repair_escalation`: "two failures escalate" is two calls of a repairer that itself
  tries twice: up to four generations.

Further claims are stated as definitions next to the properties and are refuted by
TLC on the instance of the module's run, unless the table says otherwise:

| definition | module | what the code does |
|---|---|---|
| `EveryVerdictRecorded` | CommitGate | in unbuffered mode a chunk that closes two sentences starts two evaluations with one slot; the first verdict never reaches the trace |
| `EveryStreamLeavesItsTrace` | StreamRequest | a disconnect at the first frame skips the `finally` block |
| `NoHalfWrittenRequest` | HoldLedger | the console's reads see the rows of an open transaction |
| `OverflowIsRecovered` | ConsoleFeed | an overflowing queue loses twice what the buffer replays, and the cursor passes the lost events without a sign (six events, no fault) |
| `StopsBeforeCap` | JudgeRun | an attempt may cost more than the projection (one plan, two rows, a cap of 7) |
| `ReplaysAreWhole` | Gateway | a streamed answer with tool calls is cached as its text only |
| `NothingInvented` | Segmenter | the flush puts the carry before the open sentence: an answer that ends in a half tag is handed over in another order, and after a `<` inside a block a piece of reasoning is |
| `ChunksDoNotMatter` | Segmenter | where text is cut depends on how it was chunked; a tag with many blanks (14 characters of `</reasoning` and blanks) cut before its `>` is text, and its block goes on |
| `TaintOutlivesTurn` | ToolTaint | a request's taint is forgotten with its turn |
| `LargestAmountCounts` | Signals | an amount in the question hides a larger one elsewhere |
| `LoadIsSafeToRepeat` | ObserverService | `_model` is set before `_n_layers`: a second thread reads an encoder half loaded |
| `RequiredFieldsAreReported` | Accounts | evidence stops at the first missing field of a decision, and never looks for `inputs_digest` |
| `EstimateInsideItsInterval` | Accounts | the interval shown is of the mean of a request, the net value next to it is the total |
| `SuffixPricesAsItsModel` | Accounts | the first prefix in the book prices a longer model name, not the longest |
| `TwinsDifferInTheMarker` | LaneC | a swap replaces inside words: "she" becomes "sshe" |
| `FairnessAlarmsStay` | LaneC | importing a pair again may take an alarm back (five pairs) |
| `FoldsHaveBothClasses` | Calibration | a fold may train on one class only, which raises |

Seen while modelling, without a definition:

- Gate and request: an approval's deadline is checked before the wait for the lock
  (`holds.py:196`), so it can be applied late, though never over an expiry; a tool
  call that shares its chunk with text withholds that text and never replays it
  (`app.py:842`); the latency record counts only the last repair (`app.py:1001`).
- Gateway: a failed fallback leaves the force directive armed; non-streaming
  completions bypass both gate and cache; the gateway only calls
  `governor.observe` and never feeds the breaker; LaneA's `retrieved_by` makes the
  router's branch on it unreachable; the rework session map evicts by insertion order;
  the cache's policy change is never used in the process; no spend rows are written.
- Signals and risk: the engine never passes the amount of a call; a hard rule wins
  even when its rung is unavailable; a support of 0.0 is read as 1.0 by
  `SentenceVerdict.worst`; a premise may be evicted between `get` and `move_to_end`
  by another thread, which fails that call.
- Tool calls: `influencing_taint` stops at the first string it can trace; a
  truncated call has no amount, so no cap applies to it.
- Retrieval: a gateway that opens the index between schema and commit answers nothing for
  the rest of its life without the startup warning; a build that raises after the
  unlink has destroyed the old index; `evidence_for` filters after twice the hits.
- Repair: a trailing clause shorter than `MIN_CLAIM_CHARS` is never verified;
  `L1_annotate` is accepted without annotating; both failures leave the sentence
  withheld without a hold.
- Evaluation: loop cases count as clean traffic; the replay of candidates leaves out
  the conformal limits; a leak case has an Aadhaar number of four digits.
- Calibration: `calibration.py:340` says a class falls back to a base rate, while
  `predict` returns fitted classes only; `load` says nothing is fitted again while
  the helper fits the knots again, with the same result (`ReloadedIsTheSame`).
- Lane C: pairs that cannot be read count as no disparity; lakh and crore are ignored.
- Console host: a decision the browser sends just before it leaves is lost when a
  frame on its way to the browser fails first, as one task then stops the other
  (`app.py:166`); `EveryRelayEnds` excludes exactly this.

## Not modelled

Machine learning itself: embeddings, the encoder, the probe's training, the
verifier's scores and the transformer injection backend, whose outcomes are free
choices, which covers every score. The logistic fusion, except that it raises on one
class. Regular expressions for personal data and the Luhn check. Providers beyond an
upstream that sends, breaks off or refuses (`gateway/providers.py`). The formatting of
frames, reports and anchors, the induction of defects by templates, HTTP routing,
the HTTP side of the console host, authentication and configuration. The upload route,
which keeps nothing and labels text `retrieved_untrusted`. Latency statistics beyond the governor's. React
components, the replay server of console development, load and rehearsal scripts.
The schema is one idempotent migration. The database
runs WAL with `synchronous=NORMAL`: a kill, which is modelled, loses nothing that
was committed, a power loss may take back the last commits and is modelled for
the judge's files only. `PROJECT.json` names each part with the reason.
