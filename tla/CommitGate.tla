----------------------------- MODULE CommitGate -----------------------------
(***************************************************************************)
(* The sentence-level commit gate of interlock/gate/sentence_gate.py.      *)
(*                                                                         *)
(* One CommitGate object lives for one streamed answer.  A single          *)
(* coroutine calls push() for every upstream chunk and finish() at the     *)
(* end; each sentence the segmenter closes is priced by an asyncio task    *)
(* that runs beside the stream.  In buffered mode a sentence is sent only  *)
(* after its verdict; in unbuffered mode the provider's bytes go out at    *)
(* once and verdicts arrive afterwards.                                    *)
(*                                                                         *)
(* Text is abstracted to the positions of sentences in the answer: the     *)
(* first sentence is 1, and its _sentence_idx in the code is 0.            *)
(***************************************************************************)
EXTENDS Naturals, Sequences, FiniteSets

CONSTANTS
    MaxSentences,      \* bound: sentences one answer may hold
    MaxRepairAttempts, \* CommitGate.max_repair_attempts
    HasRepair,         \* whether a repair callback is configured
    Escalates          \* whether some caller uses escalate(); the gateway does not

ASSUME ConstantsAssumption ==
    /\ MaxSentences \in Nat
    /\ MaxRepairAttempts \in Nat \ {0}
    /\ HasRepair \in BOOLEAN
    /\ Escalates \in BOOLEAN

VARIABLES
    lane,       \* the mode Lane A asked for: TRUE for "buffered"
    state,      \* CommitGate.state
    buffered,   \* CommitGate._buffered
    closed,     \* sentences the segmenter has handed over
    open,       \* whether the segmenter holds the start of a further sentence
    started,    \* CommitGate._sentence_idx: evaluations started
    pending,    \* position of the sentence in _pending, 0 for None
    early,      \* the already_emitted flag the pending evaluation was given
    task,       \* the pending asyncio task: "none", "running" or its result
    decisions,  \* CommitGate._decisions, each with the sentence it is about
    skipped,    \* history: sentences whose evaluation ended without a decision
    pc,         \* where the coroutine is inside push() or finish()
    back,       \* where it continues after a repair
    todo,       \* sentences of the current push still to be started
    repairing,  \* position of the sentence inside _do_repair, 0 for none
    attempts,   \* repair callbacks made for it
    rawTo,      \* output: raw bytes sent reach into sentence rawTo
    released    \* output: the sentences sent as text, in order

segVars  == <<closed, open>>
taskVars == <<started, pending, early, task>>
logVars  == <<decisions, skipped>>
ctlVars  == <<pc, back, todo, repairing, attempts>>
outVars  == <<rawTo, released>>
vars     == <<lane, state, buffered, segVars, taskVars, logVars, ctlVars, outVars>>

States    == {"PASSTHROUGH", "BUFFERING", "HOLDING", "REPAIRING", "TERMINATED"}
Actions   == {"L0_pass", "L1_annotate", "L2_repair", "L3_reroute", "L4_hold", "L5_block"}
Withheld  == {"L3_reroute", "L4_hold", "L5_block"}
Failures  == {"watchdog", "engine_error"}
Sentences == 1..MaxSentences

\* The rungs an evaluation may return.  Once a sentence has been sent the argmin
\* loses L2, L3 and L5; L5 remains through the canary hard rule, which is
\* decided before availability is looked at.
Verdicts(sent) == IF sent THEN {"L0_pass", "L1_annotate", "L4_hold", "L5_block"} ELSE Actions

TypeOK ==
    /\ lane \in BOOLEAN
    /\ state \in States
    /\ buffered \in BOOLEAN
    /\ closed \in 0..MaxSentences
    /\ open \in BOOLEAN
    /\ started \in 0..MaxSentences
    /\ pending \in 0..MaxSentences
    /\ early \in BOOLEAN
    /\ task \in {"none", "running", "engine_error"} \cup Actions
    /\ decisions \in Seq([idx : Sentences, action : Actions])
    /\ skipped \subseteq Sentences
    /\ pc \in {"idle", "chunk", "loop", "drain", "settle", "repair"}
    /\ back \in {"chunk", "loop", "drain", "settle"}
    /\ todo \in 0..MaxSentences
    /\ repairing \in 0..MaxSentences
    /\ attempts \in 0..(MaxRepairAttempts - 1)
    /\ rawTo \in 0..MaxSentences
    /\ released \in Seq([idx : Sentences, how : {"original", "replaced"}])

Init ==
    /\ lane \in BOOLEAN
    /\ buffered = lane
    /\ state = IF buffered THEN "BUFFERING" ELSE "PASSTHROUGH"
    /\ closed = 0 /\ open = FALSE
    /\ started = 0 /\ pending = 0 /\ early = FALSE /\ task = "none"
    /\ decisions = <<>> /\ skipped = {}
    /\ pc = "idle" /\ back = "chunk" /\ todo = 0 /\ repairing = 0 /\ attempts = 0
    /\ rawTo = 0 /\ released = <<>>

-----------------------------------------------------------------------------
(* _start_evaluation, _release and _collect_pending                         *)

\* _start_evaluation for the last n sentences up to `last`: each one takes the
\* _pending slot from the one before it, so only the last stays reachable.
StartEvaluation(last, n, sent) ==
    /\ started' = started + n
    /\ pending' = last
    /\ early' = sent
    /\ task' = "running"
    /\ state' = IF buffered THEN "HOLDING" ELSE state

\* Mutant: the unbuffered check of _release is forgotten.
ReleaseMutant(i, how) == released' = Append(released, [idx |-> i, how |-> how])

\* _release: unbuffered text is already out, unless the sentence was replaced.
Release(i, how) ==
    released' = IF buffered \/ how = "replaced"
                THEN Append(released, [idx |-> i, how |-> how])
                ELSE released

\* _do_repair is entered and awaits its first callback.
BeginRepair(i, next) ==
    /\ state' = "REPAIRING"
    /\ repairing' = i /\ attempts' = 0
    /\ pc' = "repair" /\ back' = next
    /\ UNCHANGED released

\* _apply and the two failure branches of _collect_pending, for result v.
Apply(i, v, next) ==
    \/ /\ v \in {"L0_pass"} \cup Failures \/ (v = "L2_repair" /\ ~HasRepair)
       /\ Release(i, "original")
       /\ pc' = next
       /\ UNCHANGED <<state, repairing, attempts, back>>
    \/ /\ v = "L1_annotate"
       /\ IF buffered THEN Release(i, "replaced") ELSE UNCHANGED released
       /\ pc' = next
       /\ UNCHANGED <<state, repairing, attempts, back>>
    \/ /\ v = "L2_repair" /\ HasRepair
       /\ BeginRepair(i, next)
    \/ /\ v \in Withheld
       /\ state' = IF v = "L5_block" THEN "TERMINATED" ELSE state
       /\ pc' = next
       /\ UNCHANGED <<released, repairing, attempts, back>>

\* _collect_pending once the wait is over with result v.
Collect(v, next) ==
    /\ pending' = 0 /\ task' = "none"
    /\ decisions' = IF v \in Actions
                    THEN Append(decisions, [idx |-> pending, action |-> v])
                    ELSE decisions
    /\ skipped' = IF v \in Actions THEN skipped ELSE skipped \cup {pending}
    /\ Apply(pending, v, next)
    /\ UNCHANGED <<lane, buffered, segVars, started, early, todo, rawTo>>

TaskDone == task \notin {"none", "running"}

-----------------------------------------------------------------------------
(* The evaluation task, which runs beside the stream                        *)

Evaluate ==
    /\ task = "running"
    /\ task' \in Verdicts(early) \cup {"engine_error"}
    /\ UNCHANGED <<lane, state, buffered, segVars, started, pending, early, logVars, ctlVars, outVars>>

-----------------------------------------------------------------------------
(* push()                                                                   *)

\* The verdict that arrived while the caller was reading is applied first.
PushCollects ==
    /\ pc = "idle" /\ state # "TERMINATED" /\ TaskDone
    /\ Collect(task, "chunk")

\* The segmenter closes n sentences and keeps text of a further one iff `rest`.
\* A chunk without text (a role-only opener) changes nothing.
Segment(n, rest) ==
    /\ n > 0 \/ rest \/ ~open
    /\ closed + n + (IF rest THEN 1 ELSE 0) <= MaxSentences
    /\ closed' = closed + n
    /\ open' = rest

InPush == pc = "chunk" \/ (pc = "idle" /\ state # "TERMINATED" /\ ~TaskDone)

\* Mutant: bytes are forwarded only up to the last closed sentence.
PushUnbufferedMutant(n, rest) ==
    /\ InPush /\ ~buffered
    /\ Segment(n, rest)
    /\ rawTo' = closed'
    /\ IF n > 0
       THEN StartEvaluation(closed', n, TRUE)
       ELSE UNCHANGED <<taskVars, state>>
    /\ pc' = "idle"
    /\ UNCHANGED <<lane, buffered, logVars, back, todo, repairing, attempts, released>>

\* Unbuffered: forward the bytes, then start an evaluation per closed sentence.
\* A task just created is never done, so the collect after it does nothing.
PushUnbuffered(n, rest) ==
    /\ InPush /\ ~buffered
    /\ Segment(n, rest)
    /\ rawTo' = closed' + (IF rest THEN 1 ELSE 0)
    /\ IF n > 0
       THEN StartEvaluation(closed', n, TRUE)
       ELSE UNCHANGED <<taskVars, state>>
    /\ pc' = "idle"
    /\ UNCHANGED <<lane, buffered, logVars, back, todo, repairing, attempts, released>>

PushBuffered(n, rest) ==
    /\ InPush /\ buffered
    /\ Segment(n, rest)
    /\ todo' = n
    /\ pc' = "loop"
    /\ UNCHANGED <<lane, state, buffered, taskVars, logVars, back, repairing, attempts, outVars>>

\* The loop over the closed sentences: wait for the verdict in flight ...
LoopCollects ==
    /\ pc = "loop" /\ todo > 0 /\ TaskDone
    /\ Collect(task, "loop")

\* Mutant: the next sentence does not wait for the verdict in flight.
LoopStartsUnwaited ==
    /\ pc = "loop" /\ todo > 0 /\ state # "TERMINATED"
    /\ StartEvaluation(closed - todo + 1, 1, FALSE)
    /\ todo' = todo - 1
    /\ UNCHANGED <<lane, buffered, segVars, logVars, pc, back, repairing, attempts, outVars>>

\* Mutant: the loop does not look whether the last verdict ended the stream.
LoopStartsBlocked ==
    /\ pc = "loop" /\ todo > 0 /\ pending = 0
    /\ StartEvaluation(closed - todo + 1, 1, FALSE)
    /\ todo' = todo - 1
    /\ UNCHANGED <<lane, buffered, segVars, logVars, pc, back, repairing, attempts, outVars>>

\* ... then start the next sentence, ...
LoopStarts ==
    /\ pc = "loop" /\ todo > 0 /\ pending = 0 /\ state # "TERMINATED"
    /\ StartEvaluation(closed - todo + 1, 1, FALSE)
    /\ todo' = todo - 1
    /\ UNCHANGED <<lane, buffered, segVars, logVars, pc, back, repairing, attempts, outVars>>

\* ... or leave the loop, which a terminating verdict does early.
LoopEnds ==
    /\ pc = "loop"
    /\ todo = 0 \/ (pending = 0 /\ state = "TERMINATED")
    /\ todo' = 0
    /\ pc' = "idle"
    /\ UNCHANGED <<lane, state, buffered, segVars, taskVars, logVars, back, repairing, attempts, outVars>>

-----------------------------------------------------------------------------
(* finish()                                                                 *)

Finish ==
    /\ pc = "idle" /\ state # "TERMINATED"
    /\ pc' = "drain"
    /\ UNCHANGED <<lane, state, buffered, segVars, taskVars, logVars, back, todo, repairing, attempts, outVars>>

FinishCollects ==
    /\ pc \in {"drain", "settle"} /\ TaskDone
    /\ Collect(task, pc)

\* A terminating verdict ends finish() before the tail is flushed.
FinishStops ==
    /\ pc = "drain" /\ pending = 0 /\ state = "TERMINATED"
    /\ pc' = "idle"
    /\ UNCHANGED <<lane, state, buffered, segVars, taskVars, logVars, back, todo, repairing, attempts, outVars>>

\* Mutant: the tail is not flushed.
FinishFlushesMutant ==
    /\ pc = "drain" /\ pending = 0 /\ state # "TERMINATED"
    /\ pc' = "settle"
    /\ UNCHANGED <<lane, state, buffered, segVars, taskVars, logVars, back, todo, repairing, attempts, outVars>>

FinishFlushes ==
    /\ pc = "drain" /\ pending = 0 /\ state # "TERMINATED"
    /\ IF open
       THEN StartEvaluation(closed + 1, 1, ~buffered) /\ closed' = closed + 1
       ELSE UNCHANGED <<taskVars, state, closed>>
    /\ open' = FALSE
    /\ pc' = "settle"
    /\ UNCHANGED <<lane, buffered, logVars, back, todo, repairing, attempts, outVars>>

FinishReturns ==
    /\ pc = "settle" /\ pending = 0
    /\ state' = "TERMINATED"
    /\ pc' = "idle"
    /\ UNCHANGED <<lane, buffered, segVars, taskVars, logVars, back, todo, repairing, attempts, outVars>>

-----------------------------------------------------------------------------
(* Watchdog, repair and escalation                                          *)

\* Mutant: only finish() has a watchdog.
WatchdogMutant ==
    /\ pc \in {"drain", "settle"}
    /\ task = "running"
    /\ Collect("watchdog", pc)

\* asyncio.wait_for times out while push() or finish() waits for the verdict.
Watchdog ==
    /\ pc \in {"drain", "settle"} \/ (pc = "loop" /\ todo > 0)
    /\ task = "running"
    /\ Collect("watchdog", pc)

RepairSucceeds ==
    /\ pc = "repair"
    /\ Release(repairing, "replaced")
    /\ state' = "HOLDING" /\ repairing' = 0 /\ pc' = back
    /\ attempts' = 0
    /\ UNCHANGED <<lane, buffered, segVars, taskVars, logVars, back, todo, rawTo>>

\* Mutant: the last failed attempt ships the original sentence.
RepairFailsOpen ==
    /\ pc = "repair"
    /\ IF attempts + 1 < MaxRepairAttempts
       THEN /\ attempts' = attempts + 1
            /\ UNCHANGED <<state, repairing, pc, released>>
       ELSE /\ state' = "HOLDING" /\ repairing' = 0 /\ pc' = back
            /\ attempts' = 0
            /\ Release(repairing, "original")
    /\ UNCHANGED <<lane, buffered, segVars, taskVars, logVars, back, todo, rawTo>>

\* A failed attempt is retried; after the last one the sentence stays withheld.
RepairFails ==
    /\ pc = "repair"
    /\ IF attempts + 1 < MaxRepairAttempts
       THEN /\ attempts' = attempts + 1
            /\ UNCHANGED <<state, repairing, pc>>
       ELSE /\ state' = "HOLDING" /\ repairing' = 0 /\ pc' = back
            /\ attempts' = 0
    /\ UNCHANGED <<lane, buffered, segVars, taskVars, logVars, back, todo, outVars>>

Escalate ==
    /\ Escalates
    /\ pc = "idle" /\ state = "PASSTHROUGH"
    /\ state' = "BUFFERING"
    /\ buffered' = TRUE
    /\ UNCHANGED <<lane, segVars, taskVars, logVars, ctlVars, outVars>>

-----------------------------------------------------------------------------
Chunk == \E n \in 0..MaxSentences, rest \in BOOLEAN :
             PushUnbuffered(n, rest) \/ PushBuffered(n, rest)

\* Steps a call already in progress takes by itself.
Resume == \/ LoopCollects \/ LoopStarts \/ LoopEnds
          \/ FinishCollects \/ FinishStops \/ FinishFlushes \/ FinishReturns
          \/ RepairSucceeds \/ RepairFails

Next == PushCollects \/ Chunk \/ Finish \/ Resume \/ Evaluate \/ Watchdog \/ Escalate

\* The event loop runs what is ready, a repair callback ends and the watchdog
\* timer fires; nothing obliges an evaluation to end or the caller to call.
Fairness == /\ WF_vars(Resume)
            /\ WF_vars(pc = "chunk" /\ Chunk)
            /\ WF_vars(Watchdog)

Spec == Init /\ [][Next]_vars /\ Fairness

-----------------------------------------------------------------------------
(* Properties                                                               *)

Decided   == {decisions[k].idx : k \in DOMAIN decisions}
Committed == {released[k].idx : k \in DOMAIN released}
Blocked   == \E k \in DOMAIN decisions : decisions[k].action = "L5_block"

\* What the gate may send as text after a decision: the sentence itself after a
\* pass, something else after an annotation or a repair, nothing after a
\* withholding action.
MaySend(action, how) ==
    \/ action = "L0_pass" /\ how = "original"
    \/ action = "L1_annotate" /\ how = "replaced"
    \/ action = "L2_repair" /\ how = (IF HasRepair THEN "replaced" ELSE "original")

\* No uncommitted sentence is ever emitted: text goes out for a sentence only
\* once its evaluation is over, and every decision about it allows that text,
\* whatever verdicts, watchdogs and repairs interleave.  A sentence without a
\* decision went out because its evaluation failed (_collect_pending).
CommitBeforeEmit ==
    \A k \in DOMAIN released :
        LET r == released[k] IN
        /\ r.idx \in Decided \cup skipped
        /\ r.idx # pending
        /\ \A d \in DOMAIN decisions :
              decisions[d].idx = r.idx => MaySend(decisions[d].action, r.how)

\* Text leaves in the order of the answer and no sentence is sent twice, raw
\* bytes included; only escalate() in the middle of a stream can send again
\* what unbuffered mode had sent already.
InOrderOnce ==
    /\ \A j, k \in DOMAIN released : j < k => released[j].idx < released[k].idx
    /\ \A k \in DOMAIN released : released[k].idx > rawTo \/ buffered # lane

\* Unbuffered traffic is forwarded verbatim: every byte the provider sent has
\* gone out, and no release ever repeats a part of it.
UnbufferedIsVerbatim ==
    ~buffered => /\ rawTo = closed + (IF open THEN 1 ELSE 0)
                 /\ released = <<>>

\* The buffered gate never loses a verdict: each sentence it has started and
\* not sent raw is the one in flight, or is settled with exactly one outcome.
OneInFlight ==
    \A i \in (rawTo + 1)..started :
        \/ i = pending
        \/ /\ i \in Decided \cup skipped
           /\ ~(i \in Decided /\ i \in skipped)
           /\ \A j, k \in DOMAIN decisions :
                 decisions[j].idx = i /\ decisions[k].idx = i => j = k

\* A finished answer that no rule blocked left no sentence behind: the tail was
\* flushed, every sentence was evaluated, no verdict is outstanding, and what a
\* buffered reader did not get was withheld by a decision or a failed repair.
FinishedIsComplete ==
    state = "TERMINATED" /\ pc = "idle" /\ ~Blocked =>
        /\ ~open /\ started = closed
        /\ pending = 0 /\ todo = 0 /\ repairing = 0
        /\ \A i \in (rawTo + 1)..closed :
              \/ i \in Committed
              \/ \E k \in DOMAIN decisions :
                    /\ decisions[k].idx = i
                    /\ \/ decisions[k].action \in Withheld
                       \/ decisions[k].action = "L2_repair" /\ HasRepair

\* After a blocking verdict (or finish) no further text is committed; an
\* unbuffered push that was already under way may still forward its own chunk.
SilentOnceTerminated ==
    [][Blocked \/ state = "TERMINATED" =>
          /\ released' = released
          /\ rawTo' = rawTo \/ (pc = "chunk" /\ ~buffered)]_vars

\* No verifier, however stalled, and no failing repair keeps push() or finish()
\* from returning.
CallsReturn == pc # "idle" ~> pc = "idle"

\* test_commit_gate.py:171 says of unbuffered traffic that no evaluation may be
\* left dangling, since its decision still belongs in the trace.
EveryVerdictRecorded ==
    \A i \in 1..started : i \in Decided \cup skipped \cup {pending}

-----------------------------------------------------------------------------
(* Refinement                                                               *)

\* Unbuffered text is dealt with when its bytes go out; in buffered mode every
\* sentence before the one in flight (or in repair) has met its fate.
Dealt == IF ~buffered THEN rawTo
         ELSE IF pending # 0 THEN pending - 1
         ELSE IF repairing # 0 THEN repairing - 1
         ELSE started

Copies == [i \in Sentences |->
              (IF i <= rawTo THEN 1 ELSE 0)
              + Cardinality({k \in DOMAIN released : released[k].idx = i})]

\* A blocked unbuffered push still forwards the chunk it is working on.
Over == state = "TERMINATED" /\ (buffered \/ pc = "idle")

Reader == INSTANCE CommitPromise WITH dealt <- Dealt, copies <- Copies, over <- Over

\* The gate implements the promise made to the reader: every sentence in order,
\* at most once, and nothing after the end, in both modes (without escalate()).
KeepsPromise == Reader!PromiseSpec
=============================================================================
