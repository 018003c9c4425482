-------------------------- MODULE StreamRequestProofs --------------------------
(***************************************************************************)
(* Proofs about StreamRequest.  The generator drives the gate through the  *)
(* gate's own operations, so every behaviour of the request is one of the  *)
(* gate and inherits what is proved about it (GateHolds, StreamPromise).   *)
(*                                                                         *)
(* The argument for the rest: once finish() has returned the gate never    *)
(* moves again (Drained gates stay as they are), so what the tool          *)
(* interlock and the review hold were decided on is still true when the    *)
(* answer completes.  GateAtPhase ties the generator's place to the        *)
(* gate's, Untouched says what an answer is before its first event,        *)
(* ToolsAtPhase and ReviewAtPhase what each fate was decided on.           *)
(***************************************************************************)
EXTENDS StreamRequest, CommitGateProofs

-----------------------------------------------------------------------------
(* The inductive invariant                                                  *)

\* The text has drained: finish() has returned.
TextIsOver == state = "TERMINATED" /\ pc = "idle"

\* While it drains the coroutine is inside finish() or has left it for good.
GateAtPhase ==
    /\ phase = "draining" =>
          \/ pc \in {"drain", "settle"}
          \/ pc = "repair" /\ back \in {"drain", "settle"}
          \/ TextIsOver
    /\ phase \in {"tools", "checking", "holding", "ending"} => TextIsOver

\* Before the first event there is no text, no evaluation and no tool call.
Untouched ==
    ~touched =>
        /\ closed = 0 /\ ~open /\ rawTo = 0 /\ released = <<>>
        /\ calls = 0 /\ ~gap
        /\ pending = 0 /\ task = "none" /\ todo = 0
        /\ pc \in {"idle", "drain", "settle"}

\* A frozen call ends the judging; released calls were all cleared before.
ToolsAtPhase ==
    /\ phase \in {"opening", "streaming", "draining", "checking"} => toolFate = "none"
    /\ ToolHold \in holds => toolFate = "held" \/ (toolFate = "none" /\ phase = "closed")
    /\ toolFate = "released" =>
          /\ phase \in {"holding", "ending", "closed"}
          /\ calls > 0 /\ judged = calls
          /\ TextIsOver

\* Nothing ends an answer with withheld sentences but the announced hold.
ReviewAtPhase ==
    /\ done => phase = "closed"
    /\ (done \/ phase = "ending") /\ HeldSentences # {} =>
          \E h \in announced : h.kind = "response"

StreamInv == GateAtPhase /\ Untouched /\ ToolsAtPhase /\ ReviewAtPhase

-----------------------------------------------------------------------------
(* The request drives the gate                                              *)

\* Whatever the generator does to the gate is a step of the gate.
LEMMA DrivesGate == [StreamNext]_streamVars => [Next]_vars
BY DEF StreamNext, Progress, Open, GateRuns, Drained, CallCleared, CallFrozen, CallCut, CallHeld,
       ToolsSettled, ResponseHeld, NothingHeld, Complete, TextEvent, ToolEvent, UnparsedEvent,
       UpstreamEnds, UpstreamFails, Drain, CapacityFallback, EvaluationEnds, Disconnect,
       PersistFails, streamVars, Next

\* Everything proved about the gate's states holds in every request.
THEOREM GateHolds == StreamSpec => []IInv
<1>1. StreamInit => IInv
  BY InitInvariant DEF StreamInit
<1>2. IInv /\ [StreamNext]_streamVars => IInv'
  BY DrivesGate, NextInvariant
<1> QED BY <1>1, <1>2, PTL DEF StreamSpec

\* The client of a request reads what the gate promised: its sentences in order,
\* each at most once, nothing after the end (StreamAssumption: the gateway never
\* calls escalate()).
THEOREM StreamKeepsPromise == StreamSpec => KeepsPromise
<1>1. StreamInit => ReaderInv /\ Reader!PromiseInit
  BY PromiseBegins DEF StreamInit
<1>2. ReaderInv /\ [StreamNext]_streamVars => ReaderInv' /\ [Reader!Deal]_(Reader!promiseVars)
  BY DrivesGate, PromiseStep, StreamAssumption
<1> QED BY <1>1, <1>2, PTL DEF StreamSpec, KeepsPromise, Reader!PromiseSpec

-----------------------------------------------------------------------------
(* The invariant is inductive                                               *)

\* In what place the gate's own steps leave the coroutine inside finish().
LEMMA DrainingGate ==
    ASSUME IInv, Resume \/ Watchdog,
           \/ pc \in {"drain", "settle"}
           \/ pc = "repair" /\ back \in {"drain", "settle"}
    PROVE  \/ pc' \in {"drain", "settle"}
           \/ pc' = "repair" /\ back' \in {"drain", "settle"}
           \/ TextIsOver'
BY DEF Resume, Watchdog, LoopCollects, LoopStarts, LoopEnds, FinishCollects, FinishStops,
       FinishFlushes, FinishReturns, RepairSucceeds, RepairFails, Collect, Apply, BeginRepair,
       TextIsOver, IInv, Modes

\* A gate that has finished takes no step of its own.
LEMMA OverAndIdle == TextIsOver => ~(Resume \/ Watchdog)
BY DEF TextIsOver, Resume, Watchdog, LoopCollects, LoopStarts, LoopEnds, FinishCollects,
       FinishStops, FinishFlushes, FinishReturns, RepairSucceeds, RepairFails

LEMMA GateAtPhaseStep ==
    ASSUME IInv, StreamInv, [StreamNext]_streamVars
    PROVE  GateAtPhase'
<1> USE DEF StreamInv, GateAtPhase
<1>1. CASE GateRuns
  <2>1. /\ phase' = phase /\ phase \in {"streaming", "draining"} /\ (Resume \/ Watchdog)
    BY <1>1 DEF GateRuns, reqVars
  <2>2. phase = "draining" => ~TextIsOver
    BY <2>1, OverAndIdle
  <2> QED BY <2>1, <2>2, DrainingGate
<1>2. CASE UpstreamEnds \/ UpstreamFails
  <2>1. Drain
    BY <1>2 DEF UpstreamEnds, UpstreamFails
  <2>2. phase' = "draining" /\ pc = "idle"
    BY <2>1 DEF Drain
  <2>3. pc' = "drain" \/ TextIsOver'
    BY <2>1 DEF Drain, Finish, TextIsOver, vars, ctlVars
  <2> QED BY <2>2, <2>3
<1>3. CASE EvaluationEnds
  BY <1>3 DEF EvaluationEnds, Evaluate, reqVars, ctlVars, TextIsOver
<1>4. CASE TextEvent
  BY <1>4 DEF TextEvent, reqVars
<1>5. CASE UNCHANGED vars /\ phase' \in {phase, "closed", "streaming"}
  BY <1>5 DEF vars, ctlVars, TextIsOver
<1>6. CASE UNCHANGED vars /\ TextIsOver
  BY <1>6 DEF vars, ctlVars, TextIsOver
<1>7. CASE Open \/ ToolEvent \/ UnparsedEvent \/ CapacityFallback \/ UNCHANGED streamVars
           \/ Complete \/ Disconnect \/ PersistFails
  BY <1>5, <1>7 DEF Open, ToolEvent, UnparsedEvent, CapacityFallback, Complete, Disconnect,
                    PersistFails, CloseOut, streamVars, reqVars
<1>8. CASE Drained \/ CallCleared \/ CallFrozen \/ CallCut \/ CallHeld \/ ToolsSettled
           \/ ResponseHeld \/ NothingHeld
  <2>1. UNCHANGED vars
    BY <1>8 DEF Drained, CallCleared, CallFrozen, CallCut, CallHeld, ToolsSettled, ResponseHeld,
                NothingHeld
  <2>2. TextIsOver
    BY <1>8 DEF Drained, CallCleared, CallFrozen, CallCut, CallHeld, ToolsSettled, ResponseHeld,
                NothingHeld
  <2> QED BY <1>6, <2>1, <2>2
<1> QED BY <1>1, <1>2, <1>3, <1>4, <1>7, <1>8 DEF StreamNext, Progress

LEMMA UntouchedStep ==
    ASSUME IInv, StreamInv, [StreamNext]_streamVars
    PROVE  Untouched'
<1> SUFFICES ASSUME ~touched'
             PROVE  Untouched'
  BY DEF Untouched
<1>1. ~(TextEvent \/ ToolEvent \/ UnparsedEvent)
  BY DEF TextEvent, ToolEvent, UnparsedEvent
<1>2. ~touched /\ UNCHANGED <<calls, gap>>
  BY <1>1 DEF StreamNext, Progress, Open, GateRuns, Drained, CallCleared, CallFrozen, CallCut,
              CallHeld, ToolsSettled, ResponseHeld, NothingHeld, Complete, UpstreamEnds,
              UpstreamFails, CapacityFallback, EvaluationEnds, Disconnect, PersistFails,
              streamVars, upVars, toolVars
<1>3. /\ closed = 0 /\ ~open /\ rawTo = 0 /\ released = <<>> /\ calls = 0 /\ ~gap
      /\ pending = 0 /\ task = "none" /\ todo = 0 /\ pc \in {"idle", "drain", "settle"}
  BY <1>2 DEF StreamInv, Untouched
<1>4. CASE UNCHANGED vars
  BY <1>2, <1>3, <1>4 DEF Untouched, vars, segVars, taskVars, ctlVars, outVars
<1>5. CASE (Resume \/ Watchdog) \/ Evaluate \/ Finish
  <2>1. FinishStops \/ FinishFlushes \/ FinishReturns \/ Finish
    BY <1>3, <1>5 DEF Resume, Watchdog, Evaluate, LoopCollects, LoopStarts, LoopEnds,
                      FinishCollects, RepairSucceeds, RepairFails, TaskDone
  <2>2. UNCHANGED <<closed, rawTo, released, pending, task, todo>> /\ ~open'
        /\ pc' \in {"idle", "drain", "settle"}
    BY <1>3, <2>1 DEF FinishStops, FinishFlushes, FinishReturns, Finish, segVars, taskVars, outVars
  <2> QED BY <1>2, <1>3, <2>2 DEF Untouched
<1>6. UNCHANGED vars \/ (Resume \/ Watchdog) \/ Evaluate \/ Finish
  BY <1>1 DEF StreamNext, Progress, Open, GateRuns, Drained, CallCleared, CallFrozen, CallCut,
              CallHeld, ToolsSettled, ResponseHeld, NothingHeld, Complete, UpstreamEnds, Drain,
              UpstreamFails, CapacityFallback, EvaluationEnds, Disconnect, PersistFails, streamVars
<1> QED BY <1>4, <1>5, <1>6

\* Past the end of the text the gate's decisions and place are final.
LEMMA DecisionsAreFinal ==
    ASSUME StreamInv, [StreamNext]_streamVars,
           phase \in {"tools", "checking", "holding", "ending", "closed"}
    PROVE  /\ UNCHANGED <<decisions, state, pc, calls>>
           /\ phase = "closed" => UNCHANGED <<phase, judged, toolFate, holds, announced, done>>
<1>1. CASE EvaluationEnds
  BY <1>1 DEF EvaluationEnds, Evaluate, reqVars, toolVars, holdVars, traceVars, logVars, ctlVars
<1>2. CASE ~EvaluationEnds
  BY <1>2 DEF StreamNext, Progress, Open, GateRuns, Drained, CallCleared, CallFrozen, CallCut,
              CallHeld, ToolsSettled, ResponseHeld, NothingHeld, Complete, TextEvent, ToolEvent,
              UnparsedEvent, UpstreamEnds, UpstreamFails, Drain, CapacityFallback, Disconnect,
              PersistFails, streamVars, vars, reqVars, toolVars, holdVars, traceVars, logVars, ctlVars
<1> QED BY <1>1, <1>2

LEMMA ToolsAtPhaseStep ==
    ASSUME IInv, StreamInv, [StreamNext]_streamVars
    PROVE  ToolsAtPhase'
<1> USE DEF StreamInv, ToolsAtPhase
<1>1. CASE UNCHANGED <<phase, calls, judged, toolFate, holds>>
  <2>1. toolFate = "released" => TextIsOver'
    BY DecisionsAreFinal DEF TextIsOver
  <2> QED BY <1>1, <2>1
<1>2. CASE ToolEvent
  BY <1>2 DEF ToolEvent, reqVars, holdVars
<1>3. CASE Open \/ UpstreamEnds \/ UpstreamFails \/ Drained \/ CallFrozen
  BY <1>3 DEF Open, UpstreamEnds, UpstreamFails, Drain, Drained, CallFrozen, toolVars, holdVars
<1>4. CASE CallCleared \/ CallCut \/ CallHeld
  BY <1>4 DEF CallCleared, CallCut, CallHeld, reqVars, holdVars
<1>5. CASE ToolsSettled
  <2>1. /\ phase = "tools" /\ phase' = "holding" /\ UNCHANGED <<calls, judged, holds, state, pc>>
        /\ judged = calls \/ toolFate # "none"
        /\ toolFate' = IF calls > 0 /\ toolFate = "none" THEN "released" ELSE toolFate
    BY <1>5 DEF ToolsSettled, holdVars, vars, ctlVars
  <2>2. TextIsOver'
    BY <2>1 DEF GateAtPhase, TextIsOver
  <2> QED BY <2>1, <2>2
<1>6. CASE ResponseHeld \/ NothingHeld \/ Complete \/ PersistFails \/ Disconnect
  <2>1. UNCHANGED <<calls, judged, toolFate>> /\ phase' \in {"ending", "closed"}
    BY <1>6 DEF ResponseHeld, NothingHeld, Complete, PersistFails, Disconnect, CloseOut, toolVars
  <2>2. toolFate = "released" => TextIsOver'
    BY DecisionsAreFinal DEF TextIsOver
  <2>3. \A ss : ResponseHold(ss) # ToolHold
    BY DEF ResponseHold, ToolHold
  <2>4. ToolHold \in holds' => ToolHold \in holds \/ (phase = "checking" /\ phase' = "closed")
    BY <1>6, <2>3 DEF ResponseHeld, NothingHeld, Complete, PersistFails, Disconnect, CloseOut,
                      holdVars
  <2>5. phase # "closed"
    BY <1>6 DEF ResponseHeld, NothingHeld, Complete, PersistFails, Disconnect
  <2>6. ToolHold \in holds' => toolFate = "held" \/ (toolFate = "none" /\ phase' = "closed")
    BY <2>4, <2>5
  <2>7. toolFate = "released" => calls > 0 /\ judged = calls
    OBVIOUS
  <2> QED BY <2>1, <2>2, <2>6, <2>7
<1> QED BY <1>1, <1>2, <1>3, <1>4, <1>5, <1>6
        DEF StreamNext, Progress, GateRuns, TextEvent, UnparsedEvent, CapacityFallback,
            EvaluationEnds, streamVars, reqVars, toolVars, holdVars

LEMMA ReviewAtPhaseStep ==
    ASSUME IInv, StreamInv, [StreamNext]_streamVars
    PROVE  ReviewAtPhase'
<1> USE DEF StreamInv, ReviewAtPhase
<1>1. phase \in {"holding", "ending", "closed"} => HeldSentences' = HeldSentences
  BY DecisionsAreFinal DEF HeldSentences
<1>2. CASE ResponseHeld
  <2>1. phase' = "ending" /\ done' = done /\ phase = "holding"
        /\ announced' = announced \cup {ResponseHold(ListedSentences)}
    BY <1>2 DEF ResponseHeld, traceVars
  <2>2. ResponseHold(ListedSentences).kind = "response"
    BY DEF ResponseHold
  <2> QED BY <2>1, <2>2
<1>3. CASE NothingHeld
  BY <1>1, <1>3 DEF NothingHeld, traceVars
<1>4. CASE Complete
  BY <1>1, <1>4 DEF Complete, CloseOut, holdVars
<1>5. CASE Disconnect \/ PersistFails
  <2>1. phase' = "closed" /\ done' = done /\ phase # "closed"
    BY <1>5 DEF Disconnect, PersistFails, CloseOut, Suspended
  <2> QED BY <2>1
<1>6. CASE phase' \notin {"ending", "closed"} /\ done' = done /\ phase # "closed"
  BY <1>6
<1>7. CASE UNCHANGED <<phase, done, announced>>
  BY <1>1, <1>7
<1> QED BY <1>2, <1>3, <1>4, <1>5, <1>6, <1>7
        DEF StreamNext, Progress, Open, GateRuns, Drained, CallCleared, CallFrozen, CallCut, CallHeld,
            ToolsSettled, TextEvent, ToolEvent, UnparsedEvent, UpstreamEnds, UpstreamFails, Drain,
            CapacityFallback, EvaluationEnds, streamVars, reqVars, holdVars, traceVars

\* The gate's invariant and the request's hold together throughout.
THEOREM StreamInvariant == StreamSpec => [](IInv /\ StreamInv)
<1>1. StreamInit => StreamInv
  BY DEF StreamInit, Init, StreamInv, GateAtPhase, Untouched, ToolsAtPhase, ReviewAtPhase
<1>2. IInv /\ StreamInv /\ [StreamNext]_streamVars => StreamInv'
  BY GateAtPhaseStep, UntouchedStep, ToolsAtPhaseStep, ReviewAtPhaseStep DEF StreamInv
<1> QED BY <1>1, <1>2, GateHolds, PTL DEF StreamSpec

-----------------------------------------------------------------------------
(* The theorems                                                             *)

\* The tool calls of a turn are replayed to the client only after the text has
\* drained and the interlock has cleared every one of them (_stream_response).
THEOREM CallsAllOrNothing == StreamSpec => []ToolCallsAllOrNothing
<1>1. StreamInv => ToolCallsAllOrNothing
  BY DEF StreamInv, ToolsAtPhase, ToolCallsAllOrNothing, TextIsOver
<1> QED BY <1>1, StreamInvariant, PTL

\* An answer that reached [DONE] with a sentence under review has announced the
\* hold that a human will decide.
THEOREM ReviewsAreHeld == StreamSpec => []CompletedReviewIsHeld
<1>1. StreamInv => CompletedReviewIsHeld
  BY DEF StreamInv, ReviewAtPhase, CompletedReviewIsHeld
<1> QED BY <1>1, StreamInvariant, PTL

\* No client ever reads the beginning of one model's answer and the rest of
\* another's: the fallback happens before anything has arrived.
THEOREM AnswersComeFromOneModel == StreamSpec => SingleModelAnswer
<1> DEFINE Single == fellBack' # fellBack =>
                        closed = 0 /\ ~open /\ rawTo = 0 /\ released = <<>> /\ calls = 0 /\ ~gap
<1>1. StreamInv /\ [StreamNext]_streamVars => [Single]_streamVars
  <2> SUFFICES ASSUME StreamInv, StreamNext, fellBack' # fellBack
               PROVE  closed = 0 /\ ~open /\ rawTo = 0 /\ released = <<>> /\ calls = 0 /\ ~gap
    OBVIOUS
  <2>1. CapacityFallback
    BY DEF StreamNext, Progress, Open, GateRuns, Drained, CallCleared, CallFrozen, CallCut, CallHeld,
           ToolsSettled, ResponseHeld, NothingHeld, Complete, TextEvent, ToolEvent, UnparsedEvent,
           UpstreamEnds, UpstreamFails, EvaluationEnds, Disconnect, PersistFails, upVars
  <2> QED BY <2>1 DEF CapacityFallback, FallbackTarget, StreamInv, Untouched
<1> QED BY <1>1, StreamInvariant, PTL DEF StreamSpec, SingleModelAnswer

\* A request whose gate finished unblocked left no sentence of its answer behind:
\* each was sent, or withheld by a decision or a failed repair.
THEOREM AnswersAreComplete == StreamSpec => []FinishedIsComplete
<1>1. StreamInit => CompleteInv
  BY CompleteBegins DEF StreamInit
<1>2. CompleteInv /\ [StreamNext]_streamVars => CompleteInv'
  BY DrivesGate, CompleteStep
<1> QED BY <1>1, <1>2, CompleteMeans, PTL DEF StreamSpec
=============================================================================
