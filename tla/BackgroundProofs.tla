---------------------------- MODULE BackgroundProofs ---------------------------
(***************************************************************************)
(* Proofs about the parts that run beside the answers: the breaker of the  *)
(* load governor, the observer service with what its threads share, a      *)
(* batch at the paid judge, the bets of Lane C, the accounts drawn up from *)
(* the ledger, and the calibrators.                                        *)
(***************************************************************************)
EXTENDS Governor, ObserverService, JudgeCall, LaneC, Accounts, Calibration, TLAPS, FiniteSetTheorems,
        SequenceTheorems, WellFoundedInduction

-----------------------------------------------------------------------------
(* The breaker of gateway/governor.py, for every threshold, window and      *)
(* number of calls in flight                                                *)

\* The probe flag is the memory of the one call let through: while the breaker
\* has not opened anew or closed, calls are counted only with the flag set, and
\* the flag is cleared only together with the count (Breaker.allow,
\* record_failure, record_success).
ProbeCounted ==
  \/ probing = FALSE /\ admitted = 0
  \/ probing = TRUE  /\ admitted = 1

\* The first state of a governor counts nothing.
LEMMA InitProbeCounted == Init => ProbeCounted
BY DEF Init, ProbeCounted

\* A failure clears the flag and the count together, or neither.
LEMMA FailureKeepsProbeCounted == ProbeCounted /\ RecordFailure => ProbeCounted'
<1> SUFFICES ASSUME ProbeCounted, RecordFailure PROVE ProbeCounted'
  OBVIOUS
<1>1. \/ probing' = FALSE /\ admitted' = 0
      \/ probing' = probing /\ admitted' = admitted
  BY DEF RecordFailure
<1> QED BY <1>1 DEF ProbeCounted

\* So does a success.
LEMMA SuccessKeepsProbeCounted == ProbeCounted /\ RecordSuccess => ProbeCounted'
BY DEF RecordSuccess, ProbeCounted

\* Every step keeps the count tied to the flag.
LEMMA NextProbeCounted == ProbeCounted /\ [Next]_vars => ProbeCounted'
<1> SUFFICES ASSUME ProbeCounted, [Next]_vars PROVE ProbeCounted'
  OBVIOUS
<1>1. CASE Allow
  BY <1>1 DEF Allow, ProbeCounted
<1>2. CASE CallFails
  BY <1>2, FailureKeepsProbeCounted DEF CallFails
<1>3. CASE CallSucceeds
  BY <1>3, SuccessKeepsProbeCounted DEF CallSucceeds
<1>4. CASE UNCHANGED <<probing, admitted>>
  BY <1>4 DEF ProbeCounted
<1>5. Allow \/ CallFails \/ CallSucceeds \/ UNCHANGED <<probing, admitted>>
  BY DEF Next, vars, breakerVars, Tick, Observe, CalmDown, ForceState
<1> QED BY <1>1, <1>2, <1>3, <1>4, <1>5

\* However many calls are still in flight from before it opened, a breaker lets
\* one call through at most until it closes or opens again.
THEOREM OneProbe == Spec => []OneProbePerOpening
<1>1. ProbeCounted => OneProbePerOpening
  BY DEF ProbeCounted, OneProbePerOpening
<1> QED BY <1>1, InitProbeCounted, NextProbeCounted, PTL DEF Spec

-----------------------------------------------------------------------------
(* The observer service, for any number of calls and contexts               *)

Premises == {Trusted(k) : k \in Contexts \cup {{}}}
Places   == {"new", "premise", "store", "touch", "measure", "evict", "load", "wait", "loading",
             "loaded", "prepare", "encode", "answer", "done"}
Values   == {"open", "none", "degraded", "failed", "scored"}
Thread   == [pc : Places, context : Contexts \cup {{}}, premise : Premises,
             layers : BOOLEAN, value : Values]

\* An entry of the premise cache keeps the trusted part of its own key.
Bundles == {<<k, Trusted(k)>> : k \in Contexts \cup {{}}}

\* A thread past the look-up holds the trusted part of its own context, and
\* has no value before its answer.
ThreadsInv ==
    /\ threads \in [Observers -> Thread]
    /\ PremiseIsTrusted
    /\ \A c \in Observers : threads[c].pc \notin {"answer", "done"} => threads[c].value = "open"

\* Whoever loads holds the lock, finds the model missing, and is alone.
EncoderInv ==
    /\ encoder \in [model : BOOLEAN, layers : BOOLEAN, loads : {0, 1}]
    /\ encoder.model = TRUE \/ encoder.loads = 0
    /\ \A c \in Observers : threads[c].pc \in {"loading", "loaded"} => lock = c
    /\ \A c \in Observers : threads[c].pc = "loading" => encoder.model = FALSE

ObserverInv == ThreadsInv /\ premises \in Seq(Bundles) /\ EncoderInv

\* One thread takes a step and the others stay where they are.
LEMMA ThreadMoves ==
    ASSUME ObserverInv, NEW c \in Observers, NEW t \in Thread,
           threads' = [threads EXCEPT ![c] = t],
           t.pc \notin {"new", "premise"} => t.value = "none" \/ t.premise = Trusted(t.context),
           t.pc \notin {"answer", "done"} => t.value = "open"
    PROVE  /\ ThreadsInv'
           /\ threads'[c] = t
           /\ \A d \in Observers : d # c => threads'[d] = threads[d]
<1>1. threads \in [Observers -> Thread] /\ PremiseIsTrusted
  BY DEF ObserverInv, ThreadsInv
<1>2. /\ threads' \in [Observers -> Thread] /\ threads'[c] = t
      /\ \A d \in Observers : d # c => threads'[d] = threads[d]
  BY <1>1
<1>3. PremiseIsTrusted'
  <2> SUFFICES ASSUME NEW d \in Observers, threads'[d].pc \notin {"new", "premise"}
               PROVE  threads'[d].value = "none" \/ threads'[d].premise = Trusted(threads'[d].context)
    BY DEF PremiseIsTrusted, Trusted
  <2>1. CASE d = c
    BY <1>2, <2>1
  <2>2. CASE d # c
    BY <1>1, <1>2, <2>2 DEF PremiseIsTrusted
  <2> QED BY <2>1, <2>2
<1>4. \A d \in Observers : threads'[d].pc \notin {"answer", "done"} => threads'[d].value = "open"
  BY <1>2 DEF ObserverInv, ThreadsInv
<1> QED BY <1>2, <1>3, <1>4 DEF ThreadsInv

\* A thread past the look-up that goes on keeps its premise ...
LEMMA GoesOn ==
    ASSUME ObserverInv, NEW c \in Observers, threads[c].pc \notin {"new", "premise"},
           NEW pc \in Places, Goes(c, pc),
           threads[c].pc \in {"answer", "done"} => pc = "done"
    PROVE  /\ ThreadsInv'
           /\ threads'[c].pc = pc
           /\ \A d \in Observers : d # c => threads'[d] = threads[d]
<1> DEFINE t == [threads[c] EXCEPT !.pc = pc]
<1>1. /\ PremiseIsTrusted /\ threads[c] \in Thread
      /\ threads[c].pc \notin {"answer", "done"} => threads[c].value = "open"
  BY DEF ObserverInv, ThreadsInv
<1>2. threads' = [threads EXCEPT ![c] = t]
  BY DEF Goes
<1>3. /\ t \in Thread /\ t.pc = pc /\ t.value = threads[c].value
      /\ t.premise = threads[c].premise /\ t.context = threads[c].context
  BY <1>1 DEF Thread
<1> HIDE DEF t
<1>4. t.value = "none" \/ t.premise = Trusted(t.context)
  BY <1>1, <1>3 DEF PremiseIsTrusted
<1>5. t.pc \notin {"answer", "done"} => t.value = "open"
  BY <1>1, <1>3
<1> QED BY <1>2, <1>3, <1>4, <1>5, ThreadMoves

\* ... and so does one that fails, unless it has no score.
LEMMA FailsSoundly ==
    ASSUME ObserverInv, NEW c \in Observers, NEW value \in Values,
           threads[c].pc \notin {"new", "premise"} \/ value = "none",
           threads[c].pc \notin {"answer", "done"}, Fails(c, value)
    PROVE  /\ ThreadsInv'
           /\ threads'[c].pc = "answer"
           /\ \A d \in Observers : d # c => threads'[d] = threads[d]
<1> DEFINE t == [threads[c] EXCEPT !.pc = "answer", !.value = value]
<1>1. PremiseIsTrusted /\ threads[c] \in Thread /\ threads[c].value = "open"
  BY DEF ObserverInv, ThreadsInv
<1>2. threads' = [threads EXCEPT ![c] = t]
  BY DEF Fails
<1>3. /\ t \in Thread /\ t.pc = "answer" /\ t.value = value
      /\ t.premise = threads[c].premise /\ t.context = threads[c].context
  BY <1>1 DEF Thread, Places
<1> HIDE DEF t
<1>4. t.value = "none" \/ t.premise = Trusted(t.context)
  BY <1>1, <1>3 DEF PremiseIsTrusted
<1> QED BY <1>2, <1>3, <1>4, ThreadMoves

\* A step that leaves the encoder and its lock alone and does not begin to load.
LEMMA EncoderKeeps ==
    ASSUME ObserverInv, NEW c \in Observers, UNCHANGED <<encoder, lock>>,
           threads'[c].pc \notin {"loading", "loaded"},
           \A d \in Observers : d # c => threads'[d] = threads[d]
    PROVE  EncoderInv'
BY DEF ObserverInv, EncoderInv

\* The cache of premises, entry by entry.
LEMMA EntriesAreSound ==
    ASSUME ObserverInv, NEW k \in DOMAIN premises
    PROVE  /\ k \in 1..Len(premises)
           /\ premises[k] \in Bundles
           /\ premises[k][2] = Trusted(premises[k][1])
<1>1. k \in 1..Len(premises) /\ premises[k] \in Bundles
  BY LenProperties, ElementOfSeq DEF ObserverInv
<1> QED BY <1>1 DEF Bundles

\* move_to_end() keeps the entries.
LEMMA UsedKeeps ==
    ASSUME ObserverInv, NEW k \in DOMAIN premises
    PROVE  Used(premises, k) \in Seq(Bundles)
<1>1. /\ premises \in Seq(Bundles) /\ Len(premises) \in Nat
      /\ k \in 1..Len(premises) /\ premises[k] \in Bundles
      /\ \A j \in 1..Len(premises) : premises[j] \in Bundles
  BY EntriesAreSound, LenProperties, ElementOfSeq DEF ObserverInv
<1>2. SubSeq(premises, 1, k - 1) \in Seq(Bundles)
  BY <1>1, SubSeqProperties
<1>3. SubSeq(premises, k + 1, Len(premises)) \in Seq(Bundles)
  BY <1>1, SubSeqProperties
<1>4. RemoveAt(premises, k) \in Seq(Bundles)
  BY <1>2, <1>3, ConcatProperties DEF RemoveAt
<1> QED BY <1>1, <1>4, AppendProperties DEF Used

LEMMA TakeInStep == ASSUME ObserverInv, NEW c \in Observers, TakeIn(c) PROVE ObserverInv'
<1>1. PICK context \in Contexts, sent \in BOOLEAN :
         threads' = [threads EXCEPT ![c].pc = "premise",
                        ![c].context = IF context \in Range(contexts) \/ sent THEN context ELSE {}]
  BY DEF TakeIn
<1> DEFINE own == IF context \in Range(contexts) \/ sent THEN context ELSE {}
           t   == [threads[c] EXCEPT !.pc = "premise", !.context = own]
<1>2. own \in Contexts \cup {{}} /\ threads[c] \in Thread
  BY DEF ObserverInv, ThreadsInv
<1>3. threads' = [threads EXCEPT ![c] = t]
  BY <1>1
<1> HIDE DEF own
<1>4. t \in Thread /\ t.pc = "premise" /\ t.value = "open"
  <2>1. threads[c].value = "open"
    BY DEF TakeIn, ObserverInv, ThreadsInv
  <2> QED BY <1>2, <2>1 DEF Thread, Places
<1> HIDE DEF t
<1>5. ThreadsInv' /\ threads'[c] = t /\ \A d \in Observers : d # c => threads'[d] = threads[d]
  BY <1>3, <1>4, ThreadMoves
<1>6. UNCHANGED <<premises, encoder, lock>>
  BY DEF TakeIn
<1> QED BY <1>4, <1>5, <1>6, EncoderKeeps DEF ObserverInv

LEMMA LookUpStep == ASSUME ObserverInv, NEW c \in Observers, LookUp(c) PROVE ObserverInv'
<1> DEFINE key  == threads[c].context
           hits == Cached(key)
           pc   == IF hits = {} THEN "store" ELSE "touch"
           found == IF hits = {} THEN Trusted(key) ELSE premises[CHOOSE k \in hits : TRUE][2]
           t    == [threads[c] EXCEPT !.pc = pc, !.premise = found]
<1>1. threads[c] \in Thread /\ key \in Contexts \cup {{}} /\ threads[c].value = "open"
  BY DEF ObserverInv, ThreadsInv, Thread, LookUp
<1>2. threads' = [threads EXCEPT ![c] = t] /\ UNCHANGED <<premises, encoder, lock>>
  BY DEF LookUp, KeyOf
<1>3. found = Trusted(key)
  <2>1. CASE hits = {}
    BY <2>1
  <2>2. CASE hits # {}
    <3>1. PICK k \in hits : k = CHOOSE j \in hits : TRUE
      BY <2>2
    <3>2. k \in DOMAIN premises /\ premises[k][1] = key
      BY <3>1 DEF Cached
    <3>3. premises[k][2] = Trusted(key)
      BY <3>2, EntriesAreSound
    <3> QED BY <2>2, <3>1, <3>3
  <2> QED BY <2>1, <2>2
<1>4. pc \in {"store", "touch"}
  OBVIOUS
<1> HIDE DEF found, pc
<1>5. t \in Thread /\ t.pc = pc /\ t.premise = found /\ t.context = key /\ t.value = "open"
  BY <1>1, <1>3, <1>4 DEF Thread, Places, Premises
<1> HIDE DEF t, key
<1>6. ThreadsInv' /\ threads'[c] = t /\ \A d \in Observers : d # c => threads'[d] = threads[d]
  BY <1>2, <1>3, <1>5, ThreadMoves
<1> QED BY <1>2, <1>4, <1>5, <1>6, EncoderKeeps DEF ObserverInv

LEMMA CacheStep ==
    ASSUME ObserverInv, NEW c \in Observers, Touch(c) \/ Store(c) \/ Measure(c) \/ Evict(c)
    PROVE  ObserverInv'
<1>1. /\ threads[c].pc \in {"touch", "store", "measure", "evict"}
      /\ UNCHANGED <<encoder, lock>>
  BY DEF Touch, Store, Measure, Evict
<1>2. \/ \E pc \in {"load", "measure", "evict"} : Goes(c, pc)
      \/ Fails(c, "degraded")
  BY DEF Touch, Store, Measure, Evict
<1>3. /\ ThreadsInv' /\ \A d \in Observers : d # c => threads'[d] = threads[d]
      /\ threads'[c].pc \in {"load", "measure", "evict", "answer"}
  <2>1. {"load", "measure", "evict"} \subseteq Places /\ "degraded" \in Values
    BY DEF Places, Values
  <2> QED BY <1>1, <1>2, <2>1, GoesOn, FailsSoundly
<1>4. EncoderInv'
  BY <1>1, <1>3, EncoderKeeps
<1>5. premises' \in Seq(Bundles)
  <2>1. CASE premises' = premises
    BY <2>1 DEF ObserverInv
  <2>2. CASE Touch(c) /\ premises' # premises
    <3> DEFINE hits == Cached(KeyOf(threads[c].context))
    <3>1. hits # {} /\ premises' = Used(premises, CHOOSE k \in hits : TRUE)
      BY <2>2 DEF Touch
    <3>2. (CHOOSE k \in hits : TRUE) \in DOMAIN premises
      BY <3>1 DEF Cached
    <3> QED BY <3>1, <3>2, UsedKeeps
  <2>3. CASE Store(c) /\ premises' # premises
    <3> DEFINE key == threads[c].context
    <3>1. premises' = Append(premises, <<key, threads[c].premise>>) /\ threads[c].pc = "store"
      BY <2>3 DEF Store, KeyOf
    <3>2. key \in Contexts \cup {{}} /\ threads[c].premise = Trusted(key)
      <4>1. threads[c].value = "none" \/ threads[c].premise = Trusted(threads[c].context)
        BY <3>1 DEF ObserverInv, ThreadsInv, PremiseIsTrusted
      <4>2. threads[c].value = "open" /\ key \in Contexts \cup {{}}
        BY <3>1 DEF ObserverInv, ThreadsInv, Thread
      <4> QED BY <4>1, <4>2
    <3>3. <<key, threads[c].premise>> \in Bundles
      BY <3>2 DEF Bundles
    <3> QED BY <3>1, <3>3, AppendProperties DEF ObserverInv
  <2>4. CASE Evict(c) /\ premises' # premises
    <3>1. premises # <<>> /\ premises' = Tail(premises)
      BY <2>4 DEF Evict
    <3> QED BY <3>1, HeadTailProperties DEF ObserverInv
  <2> QED BY <2>1, <2>2, <2>3, <2>4 DEF Measure
<1> QED BY <1>3, <1>4, <1>5 DEF ObserverInv

LEMMA EncoderStep ==
    ASSUME ObserverInv, NEW c \in Observers,
           \/ NotScored(c) \/ CheckLoaded(c) \/ LockToLoad(c) \/ Load(c) \/ Finish(c)
           \/ LoadFails(c) \/ Prepare(c) \/ Encode(c) \/ Answer(c)
    PROVE  ObserverInv'
<1>1. UNCHANGED premises
  BY DEF NotScored, CheckLoaded, LockToLoad, Load, Finish, LoadFails, Prepare, Encode, Answer
<1>2. CASE NotScored(c) \/ CheckLoaded(c) \/ Encode(c) \/ Answer(c)
  <2>1. /\ UNCHANGED <<encoder, lock>>
        /\ \/ threads[c].pc \notin {"new", "premise"}
              /\ \E pc \in {"prepare", "wait", "done"} :
                    /\ Goes(c, pc)
                    /\ threads[c].pc \in {"answer", "done"} => pc = "done"
           \/ threads[c].pc \notin {"new", "premise", "answer", "done"}
              /\ \E v \in {"scored", "failed", "none"} : Fails(c, v)
           \/ threads[c].pc \notin {"answer", "done"} /\ Fails(c, "none")
    BY <1>2 DEF NotScored, CheckLoaded, Encode, Answer
  <2>2. {"prepare", "wait", "done"} \subseteq Places /\ {"scored", "failed", "none"} \subseteq Values
    BY DEF Places, Values
  <2>3. /\ ThreadsInv' /\ \A d \in Observers : d # c => threads'[d] = threads[d]
        /\ threads'[c].pc \in {"prepare", "wait", "done", "answer"}
    BY <2>1, <2>2, GoesOn, FailsSoundly
  <2>4. EncoderInv'
    BY <2>1, <2>3, EncoderKeeps
  <2> QED BY <1>1, <2>3, <2>4 DEF ObserverInv
<1>3. CASE LockToLoad(c)
  <2>1. /\ threads[c].pc = "wait" /\ lock = NoThread /\ UNCHANGED encoder
        /\ \/ Goes(c, "prepare") /\ UNCHANGED lock
           \/ encoder.model # TRUE /\ lock' = c /\ Goes(c, "loading")
    BY <1>3 DEF LockToLoad, Won
  <2>2. "prepare" \in Places /\ "loading" \in Places
    BY DEF Places
  <2>3. CASE Goes(c, "prepare") /\ UNCHANGED lock
    <3>1. /\ ThreadsInv' /\ \A d \in Observers : d # c => threads'[d] = threads[d]
          /\ threads'[c].pc = "prepare"
      BY <2>1, <2>2, <2>3, GoesOn
    <3> QED BY <1>1, <2>1, <2>3, <3>1, EncoderKeeps DEF ObserverInv
  <2>4. CASE encoder.model # TRUE /\ lock' = c /\ Goes(c, "loading")
    <3>1. /\ ThreadsInv' /\ \A d \in Observers : d # c => threads'[d] = threads[d]
          /\ threads'[c].pc = "loading"
      BY <2>1, <2>2, <2>4, GoesOn
    <3>2. encoder.model = FALSE
      BY <2>4 DEF ObserverInv, EncoderInv
    <3>3. \A d \in Observers : threads[d].pc \notin {"loading", "loaded"}
      BY <2>1, ObserverAssumption DEF ObserverInv, EncoderInv
    <3>4. EncoderInv'
      BY <2>1, <2>4, <3>1, <3>2, <3>3 DEF ObserverInv, EncoderInv
    <3> QED BY <1>1, <3>1, <3>4 DEF ObserverInv
  <2> QED BY <2>1, <2>3, <2>4
<1>4. CASE Load(c)
  <2>1. /\ threads[c].pc = "loading" /\ UNCHANGED lock /\ Goes(c, "loaded")
        /\ encoder' = [encoder EXCEPT !.model = TRUE, !.loads = encoder.loads + 1]
    BY <1>4 DEF Load
  <2>2. /\ ThreadsInv' /\ \A d \in Observers : d # c => threads'[d] = threads[d]
        /\ threads'[c].pc = "loaded"
    <3>1. "loaded" \in Places
      BY DEF Places
    <3> QED BY <2>1, <3>1, GoesOn
  <2>3. lock = c /\ encoder.model = FALSE /\ encoder.loads = 0
    BY <2>1 DEF ObserverInv, EncoderInv
  <2>4. encoder' \in [model : BOOLEAN, layers : BOOLEAN, loads : {0, 1}] /\ encoder'.model = TRUE
    <3>1. encoder' = [encoder EXCEPT !.model = TRUE, !.loads = 1]
      BY <2>1, <2>3
    <3> QED BY <3>1 DEF ObserverInv, EncoderInv
  <2>5. \A d \in Observers : threads'[d].pc \in {"loading", "loaded"} => lock' = d
    BY <2>1, <2>2, <2>3 DEF ObserverInv, EncoderInv
  <2>6. \A d \in Observers : threads'[d].pc # "loading"
    BY <2>2, <2>3 DEF ObserverInv, EncoderInv
  <2> QED BY <1>1, <2>2, <2>4, <2>5, <2>6 DEF ObserverInv, EncoderInv
<1>5. CASE Finish(c) \/ LoadFails(c)
  <2>1. /\ threads[c].pc \in {"loading", "loaded"}
        /\ encoder' \in {encoder, [encoder EXCEPT !.layers = TRUE]}
        /\ Goes(c, "prepare") \/ Fails(c, "failed")
    BY <1>5 DEF Finish, LoadFails
  <2>2. /\ ThreadsInv' /\ \A d \in Observers : d # c => threads'[d] = threads[d]
        /\ threads'[c].pc \in {"prepare", "answer"}
    <3>1. "prepare" \in Places /\ "failed" \in Values
      BY DEF Places, Values
    <3> QED BY <2>1, <3>1, GoesOn, FailsSoundly
  <2>3. \A d \in Observers : threads'[d].pc \notin {"loading", "loaded"}
    BY <2>1, <2>2 DEF ObserverInv, EncoderInv
  <2>4. /\ encoder' \in [model : BOOLEAN, layers : BOOLEAN, loads : {0, 1}]
        /\ encoder'.model = TRUE \/ encoder'.loads = 0
    BY <2>1 DEF ObserverInv, EncoderInv
  <2> QED BY <1>1, <2>2, <2>3, <2>4 DEF ObserverInv, EncoderInv
<1>6. CASE Prepare(c)
  <2> DEFINE t == [threads[c] EXCEPT !.pc = "encode", !.layers = encoder.layers]
  <2>1. threads' = [threads EXCEPT ![c] = t] /\ UNCHANGED <<encoder, lock>> /\ threads[c].pc = "prepare"
    BY <1>6 DEF Prepare
  <2>2. threads[c] \in Thread /\ PremiseIsTrusted /\ encoder.layers \in BOOLEAN
    BY DEF ObserverInv, ThreadsInv, EncoderInv
  <2>3. /\ t \in Thread /\ t.pc = "encode" /\ t.value = threads[c].value
        /\ t.premise = threads[c].premise /\ t.context = threads[c].context
    BY <2>2 DEF Thread, Places
  <2> HIDE DEF t
  <2>4. t.value = "none" \/ t.premise = Trusted(t.context)
    BY <2>1, <2>2, <2>3 DEF PremiseIsTrusted
  <2>5. ThreadsInv' /\ threads'[c] = t /\ \A d \in Observers : d # c => threads'[d] = threads[d]
    <3>1. t.value = "open"
      BY <2>1, <2>3 DEF ObserverInv, ThreadsInv
    <3> QED BY <2>1, <2>3, <2>4, <3>1, ThreadMoves
  <2> QED BY <1>1, <2>1, <2>3, <2>5, EncoderKeeps DEF ObserverInv
<1> QED BY <1>2, <1>3, <1>4, <1>5, <1>6

\* Every call starts fresh, with empty caches and no encoder.
LEMMA ObserverBegins == ObserverInit => ObserverInv
<1> SUFFICES ASSUME ObserverInit PROVE ObserverInv
  OBVIOUS
<1>1. Fresh \in Thread
  <2>1. Trusted({}) = {}
    BY DEF Trusted
  <2> QED BY <2>1 DEF Fresh, Thread, Places, Premises, Values
<1>2. /\ threads \in [Observers -> Thread]
      /\ \A c \in Observers : threads[c].pc = "new" /\ threads[c].value = "open"
  BY <1>1 DEF ObserverInit, Fresh
<1>3. ThreadsInv
  BY <1>2 DEF ThreadsInv, PremiseIsTrusted
<1>4. EncoderInv
  BY <1>2 DEF EncoderInv, ObserverInit
<1> QED BY <1>3, <1>4, EmptySeq DEF ObserverInv, ObserverInit

\* However the threads of the service interleave over its cache and its encoder,
\* each sentence is compared with the trusted part of its own context, and the
\* encoder is loaded once (context_for, _premise, ObserverEncoder.load).
THEOREM ObserversShareSoundly ==
    ObserverInit /\ [][ObserverNext]_observerVars => []SharedStateIsSound
<1>1. ObserverInv /\ [ObserverNext]_observerVars => ObserverInv'
  <2> SUFFICES ASSUME ObserverInv, [ObserverNext]_observerVars PROVE ObserverInv'
    OBVIOUS
  <2>1. ASSUME NEW c \in Observers, TakeIn(c) \/ Works(c)
        PROVE  ObserverInv'
    BY <2>1, TakeInStep, LookUpStep, CacheStep, EncoderStep DEF Works
  <2>2. CASE UNCHANGED observerVars
    BY <2>2 DEF observerVars, ObserverInv, ThreadsInv, EncoderInv, PremiseIsTrusted
  <2> QED BY <2>1, <2>2 DEF ObserverNext
<1>2. ObserverInv => SharedStateIsSound
  BY DEF ObserverInv, ThreadsInv, EncoderInv, SharedStateIsSound, LoadedOnce
<1> QED BY <1>1, <1>2, ObserverBegins, PTL

-----------------------------------------------------------------------------
(* Smallest and greatest numbers                                            *)

\* A set of naturals that is not empty has a smallest member, which Min names.
LEMMA SmallestOf ==
    ASSUME NEW I \in SUBSET Nat, I # {}
    PROVE  Min(I) \in I /\ \A y \in I : Min(I) <= y
<1> DEFINE R == {p \in Nat \X Nat : p[1] < p[2]}
<1>1. R = OpToRel(<, Nat)
  BY DEF OpToRel
<1>2. IsWellFoundedOn(R, Nat)
  BY <1>1, NatLessThanWellFounded
<1> HIDE DEF R
<1>3. PICK x \in I : \A y \in I : <<y, x>> \notin R
  BY <1>2, WFMin
<1>4. \A y \in I : x <= y
  <2> TAKE y \in I
  <2>1. <<y, x>> \notin R /\ x \in Nat /\ y \in Nat
    BY <1>3
  <2>2. ~(y < x)
    BY <2>1 DEF R
  <2> QED BY <2>1, <2>2
<1> QED BY <1>4 DEF Min

\* A set of naturals with a bound has a greatest member, and Max names it.
LEMMA Greatest ==
    ASSUME NEW n \in Nat, NEW I \in SUBSET (0..n), I # {}
    PROVE  Max(I) \in I /\ \A y \in I : y <= Max(I)
<1> DEFINE J == {n - x : x \in I}
<1>1. J \in SUBSET Nat /\ J # {}
  OBVIOUS
<1>2. PICK j \in J : \A y \in J : j <= y
  BY <1>1, SmallestOf
<1>3. PICK x \in I : j = n - x
  BY <1>2
<1>4. \A y \in I : x >= y
  <2> TAKE y \in I
  <2>1. x \in 0..n /\ y \in 0..n
    OBVIOUS
  <2>2. n - y \in J
    OBVIOUS
  <2>3. n - x <= n - y
    BY <1>2, <1>3, <2>2
  <2> HIDE DEF J
  <2> QED BY <2>1, <2>3
<1> HIDE DEF J
<1>5. Max(I) \in I /\ \A y \in I : Max(I) >= y
  BY <1>4 DEF Max
<1> QED BY <1>5

\* Induction, for a set of numbers.
LEMMA Counting ==
    ASSUME NEW S, 0 \in S, \A n \in Nat : n \in S => n + 1 \in S
    PROVE  Nat \subseteq S
<1> SUFFICES ASSUME Nat \ S # {} PROVE FALSE
  OBVIOUS
<1>0. Nat \ S \in SUBSET Nat
  OBVIOUS
<1>1. PICK n \in Nat \ S : \A m \in Nat \ S : n <= m
  BY <1>0, SmallestOf
<1>2. n # 0 /\ n - 1 \in Nat /\ (n - 1) + 1 = n
  BY <1>1
<1>3. n - 1 \in S
  BY <1>1, <1>2
<1> QED BY <1>1, <1>2, <1>3

\* Of two numbers, Max is the greater and Min the smaller.
LEMMA OfTwo ==
    \A a, b \in Int : /\ Max({a, b}) = IF a >= b THEN a ELSE b
                      /\ Min({a, b}) = IF a <= b THEN a ELSE b
<1> TAKE a, b \in Int
<1>1. \A x \in {a, b} : (\A y \in {a, b} : x >= y) <=> x = IF a >= b THEN a ELSE b
  OBVIOUS
<1>2. \A x \in {a, b} : (\A y \in {a, b} : x <= y) <=> x = IF a <= b THEN a ELSE b
  OBVIOUS
<1> QED BY <1>1, <1>2 DEF Max, Min

-----------------------------------------------------------------------------
(* A batch at the paid judge: eval/openrouter_judge.py, for every wording,  *)
(* price and number of attempts                                             *)

\* The first entry for an item is found, and found only if there is one.
LEMMA FirstWord ==
    ASSUME NEW list \in Seq(Entries), NEW i
    PROVE  LET k == SelectInSeq(list, LAMBDA e : e.id = i)
           IN  /\ k \in 0..Len(list)
               /\ k = 0 => \A j \in 1..Len(list) : list[j].id # i
               /\ k # 0 => list[k].id = i /\ \A j \in 1..(k - 1) : list[j].id # i
<1> DEFINE I == {j \in 1..Len(list) : list[j].id = i}
           k == SelectInSeq(list, LAMBDA e : e.id = i)
<1>1. k = IF I # {} THEN Min(I) ELSE 0
  BY DEF SelectInSeq
<1>2. Len(list) \in Nat
  BY LenProperties
<1> HIDE DEF k
<1>3. /\ k \in 0..Len(list)
      /\ k = 0 => \A j \in 1..Len(list) : list[j].id # i
      /\ k # 0 => list[k].id = i /\ \A j \in 1..(k - 1) : list[j].id # i
  <2>1. CASE I = {}
    <3>1. k = 0
      BY <1>1, <2>1
    <3>2. \A j \in 1..Len(list) : list[j].id # i
      BY <2>1
    <3> QED BY <1>2, <3>1, <3>2
  <2>2. CASE I # {}
    <3>1. I \in SUBSET Nat
      BY <1>2
    <3>2. k \in I /\ \A j \in I : k <= j
      <4> HIDE DEF I
      <4> QED BY <1>1, <2>2, <3>1, SmallestOf
    <3>3. k \in 1..Len(list) /\ list[k].id = i
      BY <3>2
    <3>4. \A j \in 1..(k - 1) : list[j].id # i
      <4> SUFFICES ASSUME NEW j \in 1..(k - 1), list[j].id = i PROVE FALSE
        OBVIOUS
      <4>1. j \in 1..Len(list) /\ j < k
        BY <1>2, <3>3
      <4>2. j \in I
        BY <4>1
      <4> QED BY <3>2, <3>3, <4>1, <4>2
    <3>5. k # 0 /\ k \in 0..Len(list)
      BY <1>2, <3>3
    <3> QED BY <3>3, <3>4, <3>5
  <2> QED BY <2>1, <2>2
<1> QED BY <1>3 DEF k

Statuses == {"valid", "invalid_label", "invalid_result", "missing_item"} \cup {Failure[e] : e \in DOMAIN Failure}

\* A judgment in good order: a label exactly if it is valid.
Orderly(r) ==
    /\ r.status \in Statuses
    /\ r.status = "valid" => r.label \in Taxonomy /\ r.confident = TRUE /\ r.reasoned = TRUE /\ r.error = FALSE
    /\ r.status # "valid" => r.label = Absent /\ r.confident = FALSE /\ r.error = TRUE

LEMMA FailuresAreOrderly ==
    ASSUME NEW status \in Statuses, status # "valid"
    PROVE  Orderly(Failed(status)) /\ Failed(status).label = Absent
BY DEF Orderly, Failed

LEMMA NoFailureIsValid == \A e \in DOMAIN Failure : Failure[e] \in Statuses /\ Failure[e] # "valid"
BY DEF Failure, Statuses, Endings, Transient, Answered

\* What is said first of an item.
Said(list, i, l) ==
    \E k \in DOMAIN list : /\ list[k].id = i
                           /\ list[k].what = [label |-> l, confident |-> TRUE, reasoned |-> TRUE]
                           /\ \A j \in 1..(k - 1) : list[j].id # i

\* An item's label is the judge's first word on it, if that is in order.
LEMMA JudgmentIsFirstWord ==
    ASSUME NEW list \in Seq(Entries), NEW i
    PROVE  /\ Orderly(Judgment(i, list))
           /\ \A l \in Taxonomy : Judgment(i, list).label = l <=> Said(list, i, l)
<1> DEFINE k == SelectInSeq(list, LAMBDA e : e.id = i)
           w == list[k].what
<1>1. /\ k \in 0..Len(list)
      /\ k = 0 => \A j \in 1..Len(list) : list[j].id # i
      /\ k # 0 => list[k].id = i /\ \A j \in 1..(k - 1) : list[j].id # i
  BY FirstWord
<1>2. Len(list) \in Nat /\ DOMAIN list = 1..Len(list)
  BY LenProperties
<1>3. Absent \notin Taxonomy
  BY DEF Absent, Taxonomy
<1>4. /\ k = 0 => Judgment(i, list) = Failed("missing_item")
      /\ k # 0 /\ w.label \notin Taxonomy =>
            Judgment(i, list) = [Failed("invalid_label") EXCEPT !.reasoned = w.reasoned]
      /\ k # 0 /\ w.label \in Taxonomy /\ ~ WellFormed(w) =>
            Judgment(i, list) = [Failed("invalid_result") EXCEPT !.reasoned = w.reasoned]
      /\ k # 0 /\ w.label \in Taxonomy /\ WellFormed(w) =>
            Judgment(i, list) = [status |-> "valid", label |-> w.label, confident |-> TRUE,
                                 reasoned |-> TRUE, error |-> FALSE]
  BY DEF Judgment
<1>5. \A l : Said(list, i, l) /\ k # 0 => w = [label |-> l, confident |-> TRUE, reasoned |-> TRUE]
  <2> SUFFICES ASSUME NEW l, k # 0,
                      NEW m \in DOMAIN list, list[m].id = i,
                      list[m].what = [label |-> l, confident |-> TRUE, reasoned |-> TRUE],
                      \A j \in 1..(m - 1) : list[j].id # i
               PROVE  w = [label |-> l, confident |-> TRUE, reasoned |-> TRUE]
    BY DEF Said
  <2> HIDE DEF k
  <2>1. k \in Nat /\ m \in Nat /\ k >= 1 /\ m >= 1
    BY <1>1, <1>2
  <2>2. ~(k < m) /\ ~(m < k)
    BY <1>1, <2>1
  <2>3. k = m
    BY <2>1, <2>2
  <2> QED BY <2>3
<1>6. k # 0 => w \in Wordings
  <2> SUFFICES ASSUME k # 0 PROVE w \in Wordings
    OBVIOUS
  <2> HIDE DEF k
  <2>1. k \in 1..Len(list)
    BY <1>1, <1>2
  <2>2. list[k] \in Entries
    BY <2>1
  <2> QED BY <2>2 DEF Entries
<1>7. k # 0 => w = [label |-> w.label, confident |-> w.confident, reasoned |-> w.reasoned]
               /\ w.confident \in BOOLEAN /\ w.reasoned \in BOOLEAN
  BY <1>6, JudgeCallAssumption
<1> HIDE DEF w, k
<1>8. CASE k = 0
  <2>1. Judgment(i, list) = Failed("missing_item") /\ "missing_item" \in Statuses
    BY <1>4, <1>8 DEF Statuses
  <2>2. Orderly(Judgment(i, list)) /\ Judgment(i, list).label = Absent
    BY <2>1, FailuresAreOrderly
  <2>3. \A l : ~ Said(list, i, l)
    BY <1>1, <1>2, <1>8 DEF Said
  <2> QED BY <1>3, <2>2, <2>3
<1>9. CASE k # 0 /\ w.label \notin Taxonomy
  <2>1. Judgment(i, list) = [Failed("invalid_label") EXCEPT !.reasoned = w.reasoned]
    BY <1>4, <1>9
  <2>2. Orderly(Judgment(i, list)) /\ Judgment(i, list).label = Absent
    BY <2>1 DEF Failed, Orderly, Statuses
  <2>3. \A l \in Taxonomy : ~ Said(list, i, l)
    BY <1>5, <1>9
  <2> QED BY <1>3, <2>2, <2>3
<1>10. CASE k # 0 /\ w.label \in Taxonomy /\ ~ WellFormed(w)
  <2>1. Judgment(i, list) = [Failed("invalid_result") EXCEPT !.reasoned = w.reasoned]
    BY <1>4, <1>10
  <2>2. Orderly(Judgment(i, list)) /\ Judgment(i, list).label = Absent
    BY <2>1 DEF Failed, Orderly, Statuses
  <2>3. \A l \in Taxonomy : ~ Said(list, i, l)
    BY <1>5, <1>10 DEF WellFormed
  <2> QED BY <1>3, <2>2, <2>3
<1>11. CASE k # 0 /\ w.label \in Taxonomy /\ WellFormed(w)
  <2>1. Judgment(i, list) = [status |-> "valid", label |-> w.label, confident |-> TRUE,
                             reasoned |-> TRUE, error |-> FALSE]
    BY <1>4, <1>11
  <2>2. Orderly(Judgment(i, list)) /\ Judgment(i, list).label = w.label
    BY <1>11, <2>1 DEF Orderly, Statuses
  <2>3. w.confident = TRUE /\ w.reasoned = TRUE
    BY <1>7, <1>11 DEF WellFormed
  <2>4. Said(list, i, w.label)
    <3>1. k \in DOMAIN list
      BY <1>1, <1>2, <1>11
    <3>2. w = [label |-> w.label, confident |-> TRUE, reasoned |-> TRUE]
      BY <1>7, <1>11, <2>3
    <3>3. list[k].what = w
      BY DEF w
    <3> QED BY <1>1, <1>11, <3>1, <3>2, <3>3 DEF Said
  <2>5. \A l \in Taxonomy : Said(list, i, l) => l = w.label
    BY <1>5, <1>11
  <2> QED BY <2>2, <2>4, <2>5
<1> QED BY <1>8, <1>9, <1>10, <1>11

\* A call has these parts.
CallFields ==
    /\ call = [stage |-> call.stage, attempts |-> call.attempts, earlier |-> call.earlier, last |-> call.last,
               charged |-> call.charged, delay |-> call.delay, usage |-> call.usage, list |-> call.list,
               results |-> call.results, records |-> call.records]
    /\ call.stage \in {"posting", "sleeping", "judged", "recorded"}
    /\ call.attempts \in 0..Attempts /\ call.earlier \subseteq Transient /\ call.delay \in 0..30
    /\ call.charged \in Nat

\* While it may be tried again, an attempt is left, and each was charged at most
\* its projection; then the results are those of the last one, and what it
\* reports accounts for all.
CallInv ==
    /\ CallFields
    /\ call.stage \in {"posting", "sleeping"} =>
          /\ call.attempts < Attempts /\ call.records = {}
          /\ call.charged <= Projected * call.attempts
    /\ call.stage \in {"judged", "recorded"} =>
          /\ call.last \in Endings /\ call.list \in Seq(Entries) /\ call.attempts >= 1
          /\ call.last \in Transient => call.attempts = Attempts
          /\ call.results = ResultsOf(call.last, call.list)
          /\ call.usage.cost \in Nat \cup {Unknown}
          /\ AccountedCost(call.usage, call.attempts) \in Nat
          /\ call.charged <= AccountedCost(call.usage, call.attempts)
    /\ call.stage = "judged" => call.records = {}
    /\ call.stage = "recorded" =>
          call.records = {[item |-> i, result |-> call.results[i], attempts |-> call.attempts,
                           cost |-> call.usage.cost,
                           accounted |-> AccountedCost(call.usage, call.attempts)] : i \in BatchItems}

LEMMA CallBounds == Projected \in Nat /\ Attempts \in 1..5 /\ MaxEntries \in Nat
BY JudgeCallAssumption

LEMMA CallBegins == CallInit => CallInv
<1> SUFFICES ASSUME CallInit PROVE CallInv
  OBVIOUS
<1>1. /\ call.stage = "posting" /\ call.attempts = 0 /\ call.earlier = {} /\ call.last = Absent
      /\ call.charged = 0 /\ call.delay = 0 /\ call.list = <<>> /\ call.records = {}
  BY DEF CallInit
<1>2. CallFields
  <2>1. call = [stage |-> call.stage, attempts |-> call.attempts, earlier |-> call.earlier, last |-> call.last,
                charged |-> call.charged, delay |-> call.delay, usage |-> call.usage, list |-> call.list,
                results |-> call.results, records |-> call.records]
    BY DEF CallInit
  <2> QED BY <1>1, <2>1, CallBounds DEF CallFields
<1>3. call.charged <= Projected * call.attempts
  BY <1>1, CallBounds
<1> QED BY <1>1, <1>2, <1>3, CallBounds DEF CallInv

\* The wait before another attempt is bounded.
LEMMA DelayIsBounded ==
    ASSUME NEW n \in 1..5, NEW wait \in Waits
    PROVE  BackoffDelay(n - 1, wait) \in 0..30
<1>1. CASE wait = Unknown
  <2>1. <<1, 2, 4, 8, 16>>[n] \in 0..30
    OBVIOUS
  <2>2. (n - 1) + 1 = n
    OBVIOUS
  <2> QED BY <1>1, <2>1, <2>2 DEF BackoffDelay
<1>2. CASE wait # Unknown
  <2>1. wait \in Int
    BY DEF Waits, Unknown
  <2>2. PICK m \in Nat : m = Max({0, wait})
    BY <2>1, OfTwo
  <2>3. Min({30, m}) \in 0..30
    <3>1. 30 \in Int /\ m \in Int
      OBVIOUS
    <3>2. Min({30, m}) = IF 30 <= m THEN 30 ELSE m
      BY ONLY <3>1, OfTwo
    <3> QED BY <3>2
  <2> QED BY <1>2, <2>2, <2>3 DEF BackoffDelay
<1> QED BY <1>1, <1>2

LEMMA FactorGrows == \A x, y, z \in Nat : x <= y => x * z <= y * z
OBVIOUS

LEMMA OneMore == \A p, n \in Nat : /\ p * (n + 1) = p * n + p
                                   /\ p * n \in Nat
OBVIOUS

\* Whatever is reported, the books hold what was charged.
LEMMA AccountCovers ==
    ASSUME NEW before \in Nat, NEW n \in Nat, before <= Projected * n,
           NEW charge \in 0..Projected, NEW usage,
           usage.cost \in Nat \cup {Unknown}, usage.worth \in Nat,
           usage.cost # Unknown => charge = usage.cost
    PROVE  /\ AccountedCost(usage, n + 1) \in Nat
           /\ before + charge <= AccountedCost(usage, n + 1)
<1>1. Projected \in Nat
  BY CallBounds
<1>2. PICK p \in Nat : p = Projected * n
  BY <1>1, OneMore
<1>3. CASE usage.cost # Unknown
  <2>1. AccountedCost(usage, n + 1) = usage.cost + Projected * ((n + 1) - 1)
    BY <1>3 DEF AccountedCost
  <2>2. (n + 1) - 1 = n
    OBVIOUS
  <2>3. AccountedCost(usage, n + 1) = usage.cost + p
    BY <1>2, <2>1, <2>2
  <2> QED BY <1>2, <1>3, <2>3
<1>4. CASE usage.cost = Unknown
  <2> DEFINE m == Max({usage.worth, Projected})
  <2>1. m \in Nat /\ m >= Projected
    BY <1>1, OfTwo
  <2>2. AccountedCost(usage, n + 1) = m * (n + 1)
    BY <1>4 DEF AccountedCost
  <2> HIDE DEF m
  <2>3. m * (n + 1) = m * n + m
    BY <2>1, OneMore
  <2>4. PICK q \in Nat : q = m * n
    BY <2>1, OneMore
  <2>5. Projected * n <= m * n
    BY <1>1, <2>1, FactorGrows
  <2> QED BY <1>1, <1>2, <2>1, <2>2, <2>3, <2>4, <2>5
<1> QED BY <1>3, <1>4

LEMMA PostKeeps == CallInv /\ Post => CallInv'
<1> SUFFICES ASSUME CallInv, Post PROVE CallInv'
  OBVIOUS
<1>1. PICK ending \in Endings, charge \in 0..Projected :
      \E usage \in IF ending \in Answered THEN Usages ELSE {[cost |-> Unknown, worth |-> 0]},
         list  \in IF ending \in {"list", "length"} THEN Lists ELSE {<<>>},
         wait  \in IF ending \in {"429", "5xx"} THEN Waits ELSE {Unknown} :
          LET n     == call.attempts + 1
              again == ending \in Transient /\ n < Attempts
          IN  /\ usage.cost # Unknown => charge = usage.cost
              /\ call' = [call EXCEPT !.attempts = n, !.last = ending, !.charged = @ + charge,
                            !.earlier = IF again THEN @ \cup {ending} ELSE @,
                            !.usage   = usage,
                            !.list    = list,
                            !.stage   = IF again THEN "sleeping" ELSE "judged",
                            !.delay   = IF again THEN BackoffDelay(n - 1, wait) ELSE 0,
                            !.results = IF again THEN <<>> ELSE ResultsOf(ending, list)]
  BY DEF Post
<1>2. PICK usage \in IF ending \in Answered THEN Usages ELSE {[cost |-> Unknown, worth |-> 0]},
           list  \in IF ending \in {"list", "length"} THEN Lists ELSE {<<>>},
           wait  \in IF ending \in {"429", "5xx"} THEN Waits ELSE {Unknown} :
          LET n     == call.attempts + 1
              again == ending \in Transient /\ n < Attempts
          IN  /\ usage.cost # Unknown => charge = usage.cost
              /\ call' = [call EXCEPT !.attempts = n, !.last = ending, !.charged = @ + charge,
                            !.earlier = IF again THEN @ \cup {ending} ELSE @,
                            !.usage   = usage,
                            !.list    = list,
                            !.stage   = IF again THEN "sleeping" ELSE "judged",
                            !.delay   = IF again THEN BackoffDelay(n - 1, wait) ELSE 0,
                            !.results = IF again THEN <<>> ELSE ResultsOf(ending, list)]
  BY <1>1
<1> DEFINE n     == call.attempts + 1
           again == ending \in Transient /\ n < Attempts
<1>3. call.stage = "posting"
  BY DEF Post
<1>4. /\ call.attempts \in 0..Attempts /\ call.attempts < Attempts /\ call.records = {} /\ call.charged \in Nat
      /\ call.charged <= Projected * call.attempts /\ call.earlier \subseteq Transient
  BY <1>3 DEF CallInv, CallFields
<1>5. n \in 1..Attempts /\ n \in 1..5 /\ n \in Nat /\ call.attempts \in Nat
  <2>1. Attempts \in 1..5
    BY CallBounds
  <2>2. PICK m \in 0..Attempts : m = call.attempts /\ m < Attempts
    BY <1>4
  <2>3. n = m + 1
    BY <2>2
  <2> HIDE DEF n
  <2>4. m \in Nat /\ m + 1 \in 1..Attempts /\ m + 1 \in 1..5 /\ m + 1 \in Nat
    BY ONLY <2>1, <2>2, m \in 0..Attempts
  <2> QED BY <2>2, <2>3, <2>4
<1>6. /\ call'.attempts = n /\ call'.last = ending /\ call'.charged = call.charged + charge
      /\ call'.earlier = IF again THEN call.earlier \cup {ending} ELSE call.earlier
      /\ call'.usage = usage /\ call'.list = list
      /\ call'.stage = IF again THEN "sleeping" ELSE "judged"
      /\ call'.delay = IF again THEN BackoffDelay(n - 1, wait) ELSE 0
      /\ call'.results = IF again THEN <<>> ELSE ResultsOf(ending, list)
      /\ call'.records = call.records
      /\ call' = [stage |-> call'.stage, attempts |-> call'.attempts, earlier |-> call'.earlier, last |-> call'.last,
                  charged |-> call'.charged, delay |-> call'.delay, usage |-> call'.usage, list |-> call'.list,
                  results |-> call'.results, records |-> call'.records]
  <2>1. call = [stage |-> call.stage, attempts |-> call.attempts, earlier |-> call.earlier, last |-> call.last,
                charged |-> call.charged, delay |-> call.delay, usage |-> call.usage, list |-> call.list,
                results |-> call.results, records |-> call.records]
    BY DEF CallInv, CallFields
  <2> QED BY ONLY <1>2, <2>1
<1>7. /\ usage.cost \in Nat \cup {Unknown} /\ usage.worth \in Nat
      /\ usage.cost # Unknown => charge = usage.cost
  BY <1>2, CallBounds DEF Usages
<1>8. list \in Seq(Entries)
  <2>1. CASE list \in Lists
    <3>1. PICK m \in 0..MaxEntries : list \in [1..m -> Entries]
      BY <2>1 DEF Lists
    <3>2. m \in Nat
      BY CallBounds
    <3> QED BY <3>1, <3>2
  <2>2. CASE list = <<>>
    BY <2>2
  <2> QED BY <2>1, <2>2
<1>9. wait \in Waits
  BY DEF Waits
<1>10. charge \in Nat /\ charge <= Projected
  BY CallBounds
<1> HIDE DEF n, again
<1>11. BackoffDelay(n - 1, wait) \in 0..30
  BY <1>5, <1>9, DelayIsBounded
<1>12. CallFields'
  <2>1. again => ending \in Transient
    BY DEF again
  <2>2. call'.stage \in {"posting", "sleeping", "judged", "recorded"} /\ call'.attempts \in 0..Attempts
    BY <1>5, <1>6
  <2>3. call'.earlier \subseteq Transient /\ call'.delay \in 0..30 /\ call'.charged \in Nat
    BY <1>4, <1>6, <1>10, <1>11, <2>1
  <2> QED BY <1>6, <2>2, <2>3 DEF CallFields
<1>13. CASE again
  <2>1. n < Attempts
    BY <1>13 DEF again
  <2>2. call.charged + charge <= Projected * n
    <3>1. Projected * n = Projected * call.attempts + Projected
      BY <1>5, CallBounds, OneMore DEF n
    <3>2. PICK p \in Nat : p = Projected * call.attempts
      BY <1>5, CallBounds, OneMore
    <3> QED BY <1>4, <1>10, <3>1, <3>2, CallBounds
  <2> QED BY <1>4, <1>6, <1>12, <1>13, <2>1, <2>2 DEF CallInv
<1>14. CASE ~ again
  <2>1. ending \in Transient => n = Attempts
    BY <1>5, <1>14, CallBounds DEF again
  <2>2. /\ AccountedCost(usage, n) \in Nat
        /\ call.charged + charge <= AccountedCost(usage, n)
    BY <1>4, <1>5, <1>7, AccountCovers DEF n
  <2>3. call'.stage = "judged" /\ call'.results = ResultsOf(ending, list)
    BY <1>6, <1>14
  <2>4. n >= 1
    BY <1>5
  <2> QED BY <1>4, <1>6, <1>7, <1>8, <1>12, <2>1, <2>2, <2>3, <2>4 DEF CallInv
<1> QED BY <1>13, <1>14

LEMMA SleepKeeps == CallInv /\ Sleep => CallInv'
<1> SUFFICES ASSUME CallInv, Sleep PROVE CallInv'
  OBVIOUS
<1>1. call.stage = "sleeping" /\ call' = [call EXCEPT !.stage = "posting", !.delay = 0]
  BY DEF Sleep
<1>2. CallFields
  BY DEF CallInv
<1>3. /\ call'.stage = "posting" /\ call'.delay = 0 /\ call'.attempts = call.attempts
      /\ call'.charged = call.charged /\ call'.records = call.records
  BY <1>1, <1>2 DEF CallFields
<1>4. CallFields'
  <2>1. /\ call'.earlier = call.earlier
        /\ call' = [stage |-> call'.stage, attempts |-> call'.attempts, earlier |-> call'.earlier, last |-> call'.last,
                    charged |-> call'.charged, delay |-> call'.delay, usage |-> call'.usage, list |-> call'.list,
                    results |-> call'.results, records |-> call'.records]
    BY <1>1, <1>2 DEF CallFields
  <2> QED BY <1>2, <1>3, <2>1 DEF CallFields
<1> QED BY <1>1, <1>3, <1>4 DEF CallInv

LEMMA WriteRecordsKeeps == CallInv /\ WriteRecords => CallInv'
<1> SUFFICES ASSUME CallInv, WriteRecords PROVE CallInv'
  OBVIOUS
<1> DEFINE records == {[item |-> i, result |-> call.results[i], attempts |-> call.attempts,
                        cost |-> call.usage.cost,
                        accounted |-> AccountedCost(call.usage, call.attempts)] : i \in BatchItems}
<1>1. call.stage = "judged" /\ call' = [call EXCEPT !.stage = "recorded", !.records = records]
  BY DEF WriteRecords
<1>2. CallFields
  BY DEF CallInv
<1> HIDE DEF records
<1>3. /\ call'.stage = "recorded" /\ call'.records = records
      /\ call'.attempts = call.attempts /\ call'.charged = call.charged /\ call'.last = call.last
      /\ call'.list = call.list /\ call'.usage = call.usage /\ call'.results = call.results
  BY <1>1, <1>2 DEF CallFields
<1>4. CallFields'
  <2>1. /\ call'.earlier = call.earlier /\ call'.delay = call.delay
        /\ call' = [stage |-> call'.stage, attempts |-> call'.attempts, earlier |-> call'.earlier, last |-> call'.last,
                    charged |-> call'.charged, delay |-> call'.delay, usage |-> call'.usage, list |-> call'.list,
                    results |-> call'.results, records |-> call'.records]
    BY <1>1, <1>2 DEF CallFields
  <2> QED BY <1>2, <1>3, <2>1 DEF CallFields
<1>5. call'.records = {[item |-> i, result |-> call'.results[i], attempts |-> call'.attempts,
                        cost |-> call'.usage.cost,
                        accounted |-> AccountedCost(call'.usage, call'.attempts)] : i \in BatchItems}
  BY <1>3 DEF records
<1>6. /\ call.last \in Endings /\ call.list \in Seq(Entries) /\ call.attempts >= 1
      /\ call.last \in Transient => call.attempts = Attempts
      /\ call.results = ResultsOf(call.last, call.list)
      /\ call.usage.cost \in Nat \cup {Unknown}
      /\ AccountedCost(call.usage, call.attempts) \in Nat
      /\ call.charged <= AccountedCost(call.usage, call.attempts)
  BY <1>1 DEF CallInv
<1> QED BY <1>3, <1>4, <1>5, <1>6 DEF CallInv

\* The results of an ending are one orderly judgment per item, and have a label
\* only if the ending was a list.
LEMMA ResultsAreOrderly ==
    ASSUME NEW ending \in Endings, NEW list \in Seq(Entries), NEW i \in BatchItems
    PROVE  /\ Orderly(ResultsOf(ending, list)[i])
           /\ \A l \in Taxonomy : ResultsOf(ending, list)[i].label = l <=> ending = "list" /\ Said(list, i, l)
<1>1. CASE ending = "list"
  <2>1. ResultsOf(ending, list)[i] = Judgment(i, list)
    BY <1>1 DEF ResultsOf
  <2> QED BY <1>1, <2>1, JudgmentIsFirstWord
<1>2. CASE ending # "list"
  <2>1. ResultsOf(ending, list)[i] = Failed(Failure[ending])
    BY <1>2 DEF ResultsOf
  <2>2. ending \in DOMAIN Failure
    BY <1>2 DEF Failure
  <2>3. Failure[ending] \in Statuses /\ Failure[ending] # "valid"
    BY <2>2, NoFailureIsValid
  <2>4. Absent \notin Taxonomy
    BY DEF Absent, Taxonomy
  <2> QED BY <1>2, <2>1, <2>3, <2>4, FailuresAreOrderly
<1> QED BY <1>1, <1>2

LEMMA SoundCall == CallInv => JudgmentsAreSound
<1> SUFFICES ASSUME CallInv PROVE JudgmentsAreSound
  OBVIOUS
<1>1. LabelsAreTheJudges
  <2> SUFFICES ASSUME call.stage \in {"judged", "recorded"}, NEW i \in BatchItems, NEW l \in Taxonomy
               PROVE  call.results[i].label = l <=> call.last = "list" /\ Said(call.list, i, l)
    BY DEF LabelsAreTheJudges, Said
  <2>1. call.last \in Endings /\ call.list \in Seq(Entries) /\ call.results = ResultsOf(call.last, call.list)
    BY DEF CallInv
  <2> QED BY <2>1, ResultsAreOrderly
<1>2. RetriesAreForTransients
  <2>1. call.attempts <= Attempts
    BY CallBounds DEF CallInv, CallFields
  <2> QED BY <2>1 DEF CallInv, CallFields, RetriesAreForTransients
<1>3. call.stage # "recorded" => call.records = {}
  BY DEF CallInv, CallFields
<1>4. ASSUME NEW r \in call.records
      PROVE  call.charged <= r.accounted /\ Acceptable(r)
  <2>1. call.stage = "recorded"
    BY <1>3
  <2>2. /\ call.last \in Endings /\ call.list \in Seq(Entries) /\ call.attempts >= 1
        /\ call.results = ResultsOf(call.last, call.list)
        /\ call.usage.cost \in Nat \cup {Unknown}
        /\ AccountedCost(call.usage, call.attempts) \in Nat
        /\ call.charged <= AccountedCost(call.usage, call.attempts)
    BY <2>1 DEF CallInv
  <2>3. PICK i \in BatchItems : r = [item |-> i, result |-> call.results[i], attempts |-> call.attempts,
                                     cost |-> call.usage.cost,
                                     accounted |-> AccountedCost(call.usage, call.attempts)]
    BY <2>1 DEF CallInv
  <2>4. /\ r.result = call.results[i] /\ r.attempts = call.attempts /\ r.cost = call.usage.cost
        /\ r.accounted = AccountedCost(call.usage, call.attempts)
    BY <2>3
  <2>5. Orderly(r.result)
    BY <2>2, <2>4, ResultsAreOrderly
  <2>6. r.cost # Unknown => r.cost >= 0
    BY <2>2, <2>4
  <2>7. r.attempts >= 1 /\ r.accounted >= 0
    BY <2>2, <2>4
  <2>8. Acceptable(r)
    BY <2>5, <2>6, <2>7 DEF Acceptable, Orderly, Statuses
  <2> QED BY <2>2, <2>4, <2>8
<1>5. ChargesAreAccounted /\ RecordsAreReadable
  BY <1>4 DEF ChargesAreAccounted, RecordsAreReadable
<1> QED BY <1>1, <1>2, <1>5 DEF JudgmentsAreSound

\* For any batch, any wording of the judge, any price and up to five attempts: an
\* item has a label only where the judge gave one that is in order, only what may
\* pass is tried again, what was charged is in the books, and what is written can
\* be read by the command that resumes the audit.
THEOREM JudgmentsStaySound == CallInit /\ [][CallNext]_call => []JudgmentsAreSound
<1>1. CallInit => CallInv
  BY CallBegins
<1>2. CallInv /\ [CallNext]_call => CallInv'
  <2>1. CallInv /\ UNCHANGED call => CallInv'
    BY DEF CallInv, CallFields
  <2> QED BY <2>1, PostKeeps, SleepKeeps, WriteRecordsKeeps DEF CallNext
<1>3. CallInv => JudgmentsAreSound
  BY SoundCall
<1> QED BY <1>1, <1>2, <1>3, PTL

-----------------------------------------------------------------------------
(* The bets of Lane C                                                       *)

IsFraction(f) == f = <<f[1], f[2]>> /\ f[1] \in Nat /\ f[2] \in Nat \ {0}

LEMMA Divides == \A a \in Nat, d \in Nat \ {0} : a % d = 0 => a \div d \in Nat /\ a = d * (a \div d)
OBVIOUS

LEMMA Positive1 == \A a \in Nat \ {0}, d \in Nat \ {0} : a % d = 0 => a \div d # 0
OBVIOUS

\* Two positive numbers have a greatest common divisor.
LEMMA GcdDivides ==
    ASSUME NEW a \in Nat \ {0}, NEW b \in Nat \ {0}
    PROVE  GcdOf(a, b) \in Nat \ {0} /\ a % GcdOf(a, b) = 0 /\ b % GcdOf(a, b) = 0
<1> DEFINE m == Min({a, b})
           D == {d \in 1..m : a % d = 0 /\ b % d = 0}
<1>1. m \in {a, b}
  <2>1. {a, b} \in SUBSET Nat /\ {a, b} # {}
    OBVIOUS
  <2> QED BY <2>1, SmallestOf
<1> HIDE DEF m
<1>2. m \in Nat \ {0}
  BY <1>1
<1>3. D \in SUBSET (0..m) /\ D # {}
  <2>1. a % 1 = 0 /\ b % 1 = 0 /\ 1 \in 1..m
    BY <1>2
  <2> QED BY <1>2, <2>1
<1>4. Max(D) \in D /\ \A y \in D : y <= Max(D)
  BY <1>2, <1>3, Greatest
<1>5. PICK d \in D : \A y \in D : y <= d
  BY <1>4
<1>6. d \in 1..m /\ a % d = 0 /\ b % d = 0
  BY <1>5
<1>7. \A c \in (d + 1)..m : a % c # 0 \/ b % c # 0
  <2> SUFFICES ASSUME NEW c \in (d + 1)..m, a % c = 0, b % c = 0 PROVE FALSE
    OBVIOUS
  <2>1. c \in 1..m /\ ~(c <= d)
    BY <1>2, <1>6
  <2> QED BY <1>5, <2>1
<1> HIDE DEF D
<1>8. /\ GcdOf(a, b) \in 1..m
      /\ a % GcdOf(a, b) = 0 /\ b % GcdOf(a, b) = 0
  BY <1>6, <1>7 DEF GcdOf, m
<1> QED BY <1>2, <1>8

\* Reducing a fraction leaves its value.
LEMMA ReducedIsSame ==
    ASSUME NEW a \in Nat, NEW b \in Nat \ {0}
    PROVE  IsFraction(Reduced(<<a, b>>)) /\ Reduced(<<a, b>>)[1] * b = a * Reduced(<<a, b>>)[2]
<1>1. CASE a = 0
  <2>1. Reduced(<<a, b>>) = <<0, 1>>
    BY <1>1 DEF Reduced
  <2> QED BY <1>1, <2>1 DEF IsFraction
<1>2. CASE a # 0
  <2> DEFINE d == GcdOf(a, b)
             p == a \div d
             q == b \div d
  <2>1. Reduced(<<a, b>>) = <<p, q>>
    BY <1>2 DEF Reduced
  <2>2. d \in Nat \ {0} /\ a % d = 0 /\ b % d = 0
    BY <1>2, GcdDivides
  <2> HIDE DEF d
  <2>3. p \in Nat /\ q \in Nat \ {0} /\ a = d * p /\ b = d * q
    BY <2>2, Divides, Positive1
  <2> HIDE DEF p, q
  <2>4. p * b = a * q
    BY <2>2, <2>3
  <2> QED BY <2>1, <2>3, <2>4 DEF IsFraction
<1> QED BY <1>1, <1>2

\* A bet is a fraction of at most half of what would be ruin.
LEMMA BetIsCapped ==
    ASSUME NEW m, m.n \in Nat, m.k \in Nat, m.k <= m.n
    PROVE  IsFraction(Bet(m)) /\ 2 * Bet(m)[1] <= Null * Bet(m)[2]
<1>1. Null \in Nat \ {0, 1}
  BY LaneCAssumption
<1>2. CASE m.n < Warmup \/ m.k * Null <= m.n
  <2>1. Bet(m) = <<0, 1>>
    BY <1>2 DEF Bet
  <2> QED BY <1>1, <2>1 DEF IsFraction
<1>3. CASE ~(m.n < Warmup \/ m.k * Null <= m.n)
  <2> DEFINE n == m.n
             k == m.k
             excess == k * Null - n
             r1 == excess * n * Null
             r2 == k * (n - k) * Null * Null + excess * excess
  <2>1. Bet(m) = IF r1 * 2 <= Null * r2 THEN <<r1, r2>> ELSE <<Null, 2>>
    BY <1>3 DEF Bet, AtMost
  <2>2. n \in Nat /\ k \in Nat /\ n - k \in Nat
    OBVIOUS
  <2>3. excess \in Nat \ {0}
    BY <1>1, <1>3
  <2> HIDE DEF n, k, excess
  <2>4. r1 \in Nat
    BY <1>1, <2>2, <2>3
  <2>5. r2 \in Nat \ {0}
    <3>1. excess * excess \in Nat \ {0}
      BY <2>3
    <3>2. k * (n - k) * Null * Null \in Nat
      BY <1>1, <2>2
    <3> QED BY <3>1, <3>2
  <2> HIDE DEF r1, r2
  <2> QED BY <1>1, <2>1, <2>4, <2>5 DEF IsFraction
<1> QED BY <1>2, <1>3

LEMMA Cancels == \A x, y \in Int, z \in Nat \ {0} : x * z <= y * z => x <= y
OBVIOUS

LEMMA Distributes == \A x, y, z \in Int : x * z + y * z = (x + y) * z
OBVIOUS

\* What a tolerated observation is expected to leave of an e-value a / b, before
\* and after it is reduced: K is what the factors are over, o and z are what a
\* one and a zero leave.
LEMMA FairBet ==
    ASSUME NEW p \in 0..2, NEW N \in Nat \ {0, 1}, NEW a \in Nat, NEW b \in Nat \ {0},
           NEW u \in Nat, NEW K \in Nat \ {0}, u <= K,
           NEW o1 \in Nat, NEW o2 \in Nat \ {0}, o1 * (b * K) = (a * (K + u * (N - 1))) * o2,
           NEW z1 \in Nat, NEW z2 \in Nat \ {0}, z1 * (b * K) = (a * (K - u)) * z2
    PROVE  (p * o1 * z2 + (2 * N - p) * z1 * o2) * b <= 2 * N * a * o2 * z2
<1> DEFINE s == a * o2 * z2
           x == (p * o1 * z2 + (2 * N - p) * z1 * o2) * b
<1>1. x * K = p * z2 * (o1 * (b * K)) + (2 * N - p) * o2 * (z1 * (b * K))
  OBVIOUS
<1>2. p * z2 * ((a * (K + u * (N - 1))) * o2) = p * (K + u * (N - 1)) * s
  OBVIOUS
<1>3. (2 * N - p) * o2 * ((a * (K - u)) * z2) = (2 * N - p) * (K - u) * s
  OBVIOUS
<1>4. x * K = (p * (K + u * (N - 1)) + (2 * N - p) * (K - u)) * s
  <2>1. x * K = p * (K + u * (N - 1)) * s + (2 * N - p) * (K - u) * s
    BY <1>1, <1>2, <1>3
  <2>2. s \in Int /\ p * (K + u * (N - 1)) \in Int /\ (2 * N - p) * (K - u) \in Int
    OBVIOUS
  <2> HIDE DEF x, s
  <2> QED BY <2>1, <2>2, Distributes
<1>5. p * (K + u * (N - 1)) + (2 * N - p) * (K - u) = 2 * N * K - u * N * (2 - p)
  OBVIOUS
<1>6. u * N * (2 - p) \in Nat /\ s \in Nat /\ x \in Int
  <2>1. 2 - p \in Nat
    OBVIOUS
  <2> QED BY <2>1
<1> DEFINE t == u * N * (2 - p)
<1>7. x * K = (2 * N * K - t) * s
  BY <1>4, <1>5
<1> HIDE DEF x, s, t
<1>8. (2 * N * K - t) * s <= (2 * N * s) * K
  <2>1. t * s \in Nat
    BY <1>6 DEF t
  <2>2. (2 * N * K - t) * s = (2 * N * s) * K - t * s
    BY <1>6 DEF t
  <2>3. (2 * N * s) * K \in Int
    BY <1>6
  <2> QED BY <2>1, <2>2, <2>3
<1>9. x <= 2 * N * s
  <2>1. 2 * N * s \in Int /\ x * K <= (2 * N * s) * K
    BY <1>6, <1>7, <1>8
  <2> QED BY <1>6, <2>1, Cancels
<1>10. 2 * N * s = 2 * N * a * o2 * z2
  BY DEF s
<1> QED BY <1>9, <1>10 DEF x

\* What the monitor of disagreements has counted, and its e-value.
IsMonitor(m) ==
    /\ m = [n |-> m.n, k |-> m.k, e |-> m.e, top |-> m.top]
    /\ m.n \in Nat /\ m.k \in Nat /\ m.k <= m.n /\ IsFraction(m.e)

\* The factors a bet brings: what a one and what a zero leave, over the same number.
LEMMA FactorsAreFair ==
    ASSUME NEW bet, IsFraction(bet), 2 * bet[1] <= Null * bet[2]
    PROVE  \E u \in Nat, K \in Nat \ {0} :
              /\ u <= K
              /\ Factor(bet, 1) = <<K + u * (Null - 1), K>>
              /\ Factor(bet, 0) = <<K - u, K>>
<1> DEFINE u == bet[1]
           v == bet[2]
           K == v * Null
<1>1. Null \in Nat \ {0, 1} /\ u \in Nat /\ v \in Nat \ {0}
  BY LaneCAssumption DEF IsFraction
<1>2. K \in Nat \ {0} /\ u <= K
  <2>1. 2 * u <= Null * v
    OBVIOUS
  <2> HIDE DEF u, v
  <2>2. Null * v \in Nat \ {0} /\ v * Null = Null * v
    BY <1>1
  <2> QED BY <1>1, <2>1, <2>2
<1>3. Factor(bet, 1) = <<v * Null + u * (1 * Null - 1), v * Null>>
  BY DEF Factor
<1>4. Factor(bet, 0) = <<v * Null + u * (0 * Null - 1), v * Null>>
  BY DEF Factor
<1> HIDE DEF u, v
<1>5. 1 * Null - 1 = Null - 1 /\ v * Null + u * (0 * Null - 1) = v * Null - u
  BY <1>1
<1>6. Factor(bet, 1) = <<K + u * (Null - 1), K>> /\ Factor(bet, 0) = <<K - u, K>>
  BY <1>3, <1>4, <1>5
<1> HIDE DEF K
<1> QED BY <1>1, <1>2, <1>6

\* What an update multiplies the e-value with, and that a monitor stays one.
LEMMA UpdateOfMonitor ==
    ASSUME NEW m, IsMonitor(m), NEW x \in 0..1, NEW g, NEW h,
           Factor(Bet(m), x) = <<g, h>>, g \in Nat, h \in Nat \ {0}
    PROVE  /\ IsMonitor(Update(m, x))
           /\ Update(m, x).e[1] * (m.e[2] * h) = (m.e[1] * g) * Update(m, x).e[2]
<1>1. Update(m, x).e = Reduced(<<m.e[1] * g, m.e[2] * h>>)
  BY DEF Update, Folded, Times
<1>2. m.e[1] * g \in Nat /\ m.e[2] * h \in Nat \ {0}
  <2>1. m.e[1] \in Nat /\ m.e[2] \in Nat \ {0}
    BY DEF IsMonitor, IsFraction
  <2> QED BY <2>1
<1>3. /\ IsFraction(Update(m, x).e)
      /\ Update(m, x).e[1] * (m.e[2] * h) = (m.e[1] * g) * Update(m, x).e[2]
  BY <1>1, <1>2, ReducedIsSame
<1>4. Update(m, x) = [n |-> m.n + 1, k |-> m.k + x, e |-> Update(m, x).e, top |-> Update(m, x).top]
  BY DEF Update, Folded
<1>5. m.n + 1 \in Nat /\ m.k + x \in Nat /\ m.k + x <= m.n + 1
  BY DEF IsMonitor
<1> QED BY <1>3, <1>4, <1>5 DEF IsMonitor

\* From any monitor, an observation of a tolerated rate is a fair bet.
LEMMA MonitorIsFair ==
    ASSUME NEW m, IsMonitor(m)
    PROVE  LET one == Update(m, 1).e
               nil == Update(m, 0).e
           IN  /\ nil[1] >= 0
               /\ \A p \in 0..2 : (p * one[1] * nil[2] + (2 * Null - p) * nil[1] * one[2]) * m.e[2]
                                     <= 2 * Null * m.e[1] * one[2] * nil[2]
<1>1. IsFraction(Bet(m)) /\ 2 * Bet(m)[1] <= Null * Bet(m)[2]
  BY BetIsCapped DEF IsMonitor
<1>2. PICK u \in Nat, K \in Nat \ {0} :
        /\ u <= K
        /\ Factor(Bet(m), 1) = <<K + u * (Null - 1), K>>
        /\ Factor(Bet(m), 0) = <<K - u, K>>
  BY <1>1, FactorsAreFair
<1>3. Null \in Nat \ {0, 1} /\ K + u * (Null - 1) \in Nat /\ K - u \in Nat
  <2>1. Null \in Nat \ {0, 1} /\ Null - 1 \in Nat
    BY LaneCAssumption
  <2>2. u * (Null - 1) \in Nat
    BY <2>1
  <2> QED BY <1>2, <2>1, <2>2
<1> DEFINE one == Update(m, 1).e
           nil == Update(m, 0).e
<1>4. IsMonitor(Update(m, 1)) /\ one[1] * (m.e[2] * K) = (m.e[1] * (K + u * (Null - 1))) * one[2]
  BY <1>2, <1>3, UpdateOfMonitor
<1>5. IsMonitor(Update(m, 0)) /\ nil[1] * (m.e[2] * K) = (m.e[1] * (K - u)) * nil[2]
  BY <1>2, <1>3, UpdateOfMonitor
<1>6. /\ one[1] \in Nat /\ one[2] \in Nat \ {0} /\ nil[1] \in Nat /\ nil[2] \in Nat \ {0}
      /\ m.e[1] \in Nat /\ m.e[2] \in Nat \ {0}
  BY <1>4, <1>5 DEF IsMonitor, IsFraction
<1> HIDE DEF one, nil
<1>7. ASSUME NEW p \in 0..2
      PROVE  (p * one[1] * nil[2] + (2 * Null - p) * nil[1] * one[2]) * m.e[2]
               <= 2 * Null * m.e[1] * one[2] * nil[2]
  BY <1>2, <1>3, <1>4, <1>5, <1>6, FairBet
<1>8. nil[1] >= 0
  BY <1>6
<1> QED BY <1>7, <1>8 DEF one, nil

LEMMA ZeroOrOne == 0 \in 0..1 /\ 1 \in 0..1 /\ \A i \in 0..1 : i = 0 \/ (i = 1 /\ i - 1 = 0)
OBVIOUS

\* A monitor that has seen one observation more is a monitor.
LEMMA UpdatedIsMonitor ==
    ASSUME NEW m, IsMonitor(m), NEW x \in 0..1
    PROVE  IsMonitor(Update(m, x))
<1>1. IsFraction(Bet(m)) /\ 2 * Bet(m)[1] <= Null * Bet(m)[2]
  BY BetIsCapped DEF IsMonitor
<1>2. PICK u \in Nat, K \in Nat \ {0} :
        /\ u <= K
        /\ Factor(Bet(m), 1) = <<K + u * (Null - 1), K>>
        /\ Factor(Bet(m), 0) = <<K - u, K>>
  BY <1>1, FactorsAreFair
<1>3. K + u * (Null - 1) \in Nat /\ K - u \in Nat
  <2>1. Null - 1 \in Nat
    BY LaneCAssumption
  <2>2. u * (Null - 1) \in Nat
    BY <2>1
  <2> QED BY <1>2, <2>2
<1>4. x = 0 \/ x = 1
  BY ZeroOrOne
<1> QED BY <1>2, <1>3, <1>4, UpdateOfMonitor

\* One observation is an update, none is none.
LEMMA ExtendByOne ==
    ASSUME NEW m
    PROVE  Extend(m, <<>>) = m /\ \A x : Extend(m, <<x>>) = Update(m, x)
<1>1. Extend(m, <<>>) = m
  <2> DEFINE f == CHOOSE f : f = [i \in 0..0 |-> IF i = 0 THEN m ELSE Update(f[i - 1], <<>>[i])]
  <2>1. Extend(m, <<>>) = f[0]
    BY DEF Extend
  <2>2. \E g : g = [i \in 0..0 |-> IF i = 0 THEN m ELSE Update(g[i - 1], <<>>[i])]
    <3> DEFINE g == [i \in 0..0 |-> m]
    <3>1. g = [i \in 0..0 |-> IF i = 0 THEN m ELSE Update(g[i - 1], <<>>[i])]
      OBVIOUS
    <3> QED BY <3>1
  <2>3. f = [i \in 0..0 |-> IF i = 0 THEN m ELSE Update(f[i - 1], <<>>[i])]
    BY <2>2
  <2> HIDE DEF f
  <2> QED BY <2>1, <2>3
<1>2. ASSUME NEW x PROVE Extend(m, <<x>>) = Update(m, x)
  <2> DEFINE Steps(f) == f = [i \in 0..1 |-> IF i = 0 THEN m ELSE Update(f[i - 1], <<x>>[i])]
             f == CHOOSE f : Steps(f)
  <2>1. Extend(m, <<x>>) = f[1]
    BY DEF Extend
  <2>2. \E g : Steps(g)
    <3> DEFINE g == [i \in 0..1 |-> IF i = 0 THEN m ELSE Update(m, x)]
    <3>1. \A i \in 0..1 : g[i] = IF i = 0 THEN m ELSE Update(g[i - 1], <<x>>[i])
      <4> SUFFICES ASSUME NEW i \in 0..1 PROVE g[i] = IF i = 0 THEN m ELSE Update(g[i - 1], <<x>>[i])
        OBVIOUS
      <4>1. g[0] = m /\ g[1] = Update(m, x)
        OBVIOUS
      <4> HIDE DEF g
      <4>2. i = 0 \/ (i = 1 /\ i - 1 = 0)
        BY ONLY i \in 0..1, ZeroOrOne
      <4> QED BY <4>1, <4>2
    <3>2. Steps(g)
      BY <3>1
    <3> QED BY <3>2
  <2>3. Steps(f)
    BY <2>2
  <2> HIDE DEF f
  <2>4. f[0] = m /\ f[1] = Update(f[0], <<x>>[1])
    BY <2>3
  <2> QED BY <2>1, <2>4
<1> QED BY <1>1, <1>2

\* The lane keeps its kind, and its monitor counts.
LaneInv ==
    /\ lane.kind = "pairs" => lane = [kind |-> "pairs", rows |-> lane.rows]
    /\ lane.kind = "judge" => lane = [kind |-> "judge", watch |-> lane.watch, trust |-> lane.trust] /\ IsMonitor(lane.watch)

LEMMA WatchReplaced ==
    ASSUME NEW l, NEW w, l = [kind |-> "judge", watch |-> l.watch, trust |-> l.trust]
    PROVE  [l EXCEPT !.watch = w] = [kind |-> "judge", watch |-> w, trust |-> l.trust]
OBVIOUS

LEMMA DisagreeKeeps == LaneInv /\ Disagree => LaneInv'
<1> SUFFICES ASSUME LaneInv, Disagree PROVE LaneInv'
  OBVIOUS
<1>1. PICK says \in SUBSET {"unsupported", "not supported", "supported"}, flagged \in BOOLEAN :
         lane' = [lane EXCEPT !.watch = Extend(lane.watch, Disagreement(says, flagged))]
  BY DEF Disagree
<1>2. lane = [kind |-> "judge", watch |-> lane.watch, trust |-> lane.trust] /\ IsMonitor(lane.watch)
  BY DEF LaneInv, Disagree
<1> DEFINE seen == Disagreement(says, flagged)
           w == Extend(lane.watch, seen)
<1>3. seen = <<>> \/ \E x \in 0..1 : seen = <<x>>
  <2>1. CASE Verdict(says) = "unclear"
    BY <2>1 DEF Disagreement
  <2>2. CASE Verdict(says) = "unsupported"
    <3> DEFINE x == IF flagged THEN 0 ELSE 1
    <3>1. seen = <<x>>
      BY <2>2 DEF Disagreement
    <3>2. x = 0 \/ x = 1
      BY Zenon
    <3> HIDE DEF seen, x
    <3> QED BY ONLY <3>1, <3>2, ZeroOrOne, Zenon
  <2>3. CASE Verdict(says) \notin {"unclear", "unsupported"}
    <3> DEFINE x == IF flagged THEN 1 ELSE 0
    <3>1. seen = <<x>>
      BY <2>3 DEF Disagreement
    <3>2. x = 0 \/ x = 1
      BY Zenon
    <3> HIDE DEF seen, x
    <3> QED BY ONLY <3>1, <3>2, ZeroOrOne, Zenon
  <2> QED BY <2>1, <2>2, <2>3
<1> HIDE DEF seen
<1>4. lane' = [kind |-> "judge", watch |-> w, trust |-> lane.trust]
  <2>1. lane' = [lane EXCEPT !.watch = w]
    BY <1>1 DEF seen
  <2> HIDE DEF w
  <2> QED BY <1>2, <2>1, WatchReplaced
<1>5. IsMonitor(w)
  <2>1. CASE seen = <<>>
    BY <1>2, <2>1, ExtendByOne
  <2>2. ASSUME NEW x \in 0..1, seen = <<x>> PROVE IsMonitor(w)
    <3>1. w = Update(lane.watch, x)
      BY <2>2, ExtendByOne
    <3> QED BY <1>2, <3>1, UpdatedIsMonitor
  <2> QED BY <1>3, <2>1, <2>2
<1> HIDE DEF w
<1> QED BY <1>4, <1>5 DEF LaneInv

LEMMA LaneStepKeeps == LaneInv /\ [LaneNext]_lane => LaneInv'
<1> SUFFICES ASSUME LaneInv, [LaneNext]_lane PROVE LaneInv'
  OBVIOUS
<1>1. CASE ImportPair
  <2>1. PICK pair \in Pairs, a, b \in Answers : lane' = [lane EXCEPT !.rows = Insert(lane.rows, pair, Indicator(a, b))]
    BY <1>1 DEF ImportPair
  <2>2. lane = [kind |-> "pairs", rows |-> lane.rows]
    BY <1>1 DEF ImportPair, LaneInv
  <2> DEFINE rows == Insert(lane.rows, pair, Indicator(a, b))
  <2>3. lane' = [kind |-> "pairs", rows |-> rows]
    BY <2>1, <2>2
  <2> HIDE DEF rows
  <2> QED BY <2>3 DEF LaneInv
<1>2. CASE Disagree
  BY <1>2, DisagreeKeeps
<1>3. CASE Report
  <2>1. PICK anchors \in Anchors : lane' = [lane EXCEPT !.trust = Assess(anchors, lane.watch)]
    BY <1>3 DEF Report
  <2>2. lane = [kind |-> "judge", watch |-> lane.watch, trust |-> lane.trust] /\ IsMonitor(lane.watch)
    BY <1>3 DEF Report, LaneInv
  <2> DEFINE trust == Assess(anchors, lane.watch)
  <2>3. lane' = [kind |-> "judge", watch |-> lane.watch, trust |-> trust]
    BY <2>1, <2>2
  <2> HIDE DEF trust
  <2> QED BY <2>2, <2>3 DEF LaneInv
<1>4. CASE MakeTwin
  <2>1. lane'.kind = "twin"
    BY <1>4 DEF MakeTwin
  <2> QED BY <2>1 DEF LaneInv
<1>5. CASE UNCHANGED lane
  BY <1>5 DEF LaneInv
<1> QED BY <1>1, <1>2, <1>3, <1>4, <1>5 DEF LaneNext

\* Whatever the tolerated rate, the warm-up and the verdicts seen so far: the next
\* observation at a tolerated rate is not expected to raise the e-value of the
\* monitor, which never falls below zero, so its alarms are false as rarely as
\* Ville's inequality says.
THEOREM BetsStayFair == LaneInit /\ [][LaneNext]_lane => []BetsAreFair
<1>1. LaneInit => LaneInv
  BY DEF LaneInit, LaneInv, NoBets, IsMonitor, IsFraction
<1>2. LaneInv /\ [LaneNext]_lane => LaneInv'
  BY LaneStepKeeps
<1>3. LaneInv => BetsAreFair
  <2> SUFFICES ASSUME LaneInv, lane.kind = "judge" PROVE BetsAreFair
    BY DEF BetsAreFair
  <2>1. IsMonitor(lane.watch)
    BY DEF LaneInv
  <2> QED BY <2>1, MonitorIsFair DEF BetsAreFair
<1> QED BY <1>1, <1>2, <1>3, PTL

-----------------------------------------------------------------------------
(* The accounts                                                             *)

\* The partial sums of the first n members of f.
Sums(s, f, n) ==
    /\ DOMAIN s = 0..n
    /\ s = [k \in 0..n |-> IF k = 0 THEN 0 ELSE s[k - 1] + f[k]]

LEMMA SumsExist == ASSUME NEW f, NEW n \in Nat PROVE \E s : Sums(s, f, n)
<1> DEFINE S == {k \in Nat : \E s : Sums(s, f, k)}
<1>1. 0 \in S
  <2> DEFINE s == [k \in 0..0 |-> 0]
  <2>1. Sums(s, f, 0)
    BY DEF Sums
  <2> QED BY <2>1
<1>2. ASSUME NEW k \in Nat, k \in S PROVE k + 1 \in S
  <2>1. PICK s : Sums(s, f, k)
    BY <1>2
  <2> DEFINE t == [j \in 0..(k + 1) |-> IF j = k + 1 THEN s[k] + f[k + 1] ELSE s[j]]
  <2>2. \A j \in 0..(k + 1) : t[j] = IF j = 0 THEN 0 ELSE t[j - 1] + f[j]
    <3> SUFFICES ASSUME NEW j \in 0..(k + 1)
                 PROVE  t[j] = IF j = 0 THEN 0 ELSE t[j - 1] + f[j]
      OBVIOUS
    <3>1. CASE j = k + 1
      <4>1. j # 0 /\ j - 1 = k /\ k \in 0..(k + 1) /\ k # k + 1
        BY <3>1
      <4>2. t[j] = s[k] + f[k + 1] /\ t[j - 1] = s[k]
        BY <3>1, <4>1
      <4> QED BY <3>1, <4>1, <4>2
    <3>2. CASE j # k + 1
      <4>1. s[j] = IF j = 0 THEN 0 ELSE s[j - 1] + f[j]
        BY <2>1, <3>2 DEF Sums
      <4>2. t[j] = s[j]
        BY <3>2
      <4>3. j # 0 => j - 1 \in 0..(k + 1) /\ j - 1 # k + 1
        BY <3>2
      <4>4. j # 0 => t[j - 1] = s[j - 1]
        BY <4>3
      <4> QED BY <4>1, <4>2, <4>4
    <3> QED BY <3>1, <3>2
  <2>3. t = [j \in 0..(k + 1) |-> t[j]] /\ DOMAIN t = 0..(k + 1)
    OBVIOUS
  <2> HIDE DEF t
  <2>4. t = [j \in 0..(k + 1) |-> IF j = 0 THEN 0 ELSE t[j - 1] + f[j]]
    BY <2>2, <2>3
  <2>5. Sums(t, f, k + 1)
    BY <2>3, <2>4 DEF Sums
  <2> QED BY <2>5
<1> HIDE DEF S
<1>3. Nat \subseteq S
  BY <1>1, <1>2, Counting
<1> QED BY <1>3 DEF S

LEMMA TotalIsLast ==
    ASSUME NEW f, Len(f) \in Nat
    PROVE  \E s : Sums(s, f, Len(f)) /\ Total(f) = s[Len(f)]
<1> DEFINE n == Len(f)
           s == CHOOSE s : s = [k \in 0..n |-> IF k = 0 THEN 0 ELSE s[k - 1] + f[k]]
<1>1. Total(f) = s[n]
  BY DEF Total
<1>2. PICK t : Sums(t, f, n)
  BY SumsExist
<1>3. s = [k \in 0..n |-> IF k = 0 THEN 0 ELSE s[k - 1] + f[k]]
  BY <1>2 DEF Sums
<1> HIDE DEF s
<1>4. Sums(s, f, n)
  BY <1>3 DEF Sums
<1> QED BY <1>1, <1>4

\* What is indexed by 1..n has the length n.
LEMMA LengthOf ==
    ASSUME NEW n \in Nat, NEW f, DOMAIN f = 1..n, f = [i \in 1..n |-> f[i]], \A i \in 1..n : f[i] \in Int
    PROVE  Len(f) = n
<1>1. f \in [1..n -> Int]
  OBVIOUS
<1>2. f \in Seq(Int)
  BY <1>1
<1> QED BY <1>2

\* A running total goes on by its next term.
LEMMA SumsStep ==
    ASSUME NEW s, NEW f, NEW n, Sums(s, f, n), NEW k \in Nat, k + 1 \in 0..n
    PROVE  s[k + 1] = s[k] + f[k + 1]
<1>1. k + 1 # 0 /\ (k + 1) - 1 = k
  OBVIOUS
<1> QED BY <1>1 DEF Sums

\* Of whole numbers, the total is one.
LEMMA TotalIsWhole ==
    ASSUME NEW n \in Nat, NEW f, DOMAIN f = 1..n, f = [i \in 1..n |-> f[i]], \A i \in 1..n : f[i] \in Int
    PROVE  Total(f) \in Int
<1>1. Len(f) = n
  BY LengthOf
<1>2. PICK s : Sums(s, f, n) /\ Total(f) = s[n]
  BY <1>1, TotalIsLast
<1> DEFINE S == {k \in Nat : k <= n => s[k] \in Int}
<1>3. 0 \in S
  BY <1>2 DEF Sums
<1>4. ASSUME NEW k \in Nat, k \in S PROVE k + 1 \in S
  <2> SUFFICES ASSUME k + 1 <= n PROVE s[k + 1] \in Int
    OBVIOUS
  <2>1. s[k] \in Int /\ f[k + 1] \in Int /\ k + 1 \in 0..n /\ (k + 1) - 1 = k /\ k + 1 # 0
    BY <1>4
  <2>2. s[k + 1] = s[k] + f[k + 1]
    BY <1>2, <2>1 DEF Sums
  <2> QED BY <2>1, <2>2
<1> HIDE DEF S
<1>5. Nat \subseteq S
  BY <1>3, <1>4, Counting
<1>6. s[n] \in Int
  BY <1>5 DEF S
<1> QED BY <1>2, <1>6

\* Shared out evenly: each member times n and less a share, all n together.
LEMMA SharedOut ==
    ASSUME NEW n \in Nat, NEW d, NEW c, NEW share \in Int,
           DOMAIN d = 1..n, d = [i \in 1..n |-> d[i]], \A i \in 1..n : d[i] \in Int,
           DOMAIN c = 1..n, c = [i \in 1..n |-> c[i]], \A i \in 1..n : c[i] = n * d[i] - share
    PROVE  Total(c) = n * (Total(d) - share)
<1>1. \A i \in 1..n : c[i] \in Int
  OBVIOUS
<1>2. Len(d) = n /\ Len(c) = n
  BY <1>1, LengthOf
<1>3. PICK s : Sums(s, d, n) /\ Total(d) = s[n]
  BY <1>2, TotalIsLast
<1>4. PICK t : Sums(t, c, n) /\ Total(c) = t[n]
  BY <1>2, TotalIsLast
<1> DEFINE S == {k \in Nat : k <= n => s[k] \in Int /\ t[k] = n * s[k] - k * share}
<1>5. 0 \in S
  <2>1. s[0] = 0 /\ t[0] = 0
    BY <1>3, <1>4 DEF Sums
  <2> QED BY <2>1
<1>6. ASSUME NEW k \in Nat, k \in S PROVE k + 1 \in S
  <2> SUFFICES ASSUME k + 1 <= n PROVE s[k + 1] \in Int /\ t[k + 1] = n * s[k + 1] - (k + 1) * share
    OBVIOUS
  <2>1. k + 1 \in 1..n /\ k + 1 \in 0..n /\ (k + 1) - 1 = k /\ k + 1 # 0
    OBVIOUS
  <2>2. s[k] \in Int /\ t[k] = n * s[k] - k * share
    BY <1>6, <2>1
  <2>3. d[k + 1] \in Int /\ c[k + 1] = n * d[k + 1] - share
    BY <2>1
  <2>4. s[k + 1] = s[k] + d[k + 1] /\ t[k + 1] = t[k] + c[k + 1]
    <3> HIDE DEF S
    <3>1. s[k + 1] = s[k] + d[k + 1]
      BY <1>3, <2>1, SumsStep
    <3>2. t[k + 1] = t[k] + c[k + 1]
      BY <1>4, <2>1, SumsStep
    <3> QED BY <3>1, <3>2
  <2>5. \A x, y, w \in Int : n * x - k * w + (n * y - w) = n * (x + y) - (k + 1) * w
    OBVIOUS
  <2> HIDE DEF S
  <2>6. t[k + 1] = (n * s[k] - k * share) + (n * d[k + 1] - share)
    BY ONLY <2>2, <2>3, <2>4
  <2>7. (n * s[k] - k * share) + (n * d[k + 1] - share) = n * (s[k] + d[k + 1]) - (k + 1) * share
    BY ONLY <2>2, <2>3, <2>5, share \in Int
  <2>8. s[k + 1] \in Int
    BY <2>2, <2>3, <2>4
  <2> QED BY ONLY <2>4, <2>6, <2>7, <2>8
<1> HIDE DEF S
<1>7. Nat \subseteq S
  BY <1>5, <1>6, Counting
<1>8. s[n] \in Int /\ t[n] = n * s[n] - n * share
  BY <1>7 DEF S
<1>9. \A x, w \in Int : n * x - n * w = n * (x - w)
  OBVIOUS
<1> QED BY <1>3, <1>4, <1>8, <1>9

\* The greatest of zero and a number.
LEMMA Clipped == ASSUME NEW x \in Int PROVE Max({0, x}) \in Nat
<1>1. \E m \in {0, x} : \A y \in {0, x} : m >= y
  <2>1. CASE x >= 0
    BY <2>1
  <2>2. CASE ~(x >= 0)
    BY <2>2
  <2> QED BY <2>1, <2>2
<1>2. Max({0, x}) \in {0, x} /\ \A y \in {0, x} : Max({0, x}) >= y
  BY <1>1 DEF Max
<1> DEFINE m == Max({0, x})
<1>3. m \in {0, x} /\ m >= 0
  BY <1>2
<1> HIDE DEF m
<1>4. m \in Nat
  BY <1>3
<1> QED BY <1>4 DEF m

LEMMA GreaterOf == ASSUME NEW x \in Nat, NEW y \in Nat PROVE Max({x, y}) \in Nat
<1>1. \E m \in {x, y} : \A z \in {x, y} : m >= z
  <2>1. CASE x >= y
    BY <2>1
  <2>2. CASE ~(x >= y)
    BY <2>2
  <2> QED BY <2>1, <2>2
<1>2. Max({x, y}) \in {x, y}
  BY <1>1 DEF Max
<1> QED BY <1>2

\* Every name has a price.
LEMMA PriceIsNat == ASSUME NEW name PROVE PriceFor(name).prompt \in Nat /\ PriceFor(name).completion \in Nat
<1> DEFINE I == DOMAIN Prices
           exact == {i \in I : Prices[i].model = name}
           known == {i \in I : IsPrefix(Prices[i].model, name)}
<1>1. I \subseteq Nat
  BY AccountsAssumption
<1>2. exact # {} => Min(exact) \in exact
  <2>1. exact \in SUBSET Nat
    BY <1>1
  <2> HIDE DEF exact
  <2> QED BY <2>1, SmallestOf
<1>3. known # {} => Min(known) \in known
  <2>1. known \in SUBSET Nat
    BY <1>1
  <2> HIDE DEF known
  <2> QED BY <2>1, SmallestOf
<1>4. PriceFor(name) = IF exact # {} THEN Prices[Min(exact)] ELSE IF known # {} THEN Prices[Min(known)] ELSE Fallback
  BY DEF PriceFor
<1>5. exact \subseteq I /\ known \subseteq I
  OBVIOUS
<1> HIDE DEF exact, known
<1>6. (\E i \in I : PriceFor(name) = Prices[i]) \/ PriceFor(name) = Fallback
  BY <1>2, <1>3, <1>4, <1>5
<1> QED BY <1>6, AccountsAssumption

\* What a ledger holds.
IsLedger(a) ==
    /\ a = [kind |-> "ledger", requests |-> a.requests, shadow |-> a.shadow, edges |-> a.edges]
    /\ a.requests \in Seq([model : Models, prompt : Tokens, completion : Tokens])
    /\ a.shadow \in Seq(Savings) /\ a.edges \in Seq(Savings)

\* What a routing of each request has saved.
Savings1(a) == [i \in DOMAIN a.requests |-> Cost(Strong, a.requests[i]) - Cost(a.requests[i].model, a.requests[i])]

LEMMA SavingsAreWhole ==
    ASSUME NEW a, IsLedger(a), NEW i \in 1..Len(a.requests)
    PROVE  Cost(Strong, a.requests[i]) - Cost(a.requests[i].model, a.requests[i]) \in Int
<1> DEFINE r == a.requests[i]
<1>1. r.prompt \in Nat /\ r.completion \in Nat
  <2> DEFINE R == [model : Models, prompt : Tokens, completion : Tokens]
  <2>0. a.requests \in Seq(R)
    BY DEF IsLedger
  <2>1. r \in R
    <3> HIDE DEF R
    <3> QED BY <2>0
  <2> QED BY <2>1, AccountsAssumption
<1> HIDE DEF r
<1>2. \A name : Cost(name, r) \in Nat
  <2> TAKE name
  <2>1. PriceFor(name).prompt \in Nat /\ PriceFor(name).completion \in Nat
    BY PriceIsNat
  <2>2. \A x, y, z, w \in Nat : x * y + z * w \in Nat
    OBVIOUS
  <2> QED BY <1>1, <2>1, <2>2 DEF Cost
<1>3. Cost(Strong, r) \in Nat /\ Cost(r.model, r) \in Nat
  BY <1>2
<1>4. Cost(Strong, r) - Cost(r.model, r) \in Int
  BY <1>3
<1> QED BY <1>4 DEF r

LEMMA SharesAreWhole ==
    ASSUME NEW a, IsLedger(a)
    PROVE  Rework(a) \in Int /\ Regret(a) \in Int
<1>1. Rework(a) \in Int
  <2>1. DOMAIN a.edges = 1..Len(a.edges) /\ Len(a.edges) \in Nat
    BY DEF IsLedger
  <2>2. a.edges = [i \in 1..Len(a.edges) |-> a.edges[i]]
    BY <2>1 DEF IsLedger
  <2>3. \A i \in 1..Len(a.edges) : a.edges[i] \in Int
    BY <2>1, AccountsAssumption DEF IsLedger
  <2> QED BY <2>1, <2>2, <2>3, TotalIsWhole DEF Rework
<1>2. Regret(a) \in Int
  <2> DEFINE c == [i \in DOMAIN a.shadow |-> Max({0, a.shadow[i]})]
             n == Len(a.shadow)
  <2>1. DOMAIN c = 1..n /\ n \in Nat
    BY DEF IsLedger
  <2>2. \A i \in 1..n : a.shadow[i] \in Int
    BY <2>1, AccountsAssumption DEF IsLedger
  <2>3. \A i \in 1..n : Max({0, a.shadow[i]}) \in Int
    BY <2>2, Clipped
  <2>4. \A i \in 1..n : c[i] \in Int
    BY <2>1, <2>3
  <2>5. c = [i \in 1..n |-> c[i]]
    BY <2>1
  <2>6. Regret(a) = Total(c)
    BY DEF Regret
  <2> HIDE DEF c, n
  <2> QED BY <2>1, <2>4, <2>5, <2>6, TotalIsWhole
<1> QED BY <1>1, <1>2

\* The contributions of a ledger add up to its net value.
LEMMA LedgerAddsUp ==
    ASSUME NEW a, IsLedger(a)
    PROVE  Total(Contributions(a)) = Len(a.requests) * NetValue(a)
<1> DEFINE n == Len(a.requests)
           d == Savings1(a)
           c == Contributions(a)
           share == Rework(a) + Regret(a)
<1>1. n \in Nat /\ DOMAIN a.requests = 1..n
  BY DEF IsLedger
<1>2. /\ DOMAIN d = 1..n /\ d = [i \in 1..n |-> d[i]]
      /\ DOMAIN c = 1..n /\ c = [i \in 1..n |-> c[i]]
  BY <1>1 DEF Savings1, Contributions
<1>3. \A i \in 1..n : d[i] \in Int
  <2> TAKE i \in 1..n
  <2>1. d[i] = Cost(Strong, a.requests[i]) - Cost(a.requests[i].model, a.requests[i])
    BY <1>1 DEF Savings1
  <2> QED BY <2>1, SavingsAreWhole
<1>4. Rework(a) \in Int /\ Regret(a) \in Int
  BY SharesAreWhole
<1>5. \A i \in 1..n : c[i] = n * d[i] - Rework(a) - Regret(a)
  BY <1>1 DEF Savings1, Contributions
<1>6. Saved(a.requests) = Total(d)
  BY DEF Saved, Savings1
<1>7. NetValue(a) = Total(d) - Rework(a) - Regret(a)
  BY <1>6 DEF NetValue
<1> HIDE DEF n, d, c
<1>8. share \in Int /\ \A i \in 1..n : c[i] = n * d[i] - share
  <2>1. \A i \in 1..n : n * d[i] \in Int
    BY <1>1, <1>3
  <2> QED BY <1>4, <1>5, <2>1
<1>9. Total(d) \in Int
  BY <1>1, <1>2, <1>3, TotalIsWhole
<1>10. NetValue(a) = Total(d) - share
  BY <1>4, <1>7, <1>9
<1> HIDE DEF share
<1>11. Total(c) = n * (Total(d) - share)
  BY <1>1, <1>2, <1>3, <1>8, SharedOut
<1> QED BY <1>10, <1>11 DEF n, c

\* A sample of the strong tier, as far as it was replayed.
IsSample(a) ==
    /\ a = [kind |-> "sample", seen |-> a.seen, runs |-> a.runs]
    /\ a.seen \in Nat
    /\ a.runs \in Seq([served : Tokens, cheap : Tokens, sufficed : BOOLEAN])

\* The estimate is one of the resamples: the one that draws every run once.
LEMMA SampleAddsUp ==
    ASSUME NEW a, IsSample(a)
    PROVE  \E i \in Estimate(a).intervals :
              i[1] <= Estimate(a).total /\ Estimate(a).total <= i[2]
<1> DEFINE n == Len(a.runs)
           c == [i \in DOMAIN a.runs |-> RegretOf(a.runs[i])]
           P == Max({a.seen, n})
           M == Resamples(c)
           T == Total(c)
<1>1. n \in Nat /\ DOMAIN a.runs = 1..n /\ a.seen \in Nat
  BY DEF IsSample
<1>2. \A i \in 1..n : RegretOf(a.runs[i]) \in Int
  <2> SUFFICES ASSUME NEW i \in 1..n PROVE RegretOf(a.runs[i]) \in Int
    OBVIOUS
  <2> DEFINE R == [served : Tokens, cheap : Tokens, sufficed : BOOLEAN]
             r == a.runs[i]
  <2>1. a.runs \in Seq(R)
    BY DEF IsSample
  <2>2. r \in R
    <3> HIDE DEF R
    <3> QED BY <1>1, <2>1
  <2> HIDE DEF r
  <2>3. r.served \in Int /\ r.cheap \in Int
    <3>1. r.served \in Tokens /\ r.cheap \in Tokens
      BY <2>2
    <3>2. Tokens \subseteq Int
      BY ONLY AccountsAssumption
    <3> QED BY ONLY <3>1, <3>2
  <2>4. Max({0, r.served - r.cheap}) \in Int
    BY <2>3, Clipped
  <2> QED BY <2>4 DEF RegretOf, r
<1>3. DOMAIN c = 1..n /\ c = [i \in 1..n |-> c[i]] /\ \A i \in 1..n : c[i] \in Int
  BY <1>1, <1>2
<1>4. P \in Nat
  BY <1>1, GreaterOf
<1>5. Estimate(a).total = T * P
  BY DEF Estimate
<1>6. Estimate(a).intervals = {<<p[1] * P, p[2] * P>> : p \in {m \in M \X M : m[1] <= m[2]}}
  BY DEF Estimate
<1> HIDE DEF n, c, P
<1>7. T \in Int
  BY <1>1, <1>3, TotalIsWhole
<1>8. T \in M
  <2> DEFINE pick == [i \in DOMAIN c |-> i]
  <2>1. pick \in [DOMAIN c -> DOMAIN c]
    OBVIOUS
  <2>2. [i \in DOMAIN c |-> c[pick[i]]] = c
    BY <1>3
  <2>3. Total([i \in DOMAIN c |-> c[pick[i]]]) = T
    BY <2>2
  <2> HIDE DEF pick, T
  <2> QED BY <2>1, <2>3 DEF Resamples
<1> HIDE DEF T, M
<1>9. <<T, T>> \in {m \in M \X M : m[1] <= m[2]}
  BY <1>7, <1>8
<1>10. <<T * P, T * P>> \in Estimate(a).intervals
  BY <1>6, <1>9
<1>11. T * P <= T * P
  BY <1>4, <1>7
<1> QED BY <1>5, <1>10, <1>11

\* What the console is told of a ledger.
LEMMA NothingIsGuessed ==
    ASSUME NEW a, IsLedger(a)
    PROVE  LET shown == EconomicsSnapshot(a)
               missing == EconomicsCapability(shown)
           IN  /\ missing = {} <=> shown.net # <<>>
               /\ missing = {} => shown.net[1] = Saved(a.requests) - shown.rework[1] - shown.regret[1]
               /\ "regret" \in missing => a.shadow = <<>>
               /\ "rework" \in missing => a.edges = <<>>
<1> DEFINE shown == EconomicsSnapshot(a)
           missing == EconomicsCapability(shown)
           n == Len(a.requests)
<1>1. n \in Nat /\ (n = 0 <=> a.requests = <<>>)
  BY DEF IsLedger
<1>2. /\ shown.requests = n /\ shown.samples = n
      /\ shown.regret = IF a.shadow # <<>> THEN <<Regret(a)>> ELSE <<>>
      /\ shown.rework = IF a.edges # <<>> THEN <<Rework(a)>> ELSE <<>>
      /\ shown.net = IF Measured(a) THEN <<NetValue(a)>> ELSE <<>>
      /\ shown["regret"] = shown.regret /\ shown["rework"] = shown.rework
  BY DEF EconomicsSnapshot, Figure
<1> HIDE DEF shown, n
<1>3. \A x : <<x>> # <<>> /\ <<x>>[1] = x
  OBVIOUS
<1>4. /\ shown.regret = <<>> <=> a.shadow = <<>>
      /\ shown.rework = <<>> <=> a.edges = <<>>
      /\ shown.net = <<>> <=> ~Measured(a)
  <2>1. shown.regret = <<>> <=> a.shadow = <<>>
    BY <1>2, <1>3
  <2>2. shown.rework = <<>> <=> a.edges = <<>>
    BY <1>2, <1>3
  <2>3. shown.net = <<>> <=> ~Measured(a)
    BY <1>2, <1>3
  <2> QED BY <2>1, <2>2, <2>3
<1>5. CASE a.requests = <<>>
  <2>1. missing = {"samples"}
    BY <1>1, <1>2, <1>5 DEF EconomicsCapability
  <2>2. shown.net = <<>>
    BY <1>4, <1>5 DEF Measured
  <2> HIDE DEF missing
  <2> QED BY <2>1, <2>2 DEF shown, missing
<1>6. CASE a.requests # <<>>
  <2> DEFINE absent == {f \in {"regret", "rework"} : shown[f] = <<>>}
  <2>1. missing = IF absent # {} THEN absent
                  ELSE IF shown.samples > 0 /\ shown.net # <<>> THEN {} ELSE {"samples"}
    BY <1>1, <1>2, <1>6 DEF EconomicsCapability
  <2>2. /\ "regret" \in absent <=> a.shadow = <<>>
        /\ "rework" \in absent <=> a.edges = <<>>
    BY <1>2, <1>4
  <2>3. absent = {} <=> a.shadow # <<>> /\ a.edges # <<>>
    BY <1>2, <1>4
  <2>4. shown.samples > 0
    BY <1>1, <1>2, <1>6
  <2> HIDE DEF missing, absent
  <2>5. CASE absent = {}
    <3>1. Measured(a) /\ shown.net # <<>>
      BY <1>4, <1>6, <2>3, <2>5 DEF Measured
    <3>2. missing = {}
      BY <2>1, <2>4, <2>5, <3>1
    <3>3. shown.net[1] = NetValue(a) /\ shown.rework[1] = Rework(a) /\ shown.regret[1] = Regret(a)
      BY <1>2, <1>3, <2>3, <2>5, <3>1
    <3>4. shown.net[1] = Saved(a.requests) - shown.rework[1] - shown.regret[1]
      BY <3>3 DEF NetValue
    <3> QED BY <3>1, <3>2, <3>4 DEF shown, missing
  <2>6. CASE absent # {}
    <3>1. missing = absent
      BY <2>1, <2>6
    <3>2. shown.net = <<>>
      BY <1>4, <2>3, <2>6 DEF Measured
    <3> QED BY <2>2, <2>6, <3>1, <3>2 DEF shown, missing
  <2> QED BY <2>5, <2>6
<1> QED BY <1>5, <1>6

\* The turns of a session: each has its place as its name and as its cost.
Turns == [id : Nat, at : Nat, words : SUBSET Terms, cost : Nat, regenerate : BOOLEAN,
          resolves : {"none", "h1"}, raised : {"none", "h1"}]

AreTurns(turns) ==
    /\ turns \in Seq(Turns)
    /\ \A i \in 1..Len(turns) : turns[i].id = i /\ turns[i].cost = i

\* Who raised a hold is a turn of the session, the last one that did.
LEMMA RaiserIsLast ==
    ASSUME NEW turns, NEW n \in Nat, DOMAIN turns = 1..n, NEW hold
    PROVE  LET r == Raiser(turns, hold)
               raisers == {i \in 1..n : turns[i].raised = hold}
           IN  /\ r \in 0..n
               /\ r = 0 <=> raisers = {}
               /\ r # 0 => r \in raisers /\ \A i \in raisers : i <= r
<1> DEFINE raisers == {i \in 1..n : turns[i].raised = hold}
<1>1. Raiser(turns, hold) = IF raisers = {} THEN 0 ELSE Max(raisers)
  BY DEF Raiser
<1>2. raisers \in SUBSET (0..n) /\ raisers \subseteq 1..n
  OBVIOUS
<1> HIDE DEF raisers
<1>3. raisers # {} => Max(raisers) \in raisers /\ \A y \in raisers : y <= Max(raisers)
  BY <1>2, Greatest
<1>4. /\ Raiser(turns, hold) \in 0..n
      /\ Raiser(turns, hold) = 0 <=> raisers = {}
      /\ Raiser(turns, hold) # 0 => Raiser(turns, hold) \in raisers /\ \A i \in raisers : i <= Raiser(turns, hold)
  <2>1. CASE raisers = {}
    BY <1>1, <2>1
  <2>2. CASE raisers # {}
    <3> DEFINE m == Max(raisers)
    <3>1. m \in raisers /\ (\A y \in raisers : y <= m) /\ Raiser(turns, hold) = m
      BY <1>1, <1>3, <2>2
    <3> HIDE DEF m
    <3>2. m \in 1..n
      BY <1>2, <3>1
    <3> QED BY <2>2, <3>1, <3>2
  <2> QED BY <2>1, <2>2
<1> QED BY <1>4 DEF raisers

\* The turn that a turn escalates, or none.
RaiserOf(turns, i) == IF turns[i].resolves = "none" THEN 0 ELSE Raiser(turns, turns[i].resolves)

\* What a turn that escalates nothing says of the one before it.
PlainEdges(turn, last) ==
    IF turn.regenerate THEN {Edge(turn, last, "regenerate", 95 * turn.cost)}
    ELSE IF turn.at - last.at <= RetryWindow /\ Similar(turn.words, last.words)
    THEN {Edge(turn, last, "retry", RetryConfidence(turn.words, last.words) * turn.cost)}
    ELSE {}

LEMMA EdgesByCase ==
    ASSUME NEW turns, NEW i
    PROVE  /\ RaiserOf(turns, i) \notin {0, i} =>
                EdgesOf(turns, i) = {Edge(turns[i], turns[RaiserOf(turns, i)], "human_escalation", 100 * (turns[i].cost + Review))}
           /\ RaiserOf(turns, i) \in {0, i} =>
                EdgesOf(turns, i) = IF i = 1 THEN {} ELSE PlainEdges(turns[i], turns[i - 1])
BY DEF EdgesOf, RaiserOf, PlainEdges

\* The edge a turn may have is charged to another turn, at most its cost and a
\* review; if it escalates nothing, to the one before it, and less than its cost.
LEMMA EdgeIsFair ==
    ASSUME NEW turns, AreTurns(turns), NEW i \in 1..Len(turns), NEW e \in EdgesOf(turns, i)
    PROVE  /\ e.child = i
           /\ \A f \in EdgesOf(turns, i) : f = e
           /\ e.charged <= 100 * (turns[i].cost + Review)
           /\ e.child # e.parent
           /\ e.kind # "human_escalation" => e.charged < 100 * turns[i].cost /\ e.parent + 1 = i
<1>1. turns[i].id = i /\ turns[i].cost = i /\ i \in Nat \ {0} /\ Len(turns) \in Nat /\ DOMAIN turns = 1..Len(turns)
  BY DEF AreTurns
<1>2. Review \in Nat
  BY AccountsAssumption
<1>3. \A last, kind, charged : Edge(turns[i], last, kind, charged) =
         [child |-> i, parent |-> last.id, kind |-> kind, charged |-> charged]
  BY <1>1 DEF Edge
<1>4. CASE RaiserOf(turns, i) \notin {0, i}
  <2> DEFINE r == RaiserOf(turns, i)
  <2>1. r \in 1..Len(turns)
    <3>1. r = Raiser(turns, turns[i].resolves)
      BY <1>4 DEF RaiserOf
    <3> HIDE DEF r
    <3>2. r \in 0..Len(turns) /\ r # 0
      BY <1>1, <1>4, <3>1, RaiserIsLast DEF r
    <3> QED BY <1>1, <3>2
  <2>2. turns[r].id = r
    BY <2>1 DEF AreTurns
  <2>3. EdgesOf(turns, i) = {[child |-> i, parent |-> r, kind |-> "human_escalation", charged |-> 100 * (i + Review)]}
    BY <1>1, <1>3, <1>4, <2>2, EdgesByCase
  <2> HIDE DEF r
  <2>4. e = [child |-> i, parent |-> r, kind |-> "human_escalation", charged |-> 100 * (i + Review)]
    BY <2>3
  <2>5. 100 * (i + Review) <= 100 * (i + Review)
    BY <1>1, <1>2
  <2> QED BY <1>1, <1>4, <2>3, <2>4, <2>5 DEF r
<1>5. CASE RaiserOf(turns, i) \in {0, i}
  <2>1. i # 1 /\ EdgesOf(turns, i) = PlainEdges(turns[i], turns[i - 1])
    BY <1>5, EdgesByCase
  <2>2. i - 1 \in 1..Len(turns) /\ turns[i - 1].id = i - 1
    <3>1. i - 1 \in 1..Len(turns)
      BY <1>1, <2>1
    <3> QED BY <3>1 DEF AreTurns
  <2>3. \E k \in {50, 90, 95}, kind \in {"regenerate", "retry"} :
          EdgesOf(turns, i) = {[child |-> i, parent |-> i - 1, kind |-> kind, charged |-> k * i]}
    BY <1>1, <1>3, <2>1, <2>2 DEF PlainEdges, RetryConfidence
  <2>4. PICK k \in {50, 90, 95}, kind \in {"regenerate", "retry"} :
          EdgesOf(turns, i) = {[child |-> i, parent |-> i - 1, kind |-> kind, charged |-> k * i]}
    BY <2>3
  <2>5. e = [child |-> i, parent |-> i - 1, kind |-> kind, charged |-> k * i]
    BY <2>4
  <2>6. k * i < 100 * i /\ k * i <= 100 * (i + Review) /\ i # i - 1 /\ (i - 1) + 1 = i
    BY <1>1, <1>2
  <2> QED BY <1>1, <2>4, <2>5, <2>6
<1> QED BY <1>4, <1>5

\* What a turn says does not come to escalate less when another turn is taken.
LEMMA PlainStaysPlain ==
    ASSUME NEW turns, AreTurns(turns), NEW t \in Turns, NEW i \in 1..Len(turns),
           NEW e \in EdgesOf(Append(turns, t), i), e.kind # "human_escalation"
    PROVE  e \in EdgesOf(turns, i)
<1> DEFINE n == Len(turns)
           more == Append(turns, t)
<1>1. n \in Nat /\ DOMAIN turns = 1..n /\ i \in Nat \ {0}
  BY DEF AreTurns
<1>2. n + 1 \in Nat /\ DOMAIN more = 1..(n + 1) /\ \A j \in 1..n : more[j] = turns[j]
  BY DEF AreTurns
<1>0. e \in EdgesOf(more, i)
  OBVIOUS
<1> HIDE DEF n, more
<1>3. RaiserOf(more, i) \in {0, i}
  <2> SUFFICES ASSUME RaiserOf(more, i) \notin {0, i} PROVE FALSE
    OBVIOUS
  <2>1. e = Edge(more[i], more[RaiserOf(more, i)], "human_escalation", 100 * (more[i].cost + Review))
    BY <1>0, EdgesByCase
  <2> QED BY <2>1 DEF Edge
<1>4. RaiserOf(turns, i) \in {0, i}
  <2> DEFINE hold == turns[i].resolves
             q == Raiser(turns, hold)
             r == Raiser(more, hold)
             before == {j \in 1..n : turns[j].raised = hold}
             after == {j \in 1..(n + 1) : more[j].raised = hold}
  <2>1. more[i].resolves = hold
    BY <1>2 DEF n
  <2>2. CASE hold = "none"
    BY <2>2 DEF RaiserOf
  <2>3. CASE hold # "none"
    <3>1. RaiserOf(turns, i) = q
      BY <2>3 DEF RaiserOf
    <3>2. r \in {0, i}
      BY <1>3, <2>1, <2>3 DEF RaiserOf
    <3>3. /\ q \in 0..n /\ (q = 0 <=> before = {})
          /\ q # 0 => q \in before /\ \A j \in before : j <= q
      BY <1>1, RaiserIsLast
    <3>4. /\ r \in 0..(n + 1) /\ (r = 0 <=> after = {})
          /\ r # 0 => r \in after /\ \A j \in after : j <= r
      BY <1>2, RaiserIsLast
    <3>5. \A j \in 1..n : j \in before <=> j \in after
      BY <1>1, <1>2
    <3>6. before \subseteq 1..n /\ i \in 1..n
      BY DEF n
    <3> HIDE DEF q, r, before, after, hold
    <3>7. CASE q = 0
      BY <3>1, <3>7
    <3>8. CASE q # 0
      <4>1. q \in after /\ q \in 1..n /\ r = i
        BY <3>2, <3>3, <3>4, <3>5, <3>6, <3>8
      <4>2. q <= i /\ i \in before
        BY <1>1, <3>4, <3>5, <3>6, <4>1
      <4>3. i <= q
        BY <3>3, <3>8, <4>2
      <4>4. q = i
        BY <1>1, <4>1, <4>2, <4>3
      <4> QED BY <3>1, <4>4
    <3> QED BY <3>7, <3>8
  <2> QED BY <2>2, <2>3
<1>5. i # 1 /\ e \in PlainEdges(more[i], more[i - 1])
  BY <1>0, <1>3, EdgesByCase
<1>6. more[i] = turns[i] /\ more[i - 1] = turns[i - 1]
  <2>1. i \in 1..n /\ i - 1 \in 1..n
    BY <1>1, <1>5 DEF n
  <2> QED BY <1>2, <2>1
<1> QED BY <1>4, <1>5, <1>6, EdgesByCase

\* What the gateway knows of a turn when it attributes it.
Blind(t) == [t EXCEPT !.resolves = "none", !.raised = "none"]

\* It says of a new turn what the whole session says, if that escalates nothing.
LEMMA PlainIsSeenLive ==
    ASSUME NEW turns, AreTurns(turns), NEW t \in Turns, NEW n \in Nat, n = Len(turns),
           NEW e \in EdgesOf(Append(turns, t), n + 1), e.kind # "human_escalation"
    PROVE  n # 0 /\ e \in Attribution(<<Blind(turns[n]), Blind(t)>>)
<1> DEFINE more == Append(turns, t)
           two == <<Blind(turns[n]), Blind(t)>>
           i == n + 1
<1>1. more[i] = t /\ i \in Nat \ {0} /\ \A j \in 1..n : more[j] = turns[j]
  BY DEF AreTurns
<1>0. e \in EdgesOf(more, i)
  OBVIOUS
<1> HIDE DEF more, i
<1>2. RaiserOf(more, i) \in {0, i}
  <2> SUFFICES ASSUME RaiserOf(more, i) \notin {0, i} PROVE FALSE
    OBVIOUS
  <2>1. e = Edge(more[i], more[RaiserOf(more, i)], "human_escalation", 100 * (more[i].cost + Review))
    BY <1>0, EdgesByCase
  <2> QED BY <2>1 DEF Edge
<1>3. i # 1 /\ e \in PlainEdges(more[i], more[i - 1])
  BY <1>0, <1>2, EdgesByCase
<1>4. n # 0 /\ more[i - 1] = turns[n]
  <2>1. n # 0 /\ i - 1 = n /\ n \in 1..n
    BY <1>3 DEF i
  <2> QED BY <1>1, <2>1
<1>5. turns[n] \in Turns
  BY <1>4 DEF AreTurns
<1>6. \A a \in Turns : /\ Blind(a).id = a.id /\ Blind(a).at = a.at /\ Blind(a).words = a.words
                       /\ Blind(a).cost = a.cost /\ Blind(a).regenerate = a.regenerate
                       /\ Blind(a).resolves = "none"
  BY DEF Blind, Turns
<1>7. PlainEdges(Blind(t), Blind(turns[n])) = PlainEdges(t, turns[n])
  BY <1>5, <1>6 DEF PlainEdges, Edge
<1>8. two[2] = Blind(t) /\ two[1] = Blind(turns[n]) /\ 2 \in DOMAIN two
  OBVIOUS
<1> HIDE DEF two
<1>9. RaiserOf(two, 2) = 0
  BY <1>6, <1>8 DEF RaiserOf
<1>10. EdgesOf(two, 2) = PlainEdges(two[2], two[2 - 1])
  BY <1>9, EdgesByCase
<1>11. e \in EdgesOf(two, 2)
  BY <1>1, <1>3, <1>4, <1>7, <1>8, <1>10
<1>12. e \in Attribution(two)
  BY <1>8, <1>11 DEF Attribution
<1> QED BY <1>4, <1>12 DEF two

\* A session: its turns, and among the edges attributed as they came all that
\* escalate nothing.
Session(turns, live) == [kind |-> "session", turns |-> turns, live |-> live]

IsSession(a) ==
    /\ a = Session(a.turns, a.live)
    /\ AreTurns(a.turns)
    /\ \A i \in 1..Len(a.turns) : \A e \in EdgesOf(a.turns, i) :
          e.kind # "human_escalation" => e \in a.live

LEMMA SessionIsFair ==
    ASSUME NEW a, IsSession(a)
    PROVE  LET edges == Attribution(a.turns)
           IN  /\ \A e, f \in edges : e.child = f.child => e = f
               /\ \A e \in edges : /\ e.charged <= 100 * (a.turns[e.child].cost + Review)
                                   /\ e.child # e.parent
                                   /\ e.kind # "human_escalation" => e.charged < 100 * a.turns[e.child].cost
                                                                     /\ e.parent + 1 = e.child
               /\ {e \in edges : e.kind # "human_escalation"} \subseteq a.live
<1> DEFINE edges == Attribution(a.turns)
           n == Len(a.turns)
<1>1. DOMAIN a.turns = 1..n /\ n \in Nat /\ AreTurns(a.turns)
  BY DEF IsSession, AreTurns
<1>2. \A e \in edges : \E i \in 1..n : e \in EdgesOf(a.turns, i)
  BY <1>1 DEF Attribution
<1> HIDE DEF edges
<1>3. ASSUME NEW e \in edges, NEW f \in edges, e.child = f.child PROVE e = f
  <2>1. PICK i \in 1..n : e \in EdgesOf(a.turns, i)
    BY <1>2
  <2>2. PICK j \in 1..n : f \in EdgesOf(a.turns, j)
    BY <1>2
  <2>3. e.child = i /\ f.child = j /\ \A g \in EdgesOf(a.turns, i) : g = e
    BY <1>1, <2>1, <2>2, EdgeIsFair
  <2> QED BY <1>3, <2>2, <2>3
<1>4. ASSUME NEW e \in edges
      PROVE  /\ e.charged <= 100 * (a.turns[e.child].cost + Review)
             /\ e.child # e.parent
             /\ e.kind # "human_escalation" => e.charged < 100 * a.turns[e.child].cost
                                               /\ e.parent + 1 = e.child
  <2>1. PICK i \in 1..n : e \in EdgesOf(a.turns, i)
    BY <1>2
  <2> HIDE DEF n
  <2> QED BY <1>1, <2>1, EdgeIsFair DEF n
<1>5. ASSUME NEW e \in edges, e.kind # "human_escalation" PROVE e \in a.live
  BY <1>2, <1>5 DEF IsSession
<1> QED BY <1>3, <1>4, <1>5 DEF edges

AccountInv ==
    /\ account.kind = "ledger" => IsLedger(account)
    /\ account.kind = "sample" => IsSample(account)
    /\ account.kind = "session" => IsSession(account)

LEMMA AppendKeeps == ASSUME NEW S, NEW s \in Seq(S), NEW x \in S PROVE Append(s, x) \in Seq(S)
OBVIOUS

LEMMA LedgerSteps ==
    ASSUME AccountInv, RecordRequest \/ PersistShadow \/ RecordRework
    PROVE  AccountInv'
<1> DEFINE R == [model : Models, prompt : Tokens, completion : Tokens]
           a == account
<1>1. /\ a = [kind |-> "ledger", requests |-> a.requests, shadow |-> a.shadow, edges |-> a.edges]
      /\ a.requests \in Seq(R) /\ a.shadow \in Seq(Savings) /\ a.edges \in Seq(Savings)
  BY DEF AccountInv, IsLedger, RecordRequest, PersistShadow, RecordRework
<1>2. ASSUME NEW p, NEW q, NEW r, p \in Seq(R), q \in Seq(Savings), r \in Seq(Savings),
             account' = [kind |-> "ledger", requests |-> p, shadow |-> q, edges |-> r]
      PROVE  AccountInv'
  BY <1>2 DEF AccountInv, IsLedger
<1>3. CASE RecordRequest
  <2>1. PICK m \in Models, p, c \in Tokens :
          account' = [account EXCEPT !.requests = Append(@, [model |-> m, prompt |-> p, completion |-> c])]
    BY <1>3 DEF RecordRequest
  <2> DEFINE x == [model |-> m, prompt |-> p, completion |-> c]
             rs == Append(a.requests, x)
  <2>2. x \in R
    OBVIOUS
  <2>3. account' = [account EXCEPT !.requests = rs]
    BY <2>1
  <2> HIDE DEF x, R
  <2>4. rs \in Seq(R)
    BY <1>1, <2>2, AppendKeeps
  <2> HIDE DEF rs
  <2>5. account' = [kind |-> "ledger", requests |-> rs, shadow |-> a.shadow, edges |-> a.edges]
    BY <1>1, <2>3
  <2> QED BY <1>1, <1>2, <2>4, <2>5
<1>4. CASE PersistShadow
  <2>1. PICK x \in Savings : account' = [account EXCEPT !.shadow = Append(@, x)]
    BY <1>4 DEF PersistShadow
  <2> DEFINE xs == Append(a.shadow, x)
  <2>2. account' = [account EXCEPT !.shadow = xs]
    BY <2>1
  <2>3. xs \in Seq(Savings)
    BY <1>1, AppendKeeps
  <2> HIDE DEF xs, R
  <2>4. account' = [kind |-> "ledger", requests |-> a.requests, shadow |-> xs, edges |-> a.edges]
    BY <1>1, <2>2
  <2> QED BY <1>1, <1>2, <2>3, <2>4
<1>5. CASE RecordRework
  <2>1. PICK x \in Savings : account' = [account EXCEPT !.edges = Append(@, x)]
    BY <1>5 DEF RecordRework
  <2> DEFINE xs == Append(a.edges, x)
  <2>2. account' = [account EXCEPT !.edges = xs]
    BY <2>1
  <2>3. xs \in Seq(Savings)
    BY <1>1, AppendKeeps
  <2> HIDE DEF xs, R
  <2>4. account' = [kind |-> "ledger", requests |-> a.requests, shadow |-> a.shadow, edges |-> xs]
    BY <1>1, <2>2
  <2> QED BY <1>1, <1>2, <2>3, <2>4
<1> QED BY <1>3, <1>4, <1>5

LEMMA SampleSteps == ASSUME AccountInv, SeeStrong \/ RecordShadow PROVE AccountInv'
<1> DEFINE R == [served : Tokens, cheap : Tokens, sufficed : BOOLEAN]
           a == account
<1>1. a = [kind |-> "sample", seen |-> a.seen, runs |-> a.runs] /\ a.seen \in Nat /\ a.runs \in Seq(R)
  BY DEF AccountInv, IsSample, SeeStrong, RecordShadow
<1>2. ASSUME NEW k \in Nat, NEW p, p \in Seq(R), account' = [kind |-> "sample", seen |-> k, runs |-> p]
      PROVE  AccountInv'
  BY <1>2 DEF AccountInv, IsSample
<1>3. CASE SeeStrong
  <2>1. account' = [account EXCEPT !.seen = a.seen + 1]
    BY <1>3 DEF SeeStrong
  <2> HIDE DEF R
  <2>2. account' = [kind |-> "sample", seen |-> a.seen + 1, runs |-> a.runs]
    BY <1>1, <2>1
  <2>3. a.seen + 1 \in Nat
    BY <1>1
  <2> QED BY <1>1, <1>2, <2>2, <2>3
<1>4. CASE RecordShadow
  <2>1. PICK served, cheap \in Tokens, sufficed \in BOOLEAN :
          account' = [account EXCEPT !.runs = Append(@, [served |-> served, cheap |-> cheap, sufficed |-> sufficed])]
    BY <1>4 DEF RecordShadow
  <2> DEFINE x == [served |-> served, cheap |-> cheap, sufficed |-> sufficed]
             xs == Append(a.runs, x)
  <2>2. x \in R
    BY Zenon
  <2>3. account' = [account EXCEPT !.runs = xs]
    BY <2>1
  <2> HIDE DEF x, R
  <2>4. xs \in Seq(R)
    BY <1>1, <2>2, AppendKeeps
  <2> HIDE DEF xs
  <2>5. account' = [kind |-> "sample", seen |-> a.seen, runs |-> xs]
    BY <1>1, <2>3
  <2> QED BY <1>1, <1>2, <2>4, <2>5
<1> QED BY <1>3, <1>4

Replaced(a, turns, live) == [a EXCEPT !.turns = turns, !.live = live]

LEMMA SessionReplaced ==
    ASSUME NEW x, NEW y, NEW t, NEW l
    PROVE  Replaced(Session(x, y), t, l) = Session(t, l)
<1> DEFINE s == [kind |-> "session", turns |-> x, live |-> y]
<1>1. Replaced(s, t, l) = [[s EXCEPT !.turns = t] EXCEPT !.live = l]
  BY ONLY TRUE DEF Replaced
<1>2. [s EXCEPT !.turns = t] = [kind |-> "session", turns |-> t, live |-> y]
  OBVIOUS
<1>3. [[kind |-> "session", turns |-> t, live |-> y] EXCEPT !.live = l] = [kind |-> "session", turns |-> t, live |-> l]
  OBVIOUS
<1> HIDE DEF s
<1>4. Replaced(s, t, l) = [kind |-> "session", turns |-> t, live |-> l]
  BY <1>1, <1>2, <1>3
<1> QED BY <1>4 DEF Session, s

LEMMA TurnStep == ASSUME AccountInv, TakeTurn PROVE AccountInv'
<1> DEFINE a == account
           n == Len(a.turns)
<1>1. /\ a = Session(a.turns, a.live) /\ AreTurns(a.turns)
      /\ \A i \in 1..n : \A e \in EdgesOf(a.turns, i) : e.kind # "human_escalation" => e \in a.live
  BY DEF AccountInv, IsSession, TakeTurn
<1>2. n \in Nat /\ a.turns \in Seq(Turns) /\ \A i \in 1..n : a.turns[i].id = i /\ a.turns[i].cost = i
  BY <1>1 DEF AreTurns
<1>3. PICK words \in SUBSET Terms, wait \in {RetryWindow, RetryWindow + 1}, regenerate \in BOOLEAN,
          resolves \in {"none", "h1"}, raised \in {"none", "h1"} :
        LET at == IF n = 0 THEN wait ELSE a.turns[n].at + wait
            turn == [id |-> n + 1, at |-> at, words |-> words, cost |-> n + 1,
                     regenerate |-> regenerate, resolves |-> resolves, raised |-> raised]
        IN  account' = [account EXCEPT
               !.turns = Append(@, turn),
               !.live = @ \cup (IF n = 0 THEN {} ELSE Attribution(<<Blind(a.turns[n]), Blind(turn)>>))]
  BY DEF TakeTurn, Blind
<1> DEFINE at == IF n = 0 THEN wait ELSE a.turns[n].at + wait
           t == [id |-> n + 1, at |-> at, words |-> words, cost |-> n + 1,
                 regenerate |-> regenerate, resolves |-> resolves, raised |-> raised]
           more == Append(a.turns, t)
           now == a.live \cup (IF n = 0 THEN {} ELSE Attribution(<<Blind(a.turns[n]), Blind(t)>>))
<1>4. account' = Replaced(account, more, now)
  BY <1>3 DEF Replaced
<1>5. at \in Nat
  <2>1. wait \in Nat
    BY AccountsAssumption
  <2>2. n # 0 => a.turns[n].at \in Nat
    <3>1. n # 0 => a.turns[n] \in Turns
      BY <1>2
    <3> QED BY <3>1 DEF Turns
  <2> HIDE DEF n
  <2> QED BY <2>1, <2>2
<1> HIDE DEF at, n, now
<1>6. t.id = n + 1 /\ t.cost = n + 1 /\ t \in Turns
  <2>1. n + 1 \in Nat
    BY <1>2
  <2> QED BY <1>5, <2>1, Zenon DEF Turns
<1> HIDE DEF t
<1>7. AreTurns(more) /\ Len(more) = n + 1
  <2>1. more \in Seq(Turns) /\ Len(more) = n + 1
    BY <1>2, <1>6, AppendKeeps DEF n
  <2>2. \A i \in 1..(n + 1) : more[i].id = i /\ more[i].cost = i
    <3> TAKE i \in 1..(n + 1)
    <3>1. more[n + 1] = t /\ \A j \in 1..n : more[j] = a.turns[j]
      BY <1>2 DEF n
    <3> HIDE DEF more
    <3>2. i \in 1..n \/ i = n + 1
      BY <1>2
    <3> QED BY <1>2, <1>6, <3>1, <3>2
  <2> HIDE DEF more
  <2> QED BY <2>1, <2>2 DEF AreTurns
<1>8. ASSUME NEW i \in 1..(n + 1), NEW e \in EdgesOf(more, i), e.kind # "human_escalation"
      PROVE  e \in now
  <2>1. CASE i \in 1..n
    <3>1. e \in EdgesOf(a.turns, i)
      BY <1>1, <1>6, <1>8, <2>1, PlainStaysPlain DEF n
    <3> QED BY <1>1, <1>8, <2>1, <3>1 DEF now
  <2>2. CASE i \notin 1..n
    <3>1. i = n + 1
      BY <1>2, <2>2
    <3>2. n # 0 /\ e \in Attribution(<<Blind(a.turns[n]), Blind(t)>>)
      BY <1>1, <1>2, <1>6, <1>8, <3>1, PlainIsSeenLive DEF n
    <3> QED BY <3>2 DEF now
  <2> QED BY <2>1, <2>2
<1> HIDE DEF more
<1>9. account' = Session(more, now)
  <2>1. Replaced(Session(a.turns, a.live), more, now) = Session(more, now)
    BY SessionReplaced
  <2> QED BY <1>1, <1>4, <2>1
<1>10. IsSession(account')
  BY <1>7, <1>8, <1>9 DEF IsSession, Session
<1>11. account'.kind = "session"
  BY <1>9 DEF Session
<1> QED BY <1>10, <1>11 DEF AccountInv

LEMMA AccountBegins == AccountInit => AccountInv
<1> SUFFICES ASSUME AccountInit PROVE AccountInv
  OBVIOUS
<1>1. \A S : <<>> \in Seq(S)
  OBVIOUS
<1>2. CASE account = [kind |-> "ledger", requests |-> <<>>, shadow |-> <<>>, edges |-> <<>>]
  BY <1>1, <1>2 DEF AccountInv, IsLedger
<1>3. CASE account = [kind |-> "session", turns |-> <<>>, live |-> {}]
  <2>1. account.kind = "session" /\ account.turns = <<>> /\ account.live = {}
    BY <1>3
  <2>2. AreTurns(account.turns) /\ Len(account.turns) = 0
    BY <1>1, <2>1 DEF AreTurns
  <2>3. IsSession(account)
    BY <1>3, <2>1, <2>2 DEF IsSession, Session
  <2> QED BY <2>1, <2>3 DEF AccountInv
<1>4. CASE account = [kind |-> "sample", seen |-> 0, runs |-> <<>>]
  BY <1>1, <1>4 DEF AccountInv, IsSample
<1>5. CASE account = [kind |-> "export"]
  BY <1>5 DEF AccountInv
<1> QED BY <1>2, <1>3, <1>4, <1>5 DEF AccountInit

\* For every price book, every tokens, savings and review, and every ledger,
\* sample and session: the contributions of the requests add up to the net value,
\* the scaled estimate is among its own resamples, a turn is charged once and
\* within its cost, and no figure is shown that was not measured.
THEOREM AccountsStayBalanced == AccountInit /\ [][AccountNext]_account => []AccountsAddUp
<1>1. AccountInv /\ [AccountNext]_account => AccountInv'
  <2> SUFFICES ASSUME AccountInv, [AccountNext]_account PROVE AccountInv'
    OBVIOUS
  <2>1. CASE RecordRequest \/ PersistShadow \/ RecordRework
    BY <2>1, LedgerSteps
  <2>2. CASE SeeStrong \/ RecordShadow
    BY <2>2, SampleSteps
  <2>3. CASE TakeTurn
    BY <2>3, TurnStep
  <2>4. CASE Export
    <3>1. account'.kind = "pack"
      BY <2>4 DEF Export
    <3> QED BY <3>1 DEF AccountInv
  <2>5. CASE UNCHANGED account
    BY <2>5 DEF AccountInv
  <2> QED BY <2>1, <2>2, <2>3, <2>4, <2>5 DEF AccountNext
<1>2. AccountInv => AccountsAddUp
  <2> SUFFICES ASSUME AccountInv PROVE AccountsAddUp
    OBVIOUS
  <2>1. EstimatesAddUp
    BY LedgerAddsUp, SampleAddsUp DEF AccountInv, EstimatesAddUp
  <2>2. ReworkIsChargedOnce
    BY SessionIsFair DEF AccountInv, ReworkIsChargedOnce
  <2>3. NetValueIsNeverGuessed
    BY NothingIsGuessed DEF AccountInv, NetValueIsNeverGuessed
  <2> QED BY <2>1, <2>2, <2>3 DEF AccountsAddUp
<1> QED BY <1>1, <1>2, AccountBegins, PTL

-----------------------------------------------------------------------------
(* Sums, as the calibrators take them                                       *)

\* What a function gives to a sum over D at a number.
Addend(f, D, k) == IF k \in D THEN f[k] ELSE 0

Summable(f, D, n) == D \in SUBSET (0..n) /\ \A i \in D : f[i] \in Int

\* The running sum of f over D up to n.
Adds(s, f, D, n) == s = [k \in 0..n |-> (IF k = 0 THEN 0 ELSE s[k - 1]) + Addend(f, D, k)]

\* Every number gives a number.
LEMMA AddendIsInt == ASSUME NEW f, NEW D, NEW n, Summable(f, D, n) PROVE \A k : Addend(f, D, k) \in Int
<1> SUFFICES ASSUME NEW k PROVE Addend(f, D, k) \in Int
  OBVIOUS
<1>1. CASE k \in D
  BY <1>1 DEF Summable, Addend
<1>2. CASE k \notin D
  BY <1>2 DEF Addend
<1> QED BY <1>1, <1>2

\* Running sums exist.
LEMMA AddsExist == ASSUME NEW f, NEW D, NEW n \in Nat PROVE \E s : Adds(s, f, D, n)
<1> DEFINE S == {k \in Nat : \E s : Adds(s, f, D, k)}
<1>1. 0 \in S
  <2> DEFINE s == [k \in 0..0 |-> 0 + Addend(f, D, k)]
  <2>1. Adds(s, f, D, 0)
    BY DEF Adds
  <2> QED BY <2>1
<1>2. ASSUME NEW k \in Nat, k \in S PROVE k + 1 \in S
  <2>1. PICK s : Adds(s, f, D, k)
    BY <1>2
  <2> DEFINE t == [j \in 0..(k + 1) |-> IF j = k + 1 THEN s[k] + Addend(f, D, k + 1) ELSE s[j]]
  <2>2. \A j \in 0..(k + 1) : t[j] = (IF j = 0 THEN 0 ELSE t[j - 1]) + Addend(f, D, j)
    <3> SUFFICES ASSUME NEW j \in 0..(k + 1)
                 PROVE  t[j] = (IF j = 0 THEN 0 ELSE t[j - 1]) + Addend(f, D, j)
      OBVIOUS
    <3>1. CASE j = k + 1
      <4>1. j # 0 /\ j - 1 = k /\ k \in 0..(k + 1) /\ k # k + 1
        BY <3>1
      <4>2. t[j] = s[k] + Addend(f, D, k + 1) /\ t[j - 1] = s[k]
        BY <3>1, <4>1
      <4> QED BY <3>1, <4>1, <4>2
    <3>2. CASE j # k + 1
      <4>1. s[j] = (IF j = 0 THEN 0 ELSE s[j - 1]) + Addend(f, D, j)
        BY <2>1, <3>2 DEF Adds
      <4>2. t[j] = s[j]
        BY <3>2
      <4>3. j # 0 => j - 1 \in 0..(k + 1) /\ j - 1 # k + 1
        BY <3>2
      <4>4. j # 0 => t[j - 1] = s[j - 1]
        BY <4>3
      <4> QED BY <4>1, <4>2, <4>4
    <3> QED BY <3>1, <3>2
  <2>3. t = [j \in 0..(k + 1) |-> t[j]]
    OBVIOUS
  <2> HIDE DEF t
  <2>4. t = [j \in 0..(k + 1) |-> (IF j = 0 THEN 0 ELSE t[j - 1]) + Addend(f, D, j)]
    BY <2>2, <2>3
  <2>5. Adds(t, f, D, k + 1)
    BY <2>4 DEF Adds
  <2> QED BY <2>5
<1> HIDE DEF S
<1>3. Nat \subseteq S
  BY <1>1, <1>2, Counting
<1> QED BY <1>3 DEF S

\* How a running sum goes on.
LEMMA AddsStep ==
    ASSUME NEW f, NEW D, NEW n \in Nat, Summable(f, D, n), NEW s, Adds(s, f, D, n)
    PROVE  /\ s[0] = Addend(f, D, 0)
           /\ \A k \in Nat : k + 1 \in 0..n => s[k + 1] = s[k] + Addend(f, D, k + 1)
           /\ \A k \in 0..n : s[k] \in Int
<1>0. \A k : Addend(f, D, k) \in Int
  BY AddendIsInt
<1>1. s[0] = Addend(f, D, 0)
  <2>1. s[0] = 0 + Addend(f, D, 0)
    BY DEF Adds
  <2> QED BY <1>0, <2>1
<1>2. \A k \in Nat : k + 1 \in 0..n => s[k + 1] = s[k] + Addend(f, D, k + 1)
  <2> SUFFICES ASSUME NEW k \in Nat, k + 1 \in 0..n PROVE s[k + 1] = s[k] + Addend(f, D, k + 1)
    OBVIOUS
  <2>1. k + 1 # 0 /\ (k + 1) - 1 = k
    OBVIOUS
  <2> QED BY <2>1 DEF Adds
<1> DEFINE S == {k \in Nat : k <= n => s[k] \in Int}
<1>3. 0 \in S
  BY <1>0, <1>1
<1>4. ASSUME NEW k \in Nat, k \in S PROVE k + 1 \in S
  BY <1>0, <1>2, <1>4
<1> HIDE DEF S
<1>5. Nat \subseteq S
  BY <1>3, <1>4, Counting
<1>6. \A k \in 0..n : s[k] \in Int
  BY <1>5 DEF S
<1> QED BY <1>1, <1>2, <1>6

\* A sum is the last of its running sum, however far that goes.
LEMMA SumIsLast ==
    ASSUME NEW f, NEW D, NEW n \in Nat, Summable(f, D, n)
    PROVE  \E s : Adds(s, f, D, n) /\ SumOver(f, D) = s[n]
<1> DEFINE last == Max({0} \cup D)
           r == CHOOSE r : r = [k \in 0..last |-> (IF k = 0 THEN 0 ELSE r[k - 1]) + (IF k \in D THEN f[k] ELSE 0)]
<1>1. SumOver(f, D) = r[last]
  BY DEF SumOver
<1>2. last \in 0..n /\ \A y \in D : y <= last
  <2>1. ({0} \cup D) \in SUBSET (0..n) /\ ({0} \cup D) # {}
    BY DEF Summable
  <2> QED BY <2>1, Greatest
<1> HIDE DEF last
<1>3. PICK t : Adds(t, f, D, last)
  BY <1>2, AddsExist
<1>4. r = [k \in 0..last |-> (IF k = 0 THEN 0 ELSE r[k - 1]) + (IF k \in D THEN f[k] ELSE 0)]
  BY <1>3 DEF Adds, Addend
<1> HIDE DEF r
<1>5. Adds(r, f, D, last)
  BY <1>4 DEF Adds, Addend
<1>6. Summable(f, D, last)
  BY <1>2 DEF Summable
<1>7. PICK s : Adds(s, f, D, n)
  BY AddsExist
<1>8. /\ r[0] = Addend(f, D, 0)
      /\ \A k \in Nat : k + 1 \in 0..last => r[k + 1] = r[k] + Addend(f, D, k + 1)
  BY <1>2, <1>5, <1>6, AddsStep
<1>9. /\ s[0] = Addend(f, D, 0)
      /\ \A k \in Nat : k + 1 \in 0..n => s[k + 1] = s[k] + Addend(f, D, k + 1)
      /\ \A k \in 0..n : s[k] \in Int
  BY <1>7, AddsStep
<1> DEFINE S == {k \in Nat : k <= last => s[k] = r[k]}
           T == {k \in Nat : last + k <= n => s[last + k] = s[last]}
<1>10. 0 \in S
  BY <1>8, <1>9
<1>11. ASSUME NEW k \in Nat, k \in S PROVE k + 1 \in S
  <2> SUFFICES ASSUME k + 1 <= last PROVE s[k + 1] = r[k + 1]
    OBVIOUS
  <2>1. k + 1 \in 0..last /\ k + 1 \in 0..n /\ k <= last
    BY <1>2
  <2>2. s[k] = r[k]
    BY <1>11, <2>1
  <2> QED BY <1>8, <1>9, <2>1, <2>2
<1>12. 0 \in T
  BY <1>2
<1>13. ASSUME NEW k \in Nat, k \in T PROVE k + 1 \in T
  <2> SUFFICES ASSUME last + (k + 1) <= n PROVE s[last + (k + 1)] = s[last]
    OBVIOUS
  <2>1. last + k \in Nat /\ last + (k + 1) = (last + k) + 1 /\ (last + k) + 1 \in 0..n /\ last + k <= n
    BY <1>2
  <2>2. s[last + k] = s[last] /\ s[last] \in Int
    BY <1>2, <1>9, <1>13, <2>1
  <2>3. Addend(f, D, (last + k) + 1) = 0
    BY <1>2 DEF Addend
  <2> HIDE DEF T
  <2>4. s[(last + k) + 1] = s[last + k] + 0
    BY <1>9, <2>1, <2>3
  <2> QED BY <2>1, <2>2, <2>4
<1> HIDE DEF S, T
<1>14. Nat \subseteq S /\ Nat \subseteq T
  BY <1>10, <1>11, <1>12, <1>13, Counting
<1>15. s[last] = r[last]
  BY <1>2, <1>14 DEF S
<1>16. s[n] = s[last]
  <2>1. n - last \in Nat /\ last + (n - last) = n /\ last + (n - last) <= n
    BY <1>2
  <2>2. n - last \in T
    BY <1>14, <2>1
  <2>3. s[last + (n - last)] = s[last]
    BY <2>1, <2>2 DEF T
  <2> QED BY <2>1, <2>3
<1> QED BY <1>1, <1>7, <1>15, <1>16


\* A sum is a whole number.
LEMMA SumIsInt == ASSUME NEW f, NEW D, NEW n \in Nat, Summable(f, D, n) PROVE SumOver(f, D) \in Int
<1>1. PICK s : Adds(s, f, D, n) /\ SumOver(f, D) = s[n]
  BY SumIsLast
<1>2. n \in 0..n
  OBVIOUS
<1> QED BY <1>1, <1>2, AddsStep

\* Sums are added place by place.
LEMMA SumOfTwo ==
    ASSUME NEW n \in Nat, NEW D, NEW A, NEW B, NEW f, NEW g, NEW h, Summable(f, D, n), Summable(g, A, n), Summable(h, B, n),
           \A k \in 0..n : Addend(f, D, k) = Addend(g, A, k) + Addend(h, B, k)
    PROVE  SumOver(f, D) = SumOver(g, A) + SumOver(h, B)
<1>1. PICK s : Adds(s, f, D, n) /\ SumOver(f, D) = s[n]
  BY SumIsLast
<1>2. PICK t : Adds(t, g, A, n) /\ SumOver(g, A) = t[n]
  BY SumIsLast
<1>3. PICK u : Adds(u, h, B, n) /\ SumOver(h, B) = u[n]
  BY SumIsLast
<1>4. /\ s[0] = Addend(f, D, 0)
      /\ \A k \in Nat : k + 1 \in 0..n => s[k + 1] = s[k] + Addend(f, D, k + 1)
  BY <1>1, AddsStep
<1>5. /\ t[0] = Addend(g, A, 0)
      /\ \A k \in Nat : k + 1 \in 0..n => t[k + 1] = t[k] + Addend(g, A, k + 1)
      /\ \A k \in 0..n : t[k] \in Int
  BY <1>2, AddsStep
<1>6. /\ u[0] = Addend(h, B, 0)
      /\ \A k \in Nat : k + 1 \in 0..n => u[k + 1] = u[k] + Addend(h, B, k + 1)
      /\ \A k \in 0..n : u[k] \in Int
  BY <1>3, AddsStep
<1>7. \A k : Addend(g, A, k) \in Int /\ Addend(h, B, k) \in Int
  BY AddendIsInt
<1> DEFINE S == {k \in Nat : k <= n => s[k] = t[k] + u[k]}
<1>8. 0 \in S
  BY <1>4, <1>5, <1>6
<1>9. ASSUME NEW k \in Nat, k \in S PROVE k + 1 \in S
  <2> SUFFICES ASSUME k + 1 <= n PROVE s[k + 1] = t[k + 1] + u[k + 1]
    OBVIOUS
  <2>1. k + 1 \in 0..n /\ k \in 0..n
    OBVIOUS
  <2>2. s[k] = t[k] + u[k]
    BY <1>9, <2>1
  <2>3. Addend(f, D, k + 1) = Addend(g, A, k + 1) + Addend(h, B, k + 1)
    BY <2>1
  <2> HIDE DEF S
  <2> QED BY <1>4, <1>5, <1>6, <1>7, <2>1, <2>2, <2>3
<1> HIDE DEF S
<1>10. Nat \subseteq S
  BY <1>8, <1>9, Counting
<1>11. s[n] = t[n] + u[n]
  BY <1>10 DEF S
<1> QED BY <1>1, <1>2, <1>3, <1>11

\* Sums are scaled place by place.
LEMMA SumScaled ==
    ASSUME NEW n \in Nat, NEW D, NEW c \in Int, NEW f, NEW g, Summable(f, D, n), Summable(g, D, n),
           \A k \in 0..n : Addend(f, D, k) = c * Addend(g, D, k)
    PROVE  SumOver(f, D) = c * SumOver(g, D)
<1>1. PICK s : Adds(s, f, D, n) /\ SumOver(f, D) = s[n]
  BY SumIsLast
<1>2. PICK t : Adds(t, g, D, n) /\ SumOver(g, D) = t[n]
  BY SumIsLast
<1>4. /\ s[0] = Addend(f, D, 0)
      /\ \A k \in Nat : k + 1 \in 0..n => s[k + 1] = s[k] + Addend(f, D, k + 1)
  BY <1>1, AddsStep
<1>5. /\ t[0] = Addend(g, D, 0)
      /\ \A k \in Nat : k + 1 \in 0..n => t[k + 1] = t[k] + Addend(g, D, k + 1)
      /\ \A k \in 0..n : t[k] \in Int
  BY <1>2, AddsStep
<1>7. \A k : Addend(g, D, k) \in Int
  BY AddendIsInt
<1>8. \A x, y \in Int : c * (x + y) = c * x + c * y
  OBVIOUS
<1> DEFINE S == {k \in Nat : k <= n => s[k] = c * t[k]}
<1>9. 0 \in S
  BY <1>4, <1>5
<1>10. ASSUME NEW k \in Nat, k \in S PROVE k + 1 \in S
  <2> SUFFICES ASSUME k + 1 <= n PROVE s[k + 1] = c * t[k + 1]
    OBVIOUS
  <2>1. k + 1 \in 0..n /\ k \in 0..n
    OBVIOUS
  <2>2. s[k] = c * t[k] /\ t[k] \in Int
    BY <1>5, <1>10, <2>1
  <2>3. Addend(f, D, k + 1) = c * Addend(g, D, k + 1)
    BY <2>1
  <2>4. c * (t[k] + Addend(g, D, k + 1)) = c * t[k] + c * Addend(g, D, k + 1)
    BY <1>7, <1>8, <2>2
  <2>5. t[k + 1] = t[k] + Addend(g, D, k + 1) /\ s[k + 1] = s[k] + Addend(f, D, k + 1)
    BY <1>4, <1>5, <2>1
  <2> HIDE DEF S
  <2> QED BY <2>2, <2>3, <2>4, <2>5
<1> HIDE DEF S
<1>11. Nat \subseteq S
  BY <1>9, <1>10, Counting
<1>12. s[n] = c * t[n]
  BY <1>11 DEF S
<1> QED BY <1>1, <1>2, <1>12

\* What is never negative has no negative sum.
LEMMA SumOfNaturals ==
    ASSUME NEW n \in Nat, NEW D, NEW f, Summable(f, D, n), \A i \in D : f[i] \in Nat
    PROVE  SumOver(f, D) \in Nat
<1>1. PICK s : Adds(s, f, D, n) /\ SumOver(f, D) = s[n]
  BY SumIsLast
<1>2. /\ s[0] = Addend(f, D, 0)
      /\ \A k \in Nat : k + 1 \in 0..n => s[k + 1] = s[k] + Addend(f, D, k + 1)
  BY <1>1, AddsStep
<1>3. \A k : Addend(f, D, k) \in Nat
  BY DEF Addend
<1> DEFINE S == {k \in Nat : k <= n => s[k] \in Nat}
<1>4. 0 \in S
  BY <1>2, <1>3
<1>5. ASSUME NEW k \in Nat, k \in S PROVE k + 1 \in S
  BY <1>2, <1>3, <1>5
<1> HIDE DEF S
<1>6. Nat \subseteq S
  BY <1>4, <1>5, Counting
<1>7. s[n] \in Nat
  BY <1>6 DEF S
<1> QED BY <1>1, <1>7

\* A sum of ones counts.
LEMMA SumOfOnes ==
    ASSUME NEW n \in Nat, NEW D \in SUBSET (0..n)
    PROVE  SumOver([i \in D |-> 1], D) = Cardinality(D) /\ IsFiniteSet(D)
<1> DEFINE f == [i \in D |-> 1]
           C(k) == D \cap (0..k)
<1>0. Summable(f, D, n)
  BY DEF Summable
<1>3. \A k : Addend(f, D, k) = IF k \in D THEN 1 ELSE 0
  BY DEF Addend
<1> HIDE DEF f
<1>1. PICK s : Adds(s, f, D, n) /\ SumOver(f, D) = s[n]
  BY <1>0, SumIsLast
<1>2. /\ s[0] = Addend(f, D, 0)
      /\ \A k \in Nat : k + 1 \in 0..n => s[k + 1] = s[k] + Addend(f, D, k + 1)
  BY <1>0, <1>1, AddsStep
<1> DEFINE S == {k \in Nat : IsFiniteSet(C(k)) /\ (k <= n => s[k] = Cardinality(C(k)))}
<1>4. 0 \in S
  <2>1. C(0) = IF 0 \in D THEN {0} ELSE {}
    OBVIOUS
  <2>2. IsFiniteSet({0}) /\ Cardinality({0}) = 1 /\ IsFiniteSet({}) /\ Cardinality({}) = 0
    BY FS_Singleton, FS_EmptySet
  <2>3. IsFiniteSet(C(0)) /\ s[0] = Cardinality(C(0))
    BY <1>2, <1>3, <2>1, <2>2
  <2> QED BY <2>3
<1>5. ASSUME NEW k \in Nat, k \in S PROVE k + 1 \in S
  <2>1. C(k + 1) = IF k + 1 \in D THEN C(k) \cup {k + 1} ELSE C(k)
    OBVIOUS
  <2>2. k + 1 \notin C(k) /\ IsFiniteSet(C(k))
    BY <1>5
  <2> HIDE DEF C
  <2>3. /\ IsFiniteSet(C(k) \cup {k + 1})
        /\ Cardinality(C(k) \cup {k + 1}) = Cardinality(C(k)) + 1
        /\ Cardinality(C(k)) \in Nat
    BY <2>2, FS_AddElement, FS_CardinalityType
  <2>4. k + 1 <= n => s[k + 1] = Cardinality(C(k + 1))
    <3> SUFFICES ASSUME k + 1 <= n PROVE s[k + 1] = Cardinality(C(k + 1))
      OBVIOUS
    <3>1. s[k] = Cardinality(C(k)) /\ k + 1 \in 0..n
      BY <1>5
    <3> HIDE DEF S
    <3> QED BY <1>2, <1>3, <2>1, <2>3, <3>1
  <2> QED BY <2>1, <2>2, <2>3, <2>4
<1> HIDE DEF S
<1>6. Nat \subseteq S
  BY <1>4, <1>5, Counting
<1>7. IsFiniteSet(C(n)) /\ s[n] = Cardinality(C(n))
  BY <1>6 DEF S
<1>8. C(n) = D
  OBVIOUS
<1> HIDE DEF C
<1> QED BY <1>1, <1>7, <1>8 DEF f

\* The sum depends on the members only.
LEMMA SumOfSame ==
    ASSUME NEW n \in Nat, NEW D, NEW f, NEW g, Summable(f, D, n), \A i \in D : g[i] = f[i]
    PROVE  SumOver(g, D) = SumOver(f, D)
<1>1. Summable(g, D, n)
  BY DEF Summable
<1>2. \A k : Addend(f, D, k) \in Int
  BY AddendIsInt
<1>3. \A k \in 0..n : Addend(g, D, k) = 1 * Addend(f, D, k)
  <2> TAKE k \in 0..n
  <2>1. Addend(g, D, k) = Addend(f, D, k)
    BY DEF Addend
  <2> QED BY <1>2, <2>1
<1>4. SumOver(g, D) = 1 * SumOver(f, D)
  BY <1>1, <1>3, SumScaled
<1>5. SumOver(f, D) \in Int
  BY SumIsInt
<1> QED BY <1>4, <1>5

\* The sum over two parts is the sum of theirs.
LEMMA SumSplits ==
    ASSUME NEW n \in Nat, NEW f, NEW D, Summable(f, D, n),
           NEW A, NEW B, \A i : i \in D <=> i \in A \/ i \in B, \A i \in A : i \notin B
    PROVE  SumOver(f, D) = SumOver(f, A) + SumOver(f, B)
<1>1. Summable(f, A, n) /\ Summable(f, B, n)
  BY DEF Summable
<1>2. \A k : Addend(f, D, k) \in Int
  BY AddendIsInt
<1>3. \A k \in 0..n : Addend(f, D, k) = Addend(f, A, k) + Addend(f, B, k)
  <2> TAKE k \in 0..n
  <2>1. CASE k \in A
    <3>1. Addend(f, D, k) = f[k] /\ Addend(f, A, k) = f[k] /\ Addend(f, B, k) = 0
      BY <2>1 DEF Addend
    <3> QED BY <1>2, <3>1
  <2>2. CASE k \notin A
    <3>1. Addend(f, D, k) = Addend(f, B, k) /\ Addend(f, A, k) = 0
      BY <2>2 DEF Addend
    <3> QED BY <1>2, <3>1
  <2> QED BY <2>1, <2>2
<1> QED BY <1>1, <1>3, SumOfTwo

\* The sum of differences is the difference of the sums.
LEMMA SumOfLess ==
    ASSUME NEW n \in Nat, NEW D, NEW f, NEW g, NEW d, Summable(f, D, n), Summable(g, D, n),
           \A i \in D : d[i] = f[i] - g[i]
    PROVE  /\ SumOver(d, D) = SumOver(f, D) - SumOver(g, D)
           /\ SumOver(f, D) \in Int /\ SumOver(g, D) \in Int /\ SumOver(d, D) \in Int
<1>1. Summable(d, D, n)
  BY DEF Summable
<1>2. \A k \in 0..n : Addend(f, D, k) = Addend(d, D, k) + Addend(g, D, k)
  BY DEF Addend, Summable
<1>3. SumOver(f, D) = SumOver(d, D) + SumOver(g, D)
  BY <1>1, <1>2, SumOfTwo
<1>4. SumOver(f, D) \in Int /\ SumOver(g, D) \in Int /\ SumOver(d, D) \in Int
  BY <1>1, SumIsInt
<1> QED BY <1>3, <1>4

\* What is nowhere greater has no greater sum.
LEMMA SumAtMost ==
    ASSUME NEW n \in Nat, NEW D, NEW f, NEW g, Summable(f, D, n), Summable(g, D, n), \A i \in D : f[i] <= g[i]
    PROVE  SumOver(f, D) <= SumOver(g, D)
<1> DEFINE d == [i \in D |-> g[i] - f[i]]
<1>1. Summable(d, D, n) /\ \A i \in D : d[i] \in Nat
  BY DEF Summable
<1>2. \A i \in D : d[i] = g[i] - f[i]
  OBVIOUS
<1> HIDE DEF d
<1>3. /\ SumOver(d, D) = SumOver(g, D) - SumOver(f, D)
      /\ SumOver(g, D) \in Int /\ SumOver(f, D) \in Int
  BY <1>2, SumOfLess
<1>4. SumOver(d, D) \in Nat
  BY <1>1, SumOfNaturals
<1> QED BY <1>3, <1>4

\* The sum of what is everywhere the same.
LEMMA SumOfConstant ==
    ASSUME NEW n \in Nat, NEW D \in SUBSET (0..n), NEW c \in Int, NEW f, \A i \in D : f[i] = c
    PROVE  SumOver(f, D) = c * Cardinality(D) /\ Cardinality(D) \in Nat
<1> DEFINE g == [i \in D |-> 1]
<1>1. Summable(f, D, n) /\ Summable(g, D, n)
  BY DEF Summable
<1>2. \A k \in 0..n : Addend(f, D, k) = c * Addend(g, D, k)
  BY DEF Addend
<1>3. SumOver(g, D) = Cardinality(D) /\ IsFiniteSet(D)
  BY SumOfOnes
<1>4. Cardinality(D) \in Nat
  BY <1>3, FS_CardinalityType
<1> HIDE DEF g
<1>5. SumOver(f, D) = c * SumOver(g, D)
  BY <1>1, <1>2, SumScaled
<1> QED BY <1>3, <1>4, <1>5

\* Nothing sums to nothing.
LEMMA SumOfNothing == ASSUME NEW f PROVE SumOver(f, {}) = 0
<1>1. 0 \in Nat /\ 0 \in Int /\ {} \in SUBSET (0..0) /\ \A i \in {} : f[i] = 0
  OBVIOUS
<1>2. SumOver(f, {}) = 0 * Cardinality({})
  BY <1>1, SumOfConstant
<1> QED BY <1>2, FS_EmptySet

\* Those in one bin.
Binned(bin, D, b) == {i \in D : bin[i] = b}

\* The sum over all is the sum of the sums of the bins.
LEMMA SumByBins ==
    ASSUME NEW n \in Nat, NEW D, NEW f, Summable(f, D, n), NEW m \in Nat, NEW bin, \A i \in D : bin[i] \in 1..m,
           NEW sums, \A b \in 1..m : sums[b] = SumOver(f, Binned(bin, D, b))
    PROVE  SumOver(sums, 1..m) = SumOver(f, D) /\ Summable(sums, 1..m, m)
<1> DEFINE In(b) == Binned(bin, D, b)
           Upto(b) == {i \in D : bin[i] \in 1..b}
<1>1. \A b \in 1..m : sums[b] \in Int
  <2> TAKE b \in 1..m
  <2>1. Summable(f, In(b), n)
    BY DEF Summable, Binned
  <2> HIDE DEF In
  <2>2. SumOver(f, In(b)) \in Int
    BY <2>1, SumIsInt
  <2> QED BY <2>2 DEF In
<1>2. Summable(sums, 1..m, m)
  BY <1>1 DEF Summable
<1>3. PICK s : Adds(s, sums, 1..m, m) /\ SumOver(sums, 1..m) = s[m]
  BY <1>2, SumIsLast
<1>4. /\ s[0] = Addend(sums, 1..m, 0)
      /\ \A k \in Nat : k + 1 \in 0..m => s[k + 1] = s[k] + Addend(sums, 1..m, k + 1)
  BY <1>2, <1>3, AddsStep
<1>5. Addend(sums, 1..m, 0) = 0 /\ \A b \in 1..m : Addend(sums, 1..m, b) = SumOver(f, In(b))
  BY DEF Addend
<1> DEFINE S == {k \in Nat : k <= m => s[k] = SumOver(f, Upto(k))}
<1>6. 0 \in S
  <2>1. Upto(0) = {}
    OBVIOUS
  <2> HIDE DEF Upto
  <2>2. SumOver(f, Upto(0)) = 0
    BY <2>1, SumOfNothing
  <2> QED BY <1>4, <1>5, <2>2
<1>7. ASSUME NEW k \in Nat, k \in S PROVE k + 1 \in S
  <2>1. k + 1 \in 1..m => k + 1 \in 0..m /\ k <= m
    OBVIOUS
  <2>2. \A x : x \in 1..(k + 1) <=> x \in 1..k \/ x = k + 1
    OBVIOUS
  <2>3. k + 1 \notin 1..k
    OBVIOUS
  <2>4. Upto(k + 1) = Upto(k) \cup In(k + 1) /\ Upto(k) \cap In(k + 1) = {}
    BY <2>2, <2>3 DEF Binned
  <2>5. Summable(f, Upto(k + 1), n)
    BY DEF Summable
  <2>6. k <= m => s[k] = SumOver(f, Upto(k))
    BY <1>7
  <2> HIDE DEF Upto, In, S
  <2>7. SumOver(f, Upto(k + 1)) = SumOver(f, Upto(k)) + SumOver(f, In(k + 1))
    BY <2>4, <2>5, SumSplits
  <2>8. k + 1 <= m => s[k + 1] = SumOver(f, Upto(k + 1))
    BY <1>4, <1>5, <2>1, <2>6, <2>7
  <2> QED BY <2>8 DEF S
<1> HIDE DEF S
<1>8. Nat \subseteq S
  BY <1>6, <1>7, Counting
<1>9. s[m] = SumOver(f, Upto(m))
  BY <1>8 DEF S
<1>10. Upto(m) = D
  OBVIOUS
<1> HIDE DEF Upto
<1> QED BY <1>2, <1>3, <1>9, <1>10

-----------------------------------------------------------------------------
(* The isotonic regression of risk/calibration.py, for any points           *)

\* Points with scores and values within bounds.
ArePoints(p, n) ==
    /\ DOMAIN p \in SUBSET (0..n) /\ DOMAIN p # {}
    /\ \A i \in DOMAIN p : p[i].x \in 0..n /\ p[i].y \in 0..Unit

Xs(p) == {p[i].x : i \in DOMAIN p}

Ys(p) == [i \in DOMAIN p |-> p[i].y]

\* What the points between two scores have above v, all together.
Excess(p, v, a, b) == SumOver([i \in DOMAIN p |-> p[i].y - v], Within(p, a, b))

\* Means need no rounding.
Exact(p) == \A W \in SUBSET DOMAIN p : W # {} => SumOver(Ys(p), W) % Cardinality(W) = 0

\* Rounding down keeps what is below, and what is above if it divides.
LEMMA RoundedDown ==
    ASSUME NEW s \in Int, NEW c \in Nat \ {0}, NEW v \in Int
    PROVE  /\ s \div c \in Int
           /\ v <= s \div c <=> 0 <= s - v * c
           /\ s - v * c <= 0 => s \div c <= v
           /\ s % c = 0 /\ s \div c <= v => s - v * c <= 0
<1> DEFINE q == s \div c
           r == s % c
<1>1. q \in Int /\ r \in 0..(c - 1) /\ s = c * q + r
  OBVIOUS
<1>2. \A x, y \in Int : x <= y => x * c <= y * c
  OBVIOUS
<1>3. q * c = c * q /\ (q + 1) * c = c * q + c /\ v * c \in Int
  BY <1>1
<1> HIDE DEF q, r
<1>4. v <= q => v * c <= q * c
  BY <1>1, <1>2
<1>5. q + 1 <= v => (q + 1) * c <= v * c
  BY <1>1, <1>2
<1>6. q <= v => q * c <= v * c
  BY <1>1, <1>2
<1>6a. v + 1 <= q => v * c + c <= q * c
  <2>1. (v + 1) * c = v * c + c
    OBVIOUS
  <2>2. v + 1 <= q => (v + 1) * c <= q * c
    BY <1>1, <1>2
  <2> QED BY <2>1, <2>2
<1> DEFINE vc == v * c
           qc == q * c
<1>7. q * c = qc /\ v * c = vc /\ qc \in Int /\ vc \in Int
  BY <1>1
<1> HIDE DEF vc, qc
<1>8. /\ v <= q <=> 0 <= s - vc
      /\ s - vc <= 0 => q <= v
      /\ r = 0 /\ q <= v => s - vc <= 0
  BY <1>1, <1>3, <1>4, <1>5, <1>6, <1>6a, <1>7
<1> QED BY <1>1, <1>7, <1>8 DEF q, r

\* The mean between two scores against a value: what is in excess decides.
LEMMA MeanAgainst ==
    ASSUME NEW n \in Nat, NEW p, ArePoints(p, n), NEW a \in Xs(p), NEW b \in Xs(p), a <= b, NEW v \in Int
    PROVE  /\ MeanBetween(p, a, b) \in Int
           /\ v <= MeanBetween(p, a, b) <=> 0 <= Excess(p, v, a, b)
           /\ Excess(p, v, a, b) <= 0 => MeanBetween(p, a, b) <= v
           /\ Exact(p) /\ MeanBetween(p, a, b) <= v => Excess(p, v, a, b) <= 0
<1> DEFINE W == Within(p, a, b)
           D == DOMAIN p
           f == [i \in D |-> v]
           d == [i \in D |-> p[i].y - v]
           S == SumOver(Ys(p), W)
           C == Cardinality(W)
<1>1. W \in SUBSET D /\ W # {} /\ W \in SUBSET (0..n)
  <2>1. PICK i \in D : p[i].x = a
    BY DEF Xs
  <2>2. a \in Int /\ b \in Int
    BY DEF Xs, ArePoints
  <2>3. i \in W
    BY <2>1, <2>2 DEF Within
  <2> QED BY <2>3 DEF Within, ArePoints
<1>2. Summable(Ys(p), W, n) /\ Summable(f, W, n)
  BY <1>1 DEF Summable, Ys, ArePoints
<1>3. \A i \in W : d[i] = Ys(p)[i] - f[i] /\ f[i] = v
  BY <1>1 DEF Ys
<1> HIDE DEF W, f, d
<1>4. SumOver(d, W) = S - SumOver(f, W) /\ S \in Int
  BY <1>2, <1>3, SumOfLess
<1>5. SumOver(f, W) = v * C /\ C \in Nat
  BY <1>1, <1>3, SumOfConstant
<1>6. C # 0
  <2>1. IsFiniteSet(W)
    BY <1>1, SumOfOnes
  <2> QED BY <1>1, <2>1, FS_EmptySet
<1>7. Excess(p, v, a, b) = S - v * C
  BY <1>4, <1>5 DEF Excess, d, W
<1>8. MeanBetween(p, a, b) = S \div C
  BY DEF MeanBetween, W, Ys
<1>9. Exact(p) => S % C = 0
  BY <1>1 DEF Exact
<1> HIDE DEF S, C
<1>10. S \in Int /\ C \in Nat \ {0}
  BY <1>4, <1>5, <1>6
<1>11. /\ S \div C \in Int
       /\ v <= S \div C <=> 0 <= S - v * C
       /\ S - v * C <= 0 => S \div C <= v
       /\ S % C = 0 /\ S \div C <= v => S - v * C <= 0
  BY <1>10, RoundedDown
<1> QED BY <1>7, <1>8, <1>9, <1>11

\* Means are as bounded as what they are of.
LEMMA MeanIsBounded ==
    ASSUME NEW n \in Nat, NEW p, ArePoints(p, n), NEW a \in Xs(p), NEW b \in Xs(p), a <= b,
           NEW lo \in Int, NEW hi \in Int, \A i \in Within(p, a, b) : p[i].y \in lo..hi
    PROVE  MeanBetween(p, a, b) \in lo..hi
<1> DEFINE W == Within(p, a, b)
<1>1. W \in SUBSET DOMAIN p /\ W \in SUBSET (0..n)
  BY DEF Within, ArePoints
<1>2. \A v \in Int : Summable([i \in DOMAIN p |-> p[i].y - v], W, n)
  BY <1>1 DEF Summable, ArePoints
<1>3. 0 <= Excess(p, lo, a, b)
  <2> DEFINE d == [i \in DOMAIN p |-> p[i].y - lo]
  <2>1. \A i \in W : d[i] \in Nat
    BY <1>1 DEF ArePoints
  <2>2. Summable(d, W, n)
    BY <1>2
  <2> HIDE DEF d, W
  <2>3. SumOver(d, W) \in Nat
    BY <2>1, <2>2, SumOfNaturals
  <2> QED BY <2>3 DEF Excess, d, W
<1>4. Excess(p, hi, a, b) <= 0
  <2> DEFINE d == [i \in DOMAIN p |-> p[i].y - hi]
             z == [i \in DOMAIN p |-> 0]
  <2>1. \A i \in W : d[i] <= z[i] /\ z[i] = 0
    BY <1>1 DEF ArePoints
  <2>2. Summable(d, W, n) /\ Summable(z, W, n)
    BY <1>1, <1>2 DEF Summable
  <2> HIDE DEF d, W, z
  <2>a. SumOver(d, W) <= SumOver(z, W)
    BY <2>1, <2>2, SumAtMost
  <2>b. W \in SUBSET (0..n) /\ 0 \in Int /\ \A i \in W : z[i] = 0
    BY <1>1, <2>1 DEF W
  <2>3. SumOver(z, W) = 0 * Cardinality(W) /\ Cardinality(W) \in Nat
    BY <2>b, SumOfConstant
  <2>4. SumOver(d, W) \in Int /\ SumOver(d, W) <= 0
    BY <2>a, <2>2, <2>3, SumIsInt
  <2> QED BY <2>4 DEF Excess, d, W
<1> QED BY <1>3, <1>4, MeanAgainst

\* The excess between two scores is that of a lower and of an upper part.
LEMMA ExcessSplits ==
    ASSUME NEW n \in Nat, NEW p, ArePoints(p, n), NEW v \in Int,
           NEW a \in Xs(p), NEW b \in Xs(p), NEW l \in Xs(p), NEW r \in Xs(p), a <= l, l < r, r <= b,
           \A x \in Xs(p) : ~(l < x /\ x < r)
    PROVE  /\ Excess(p, v, a, b) = Excess(p, v, a, l) + Excess(p, v, r, b)
           /\ Excess(p, v, a, l) \in Int /\ Excess(p, v, r, b) \in Int
<1> DEFINE f == [i \in DOMAIN p |-> p[i].y - v]
           D == Within(p, a, b)
           A == Within(p, a, l)
           B == Within(p, r, b)
<1>1. \A i \in DOMAIN p : p[i].x \in Xs(p) /\ p[i].x \in Int
  BY DEF Xs, ArePoints
<1>2. \A x \in Xs(p) : x \in Int
  BY DEF Xs, ArePoints
<1>3. \A x \in Xs(p) : (x \in a..b <=> x \in a..l \/ x \in r..b) /\ ~(x \in a..l /\ x \in r..b)
  BY <1>2
<1>4. (\A i : i \in D <=> i \in A \/ i \in B) /\ \A i \in A : i \notin B
  BY <1>1, <1>3 DEF Within
<1>5. Summable(f, D, n) /\ Summable(f, A, n) /\ Summable(f, B, n)
  BY DEF Summable, Within, ArePoints
<1> HIDE DEF f, D, A, B
<1>6. SumOver(f, D) = SumOver(f, A) + SumOver(f, B)
  BY <1>4, <1>5, SumSplits
<1>7. SumOver(f, A) \in Int /\ SumOver(f, B) \in Int
  BY <1>5, SumIsInt
<1> QED BY <1>6, <1>7 DEF Excess, f, D, A, B


\* Scores are naturals within a bound.
LEMMA ScoresAreBounded ==
    ASSUME NEW n \in Nat, NEW p, ArePoints(p, n)
    PROVE  Xs(p) \in SUBSET (0..n) /\ Xs(p) # {}
BY DEF ArePoints, Xs

\* What is pooled at a score: of the means that begin there or before, the
\* greatest of those that are lowest to the right.
LEMMA PooledAt ==
    ASSUME NEW n \in Nat, NEW p, ArePoints(p, n), NEW x \in Xs(p)
    PROVE  /\ Pooled(p)[x] \in 0..Unit
           /\ \E a \in Xs(p) : a <= x /\ \A b \in Xs(p) : b >= x => Pooled(p)[x] <= MeanBetween(p, a, b)
           /\ \A a \in Xs(p) : a <= x => \E b \in Xs(p) : b >= x /\ MeanBetween(p, a, b) <= Pooled(p)[x]
<1> DEFINE X == Xs(p)
           Upper == {c \in X : c >= x}
           Lower == {c \in X : c <= x}
           Means(a) == {MeanBetween(p, a, b) : b \in Upper}
           Lowest == {Min(Means(a)) : a \in Lower}
<1>0. Unit \in Nat
  BY CalibrationAssumption
<1>1. Pooled(p)[x] = Max(Lowest)
  BY DEF Pooled, Xs
<1>2. X \in SUBSET (0..n) /\ x \in Upper /\ x \in Lower /\ x \in 0..n
  BY ScoresAreBounded
<1>3. \A a \in Lower, b \in Upper : MeanBetween(p, a, b) \in 0..Unit
  <2> TAKE a \in Lower, b \in Upper
  <2>1. a \in X /\ b \in X /\ a <= b
    BY <1>2
  <2>2. \A i \in Within(p, a, b) : p[i].y \in 0..Unit
    BY DEF Within, ArePoints
  <2>3. 0 \in Int /\ Unit \in Int
    BY <1>0
  <2> HIDE DEF X
  <2> QED BY <2>1, <2>2, <2>3, MeanIsBounded DEF X
<1>4. \A a \in Lower : Min(Means(a)) \in Means(a) /\ \A m \in Means(a) : Min(Means(a)) <= m
  <2> TAKE a \in Lower
  <2>1. Means(a) \in SUBSET Nat /\ Means(a) # {}
    BY <1>2, <1>3
  <2> HIDE DEF Means
  <2> QED BY <2>1, SmallestOf
<1>5. Max(Lowest) \in Lowest /\ \A m \in Lowest : m <= Max(Lowest)
  <2>1. \A a \in Lower : Means(a) \in SUBSET (0..Unit)
    BY <1>3
  <2> HIDE DEF Means
  <2>2. Lowest \in SUBSET (0..Unit) /\ Lowest # {}
    BY <1>2, <1>4, <2>1
  <2> HIDE DEF Lowest
  <2> QED BY <1>0, <2>2, Greatest
<1>6. PICK a \in Lower : Max(Lowest) = Min(Means(a))
  BY <1>5
<1>7. \A b \in Upper : Max(Lowest) <= MeanBetween(p, a, b)
  BY <1>4, <1>6
<1>8. \A c \in Lower : \E b \in Upper : MeanBetween(p, c, b) <= Max(Lowest)
  <2> TAKE c \in Lower
  <2>1. Min(Means(c)) <= Max(Lowest)
    BY <1>5
  <2>2. PICK b \in Upper : Min(Means(c)) = MeanBetween(p, c, b)
    BY <1>4
  <2> QED BY <2>1, <2>2
<1>9. Max(Lowest) \in 0..Unit
  <2>1. PICK b \in Upper : Min(Means(a)) = MeanBetween(p, a, b)
    BY <1>4
  <2> QED BY <1>3, <1>6, <2>1
<1> HIDE DEF Lowest, Means
<1> QED BY <1>1, <1>7, <1>8, <1>9

\* A map as fit() leaves it: never falling, and within bounds.
IsCurve(c, n) ==
    /\ c = [x \in DOMAIN c |-> c[x]]
    /\ DOMAIN c \in SUBSET (0..n) /\ DOMAIN c # {}
    /\ \A x \in DOMAIN c : c[x] \in 0..Unit
    /\ \A x, z \in DOMAIN c : x <= z => c[x] <= c[z]

\* The regression is such a map, of all scores there are.
LEMMA PooledIsCurve ==
    ASSUME NEW n \in Nat, NEW p, ArePoints(p, n)
    PROVE  IsCurve(Pooled(p), n) /\ DOMAIN Pooled(p) = Xs(p)
<1> DEFINE c == Pooled(p)
<1>0. Unit \in Nat
  BY CalibrationAssumption
<1>1. c = [x \in DOMAIN c |-> c[x]] /\ DOMAIN c = Xs(p)
  BY DEF Pooled, Xs
<1>2. Xs(p) \in SUBSET (0..n) /\ Xs(p) # {}
  BY ScoresAreBounded
<1>3. \A x \in Xs(p) : c[x] \in 0..Unit
  BY PooledAt
<1>4. \A x, z \in Xs(p) : x <= z => c[x] <= c[z]
  <2> SUFFICES ASSUME NEW x \in Xs(p), NEW z \in Xs(p), x <= z PROVE c[x] <= c[z]
    OBVIOUS
  <2>1. PICK a \in Xs(p) : a <= x /\ \A b \in Xs(p) : b >= x => c[x] <= MeanBetween(p, a, b)
    BY PooledAt
  <2>2. a <= z
    BY <1>2, <2>1
  <2>3. PICK b \in Xs(p) : b >= z /\ MeanBetween(p, a, b) <= c[z]
    BY <2>2, PooledAt
  <2>4. b >= x /\ a <= b
    BY <1>2, <2>2, <2>3
  <2>5. c[x] <= MeanBetween(p, a, b)
    BY <2>1, <2>4
  <2>6. MeanBetween(p, a, b) \in Int
    BY <2>4, <1>0, MeanAgainst
  <2>7. c[x] \in Int /\ c[z] \in Int
    BY <1>3
  <2> HIDE DEF c
  <2> QED BY <2>3, <2>5, <2>6, <2>7
<1> HIDE DEF c
<1> QED BY <1>1, <1>2, <1>3, <1>4 DEF IsCurve, c

\* What is in excess of v, where the regression is at v or beyond it.
LEMMA ExcessAt ==
    ASSUME NEW n \in Nat, NEW p, ArePoints(p, n), Exact(p), NEW v \in Int, NEW x \in Xs(p)
    PROVE  /\ v <= Pooled(p)[x] => \E a \in Xs(p) : a <= x /\ \A b \in Xs(p) : b >= x => 0 <= Excess(p, v, a, b)
           /\ v < Pooled(p)[x] => \E a \in Xs(p) : a <= x /\ \A b \in Xs(p) : b >= x => 0 < Excess(p, v, a, b)
           /\ Pooled(p)[x] <= v => \A a \in Xs(p) : a <= x => \E b \in Xs(p) : b >= x /\ Excess(p, v, a, b) <= 0
           /\ Pooled(p)[x] < v => \A a \in Xs(p) : a <= x => \E b \in Xs(p) : b >= x /\ Excess(p, v, a, b) < 0
<1> DEFINE y == Pooled(p)[x]
           M(a, b) == MeanBetween(p, a, b)
           E(a, b) == Excess(p, v, a, b)
<1>0. Unit \in Nat
  BY CalibrationAssumption
<1>1. \A c \in Xs(p) : c \in Int
  BY ScoresAreBounded
<1>2. \A a, b \in Xs(p) : a <= b => /\ M(a, b) \in Int /\ E(a, b) \in Int
                                    /\ v <= M(a, b) <=> 0 <= E(a, b)
                                    /\ M(a, b) <= v <=> E(a, b) <= 0
  <2> SUFFICES ASSUME NEW a \in Xs(p), NEW b \in Xs(p), a <= b
               PROVE  /\ M(a, b) \in Int /\ E(a, b) \in Int
                      /\ v <= M(a, b) <=> 0 <= E(a, b)
                      /\ M(a, b) <= v <=> E(a, b) <= 0
    OBVIOUS
  <2>1. E(a, b) \in Int
    <3> DEFINE d == [i \in DOMAIN p |-> p[i].y - v]
               W == Within(p, a, b)
    <3>1. Summable(d, W, n)
      BY <1>0 DEF Summable, Within, ArePoints
    <3> HIDE DEF d, W
    <3>2. SumOver(d, W) \in Int
      BY <3>1, SumIsInt
    <3> QED BY <3>2 DEF Excess, d, W
  <2> QED BY <2>1, MeanAgainst
<1>3. y \in Int
  BY <1>0, PooledAt
<1>4. PICK a \in Xs(p) : a <= x /\ \A b \in Xs(p) : b >= x => y <= M(a, b)
  BY PooledAt
<1>5. \A c \in Xs(p) : c <= x => \E b \in Xs(p) : b >= x /\ M(c, b) <= y
  BY PooledAt
<1>6. \A c, b \in Xs(p) : c <= x /\ b >= x => c <= b
  BY <1>1
<1> HIDE DEF y, M, E
<1>7. \A b \in Xs(p) : b >= x => /\ v <= y => 0 <= E(a, b)
                                 /\ v < y => 0 < E(a, b)
  <2> SUFFICES ASSUME NEW b \in Xs(p), b >= x
               PROVE  (v <= y => 0 <= E(a, b)) /\ (v < y => 0 < E(a, b))
    OBVIOUS
  <2>1. a <= b
    BY <1>4, <1>6
  <2>2. y <= M(a, b)
    BY <1>4
  <2> QED BY <1>2, <1>3, <2>1, <2>2
<1>8. \A c \in Xs(p) : c <= x => \E b \in Xs(p) : /\ b >= x
                                                  /\ y <= v => E(c, b) <= 0
                                                  /\ y < v => E(c, b) < 0
  <2> SUFFICES ASSUME NEW c \in Xs(p), c <= x
               PROVE  \E b \in Xs(p) : b >= x /\ (y <= v => E(c, b) <= 0) /\ (y < v => E(c, b) < 0)
    OBVIOUS
  <2>1. PICK b \in Xs(p) : b >= x /\ M(c, b) <= y
    BY <1>5
  <2>2. c <= b
    BY <1>6, <2>1
  <2>3. (y <= v => E(c, b) <= 0) /\ (y < v => E(c, b) < 0)
    BY <1>2, <1>3, <2>1, <2>2
  <2> QED BY <2>1, <2>3
<1> QED BY <1>4, <1>7, <1>8 DEF y, E

\* The neighbours of x in X.
NextBelow(X, x, l) == l \in X /\ l < x /\ \A c \in X : ~(l < c /\ c < x)
NextAbove(X, x, r) == r \in X /\ x < r /\ \A c \in X : ~(x < c /\ c < r)

\* Neighbours among the scores.
LEMMA Neighbours ==
    ASSUME NEW n \in Nat, NEW X \in SUBSET (0..n), NEW x \in X, NEW w \in X
    PROVE  /\ w < x => \E l : NextBelow(X, x, l)
           /\ x < w => \E r : NextAbove(X, x, r)
<1> DEFINE L == {c \in X : c < x}
           R == {c \in X : x < c}
<1>0. \A c \in X : c \in Nat
  OBVIOUS
<1>1. L # {} => Max(L) \in L /\ \A c \in L : c <= Max(L)
  <2>1. L \in SUBSET (0..n)
    OBVIOUS
  <2> HIDE DEF L
  <2> QED BY <2>1, Greatest
<1>2. R # {} => Min(R) \in R /\ \A c \in R : Min(R) <= c
  <2>1. R \in SUBSET Nat
    BY <1>0
  <2> HIDE DEF R
  <2> QED BY <2>1, SmallestOf
<1>3. ASSUME NEW c \in X, c < x PROVE \E l : NextBelow(X, x, l)
  <2>1. PICK l \in L : \A d \in L : d <= l
    BY <1>1, <1>3
  <2> QED BY <1>0, <2>1 DEF NextBelow
<1>4. ASSUME NEW c \in X, x < c PROVE \E r : NextAbove(X, x, r)
  <2>1. PICK r \in R : \A d \in R : r <= d
    BY <1>2, <1>4
  <2> QED BY <1>0, <2>1 DEF NextAbove
<1> QED BY <1>3, <1>4

\* From the first score at a value on, nothing is in deficit.
LEMMA NoDeficitFrom ==
    ASSUME NEW n \in Nat, NEW p, ArePoints(p, n), Exact(p), NEW l \in Xs(p), NEW v \in Int, Pooled(p)[l] = v,
           \A x \in Xs(p) : Pooled(p)[x] = v => l <= x, NEW b \in Xs(p), l <= b
    PROVE  0 <= Excess(p, v, l, b)
<1> DEFINE X == Xs(p)
           E(a, c) == Excess(p, v, a, c)
<1>1. X \in SUBSET (0..n) /\ (\A x \in X : x \in Int) /\ l \in Int
  BY ScoresAreBounded
<1>2. PICK a \in X : a <= l /\ \A c \in X : c >= l => 0 <= E(a, c)
  BY ExcessAt
<1>3. CASE a = l
  BY <1>1, <1>2, <1>3
<1>4. CASE a < l
  <2>1. PICK k \in X : k < l /\ \A c \in X : ~(k < c /\ c < l)
    <3>1. X \in SUBSET (0..n) /\ l \in X /\ a \in X /\ a < l
      BY <1>1, <1>2, <1>4
    <3> HIDE DEF X, E
    <3>2. \E k : NextBelow(X, l, k)
      BY <3>1, Neighbours
    <3> QED BY <3>2 DEF NextBelow
  <2>2. a <= k
    BY <1>1, <1>4, <2>1
  <2>3. Pooled(p)[k] < v
    <3>1. Pooled(p)[k] <= Pooled(p)[l]
      BY <1>1, <2>1, PooledIsCurve DEF IsCurve
    <3>2. Pooled(p)[k] # v
      BY <1>1, <2>1
    <3>3. Unit \in Nat /\ Pooled(p)[k] \in 0..Unit
      BY CalibrationAssumption, PooledAt
    <3> QED BY <3>1, <3>2, <3>3
  <2>4. PICK c \in X : c >= k /\ E(a, c) < 0
    BY <2>2, <2>3, ExcessAt
  <2>5. E(a, b) = E(a, k) + E(l, b) /\ E(a, k) \in Int /\ E(l, b) \in Int
    BY <2>1, <2>2, ExcessSplits
  <2>6. c = k
    <3>1. ~(c >= l)
      <4> SUFFICES ASSUME c >= l PROVE FALSE
        OBVIOUS
      <4>1. 0 <= E(a, c)
        BY <1>2
      <4>2. E(a, c) = E(a, k) + E(l, c) /\ E(a, k) \in Int /\ E(l, c) \in Int
        BY <2>1, <2>2, ExcessSplits
      <4> HIDE DEF E
      <4> QED BY <2>4, <4>1, <4>2
    <3> HIDE DEF X, E
    <3> QED BY <1>1, <2>1, <2>4, <3>1
  <2>7. 0 <= E(a, b)
    BY <1>1, <1>2
  <2> HIDE DEF E
  <2>8. 0 <= E(l, b)
    BY <2>4, <2>5, <2>6, <2>7
  <2> QED BY <2>8 DEF E
<1> HIDE DEF X
<1> QED BY <1>1, <1>2, <1>3, <1>4 DEF X

\* Up to the last score at a value, nothing is in excess.
LEMMA NoExcessTo ==
    ASSUME NEW n \in Nat, NEW p, ArePoints(p, n), Exact(p), NEW r \in Xs(p), NEW v \in Int, Pooled(p)[r] = v,
           \A x \in Xs(p) : Pooled(p)[x] = v => x <= r, NEW a \in Xs(p), a <= r
    PROVE  Excess(p, v, a, r) <= 0
<1> DEFINE X == Xs(p)
           E(c, d) == Excess(p, v, c, d)
<1>1. X \in SUBSET (0..n) /\ (\A x \in X : x \in Int) /\ r \in Int /\ r \in X
  BY ScoresAreBounded
<1>2. \A c \in X : c <= r => \E b \in X : b >= r /\ E(c, b) <= 0
  BY ExcessAt
<1>3. CASE \A x \in X : x <= r
  <2>1. PICK b \in X : b >= r /\ E(a, b) <= 0
    BY <1>2
  <2>2. b = r
    BY <1>1, <1>3, <2>1
  <2> QED BY <2>1, <2>2
<1>4. CASE \E x \in X : r < x
  <2>1. PICK q \in X : r < q /\ \A c \in X : ~(r < c /\ c < q)
    <3>1. PICK w \in X : r < w
      BY <1>4
    <3>2. X \in SUBSET (0..n) /\ r \in X
      BY <1>1
    <3> HIDE DEF X, E
    <3>3. \E q : NextAbove(X, r, q)
      BY <3>1, <3>2, Neighbours
    <3> QED BY <3>3 DEF NextAbove
  <2>2. v < Pooled(p)[q]
    <3>1. Pooled(p)[r] <= Pooled(p)[q]
      BY <1>1, <2>1, PooledIsCurve DEF IsCurve
    <3>2. Pooled(p)[q] # v
      BY <1>1, <2>1
    <3>3. Unit \in Nat /\ Pooled(p)[q] \in 0..Unit
      BY CalibrationAssumption, PooledAt
    <3> QED BY <3>1, <3>2, <3>3
  <2>3. PICK c \in X : c <= q /\ \A b \in X : b >= q => 0 < E(c, b)
    BY <2>2, ExcessAt
  <2>4. \A d, b \in X : d <= r /\ b >= q => E(d, b) = E(d, r) + E(q, b) /\ E(d, r) \in Int /\ E(q, b) \in Int
    BY <2>1, ExcessSplits
  <2>5. \A b \in X : b = r \/ b >= q \/ b < r
    <3> HIDE DEF X
    <3> QED BY <1>1, <2>1
  <2> HIDE DEF X, E
  <2>6. \A b \in X : b >= q => 0 < E(q, b)
    <3>1. CASE c = q
      BY <2>3, <3>1
    <3>2. CASE c <= r
      <4>1. PICK d \in X : d >= r /\ E(c, d) <= 0
        BY <1>2, <3>2
      <4>2. d = r
        <5>1. ~(d >= q)
          BY <2>3, <2>4, <3>2, <4>1
        <5>2. ~(d < r)
          BY <1>1, <4>1 DEF X
        <5> QED BY <2>5, <5>1, <5>2
      <4> TAKE b \in X
      <4> HAVE b >= q
      <4>3. 0 < E(c, b)
        BY <2>3
      <4>4. E(c, b) = E(c, r) + E(q, b) /\ E(c, r) \in Int /\ E(q, b) \in Int
        BY <2>4, <3>2
      <4> QED BY <4>1, <4>2, <4>3, <4>4
    <3>3. c = q \/ c <= r
      <4>1. r \in Int /\ c \in Int /\ q \in Int
        BY <1>1 DEF X
      <4>2. c = r \/ c >= q \/ c < r
        BY <2>5
      <4> QED BY <2>3, <4>1, <4>2
    <3> QED BY <3>1, <3>2, <3>3
  <2>7. a \in X /\ r \in X
    BY DEF X
  <2>8. PICK b \in X : b >= r /\ E(a, b) <= 0
    BY <1>2, <2>7
  <2>9. CASE b = r
    BY <2>8, <2>9 DEF E
  <2>10. CASE b >= q
    <3>1. E(a, b) = E(a, r) + E(q, b) /\ E(a, r) \in Int /\ E(q, b) \in Int
      BY <2>4, <2>7, <2>10
    <3>2. 0 < E(q, b)
      BY <2>6, <2>10
    <3>3. E(a, r) <= 0
      BY <2>8, <3>1, <3>2
    <3> QED BY <3>3 DEF E
  <2>11. b >= r => ~(b < r)
    BY <1>1, <2>7
  <2> QED BY <2>5, <2>8, <2>9, <2>10, <2>11
<1>5. (\A x \in X : x <= r) \/ (\E x \in X : r < x)
  BY <1>1
<1> QED BY <1>3, <1>4, <1>5

\* The points the regression gives one value have that value as their mean.
LEMMA LevelAddsUp ==
    ASSUME NEW n \in Nat, NEW p, ArePoints(p, n), Exact(p), NEW v \in Int
    PROVE  SumOver([i \in DOMAIN p |-> p[i].y - v], {i \in DOMAIN p : Pooled(p)[p[i].x] = v}) = 0
<1> DEFINE f == [i \in DOMAIN p |-> p[i].y - v]
           D == {i \in DOMAIN p : Pooled(p)[p[i].x] = v}
           L == {x \in Xs(p) : Pooled(p)[x] = v}
<1>0. \A i \in DOMAIN p : p[i].x \in Xs(p)
  BY DEF Xs
<1>1. Xs(p) \in SUBSET (0..n) /\ \A x \in Xs(p) : x \in Int
  BY ScoresAreBounded
<1>2. CASE L = {}
  <2>1. D = {}
    BY <1>0, <1>2
  <2> HIDE DEF f, D
  <2>2. SumOver(f, D) = 0
    BY <2>1, SumOfNothing
  <2> QED BY <2>2 DEF f, D
<1>3. CASE L # {}
  <2>1. L \in SUBSET (0..n) /\ L \in SUBSET Nat
    BY <1>1
  <2> HIDE DEF L
  <2>2. PICK l \in L : \A x \in L : l <= x
    BY <1>3, <2>1, SmallestOf
  <2>3. PICK r \in L : \A x \in L : x <= r
    BY <1>3, <2>1, Greatest
  <2>4. l <= r /\ l \in Xs(p) /\ r \in Xs(p) /\ Pooled(p)[l] = v /\ Pooled(p)[r] = v
    BY <2>2, <2>3 DEF L
  <2>5. \A x \in Xs(p) : Pooled(p)[x] = v => l <= x /\ x <= r
    BY <2>2, <2>3 DEF L
  <2>6. 0 <= Excess(p, v, l, r)
    BY <2>4, <2>5, NoDeficitFrom
  <2>7. Excess(p, v, l, r) <= 0
    BY <2>4, <2>5, NoExcessTo
  <2>8. Excess(p, v, l, r) \in Int
    <3> DEFINE W == Within(p, l, r)
    <3>1. Summable(f, W, n)
      BY DEF Summable, Within, ArePoints
    <3> HIDE DEF f, W
    <3>2. SumOver(f, W) \in Int
      BY <3>1, SumIsInt
    <3> QED BY <3>2 DEF Excess, f, W
  <2>9. Within(p, l, r) = D
    <3>1. \A x \in Xs(p) : l <= x /\ x <= r => Pooled(p)[x] = v
      <4> SUFFICES ASSUME NEW x \in Xs(p), l <= x, x <= r PROVE Pooled(p)[x] = v
        OBVIOUS
      <4>1. Pooled(p)[l] <= Pooled(p)[x] /\ Pooled(p)[x] <= Pooled(p)[r]
        BY <2>4, PooledIsCurve DEF IsCurve
      <4>2. Unit \in Nat /\ Pooled(p)[x] \in 0..Unit
        BY CalibrationAssumption, PooledAt
      <4> QED BY <2>4, <4>1, <4>2
    <3>2. \A x \in Xs(p) : x \in l..r <=> Pooled(p)[x] = v
      BY <1>1, <2>4, <2>5, <3>1
    <3> QED BY <1>0, <3>2 DEF Within
  <2>10. Excess(p, v, l, r) = SumOver(f, D)
    BY <2>9 DEF Excess
  <2> HIDE DEF f, D
  <2>11. SumOver(f, D) = 0
    BY <2>6, <2>7, <2>8, <2>10
  <2> QED BY <2>11 DEF f, D
<1> QED BY <1>2, <1>3

\* Over points of whole levels, the regression says what happened.
LEMMA FittedAddsUp ==
    ASSUME NEW n \in Nat, NEW p, ArePoints(p, n), Exact(p), NEW D \in SUBSET DOMAIN p,
           \A i \in D, j \in DOMAIN p : Pooled(p)[p[i].x] = Pooled(p)[p[j].x] => j \in D,
           NEW fit, \A i \in D : fit[i] = Pooled(p)[p[i].x],
           NEW label, \A i \in D : label[i] = p[i].y
    PROVE  SumOver(fit, D) = SumOver(label, D)
<1> DEFINE At(i) == Pooled(p)[p[i].x]
           f == [i \in D |-> label[i] - fit[i]]
           bin == [i \in D |-> At(i) + 1]
           m == Unit + 1
           In(b) == Binned(bin, D, b)
           sums == [b \in 1..m |-> SumOver(f, In(b))]
<1>0. Unit \in Nat /\ m \in Nat
  BY CalibrationAssumption
<1>1. \A i \in DOMAIN p : At(i) \in 0..Unit
  <2> SUFFICES ASSUME NEW i \in DOMAIN p PROVE At(i) \in 0..Unit
    OBVIOUS
  <2>1. p[i].x \in Xs(p)
    BY DEF Xs
  <2> QED BY <2>1, PooledAt
<1>2. Summable(fit, D, n) /\ Summable(label, D, n) /\ Summable(f, D, n)
  <2>1. \A i \in D : fit[i] \in Int /\ label[i] \in Int /\ f[i] \in Int
    BY <1>0, <1>1 DEF ArePoints
  <2>2. D \in SUBSET (0..n)
    BY DEF ArePoints
  <2> HIDE DEF f
  <2> QED BY <2>1, <2>2 DEF Summable
<1>3. \A i \in D : bin[i] \in 1..m
  <2> HIDE DEF At
  <2> QED BY <1>0, <1>1
<1>4. \A b \in 1..m : SumOver(f, In(b)) = 0
  <2> SUFFICES ASSUME NEW b \in 1..m PROVE SumOver(f, In(b)) = 0
    OBVIOUS
  <2>1. CASE In(b) = {}
    <3> HIDE DEF In
    <3> QED BY <2>1, SumOfNothing
  <2>2. CASE In(b) # {}
    <3> DEFINE v == b - 1
               g == [i \in DOMAIN p |-> p[i].y - v]
    <3>1. v \in Int
      BY <1>0
    <3>2. \A i \in DOMAIN p : At(i) \in Int
      BY <1>1
    <3>3. \A i \in D : i \in In(b) <=> At(i) = v
      <4> HIDE DEF At
      <4> QED BY <3>2, <1>0 DEF Binned
    <3>4. PICK k \in D : At(k) = v
      BY <2>2, <3>3 DEF Binned
    <3>5. \A j \in DOMAIN p : At(j) = v => j \in D
      BY <3>4
    <3>6. In(b) = {i \in DOMAIN p : At(i) = v}
      BY <3>3, <3>5 DEF Binned
    <3> HIDE DEF v
    <3>7. SumOver(g, {i \in DOMAIN p : At(i) = v}) = 0
      BY <3>1, LevelAddsUp
    <3>8. \A i \in In(b) : f[i] = g[i]
      BY <3>3 DEF Binned
    <3>9. Summable(g, In(b), n)
      BY <3>1, <1>0 DEF Summable, ArePoints, Binned
    <3> HIDE DEF f, g, In
    <3>10. SumOver(f, In(b)) = SumOver(g, In(b))
      BY <3>8, <3>9, SumOfSame
    <3> QED BY <3>6, <3>7, <3>10
  <2> QED BY <2>1, <2>2
<1>5. \A b \in 1..m : sums[b] = SumOver(f, Binned(bin, D, b))
  OBVIOUS
<1>5a. \A b \in 1..m : sums[b] = 0
  BY <1>4
<1> HIDE DEF f, bin, sums, m, In, At
<1>6. SumOver(sums, 1..m) = SumOver(f, D)
  BY <1>0, <1>2, <1>3, <1>5, SumByBins
<1>7. SumOver(sums, 1..m) = 0
  <2>1. (1..m) \in SUBSET (0..m) /\ 0 \in Int
    BY <1>0
  <2>2. SumOver(sums, 1..m) = 0 * Cardinality(1..m) /\ Cardinality(1..m) \in Nat
    BY <1>0, <1>5a, <2>1, SumOfConstant
  <2> QED BY <2>2
<1>8. \A i \in D : f[i] = label[i] - fit[i]
  BY DEF f
<1>9. SumOver(f, D) = SumOver(label, D) - SumOver(fit, D) /\ SumOver(label, D) \in Int /\ SumOver(fit, D) \in Int
  BY <1>2, <1>8, SumOfLess
<1> QED BY <1>6, <1>7, <1>9

-----------------------------------------------------------------------------
(* Maps as they are kept and used                                           *)

\* Division rounds more up to no less.
LEMMA DivisionGrows == ASSUME NEW x \in Int, NEW y \in Int, x <= y, NEW d \in Nat \ {0} PROVE x \div d <= y \div d
<1> DEFINE q == x \div d
<1>1. q \in Int
  BY RoundedDown
<1>2. 0 <= x - q * d /\ q * d \in Int
  <2>1. q <= x \div d <=> 0 <= x - q * d
    BY <1>1, RoundedDown
  <2>2. q * d \in Int
    BY <1>1
  <2> QED BY <1>1, <2>1, <2>2
<1> HIDE DEF q
<1>3. 0 <= y - q * d
  BY <1>2
<1>4. q <= y \div d
  BY <1>1, <1>3, RoundedDown
<1> QED BY <1>4 DEF q

\* A point on the line between two is between them.
LEMMA BetweenTwo ==
    ASSUME NEW l \in Int, NEW r \in Int, l <= r, NEW d \in Nat \ {0}, NEW u \in Int, NEW w \in Int, u >= 0, w >= 0, u + w = d
    PROVE  LET v == (l * w + r * u) \div d IN v \in Int /\ l <= v /\ v <= r
<1> DEFINE s == l * w + r * u
<1>1. l * u <= r * u /\ l * w <= r * w
  <2>1. \A a, b \in Int, c \in Nat : a <= b => a * c <= b * c
    OBVIOUS
  <2> QED BY <2>1
<1>2. l * d = l * w + l * u /\ r * d = r * w + r * u
  BY u + w = d
<1>3. l * w \in Int /\ l * u \in Int /\ r * w \in Int /\ r * u \in Int
  OBVIOUS
<1>4. 0 <= s - l * d /\ s - r * d <= 0 /\ s \in Int
  BY <1>1, <1>2, <1>3
<1> HIDE DEF s
<1>5. l <= s \div d /\ s \div d <= r /\ s \div d \in Int
  BY <1>4, RoundedDown
<1> QED BY <1>5 DEF s

\* What calibrate_one() goes by: the nearest knots.
LEMMA NearestKnots ==
    ASSUME NEW n \in Nat, NEW c, IsCurve(c, n), NEW raw \in Nat
    PROVE  LET below == {k \in DOMAIN c : k <= raw}
               above == {k \in DOMAIN c : k >= raw}
           IN  /\ below # {} => Max(below) \in below /\ \A k \in below : k <= Max(below)
               /\ above # {} => Min(above) \in above /\ \A k \in above : Min(above) <= k
               /\ below # {} \/ above # {}
               /\ \A k \in DOMAIN c : k \in Nat /\ (k \in below \/ k \in above)
<1> DEFINE below == {k \in DOMAIN c : k <= raw}
           above == {k \in DOMAIN c : k >= raw}
<1>1. \A k \in DOMAIN c : k \in Nat /\ (k \in below \/ k \in above)
  BY DEF IsCurve
<1>2. below \in SUBSET (0..n) /\ above \in SUBSET Nat /\ DOMAIN c # {}
  BY <1>1 DEF IsCurve
<1>3. below # {} \/ above # {}
  BY <1>1, <1>2
<1> HIDE DEF below, above
<1>4. below # {} => Max(below) \in below /\ \A k \in below : k <= Max(below)
  BY <1>2, Greatest
<1>5. above # {} => Min(above) \in above /\ \A k \in above : Min(above) <= k
  BY <1>2, SmallestOf
<1> QED BY <1>1, <1>3, <1>4, <1>5 DEF below, above

\* How calibrate_one() goes by them.
LEMMA CalibratedBy ==
    ASSUME NEW n \in Nat, NEW c, IsCurve(c, n), NEW raw \in Nat
    PROVE  LET below == {k \in DOMAIN c : k <= raw}
               above == {k \in DOMAIN c : k >= raw}
               l == Max(below)
               r == Min(above)
           IN  CalibrateOne(c, raw) = IF below = {} THEN c[r]
                                      ELSE IF above = {} THEN c[l]
                                      ELSE IF l = r THEN c[l]
                                      ELSE (c[l] * (r - raw) + c[r] * (raw - l)) \div (r - l)
<1> DEFINE below == {k \in DOMAIN c : k <= raw}
           above == {k \in DOMAIN c : k >= raw}
           l == Max(below)
           r == Min(above)
           v == CalibrateOne(c, raw)
<1>1. below # {} \/ above # {}
  BY NearestKnots
<1>2. v = CASE below = {} -> c[r]
            [] above = {} -> c[l]
            [] OTHER -> IF l = r THEN c[l] ELSE (c[l] * (r - raw) + c[r] * (raw - l)) \div (r - l)
  BY DEF CalibrateOne
<1> DEFINE e == (c[l] * (r - raw) + c[r] * (raw - l)) \div (r - l)
<1>3. v = CASE below = {} -> c[r] [] above = {} -> c[l] [] OTHER -> IF l = r THEN c[l] ELSE e
  BY <1>2
<1> HIDE DEF below, above, l, r, v, e
<1>4. v = IF below = {} THEN c[r] ELSE IF above = {} THEN c[l] ELSE IF l = r THEN c[l] ELSE e
  BY <1>1, <1>3
<1> QED BY <1>4 DEF below, above, l, r, v, e

\* What is calibrated is bounded by the knots on both sides.
LEMMA CalibratedIsBetween ==
    ASSUME NEW n \in Nat, NEW c, IsCurve(c, n), NEW raw \in Nat
    PROVE  /\ CalibrateOne(c, raw) \in 0..Unit
           /\ \A k \in DOMAIN c : /\ k <= raw => c[k] <= CalibrateOne(c, raw)
                                  /\ k >= raw => CalibrateOne(c, raw) <= c[k]
<1> DEFINE below == {k \in DOMAIN c : k <= raw}
           above == {k \in DOMAIN c : k >= raw}
           l == Max(below)
           r == Min(above)
           v == CalibrateOne(c, raw)
<1>0. Unit \in Nat
  BY CalibrationAssumption
<1>1. /\ below # {} => l \in below /\ \A k \in below : k <= l
      /\ above # {} => r \in above /\ \A k \in above : r <= k
      /\ below # {} \/ above # {}
      /\ \A k \in DOMAIN c : k \in Nat /\ (k \in below \/ k \in above)
  BY NearestKnots
<1>2. v = IF below = {} THEN c[r]
          ELSE IF above = {} THEN c[l]
          ELSE IF l = r THEN c[l]
          ELSE (c[l] * (r - raw) + c[r] * (raw - l)) \div (r - l)
  BY CalibratedBy
<1>3. /\ \A k \in DOMAIN c : c[k] \in 0..Unit
      /\ \A x, z \in DOMAIN c : x <= z => c[x] <= c[z]
  BY DEF IsCurve
<1>4. (\A k \in below : k \in DOMAIN c /\ k <= raw) /\ \A k \in above : k \in DOMAIN c /\ k >= raw
  OBVIOUS
<1>5. \A k \in DOMAIN c : (k <= raw => k \in below) /\ (k >= raw => k \in above)
  OBVIOUS
<1> HIDE DEF below, above, l, r, v
<1>6. CASE below = {}
  <2>1. v = c[r] /\ r \in DOMAIN c /\ \A k \in above : r <= k
    BY <1>1, <1>2, <1>4, <1>6
  <2>2. v \in 0..Unit
    BY <1>3, <2>1
  <2>3. \A k \in DOMAIN c : ~(k <= raw)
    BY <1>5, <1>6
  <2>4. \A k \in DOMAIN c : k >= raw => v <= c[k]
    BY <1>3, <1>5, <2>1
  <2> QED BY <2>2, <2>3, <2>4 DEF v
<1>7. CASE below # {} /\ above = {}
  <2>1. v = c[l] /\ l \in DOMAIN c /\ \A k \in below : k <= l
    BY <1>1, <1>2, <1>4, <1>7
  <2>2. v \in 0..Unit
    BY <1>3, <2>1
  <2>3. \A k \in DOMAIN c : ~(k >= raw)
    BY <1>5, <1>7
  <2>4. \A k \in DOMAIN c : k <= raw => c[k] <= v
    BY <1>3, <1>5, <2>1
  <2> QED BY <2>2, <2>3, <2>4 DEF v
<1>8. CASE below # {} /\ above # {}
  <2>1. l \in DOMAIN c /\ r \in DOMAIN c /\ l <= raw /\ raw <= r /\ l \in Nat /\ r \in Nat
    BY <1>1, <1>4, <1>8
  <2>2. c[l] \in 0..Unit /\ c[r] \in 0..Unit /\ c[l] <= c[r]
    BY <1>3, <2>1
  <2>3. v \in Int /\ c[l] <= v /\ v <= c[r]
    <3>1. CASE l = r
      BY <1>2, <1>8, <2>2, <3>1
    <3>2. CASE l # r
      <4>1. r - l \in Nat \ {0} /\ r - raw \in Int /\ raw - l \in Int /\ r - raw >= 0 /\ raw - l >= 0
            /\ (raw - l) + (r - raw) = r - l
        BY <2>1, <3>2
      <4>2. v = (c[l] * (r - raw) + c[r] * (raw - l)) \div (r - l)
        BY <1>2, <1>8, <3>2
      <4>3. c[l] \in Int /\ c[r] \in Int
        BY <2>2
      <4> DEFINE u == raw - l
                 w == r - raw
                 d == r - l
      <4>4. d \in Nat \ {0} /\ w \in Int /\ u \in Int /\ w >= 0 /\ u >= 0 /\ u + w = d /\ v = (c[l] * w + c[r] * u) \div d
        BY <4>1, <4>2
      <4> HIDE DEF u, w, d
      <4> QED BY <2>2, <4>3, <4>4, BetweenTwo
    <3> QED BY <3>1, <3>2
  <2>4. v \in 0..Unit
    BY <1>0, <2>2, <2>3
  <2>5. \A k \in below : c[k] <= v
    <3> TAKE k \in below
    <3>1. k \in DOMAIN c /\ k <= l
      BY <1>1, <1>4, <1>8
    <3>2. c[k] <= c[l] /\ c[k] \in Int /\ c[l] \in Int
      BY <1>3, <2>1, <3>1
    <3> QED BY <2>3, <3>2
  <2>6. \A k \in above : v <= c[k]
    <3> TAKE k \in above
    <3>1. k \in DOMAIN c /\ r <= k
      BY <1>1, <1>4, <1>8
    <3>2. c[r] <= c[k] /\ c[k] \in Int /\ c[r] \in Int
      BY <1>3, <2>1, <3>1
    <3> QED BY <2>3, <3>2
  <2> QED BY <1>5, <2>4, <2>5, <2>6 DEF v
<1> QED BY <1>6, <1>7, <1>8 DEF v

\* A higher score is never calibrated to less.
LEMMA CalibratedGrows ==
    ASSUME NEW n \in Nat, NEW c, IsCurve(c, n), NEW raw \in Nat
    PROVE  CalibrateOne(c, raw) <= CalibrateOne(c, raw + 1)
<1> DEFINE v == CalibrateOne(c, raw)
           w == CalibrateOne(c, raw + 1)
<1>1. Unit \in Nat /\ raw + 1 \in Nat
  BY CalibrationAssumption
<1>2. /\ v \in 0..Unit
      /\ \A k \in DOMAIN c : k >= raw => v <= c[k]
  BY CalibratedIsBetween
<1>3. /\ w \in 0..Unit
      /\ \A k \in DOMAIN c : k <= raw + 1 => c[k] <= w
  BY <1>1, CalibratedIsBetween
<1>4. /\ \A k \in DOMAIN c : k \in Nat /\ c[k] \in 0..Unit
      /\ \A x, z \in DOMAIN c : x <= z => c[x] <= c[z]
  BY DEF IsCurve
<1>5. CASE \E k \in DOMAIN c : k = raw \/ k = raw + 1
  <2>1. PICK k \in DOMAIN c : k = raw \/ k = raw + 1
    BY <1>5
  <2>2. k >= raw /\ k <= raw + 1
    BY <2>1
  <2>3. v <= c[k] /\ c[k] <= w
    BY <1>2, <1>3, <2>2
  <2> HIDE DEF v, w
  <2> QED BY <1>1, <1>2, <1>3, <1>4, <2>3 DEF v, w
<1>6. CASE \A k \in DOMAIN c : k # raw /\ k # raw + 1
  <2> DEFINE below == {k \in DOMAIN c : k <= raw}
             above == {k \in DOMAIN c : k >= raw}
             l == Max(below)
             r == Min(above)
  <2>1. below = {k \in DOMAIN c : k <= raw + 1} /\ above = {k \in DOMAIN c : k >= raw + 1}
    BY <1>4, <1>6
  <2>2. v = IF below = {} THEN c[r]
            ELSE IF above = {} THEN c[l]
            ELSE IF l = r THEN c[l]
            ELSE (c[l] * (r - raw) + c[r] * (raw - l)) \div (r - l)
    BY CalibratedBy
  <2>3. w = IF below = {} THEN c[r]
            ELSE IF above = {} THEN c[l]
            ELSE IF l = r THEN c[l]
            ELSE (c[l] * (r - (raw + 1)) + c[r] * ((raw + 1) - l)) \div (r - l)
    <3> DEFINE B == {k \in DOMAIN c : k <= raw + 1}
               A == {k \in DOMAIN c : k >= raw + 1}
    <3>1. w = IF B = {} THEN c[Min(A)]
              ELSE IF A = {} THEN c[Max(B)]
              ELSE IF Max(B) = Min(A) THEN c[Max(B)]
              ELSE (c[Max(B)] * (Min(A) - (raw + 1)) + c[Min(A)] * ((raw + 1) - Max(B))) \div (Min(A) - Max(B))
      BY <1>1, CalibratedBy
    <3>2. below = B /\ above = A
      BY <2>1
    <3> HIDE DEF B, A, below, above, w
    <3> QED BY <3>1, <3>2
  <2>4. /\ below # {} => l \in below
        /\ above # {} => r \in above
    BY NearestKnots
  <2>5. CASE below = {} \/ above = {} \/ l = r
    <3> HIDE DEF below, above, l, r
    <3>1. v = w
      BY <2>2, <2>3, <2>5
    <3> HIDE DEF v, w
    <3>2. v <= w
      BY <1>1, <1>2, <3>1
    <3> QED BY <3>2 DEF v, w
  <2>6. CASE ~(below = {} \/ above = {} \/ l = r)
    <3>1. l \in DOMAIN c /\ r \in DOMAIN c /\ l <= raw /\ raw <= r
      BY <2>4, <2>6
    <3> HIDE DEF below, above, l, r
    <3>2. l \in Nat /\ r \in Nat /\ c[l] \in Int /\ c[r] \in Int /\ c[l] <= c[r]
      <4>1. l \in Nat /\ r \in Nat /\ c[l] \in 0..Unit /\ c[r] \in 0..Unit
        BY <1>4, <3>1
      <4>2. l <= r
        BY <3>1, <4>1
      <4> QED BY <1>1, <1>4, <3>1, <4>1, <4>2
    <3> DEFINE x == c[l] * (r - raw) + c[r] * (raw - l)
               y == c[l] * (r - (raw + 1)) + c[r] * ((raw + 1) - l)
               d == r - l
    <3>3. d \in Nat \ {0}
      BY <2>6, <3>1, <3>2
    <3>4. y = x - c[l] + c[r] /\ x \in Int /\ y \in Int
      <4> DEFINE cl == c[l]
                 cr == c[r]
                 a == r - raw
                 b == raw - l
      <4>1. cl \in Int /\ cr \in Int /\ a \in Int /\ b \in Int /\ r - (raw + 1) = a - 1 /\ (raw + 1) - l = b + 1
        BY <3>2
      <4> HIDE DEF cl, cr, a, b
      <4>2. cl * (a - 1) = cl * a - cl /\ cr * (b + 1) = cr * b + cr
        BY <4>1
      <4>3. x = cl * a + cr * b /\ y = cl * (a - 1) + cr * (b + 1)
        BY <4>1 DEF cl, cr, a, b
      <4>4. cl * a \in Int /\ cr * b \in Int
        BY <4>1
      <4>5. y = x - cl + cr /\ x \in Int /\ y \in Int
        BY <4>1, <4>2, <4>3, <4>4
      <4> QED BY <4>5 DEF cl, cr
    <3>5. v = x \div d /\ w = y \div d
      BY <2>2, <2>3, <2>6
    <3> HIDE DEF x, y, d, v, w
    <3>6. x <= y
      BY <3>2, <3>4
    <3>7. v <= w
      BY <3>3, <3>4, <3>5, <3>6, DivisionGrows
    <3> QED BY <3>7 DEF v, w
  <2> QED BY <2>5, <2>6
<1> QED BY <1>5, <1>6


\* A map without the points that a line through their neighbours would miss.
Thinned(c) == [x \in {z \in DOMAIN c : ~ OnLine(c, z)} |-> c[x]]

\* Each value keeps its first and its last score.
LEMMA EndsAreKept ==
    ASSUME NEW n \in Nat, NEW c, IsCurve(c, n), NEW x \in DOMAIN c
    PROVE  /\ \E l \in DOMAIN Thinned(c) : l <= x /\ c[l] = c[x]
           /\ \E r \in DOMAIN Thinned(c) : r >= x /\ c[r] = c[x]
<1> DEFINE L == {z \in DOMAIN c : c[z] = c[x]}
<1>1. L \in SUBSET (0..n) /\ L \in SUBSET Nat /\ x \in L /\ \A z \in DOMAIN c : z \in Nat
  BY DEF IsCurve
<1>2. DOMAIN Thinned(c) = {z \in DOMAIN c : ~ OnLine(c, z)}
  BY DEF Thinned
<1>3. \A z \in L : z \in DOMAIN c /\ c[z] = c[x]
  OBVIOUS
<1>4. \A z \in DOMAIN c : c[z] = c[x] => z \in L
  OBVIOUS
<1> HIDE DEF L
<1>5. PICK l \in L : \A z \in L : l <= z
  BY <1>1, SmallestOf
<1>6. PICK r \in L : \A z \in L : z <= r
  BY <1>1, Greatest
<1>7. ~ OnLine(c, l)
  <2> SUFFICES ASSUME NEW k \in DOMAIN c, k < l, c[k] = c[l] PROVE FALSE
    BY DEF OnLine
  <2>1. k \in L
    BY <1>3, <1>4
  <2> QED BY <1>1, <1>5, <2>1
<1>8. ~ OnLine(c, r)
  <2> SUFFICES ASSUME NEW k \in DOMAIN c, r < k, c[r] = c[k] PROVE FALSE
    BY DEF OnLine
  <2>1. k \in L
    BY <1>3, <1>4
  <2> QED BY <1>1, <1>6, <2>1
<1>9. l <= x /\ r >= x
  BY <1>1, <1>5, <1>6
<1> QED BY <1>2, <1>3, <1>7, <1>8, <1>9

\* What is thinned is a map, misses nothing, and has nothing left to miss.
LEMMA ThinnedIsCurve ==
    ASSUME NEW n \in Nat, NEW c, IsCurve(c, n)
    PROVE  /\ IsCurve(Thinned(c), n)
           /\ \A x \in DOMAIN c : CalibrateOne(Thinned(c), x) = c[x]
           /\ \A x \in DOMAIN Thinned(c) : ~ OnLine(Thinned(c), x)
<1> DEFINE t == Thinned(c)
<1>0. Unit \in Nat
  BY CalibrationAssumption
<1>1. DOMAIN t = {z \in DOMAIN c : ~ OnLine(c, z)} /\ \A x \in DOMAIN t : t[x] = c[x]
  BY DEF Thinned
<1>2. t = [x \in DOMAIN t |-> t[x]]
  BY DEF Thinned
<1>3. /\ DOMAIN c \in SUBSET (0..n) /\ DOMAIN c # {}
      /\ \A x \in DOMAIN c : c[x] \in 0..Unit
      /\ \A x, z \in DOMAIN c : x <= z => c[x] <= c[z]
  BY DEF IsCurve
<1>4. \A x \in DOMAIN c : /\ \E l \in DOMAIN t : l <= x /\ c[l] = c[x]
                          /\ \E r \in DOMAIN t : r >= x /\ c[r] = c[x]
  BY EndsAreKept
<1> HIDE DEF t
<1>5. DOMAIN t \in SUBSET DOMAIN c
  BY <1>1
<1>6. DOMAIN t # {}
  BY <1>3, <1>4
<1>7. IsCurve(t, n)
  BY <1>1, <1>2, <1>3, <1>5, <1>6 DEF IsCurve
<1>8. \A x \in DOMAIN c : CalibrateOne(t, x) = c[x]
  <2> SUFFICES ASSUME NEW x \in DOMAIN c PROVE CalibrateOne(t, x) = c[x]
    OBVIOUS
  <2>1. PICK l \in DOMAIN t : l <= x /\ c[l] = c[x]
    BY <1>4
  <2>2. PICK r \in DOMAIN t : r >= x /\ c[r] = c[x]
    BY <1>4
  <2>3. x \in Nat
    BY <1>3
  <2>4. CalibrateOne(t, x) \in 0..Unit /\ t[l] <= CalibrateOne(t, x) /\ CalibrateOne(t, x) <= t[r]
    BY <1>7, <2>1, <2>2, <2>3, CalibratedIsBetween
  <2>5. t[l] = c[x] /\ t[r] = c[x] /\ c[x] \in 0..Unit
    BY <1>1, <1>3, <2>1, <2>2
  <2> QED BY <1>0, <2>4, <2>5
<1>9. \A x \in DOMAIN t : ~ OnLine(t, x)
  <2> SUFFICES ASSUME NEW x \in DOMAIN t, OnLine(t, x) PROVE FALSE
    OBVIOUS
  <2>1. PICK l \in DOMAIN t, r \in DOMAIN t : l < x /\ x < r /\ t[l] = t[x] /\ t[x] = t[r]
    BY DEF OnLine
  <2>2. x \in DOMAIN c /\ l \in DOMAIN c /\ r \in DOMAIN c /\ c[l] = c[x] /\ c[r] = c[x] /\ ~ OnLine(c, x)
    BY <1>1, <2>1
  <2>3. \A z \in DOMAIN c : z \in Nat
    BY <1>3
  <2>4. PICK k \in DOMAIN c : k < x /\ \A z \in DOMAIN c : ~(k < z /\ z < x)
    <3>1. DOMAIN c \in SUBSET (0..n)
      BY <1>3
    <3>2. \E k : NextBelow(DOMAIN c, x, k)
      BY <2>1, <2>2, <3>1, Neighbours
    <3> QED BY <3>2 DEF NextBelow
  <2>5. PICK m \in DOMAIN c : x < m /\ \A z \in DOMAIN c : ~(x < z /\ z < m)
    <3>1. DOMAIN c \in SUBSET (0..n)
      BY <1>3
    <3>2. \E m : NextAbove(DOMAIN c, x, m)
      BY <2>1, <2>2, <3>1, Neighbours
    <3> QED BY <3>2 DEF NextAbove
  <2>6. l <= k /\ m <= r
    BY <2>1, <2>2, <2>3, <2>4, <2>5
  <2>7. c[k] = c[x]
    <3>1. c[l] <= c[k] /\ c[k] <= c[x]
      BY <1>3, <2>2, <2>3, <2>4, <2>6
    <3>2. c[k] \in 0..Unit /\ c[x] \in 0..Unit
      BY <1>3, <2>2
    <3> QED BY <1>0, <2>2, <3>1, <3>2
  <2>8. c[m] = c[x]
    <3>1. c[x] <= c[m] /\ c[m] <= c[r]
      BY <1>3, <2>2, <2>3, <2>5, <2>6
    <3>2. c[m] \in 0..Unit /\ c[x] \in 0..Unit
      BY <1>3, <2>2
    <3> QED BY <1>0, <2>2, <3>1, <3>2
  <2>9. ~ \E z \in DOMAIN c \ {x} : k < z /\ z < m
    BY <2>2, <2>3, <2>4, <2>5
  <2> QED BY <2>2, <2>4, <2>5, <2>7, <2>8, <2>9 DEF OnLine
<1> QED BY <1>7, <1>8, <1>9 DEF t

\* The regression over the points of a map is the map.
LEMMA PooledAgain ==
    ASSUME NEW n \in Nat, NEW c, IsCurve(c, n)
    PROVE  Pooled(Knots(c)) = c
<1> DEFINE p == Knots(c)
<1>0. Unit \in Nat
  BY CalibrationAssumption
<1>1. /\ DOMAIN c \in SUBSET (0..n) /\ DOMAIN c # {}
      /\ \A x \in DOMAIN c : c[x] \in 0..Unit
      /\ \A x, z \in DOMAIN c : x <= z => c[x] <= c[z]
  BY DEF IsCurve
<1>2. DOMAIN p = DOMAIN c /\ \A i \in DOMAIN c : p[i].x = i /\ p[i].y = c[i]
  BY DEF Knots
<1> HIDE DEF p
<1>3. ArePoints(p, n)
  BY <1>1, <1>2 DEF ArePoints
<1>4. Xs(p) = DOMAIN c
  BY <1>2 DEF Xs
<1>5. Pooled(p) = [x \in DOMAIN c |-> Pooled(p)[x]]
  BY <1>3, <1>4, PooledIsCurve DEF IsCurve
<1>6. \A x \in DOMAIN c : Pooled(p)[x] = c[x]
  <2> SUFFICES ASSUME NEW x \in DOMAIN c PROVE Pooled(p)[x] = c[x]
    OBVIOUS
  <2> DEFINE v == Pooled(p)[x]
  <2>1. /\ v \in 0..Unit
        /\ \E a \in Xs(p) : a <= x /\ \A b \in Xs(p) : b >= x => v <= MeanBetween(p, a, b)
        /\ \A a \in Xs(p) : a <= x => \E b \in Xs(p) : b >= x /\ MeanBetween(p, a, b) <= v
    BY <1>3, <1>4, PooledAt
  <2> HIDE DEF v
  <2>2. \A z \in DOMAIN c : z \in Nat /\ c[z] \in Int
    BY <1>0, <1>1
  <2>3. v <= c[x]
    <3>1. PICK a \in Xs(p) : a <= x /\ \A b \in Xs(p) : b >= x => v <= MeanBetween(p, a, b)
      BY <2>1
    <3>2. v <= MeanBetween(p, a, x)
      BY <1>4, <2>2, <3>1
    <3>3. \A i \in Within(p, a, x) : p[i].y \in 0..c[x]
      <4> SUFFICES ASSUME NEW i \in Within(p, a, x) PROVE p[i].y \in 0..c[x]
        OBVIOUS
      <4>1. i \in DOMAIN c /\ i \in a..x /\ p[i].y = c[i]
        BY <1>2 DEF Within
      <4>2. i <= x
        BY <1>4, <2>2, <4>1
      <4>3. c[i] <= c[x] /\ c[i] \in 0..Unit /\ c[x] \in 0..Unit
        BY <1>1, <4>1, <4>2
      <4> QED BY <1>0, <4>1, <4>3
    <3>4. MeanBetween(p, a, x) \in 0..c[x]
      <4>1. 0 \in Int /\ c[x] \in Int
        BY <2>2
      <4> QED BY <1>3, <1>4, <3>1, <3>3, <4>1, MeanIsBounded
    <3> QED BY <1>0, <2>1, <2>2, <3>2, <3>4
  <2>4. c[x] <= v
    <3>1. x \in Xs(p) /\ x <= x
      BY <1>4, <2>2
    <3>2. PICK b \in Xs(p) : b >= x /\ MeanBetween(p, x, b) <= v
      BY <2>1, <3>1
    <3>3. \A i \in Within(p, x, b) : p[i].y \in c[x]..Unit
      <4> SUFFICES ASSUME NEW i \in Within(p, x, b) PROVE p[i].y \in c[x]..Unit
        OBVIOUS
      <4>1. i \in DOMAIN c /\ i \in x..b /\ p[i].y = c[i]
        BY <1>2 DEF Within
      <4>2. x <= i
        BY <1>4, <2>2, <4>1
      <4>3. c[x] <= c[i] /\ c[i] \in 0..Unit /\ c[x] \in 0..Unit
        BY <1>1, <4>1, <4>2
      <4> QED BY <1>0, <4>1, <4>3
    <3>4. MeanBetween(p, x, b) \in c[x]..Unit
      <4>1. Unit \in Int /\ c[x] \in Int /\ x <= b
        BY <1>0, <1>4, <2>2, <3>2
      <4> QED BY <1>3, <3>1, <3>3, <4>1, MeanIsBounded
    <3> QED BY <1>0, <2>1, <2>2, <3>2, <3>4
  <2>5. v = c[x]
    BY <1>0, <2>1, <2>2, <2>3, <2>4
  <2> QED BY <2>5 DEF v
<1>7. c = [x \in DOMAIN c |-> c[x]]
  BY DEF IsCurve
<1>8. Pooled(p) = c
  BY <1>5, <1>6, <1>7
<1> QED BY <1>8 DEF p

\* What fit() keeps.
LEMMA IsotonicIsThinned == ASSUME NEW p PROVE Isotonic(p) = Thinned(Pooled(p))
BY DEF Isotonic, Thinned

\* Fitted to what was saved, a map is what it was.
LEMMA SavedIsSame ==
    ASSUME NEW n \in Nat, NEW p, ArePoints(p, n)
    PROVE  Isotonic(Knots(Isotonic(p))) = Isotonic(p)
<1> DEFINE c == Thinned(Pooled(p))
<1>1. IsCurve(c, n) /\ \A x \in DOMAIN c : ~ OnLine(c, x)
  BY PooledIsCurve, ThinnedIsCurve
<1> HIDE DEF c
<1>2. Thinned(c) = [x \in DOMAIN c |-> c[x]]
  <2>1. {z \in DOMAIN c : ~ OnLine(c, z)} = DOMAIN c
    BY <1>1
  <2> QED BY <2>1 DEF Thinned
<1>3. Thinned(c) = c
  BY <1>1, <1>2 DEF IsCurve
<1>4. Thinned(Pooled(Knots(c))) = c
  BY <1>1, <1>3, PooledAgain
<1> QED BY <1>4, IsotonicIsThinned DEF c

\* A finite set of naturals has a greatest member.
LEMMA FiniteHasGreatest ==
    ASSUME NEW I \in SUBSET Nat, I # {}, IsFiniteSet(I)
    PROVE  Max(I) \in I /\ \A y \in I : y <= Max(I)
<1> DEFINE Topped(m) == \A f \in [1..m -> Nat] : \E i \in 1..m : \A j \in 1..m : f[j] <= f[i]
           T == {n \in Nat : Topped(n + 1)}
<1>1. 0 \in T
  OBVIOUS
<1>2. ASSUME NEW n \in Nat, n \in T PROVE n + 1 \in T
  <2>0. Topped(n + 2) => n + 1 \in T
    <3>1. (n + 1) + 1 = n + 2
      OBVIOUS
    <3> HIDE DEF Topped
    <3> QED BY <3>1
  <2> SUFFICES ASSUME NEW f \in [1..(n + 2) -> Nat]
               PROVE  \E i \in 1..(n + 2) : \A j \in 1..(n + 2) : f[j] <= f[i]
    BY <2>0
  <2> DEFINE g == [k \in 1..(n + 1) |-> f[k]]
  <2>a. g \in [1..(n + 1) -> Nat]
    OBVIOUS
  <2>1. PICK i \in 1..(n + 1) : \A j \in 1..(n + 1) : g[j] <= g[i]
    BY <1>2, <2>a
  <2>2. i \in 1..(n + 2) /\ n + 2 \in 1..(n + 2) /\ \A j \in 1..(n + 2) : j \in 1..(n + 1) \/ j = n + 2
    OBVIOUS
  <2>3. \A j \in 1..(n + 1) : f[j] <= f[i]
    BY <2>1
  <2>4. \A j \in 1..(n + 2) : f[j] \in Nat
    OBVIOUS
  <2>5. CASE f[n + 2] <= f[i]
    BY <2>2, <2>3, <2>5
  <2>6. CASE f[i] <= f[n + 2]
    <3> SUFFICES ASSUME NEW j \in 1..(n + 2) PROVE f[j] <= f[n + 2]
      BY <2>2
    <3>1. f[j] \in Nat /\ f[i] \in Nat /\ f[n + 2] \in Nat
      BY <2>2, <2>4
    <3>2. j \in 1..(n + 1) => f[j] <= f[i]
      BY <2>3
    <3> QED BY <2>2, <2>6, <3>1, <3>2
  <2> QED BY <2>2, <2>4, <2>5, <2>6
<1> HIDE DEF T
<1>3. Nat \subseteq T
  BY <1>1, <1>2, Counting
<1>4. Cardinality(I) \in Nat /\ Cardinality(I) # 0 /\ ExistsBijection(1..Cardinality(I), I)
  BY FS_CardinalityType, FS_EmptySet
<1>5. PICK f \in [1..Cardinality(I) -> I] : \A x \in I : \E k \in 1..Cardinality(I) : f[k] = x
  BY <1>4 DEF ExistsBijection, Bijection, Surjection
<1>6. PICK n \in Nat : Cardinality(I) = n + 1
  <2>1. Cardinality(I) - 1 \in Nat /\ Cardinality(I) = (Cardinality(I) - 1) + 1
    BY <1>4
  <2> QED BY <2>1
<1>7. PICK i \in 1..(n + 1) : \A j \in 1..(n + 1) : f[j] <= f[i]
  <2>1. f \in [1..(n + 1) -> Nat] /\ n \in T
    BY <1>3, <1>5, <1>6
  <2> QED BY <2>1 DEF T
<1>8. f[i] \in I /\ \A y \in I : f[i] >= y
  BY <1>5, <1>6, <1>7
<1>9. Max(I) \in I /\ \A y \in I : Max(I) >= y
  BY <1>8 DEF Max
<1> QED BY <1>9

-----------------------------------------------------------------------------
(* The calibrators and their report                                         *)

Items == [score : Readings, defect : {Clean} \cup Defects]

AreItems(s) == s \in Seq(Items) /\ Len(s) <= MaxItems

\* Every score and every index is within a bound.
LEMMA ReadingsAreBounded ==
    /\ Max(Readings) \in Nat
    /\ \E n \in Nat : MaxItems <= n /\ Readings \in SUBSET (0..n)
<1>0. Readings \in SUBSET Nat /\ Readings # {} /\ IsFiniteSet(Readings) /\ MaxItems \in Nat
  BY CalibrationAssumption
<1> DEFINE m == Max(Readings)
<1>1. m \in Readings /\ \A s \in Readings : s <= m
  BY <1>0, FiniteHasGreatest
<1> HIDE DEF m
<1>2. m \in Nat /\ Readings \in SUBSET (0..m)
  BY <1>0, <1>1
<1>4. m + MaxItems \in Nat /\ MaxItems <= m + MaxItems /\ Readings \in SUBSET (0..(m + MaxItems))
  BY <1>0, <1>2
<1> QED BY <1>2, <1>4 DEF m

\* The unit divides by how many items there may be.
LEMMA UnitDivides == ASSUME NEW c \in 1..MaxItems PROVE \E q \in Int : Unit = c * q
<1>1. PICK n \in Nat : Readings \in SUBSET (0..n)
  BY ReadingsAreBounded
<1> DEFINE m == Max({1} \cup Readings)
<1>2. m \in Nat /\ 1 <= m
  <2>1. ({1} \cup Readings) \in SUBSET (0..(n + 1)) /\ ({1} \cup Readings) # {} /\ n + 1 \in Nat
    BY <1>1
  <2>2. m \in {1} \cup Readings /\ \A y \in {1} \cup Readings : y <= m
    BY <2>1, Greatest
  <2> HIDE DEF m
  <2> QED BY <1>1, <2>2
<1>3. \A k \in 1..MaxItems, gap \in 1..m : Unit % (k * gap) = 0
  BY CalibrationAssumption DEF Divisible
<1> HIDE DEF m
<1>4. 1 \in 1..m
  BY <1>2
<1>5. Unit % (c * 1) = 0 /\ c * 1 = c /\ c \in Nat \ {0} /\ Unit \in Nat
  BY <1>3, <1>4, CalibrationAssumption
<1>6. Unit = c * (Unit \div c) /\ Unit \div c \in Int
  BY <1>5
<1> QED BY <1>6

\* Items make points the regression can use.
LEMMA PointsOfItems ==
    ASSUME NEW s, AreItems(s), NEW I \in SUBSET DOMAIN s, I # {}, NEW class,
           NEW n \in Nat, MaxItems <= n, Readings \in SUBSET (0..n)
    PROVE  ArePoints(Points(s, I, class), n) /\ Exact(Points(s, I, class))
<1> DEFINE p == Points(s, I, class)
<1>0. Unit \in Nat /\ MaxItems \in Nat
  BY CalibrationAssumption
<1>1. Len(s) \in Nat /\ DOMAIN s = 1..Len(s) /\ Len(s) <= MaxItems /\ \A i \in DOMAIN s : s[i] \in Items
  BY DEF AreItems
<1>2. DOMAIN p = I /\ \A i \in I : p[i].x = s[i].score /\ p[i].y \in {0, Unit}
  BY DEF Points
<1> HIDE DEF p
<1>3. I \in SUBSET (0..n) /\ I \in SUBSET (1..Len(s))
  BY <1>0, <1>1
<1>4. ArePoints(p, n)
  <2>1. \A i \in I : s[i].score \in 0..n
    BY <1>1 DEF Items
  <2> QED BY <1>0, <1>2, <1>3, <2>1 DEF ArePoints
<1>5. Exact(p)
  <2> SUFFICES ASSUME NEW W \in SUBSET DOMAIN p, W # {} PROVE SumOver(Ys(p), W) % Cardinality(W) = 0
    BY DEF Exact
  <2> DEFINE g == [i \in W |-> IF p[i].y = 0 THEN 0 ELSE 1]
  <2>1. Summable(Ys(p), W, n) /\ Summable(g, W, n)
    BY <1>0, <1>2, <1>3 DEF Summable, Ys
  <2>2. \A k \in 0..n : Addend(Ys(p), W, k) = Unit * Addend(g, W, k)
    <3> SUFFICES ASSUME NEW k \in 0..n PROVE Addend(Ys(p), W, k) = Unit * Addend(g, W, k)
      OBVIOUS
    <3>1. CASE k \in W
      BY <1>0, <1>2, <3>1 DEF Addend, Ys
    <3>2. CASE k \notin W
      BY <1>0, <3>2 DEF Addend
    <3> QED BY <3>1, <3>2
  <2> HIDE DEF g
  <2>3. SumOver(Ys(p), W) = Unit * SumOver(g, W) /\ SumOver(g, W) \in Int
    BY <1>0, <2>1, <2>2, SumScaled, SumIsInt
  <2>4. Cardinality(W) \in 1..MaxItems
    <3>1. IsFiniteSet(1..Len(s)) /\ Cardinality(1..Len(s)) = Len(s)
      <4>1. Cardinality(1..Len(s)) = IF 1 > Len(s) THEN 0 ELSE Len(s) - 1 + 1
        BY <1>1, FS_Interval
      <4>2. IsFiniteSet(1..Len(s))
        BY <1>1, FS_Interval
      <4> QED BY <1>1, <4>1, <4>2
    <3>2. W \in SUBSET (1..Len(s))
      BY <1>2, <1>3
    <3>3. IsFiniteSet(W) /\ Cardinality(W) <= Len(s)
      BY <3>1, <3>2, FS_Subset
    <3>4. Cardinality(W) \in Nat /\ Cardinality(W) # 0
      BY <3>3, FS_CardinalityType, FS_EmptySet
    <3> QED BY <1>0, <1>1, <3>3, <3>4
  <2>5. PICK q \in Int : Unit = Cardinality(W) * q
    BY <2>4, UnitDivides
  <2> DEFINE c == Cardinality(W)
             G == SumOver(g, W)
  <2>6. c \in Nat \ {0} /\ G \in Int /\ SumOver(Ys(p), W) = (c * q) * G
    BY <2>3, <2>4, <2>5, <1>0
  <2> HIDE DEF c, G
  <2>7. (c * q) * G = c * (q * G) /\ q * G \in Int
    BY <2>6
  <2>8. \A z \in Int : (c * z) % c = 0
    BY <2>6
  <2>9. SumOver(Ys(p), W) % c = 0
    BY <2>6, <2>7, <2>8
  <2> QED BY <2>9 DEF c
<1> QED BY <1>4, <1>5 DEF p

\* Probabilities have bins.
LEMMA BinsCover == ASSUME NEW p \in 0..Unit PROVE BinOf(p) \in 1..Bins
<1>0. Unit \in Nat \ {0} /\ Bins \in Nat \ {0}
  BY CalibrationAssumption
<1>1. CASE p = 0
  BY <1>0, <1>1 DEF BinOf
<1>2. CASE p # 0
  <2> DEFINE s == p * Bins + Unit - 1
  <2>1. 1 <= p /\ p <= Unit /\ p \in Nat
    BY <1>0, <1>2
  <2>2. \A a, b \in Nat, c \in Nat : a <= b => a * c <= b * c
    OBVIOUS
  <2>3. 1 * Bins <= p * Bins /\ p * Bins <= Unit * Bins
    BY <1>0, <2>1, <2>2
  <2>4. p * Bins \in Int /\ Unit * Bins \in Int /\ 1 * Bins = Bins /\ (Bins + 1) * Unit = Unit * Bins + Unit /\ 1 * Unit = Unit
    BY <1>0, <2>1
  <2>5. s \in Int /\ 0 <= s - 1 * Unit /\ ~(0 <= s - (Bins + 1) * Unit)
    BY <1>0, <2>3, <2>4
  <2> HIDE DEF s
  <2>6. s \div Unit \in Int /\ 1 <= s \div Unit
    BY <1>0, <2>5, RoundedDown
  <2>7. ~(Bins + 1 <= s \div Unit)
    BY <1>0, <2>5, RoundedDown
  <2>8. BinOf(p) = s \div Unit
    BY <1>2 DEF BinOf, s
  <2> QED BY <1>0, <2>6, <2>7, <2>8
<1> QED BY <1>1, <1>2

\* The greater of a difference and its opposite is its amount.
LEMMA AmountOf ==
    ASSUME NEW a \in Int, NEW b \in Int
    PROVE  LET m == Max({a - b, b - a}) IN /\ m \in Int /\ a - b <= m /\ b - a <= m
                                           /\ a = b => m = 0
<1>1. a - b \in Int /\ b - a \in Int
  OBVIOUS
<1>2. Max({a - b, b - a}) = IF a - b >= b - a THEN a - b ELSE b - a
  BY <1>1, OfTwo
<1> DEFINE m == Max({a - b, b - a})
<1>3. m = IF a - b >= b - a THEN a - b ELSE b - a
  BY <1>2
<1> HIDE DEF m
<1>4. m \in Int /\ a - b <= m /\ b - a <= m /\ (a = b => m = 0)
  BY <1>3
<1> QED BY <1>4 DEF m

\* The bins hold every item once, and their error is no less than that of all.
LEMMA ReportAddsUp ==
    ASSUME NEW m \in Nat, NEW pr, NEW lb, DOMAIN pr = 1..m,
           \A i \in 1..m : pr[i] \in 0..Unit /\ lb[i] \in 0..Unit
    PROVE  LET rows == ReliabilityCurve(pr, lb)
               gap == SumOver(pr, 1..m) - SumOver(lb, 1..m)
           IN  /\ SumOver([b \in 1..Bins |-> rows[b].count], 1..Bins) = m
               /\ CalibrationError(pr, lb) >= Max({gap, 0 - gap})
               /\ (\A b \in 1..Bins : rows[b].predicted = rows[b].observed) => CalibrationError(pr, lb) = 0
<1> DEFINE rows == ReliabilityCurve(pr, lb)
           D == 1..m
           bin == [i \in D |-> BinOf(pr[i])]
           ones == [i \in D |-> 1]
           counts == [b \in 1..Bins |-> rows[b].count]
           predicted == [b \in 1..Bins |-> rows[b].predicted]
           observed == [b \in 1..Bins |-> rows[b].observed]
           amounts == [b \in 1..Bins |-> Max({rows[b].predicted - rows[b].observed, rows[b].observed - rows[b].predicted})]
<1>0. Unit \in Nat /\ Bins \in Nat
  BY CalibrationAssumption
<1>1. \A i \in D : bin[i] \in 1..Bins
  BY BinsCover
<1>2. \A b \in 1..Bins : {i \in DOMAIN pr : BinOf(pr[i]) = b} = Binned(bin, D, b)
  BY DEF Binned
<1>3. \A b \in 1..Bins : /\ rows[b].count = Cardinality(Binned(bin, D, b))
                         /\ rows[b].predicted = SumOver(pr, Binned(bin, D, b))
                         /\ rows[b].observed = SumOver(lb, Binned(bin, D, b))
  <2> SUFFICES ASSUME NEW b \in 1..Bins
               PROVE  /\ rows[b].count = Cardinality(Binned(bin, D, b))
                      /\ rows[b].predicted = SumOver(pr, Binned(bin, D, b))
                      /\ rows[b].observed = SumOver(lb, Binned(bin, D, b))
    OBVIOUS
  <2> DEFINE W == {i \in DOMAIN pr : BinOf(pr[i]) = b}
  <2>1. rows[b] = [count |-> Cardinality(W), predicted |-> SumOver(pr, W), observed |-> SumOver(lb, W)]
    BY DEF ReliabilityCurve
  <2>2. W = Binned(bin, D, b)
    BY <1>2
  <2> HIDE DEF W, rows, bin, D
  <2> QED BY <2>1, <2>2
<1>4. CalibrationError(pr, lb) = SumOver(amounts, 1..Bins)
  BY DEF CalibrationError
<1>5. D \in SUBSET (0..m) /\ (1..Bins) \in SUBSET (0..Bins)
  BY <1>0
<1>6. Summable(pr, D, m) /\ Summable(lb, D, m) /\ Summable(ones, D, m)
  BY <1>0, <1>5 DEF Summable
<1>7. \A b \in 1..Bins : counts[b] = SumOver(ones, Binned(bin, D, b))
  <2> SUFFICES ASSUME NEW b \in 1..Bins PROVE counts[b] = SumOver(ones, Binned(bin, D, b))
    OBVIOUS
  <2> DEFINE W == Binned(bin, D, b)
  <2>1. W \in SUBSET (0..m) /\ W \in SUBSET D
    BY DEF Binned
  <2>2. \A i \in W : ones[i] = 1
    BY <2>1
  <2>3. counts[b] = Cardinality(W)
    BY <1>3
  <2> HIDE DEF W, ones, counts
  <2>0. 1 \in Int
    OBVIOUS
  <2>4. SumOver(ones, W) = 1 * Cardinality(W) /\ Cardinality(W) \in Nat
    BY <2>0, <2>1, <2>2, SumOfConstant
  <2>5. counts[b] = SumOver(ones, W)
    BY <2>3, <2>4
  <2> QED BY <2>5 DEF W
<1>8. \A b \in 1..Bins : predicted[b] = SumOver(pr, Binned(bin, D, b))
  BY <1>3
<1>9. \A b \in 1..Bins : observed[b] = SumOver(lb, Binned(bin, D, b))
  BY <1>3
<1>10. \A b \in 1..Bins : amounts[b] = Max({predicted[b] - observed[b], observed[b] - predicted[b]})
  OBVIOUS
<1>11. \A i \in D : ones[i] = 1
  OBVIOUS
<1>12. (\A b \in 1..Bins : rows[b].predicted = rows[b].observed) => \A b \in 1..Bins : predicted[b] = observed[b]
  OBVIOUS
<1> HIDE DEF D, bin, ones, counts, predicted, observed, amounts, rows
<1>13. SumOver(counts, 1..Bins) = m
  <2>1. SumOver(counts, 1..Bins) = SumOver(ones, D) /\ Summable(counts, 1..Bins, Bins)
    BY <1>0, <1>1, <1>6, <1>7, SumByBins
  <2>0. 1 \in Int
    OBVIOUS
  <2>2. SumOver(ones, D) = 1 * Cardinality(D) /\ Cardinality(D) \in Nat
    BY <1>5, <1>11, <2>0, SumOfConstant
  <2>3. Cardinality(1..m) = m
    <3>1. Cardinality(1..m) = IF 1 > m THEN 0 ELSE m - 1 + 1
      BY FS_Interval
    <3> QED BY <3>1
  <2>4. Cardinality(D) = m
    BY <2>3 DEF D
  <2> QED BY <2>1, <2>2, <2>4
<1>14. /\ SumOver(predicted, 1..Bins) = SumOver(pr, D) /\ Summable(predicted, 1..Bins, Bins)
       /\ SumOver(observed, 1..Bins) = SumOver(lb, D) /\ Summable(observed, 1..Bins, Bins)
  <2>1. SumOver(predicted, 1..Bins) = SumOver(pr, D) /\ Summable(predicted, 1..Bins, Bins)
    BY <1>0, <1>1, <1>6, <1>8, SumByBins
  <2>2. SumOver(observed, 1..Bins) = SumOver(lb, D) /\ Summable(observed, 1..Bins, Bins)
    BY <1>0, <1>1, <1>6, <1>9, SumByBins
  <2> QED BY <2>1, <2>2
<1>15. \A b \in 1..Bins : predicted[b] \in Int /\ observed[b] \in Int
  BY <1>14 DEF Summable
<1>16. \A b \in 1..Bins : /\ amounts[b] \in Int
                          /\ predicted[b] - observed[b] <= amounts[b]
                          /\ observed[b] - predicted[b] <= amounts[b]
                          /\ predicted[b] = observed[b] => amounts[b] = 0
  BY <1>10, <1>15, AmountOf
<1>17. Summable(amounts, 1..Bins, Bins)
  BY <1>5, <1>16 DEF Summable
<1>18. LET gap == SumOver(pr, D) - SumOver(lb, D)
       IN  gap \in Int /\ gap <= SumOver(amounts, 1..Bins) /\ 0 - gap <= SumOver(amounts, 1..Bins)
  <2> DEFINE over == [b \in 1..Bins |-> predicted[b] - observed[b]]
             under == [b \in 1..Bins |-> observed[b] - predicted[b]]
  <2>1. (\A b \in 1..Bins : over[b] = predicted[b] - observed[b]) /\ (\A b \in 1..Bins : under[b] = observed[b] - predicted[b])
    OBVIOUS
  <2>2. Summable(over, 1..Bins, Bins) /\ Summable(under, 1..Bins, Bins)
    BY <1>5, <1>15 DEF Summable
  <2> HIDE DEF over, under
  <2>3. SumOver(over, 1..Bins) = SumOver(predicted, 1..Bins) - SumOver(observed, 1..Bins)
    BY <1>0, <1>14, <2>1, SumOfLess
  <2>4. SumOver(under, 1..Bins) = SumOver(observed, 1..Bins) - SumOver(predicted, 1..Bins)
    BY <1>0, <1>14, <2>1, SumOfLess
  <2>5. SumOver(over, 1..Bins) <= SumOver(amounts, 1..Bins)
    BY <1>0, <1>16, <1>17, <2>1, <2>2, SumAtMost
  <2>6. SumOver(under, 1..Bins) <= SumOver(amounts, 1..Bins)
    BY <1>0, <1>16, <1>17, <2>1, <2>2, SumAtMost
  <2>7. SumOver(pr, D) \in Int /\ SumOver(lb, D) \in Int
    BY <1>6, SumIsInt
  <2> QED BY <1>14, <2>3, <2>4, <2>5, <2>6, <2>7
<1>19. CalibrationError(pr, lb) >= Max({SumOver(pr, D) - SumOver(lb, D), 0 - (SumOver(pr, D) - SumOver(lb, D))})
  <2> DEFINE gap == SumOver(pr, D) - SumOver(lb, D)
             all == SumOver(amounts, 1..Bins)
  <2>1. gap \in Int /\ gap <= all /\ 0 - gap <= all /\ all \in Int
    BY <1>0, <1>17, <1>18, SumIsInt
  <2> HIDE DEF gap, all
  <2>2. Max({gap, 0 - gap}) = IF gap >= 0 - gap THEN gap ELSE 0 - gap
    BY <2>1, OfTwo
  <2>3. all >= Max({gap, 0 - gap})
    BY <2>1, <2>2
  <2> QED BY <1>4, <2>3 DEF gap, all
<1>20. (\A b \in 1..Bins : predicted[b] = observed[b]) => CalibrationError(pr, lb) = 0
  <2> SUFFICES ASSUME \A b \in 1..Bins : predicted[b] = observed[b] PROVE CalibrationError(pr, lb) = 0
    OBVIOUS
  <2>1. \A b \in 1..Bins : amounts[b] = 0
    BY <1>16
  <2>0. 0 \in Int
    OBVIOUS
  <2>2. SumOver(amounts, 1..Bins) = 0 * Cardinality(1..Bins) /\ Cardinality(1..Bins) \in Nat
    BY <1>0, <1>5, <2>0, <2>1, SumOfConstant
  <2> QED BY <1>4, <2>2
<1> QED BY <1>12, <1>13, <1>19, <1>20 DEF D, rows, counts

\* The classes that occur, and those of them that get a map.
Occurring == {d \in Defects : Examples(d) # {}}
Chosen    == {d \in Occurring : Enough(d)}

PointsOf(class) == Points(triples, DOMAIN triples, class)

\* What fit() has left.
FitInv ==
    \/ fitted = Unfitted
    \/ fitted = [kind |-> "raised"]
    \/ /\ triples # <<>>
       /\ fitted = [kind |-> "classes", maps |-> [d \in Chosen |-> Isotonic(PointsOf(d))],
                    skipped |-> Occurring \ Chosen]

LabelsOf(class) == [i \in DOMAIN triples |-> IF Positive(triples[i], class) THEN Unit ELSE 0]

\* A report on folds of which none leaves a class out.
IsReport(o, class, split) ==
    /\ split \in Splits(class)
    /\ \A k \in 1..Folds : TrainedOn(split, k) # {}
    /\ o.class = class /\ o.split = split
    /\ o.probabilities = OutOfFold(triples, split, class) /\ o.labels = LabelsOf(class)
    /\ o.rows = ReliabilityCurve(o.probabilities, o.labels)
    /\ o.error = CalibrationError(o.probabilities, o.labels)

\* What was done with it.
OutcomeInv ==
    \/ outcome = Unfitted
    \/ outcome = [kind |-> "raised"]
    \/ /\ fitted.kind = "classes"
       /\ outcome = [kind |-> "loaded", maps |-> [d \in DOMAIN fitted.maps |-> Isotonic(Knots(fitted.maps[d]))],
                     skipped |-> fitted.skipped]
    \/ outcome.kind = "report" /\ \E class, split : IsReport(outcome, class, split)

CalInv == AreItems(triples) /\ FitInv /\ OutcomeInv

\* Nothing is generated at first.
LEMMA CalibrationBegins == CalibrationInit => CalInv
<1> SUFFICES ASSUME CalibrationInit PROVE CalInv
  OBVIOUS
<1>1. MaxItems \in Nat
  BY CalibrationAssumption
<1>2. AreItems(<<>>)
  BY <1>1 DEF AreItems
<1> QED BY <1>2 DEF CalibrationInit, CalInv, FitInv, OutcomeInv

\* A triple is generated before there is anything else.
LEMMA GenerateKeeps == ASSUME CalInv, GenerateTriple PROVE CalInv'
<1>1. fitted' = Unfitted /\ outcome' = Unfitted /\ Len(triples) < MaxItems
  BY DEF GenerateTriple
<1>2. PICK score \in Readings, defect \in {Clean} \cup Defects :
        triples' = Append(triples, [score |-> score, defect |-> defect])
  BY DEF GenerateTriple
<1> DEFINE item == [score |-> score, defect |-> defect]
<1>3. item \in Items
  BY DEF Items
<1> HIDE DEF item
<1>4. triples' = Append(triples, item)
  BY <1>2 DEF item
<1>5. triples \in Seq(Items) /\ MaxItems \in Nat
  BY CalibrationAssumption DEF CalInv, AreItems
<1>6. triples' \in Seq(Items) /\ Len(triples') = Len(triples) + 1 /\ Len(triples) \in Nat
  BY <1>3, <1>4, <1>5, AppendProperties
<1>7. AreItems(triples')
  BY <1>1, <1>5, <1>6 DEF AreItems
<1> QED BY <1>1, <1>7 DEF CalInv, FitInv, OutcomeInv, AreItems

\* fit() is done once.
LEMMA FitKeeps == ASSUME CalInv, FitClasses PROVE CalInv'
<1>1. triples' = triples /\ outcome' = Unfitted /\ triples # <<>>
  BY DEF FitClasses
<1>2. AreItems(triples)'
  BY <1>1 DEF CalInv, AreItems
<1>3. Chosen' = Chosen /\ Occurring' = Occurring /\ \A d : (PointsOf(d))' = PointsOf(d)
  BY <1>1 DEF Chosen, Occurring, Enough, Examples, PointsOf
<1>4. \/ fitted' = [kind |-> "raised"]
      \/ fitted' = [kind |-> "classes", maps |-> [d \in Chosen |-> Isotonic(PointsOf(d))],
                    skipped |-> Occurring \ Chosen]
  BY DEF FitClasses, Chosen, Occurring, PointsOf
<1>5. FitInv'
  BY <1>1, <1>3, <1>4 DEF FitInv
<1>6. OutcomeInv'
  BY <1>1 DEF OutcomeInv
<1> QED BY <1>2, <1>5, <1>6 DEF CalInv

\* So is load().
LEMMA ReloadKeeps == ASSUME CalInv, Reload PROVE CalInv'
<1>1. triples' = triples /\ fitted' = fitted
  BY DEF Reload
<1>2. AreItems(triples)'
  BY <1>1 DEF CalInv, AreItems
<1>3. FitInv'
  BY <1>1 DEF CalInv, FitInv, Chosen, Occurring, Enough, Examples, PointsOf
<1>4. OutcomeInv'
  BY <1>1 DEF Reload, OutcomeInv
<1> QED BY <1>2, <1>3, <1>4 DEF CalInv

\* What is reported is reported of folds that could be fitted.
LEMMA CrossFitKeeps == ASSUME CalInv, CrossFit PROVE CalInv'
<1>1. triples' = triples /\ fitted' = fitted
  BY DEF CrossFit
<1>2. AreItems(triples)'
  BY <1>1 DEF CalInv, AreItems
<1>3. FitInv'
  BY <1>1 DEF CalInv, FitInv, Chosen, Occurring, Enough, Examples, PointsOf
<1>4. PICK class, split :
        /\ split \in Splits(class)
        /\ \/ outcome' = [kind |-> "raised"]
           \/ /\ \A k \in 1..Folds : BothClasses(Points(triples, TrainedOn(split, k), class))
              /\ \E invisible : outcome' =
                    [kind |-> "report", class |-> class, split |-> split,
                     probabilities |-> OutOfFold(triples, split, class), labels |-> LabelsOf(class),
                     rows |-> ReliabilityCurve(OutOfFold(triples, split, class), LabelsOf(class)),
                     error |-> CalibrationError(OutOfFold(triples, split, class), LabelsOf(class)),
                     invisible |-> invisible]
  BY DEF CrossFit, LabelsOf
<1>5. CASE outcome' = [kind |-> "raised"]
  BY <1>2, <1>3, <1>5 DEF CalInv, OutcomeInv
<1>6. CASE /\ \A k \in 1..Folds : BothClasses(Points(triples, TrainedOn(split, k), class))
           /\ \E invisible : outcome' =
                    [kind |-> "report", class |-> class, split |-> split,
                     probabilities |-> OutOfFold(triples, split, class), labels |-> LabelsOf(class),
                     rows |-> ReliabilityCurve(OutOfFold(triples, split, class), LabelsOf(class)),
                     error |-> CalibrationError(OutOfFold(triples, split, class), LabelsOf(class)),
                     invisible |-> invisible]
  <2>1. \A k \in 1..Folds : TrainedOn(split, k) # {}
    <3> SUFFICES ASSUME NEW k \in 1..Folds, TrainedOn(split, k) = {} PROVE FALSE
      OBVIOUS
    <3>1. BothClasses(Points(triples, TrainedOn(split, k), class))
      BY <1>6
    <3>2. DOMAIN Points(triples, TrainedOn(split, k), class) = {}
      BY DEF Points
    <3> HIDE DEF TrainedOn
    <3> QED BY <3>1, <3>2 DEF BothClasses
  <2> DEFINE pr == OutOfFold(triples, split, class)
             lb == LabelsOf(class)
  <2>2. PICK invisible : outcome' = [kind |-> "report", class |-> class, split |-> split,
                     probabilities |-> pr, labels |-> lb,
                     rows |-> ReliabilityCurve(pr, lb), error |-> CalibrationError(pr, lb),
                     invisible |-> invisible]
    BY <1>6
  <2>3. (split \in Splits(class))' /\ (\A k \in 1..Folds : TrainedOn(split, k) # {})'
    BY <1>1, <1>4, <2>1 DEF Splits, TrainedOn
  <2>4. pr' = pr /\ lb' = lb
    BY <1>1 DEF OutOfFold, LabelsOf
  <2> HIDE DEF pr, lb
  <2>5. /\ outcome'.kind = "report" /\ outcome'.class = class /\ outcome'.split = split
        /\ outcome'.probabilities = pr /\ outcome'.labels = lb
        /\ outcome'.rows = ReliabilityCurve(pr, lb) /\ outcome'.error = CalibrationError(pr, lb)
    BY <2>2
  <2>6. IsReport(outcome, class, split)'
    <3>1. (OutOfFold(triples, split, class))' = pr /\ (LabelsOf(class))' = lb
      BY <2>4 DEF pr, lb
    <3> QED BY <2>3, <2>5, <3>1 DEF IsReport
  <2>7. OutcomeInv'
    BY <2>5, <2>6 DEF OutcomeInv
  <2> QED BY <1>2, <1>3, <2>7 DEF CalInv
<1> QED BY <1>4, <1>5, <1>6

\* Every step keeps what there is.
LEMMA CalibrationStepKeeps == CalInv /\ [CalibrationNext]_calibrationVars => CalInv'
<1>1. ASSUME CalInv, UNCHANGED calibrationVars PROVE CalInv'
  <2>1. triples' = triples /\ fitted' = fitted /\ outcome' = outcome
    BY <1>1 DEF calibrationVars
  <2>2. AreItems(triples)'
    BY <1>1, <2>1 DEF CalInv, AreItems
  <2>3. FitInv'
    BY <1>1, <2>1 DEF CalInv, FitInv, Chosen, Occurring, Enough, Examples, PointsOf
  <2>5. ASSUME NEW class, NEW split, IsReport(outcome, class, split) PROVE IsReport(outcome, class, split)'
    <3>1. (Splits(class))' = Splits(class) /\ (LabelsOf(class))' = LabelsOf(class)
      BY <2>1 DEF Splits, LabelsOf
    <3>2. (OutOfFold(triples, split, class))' = OutOfFold(triples, split, class)
      BY <2>1
    <3> QED BY <2>1, <2>5, <3>1, <3>2 DEF IsReport
  <2>6. OutcomeInv'
    BY <1>1, <2>1, <2>5 DEF CalInv, OutcomeInv
  <2> QED BY <2>2, <2>3, <2>6 DEF CalInv
<1> QED BY <1>1, GenerateKeeps, FitKeeps, ReloadKeeps, CrossFitKeeps DEF CalibrationNext


\* Of what there is, there is a first.
LEMMA SomeItems ==
    ASSUME NEW s, AreItems(s), s # <<>>
    PROVE  DOMAIN s = 1..Len(s) /\ Len(s) \in Nat /\ DOMAIN s # {}
<1>1. s \in Seq(Items) /\ DOMAIN s = 1..Len(s) /\ Len(s) \in Nat
  BY DEF AreItems
<1>2. Len(s) # 0
  BY <1>1, EmptySeq
<1>3. 1 \in 1..Len(s)
  BY <1>1, <1>2
<1> QED BY <1>1, <1>3

\* What is loaded is what was fitted.
LEMMA LoadedIsSame == CalInv => ReloadedIsTheSame
<1> SUFFICES ASSUME CalInv, outcome.kind = "loaded"
             PROVE  /\ DOMAIN outcome.maps = DOMAIN fitted.maps
                    /\ \A d \in DOMAIN outcome.maps : outcome.maps[d] = fitted.maps[d]
  BY DEF ReloadedIsTheSame
<1>1. /\ fitted.kind = "classes"
      /\ outcome = [kind |-> "loaded", maps |-> [d \in DOMAIN fitted.maps |-> Isotonic(Knots(fitted.maps[d]))],
                    skipped |-> fitted.skipped]
  BY DEF CalInv, OutcomeInv, Unfitted
<1>2. triples # <<>> /\ fitted.maps = [d \in Chosen |-> Isotonic(PointsOf(d))]
  BY <1>1 DEF CalInv, FitInv, Unfitted
<1>3. AreItems(triples) /\ DOMAIN triples # {}
  BY <1>2, SomeItems DEF CalInv
<1>4. PICK n \in Nat : MaxItems <= n /\ Readings \in SUBSET (0..n)
  BY ReadingsAreBounded
<1>5. \A d : ArePoints(PointsOf(d), n)
  BY <1>3, <1>4, PointsOfItems DEF PointsOf
<1>6. \A d \in DOMAIN fitted.maps : Isotonic(Knots(fitted.maps[d])) = fitted.maps[d]
  <2> SUFFICES ASSUME NEW d \in Chosen PROVE Isotonic(Knots(Isotonic(PointsOf(d)))) = Isotonic(PointsOf(d))
    BY <1>2
  <2> QED BY <1>5, SavedIsSame
<1> QED BY <1>1, <1>6

\* What is fitted never falls, and says of its own items what happened.
LEMMA FittedIsHonest == CalInv => MapsAreHonest
<1> SUFFICES ASSUME CalInv, fitted.kind = "classes", NEW d \in DOMAIN fitted.maps
             PROVE  LET At(raw)  == CalibrateOne(fitted.maps[d], raw)
                        inSample == [i \in DOMAIN triples |-> At(triples[i].score)]
                        labels   == [i \in DOMAIN triples |-> IF Positive(triples[i], d) THEN Unit ELSE 0]
                    IN  /\ \A raw \in 0..Max(Readings) : At(raw) <= At(raw + 1) /\ At(raw) \in 0..Unit
                        /\ CalibrationError(inSample, labels) = 0
  BY DEF MapsAreHonest
<1> DEFINE p == PointsOf(d)
           c == Thinned(Pooled(p))
           fit == [i \in DOMAIN triples |-> CalibrateOne(c, triples[i].score)]
           labels == LabelsOf(d)
<1>1. triples # <<>> /\ fitted.maps = [e \in Chosen |-> Isotonic(PointsOf(e))]
  BY DEF CalInv, FitInv, Unfitted
<1>2. fitted.maps[d] = c
  BY <1>1, IsotonicIsThinned
<1>3. AreItems(triples) /\ DOMAIN triples # {} /\ DOMAIN triples = 1..Len(triples) /\ Len(triples) \in Nat
  BY <1>1, SomeItems DEF CalInv
<1>4. PICK n \in Nat : MaxItems <= n /\ Readings \in SUBSET (0..n)
  BY ReadingsAreBounded
<1>5. ArePoints(p, n) /\ Exact(p)
  BY <1>3, <1>4, PointsOfItems DEF PointsOf
<1>6. DOMAIN p = DOMAIN triples /\ \A i \in DOMAIN triples : p[i].x = triples[i].score /\ p[i].y = labels[i]
  BY DEF PointsOf, Points, LabelsOf
<1>7. IsCurve(Pooled(p), n) /\ DOMAIN Pooled(p) = Xs(p)
  BY <1>5, PooledIsCurve
<1>8. IsCurve(c, n) /\ \A x \in Xs(p) : CalibrateOne(c, x) = Pooled(p)[x]
  BY <1>7, ThinnedIsCurve
<1>9. \A i \in DOMAIN triples : labels[i] \in 0..Unit
  <2>1. Unit \in Nat
    BY CalibrationAssumption
  <2> QED BY <2>1 DEF LabelsOf
<1> HIDE DEF p, c, labels
<1>10. Unit \in Nat /\ Max(Readings) \in Nat /\ Bins \in Nat
  BY CalibrationAssumption, ReadingsAreBounded
<1>11. ASSUME NEW raw \in 0..Max(Readings)
       PROVE  CalibrateOne(c, raw) <= CalibrateOne(c, raw + 1) /\ CalibrateOne(c, raw) \in 0..Unit
  <2>1. raw \in Nat
    BY <1>10
  <2> QED BY <1>4, <1>8, <2>1, CalibratedGrows, CalibratedIsBetween
<1>12. \A i \in DOMAIN triples : fit[i] = Pooled(p)[p[i].x] /\ fit[i] \in 0..Unit
  <2> SUFFICES ASSUME NEW i \in DOMAIN triples PROVE fit[i] = Pooled(p)[p[i].x] /\ fit[i] \in 0..Unit
    OBVIOUS
  <2>1. p[i].x \in Xs(p)
    BY <1>6 DEF Xs
  <2>2. fit[i] = CalibrateOne(c, p[i].x)
    BY <1>6
  <2>3. Pooled(p)[p[i].x] \in 0..Unit
    BY <1>4, <1>5, <2>1, PooledAt
  <2> HIDE DEF fit
  <2> QED BY <1>8, <2>1, <2>2, <2>3
<1>13. DOMAIN fit = DOMAIN triples
  OBVIOUS
<1> DEFINE rows == ReliabilityCurve(fit, labels)
<1>14. \A b \in 1..Bins : rows[b].predicted = rows[b].observed
  <2> SUFFICES ASSUME NEW b \in 1..Bins PROVE rows[b].predicted = rows[b].observed
    OBVIOUS
  <2> HIDE DEF fit
  <2> DEFINE D == {i \in DOMAIN fit : BinOf(fit[i]) = b}
  <2>1. rows[b].predicted = SumOver(fit, D) /\ rows[b].observed = SumOver(labels, D)
    BY DEF ReliabilityCurve
  <2>2. D \in SUBSET DOMAIN p
    BY <1>6, <1>13
  <2>3. \A i \in D, j \in DOMAIN p : Pooled(p)[p[i].x] = Pooled(p)[p[j].x] => j \in D
    BY <1>6, <1>12, <1>13
  <2>4. (\A i \in D : fit[i] = Pooled(p)[p[i].x]) /\ (\A i \in D : labels[i] = p[i].y)
    BY <1>6, <1>12, <1>13
  <2> HIDE DEF D, rows
  <2>5. SumOver(fit, D) = SumOver(labels, D)
    BY <1>4, <1>5, <2>2, <2>3, <2>4, FittedAddsUp
  <2> QED BY <2>1, <2>5
<1>15. CalibrationError(fit, labels) = 0
  <2> DEFINE m == Len(triples)
  <2>1. m \in Nat /\ DOMAIN fit = 1..m /\ \A i \in 1..m : fit[i] \in 0..Unit /\ labels[i] \in 0..Unit
    BY <1>3, <1>9, <1>12, <1>13
  <2> HIDE DEF fit, m
  <2>2. (\A b \in 1..Bins : ReliabilityCurve(fit, labels)[b].predicted = ReliabilityCurve(fit, labels)[b].observed)
          => CalibrationError(fit, labels) = 0
    BY <2>1, ReportAddsUp
  <2> QED BY <1>14, <2>2
<1>16. \A raw \in 0..Max(Readings) : /\ CalibrateOne(fitted.maps[d], raw) <= CalibrateOne(fitted.maps[d], raw + 1)
                                     /\ CalibrateOne(fitted.maps[d], raw) \in 0..Unit
  BY <1>2, <1>11
<1>17. fit = [i \in DOMAIN triples |-> CalibrateOne(fitted.maps[d], triples[i].score)]
  BY <1>2
<1>18. labels = [i \in DOMAIN triples |-> IF Positive(triples[i], d) THEN Unit ELSE 0]
  BY DEF labels, LabelsOf
<1> HIDE DEF fit
<1> QED BY <1>15, <1>16, <1>17, <1>18

\* A class is fitted, skipped or absent, by its number of examples.
LEMMA SkippedIsNamed == CalInv => SkippedIsSaid
<1> SUFFICES ASSUME CalInv, fitted.kind = "classes", NEW d \in Defects
             PROVE  LET n == Cardinality({i \in DOMAIN triples : triples[i].defect = d})
                    IN  /\ d \in DOMAIN fitted.maps <=> n >= MinPositives
                        /\ d \in fitted.skipped <=> n \in 1..(MinPositives - 1)
  BY DEF SkippedIsSaid
<1> DEFINE I == {i \in DOMAIN triples : triples[i].defect = d}
           n == Cardinality(I)
<1>1. fitted = [kind |-> "classes", maps |-> [e \in Chosen |-> Isotonic(PointsOf(e))],
                skipped |-> Occurring \ Chosen]
  BY DEF CalInv, FitInv, Unfitted
<1>2. DOMAIN fitted.maps = Chosen /\ fitted.skipped = Occurring \ Chosen
  BY <1>1
<1>3. Examples(d) = I
  BY DEF Examples, Positive, Defects, Whole
<1>4. MinPositives \in Nat \ {0}
  BY CalibrationAssumption
<1>5. IsFiniteSet(I)
  <2>1. DOMAIN triples = 1..Len(triples) /\ Len(triples) \in Nat
    BY DEF CalInv, AreItems
  <2>2. I \in SUBSET (0..Len(triples))
    BY <2>1
  <2> HIDE DEF I
  <2> QED BY <2>1, <2>2, SumOfOnes
<1> HIDE DEF I
<1>6. n \in Nat /\ (n = 0 <=> I = {})
  BY <1>5, FS_CardinalityType, FS_EmptySet
<1>7. (d \in Chosen <=> I # {} /\ n >= MinPositives) /\ (d \in Occurring <=> I # {})
  BY <1>3 DEF Chosen, Occurring, Enough
<1> HIDE DEF n
<1>8. (d \in DOMAIN fitted.maps <=> n >= MinPositives) /\ (d \in fitted.skipped <=> n \in 1..(MinPositives - 1))
  BY <1>2, <1>4, <1>6, <1>7
<1> QED BY <1>8 DEF n, I

\* An item is scored by a map that did not see it.
LEMMA OwnIsUnseen == CalInv => OwnLabelIsUnseen
<1> SUFFICES ASSUME CalInv, outcome.kind = "report", NEW i \in DOMAIN triples, NEW other
             PROVE  OutOfFold([triples EXCEPT ![i].defect = other], outcome.split, outcome.class)[i]
                      = outcome.probabilities[i]
  BY DEF OwnLabelIsUnseen
<1>1. PICK class, split : IsReport(outcome, class, split)
  BY DEF CalInv, OutcomeInv, Unfitted
<1> DEFINE turned == [triples EXCEPT ![i].defect = other]
           I == TrainedOn(split, split[i])
<1>2. outcome.class = class /\ outcome.split = split /\ outcome.probabilities = OutOfFold(triples, split, class)
  BY <1>1 DEF IsReport
<1>3. i \notin I
  BY DEF TrainedOn
<1>4. DOMAIN turned = DOMAIN triples /\ turned[i].score = triples[i].score
  <2>1. triples[i] \in Items
    BY DEF CalInv, AreItems
  <2>2. turned[i] = [triples[i] EXCEPT !.defect = other]
    OBVIOUS
  <2> QED BY <2>1, <2>2 DEF Items
<1>5. \A j \in I : turned[j] = triples[j]
  <2>1. I \in SUBSET DOMAIN triples
    BY <1>1 DEF IsReport, Splits, TrainedOn
  <2> QED BY <1>3, <2>1
<1> HIDE DEF turned, I
<1>6. Points(turned, I, class) = Points(triples, I, class)
  BY <1>5 DEF Points
<1>7. OutOfFold(turned, split, class)[i] = CalibrateOne(Isotonic(Points(turned, I, class)), turned[i].score)
  BY <1>4 DEF OutOfFold, I
<1>8. OutOfFold(triples, split, class)[i] = CalibrateOne(Isotonic(Points(triples, I, class)), triples[i].score)
  BY DEF OutOfFold, I
<1>9. OutOfFold(turned, split, class)[i] = OutOfFold(triples, split, class)[i]
  BY <1>4, <1>6, <1>7, <1>8
<1> QED BY <1>2, <1>9 DEF turned

\* The report leaves nothing out, and does not make itself look better.
LEMMA ReportIsWhole == CalInv => ReportCoversAll
<1> SUFFICES ASSUME CalInv, outcome.kind = "report" PROVE ReportCoversAll
  BY DEF ReportCoversAll
<1>1. PICK class, split : IsReport(outcome, class, split)
  BY DEF CalInv, OutcomeInv, Unfitted
<1> DEFINE pr == OutOfFold(triples, split, class)
           lb == LabelsOf(class)
<1>2. AreItems(triples) /\ DOMAIN triples = 1..Len(triples) /\ Len(triples) \in Nat
  BY DEF CalInv, AreItems
<1>3. PICK n \in Nat : MaxItems <= n /\ Readings \in SUBSET (0..n)
  BY ReadingsAreBounded
<1>4. Unit \in Nat
  BY CalibrationAssumption
<1>5. \A i \in DOMAIN triples : pr[i] \in 0..Unit
  <2> SUFFICES ASSUME NEW i \in DOMAIN triples PROVE pr[i] \in 0..Unit
    OBVIOUS
  <2> DEFINE I == TrainedOn(split, split[i])
             p == Points(triples, I, class)
             c == Isotonic(p)
  <2>1. split[i] \in 1..Folds /\ DOMAIN split = DOMAIN triples
    BY <1>1 DEF IsReport, Splits
  <2>2. I # {} /\ I \in SUBSET DOMAIN triples
    BY <1>1, <2>1 DEF IsReport, TrainedOn
  <2>3. pr[i] = CalibrateOne(c, triples[i].score)
    BY DEF OutOfFold
  <2> HIDE DEF I
  <2>4. ArePoints(p, n)
    BY <1>2, <1>3, <2>2, PointsOfItems
  <2> HIDE DEF p
  <2>5. IsCurve(c, n)
    BY <2>4, PooledIsCurve, ThinnedIsCurve, IsotonicIsThinned
  <2>6. triples[i].score \in Nat
    <3>1. triples[i] \in Items
      BY <1>2 DEF AreItems
    <3>2. triples[i].score \in Readings
      BY <3>1 DEF Items
    <3>3. triples[i].score \in 0..n
      BY <1>3, <3>2
    <3> QED BY <3>3
  <2> HIDE DEF c, pr
  <2> QED BY <2>3, <2>5, <2>6, CalibratedIsBetween
<1>6. \A i \in DOMAIN triples : lb[i] \in 0..Unit
  BY <1>4 DEF LabelsOf
<1>7. DOMAIN pr = DOMAIN triples
  BY DEF OutOfFold
<1>8. /\ outcome.probabilities = pr /\ outcome.labels = lb
      /\ outcome.rows = ReliabilityCurve(pr, lb) /\ outcome.error = CalibrationError(pr, lb)
  BY <1>1 DEF IsReport
<1> HIDE DEF pr, lb
<1>9. LET rows == ReliabilityCurve(pr, lb)
          gap == SumOver(pr, 1..Len(triples)) - SumOver(lb, 1..Len(triples))
      IN  /\ SumOver([b \in 1..Bins |-> rows[b].count], 1..Bins) = Len(triples)
          /\ CalibrationError(pr, lb) >= Max({gap, 0 - gap})
  <2> DEFINE m == Len(triples)
  <2>1. DOMAIN triples = 1..m /\ m \in Nat
    BY <1>2
  <2>2. DOMAIN pr = 1..m
    BY <1>7, <2>1
  <2>3. \A i \in 1..m : pr[i] \in 0..Unit /\ lb[i] \in 0..Unit
    BY <1>5, <1>6, <2>1
  <2> HIDE DEF m
  <2>4. LET rows == ReliabilityCurve(pr, lb)
            gap == SumOver(pr, 1..m) - SumOver(lb, 1..m)
        IN  /\ SumOver([b \in 1..Bins |-> rows[b].count], 1..Bins) = m
            /\ CalibrationError(pr, lb) >= Max({gap, 0 - gap})
    BY <2>1, <2>2, <2>3, ReportAddsUp
  <2> QED BY <2>4 DEF m
<1> QED BY <1>2, <1>8, <1>9 DEF ReportCoversAll

\* However many items, classes, folds and bins: a saved map is loaded as it was
\* measured, a map never falls and is right on the whole about what it was fitted
\* to, classes with too few examples are named, no item's own label is in its
\* score, and the report's bins hold everything.
THEOREM CalibrationStaysHonest == CalibrationInit /\ [][CalibrationNext]_calibrationVars => []CalibrationIsHonest
<1>1. CalInv => CalibrationIsHonest
  BY LoadedIsSame, FittedIsHonest, SkippedIsNamed, OwnIsUnseen, ReportIsWhole DEF CalibrationIsHonest
<1> QED BY <1>1, CalibrationBegins, CalibrationStepKeeps, PTL
=============================================================================
