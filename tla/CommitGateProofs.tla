-------------------------- MODULE CommitGateProofs --------------------------
(***************************************************************************)
(* Proofs about CommitGate: for every bound on the number of sentences and *)
(* of repair attempts, with or without a repair callback, with or without  *)
(* a caller of escalate(), the gate keeps its safety properties.           *)
(*                                                                         *)
(* The argument: evaluations are started in the order of the sentences and *)
(* the one in flight is always the last one started (Positions), so what   *)
(* was sent, decided or skipped earlier lies strictly before it (Settled,  *)
(* Sent); a repair keeps the sentence it is about settled as L2_repair     *)
(* until it releases it (Repairs); and unbuffered mode neither repairs nor *)
(* releases (Unbuffered).  Modes says which states a mode can be in.       *)
(*                                                                         *)
(* What the reader gets rests on the same invariant.  That a finished      *)
(* answer is complete needs two facts more: a sentence that is no longer   *)
(* in flight was sent or has a decision that excuses its absence           *)
(* (Answered), and an answer that ended without a blocking verdict ended   *)
(* in finish() (EndedByFinish).  That the gate implements CommitPromise,   *)
(* as long as nobody calls escalate(), is proved step by step at the end.  *)
(***************************************************************************)
EXTENDS CommitGate, TLAPS, SequenceTheorems, FiniteSetTheorems

-----------------------------------------------------------------------------
(* The inductive invariant                                                  *)

InLoop == pc = "loop" \/ (pc = "repair" /\ back = "loop")

\* Evaluations are started in order; the last one started is the one pending.
Positions ==
    /\ started + todo <= closed
    /\ closed + (IF open THEN 1 ELSE 0) <= MaxSentences
    /\ (~buffered \/ state # "TERMINATED") => started + todo = closed
    /\ todo > 0 => InLoop
    /\ pending \in {0, started} /\ (pending = 0 <=> task = "none")
    /\ repairing \in {0, started} /\ (repairing = 0 <=> pc # "repair")
    /\ repairing # 0 => pending = 0

\* Which control states go with which mode, and where TERMINATED is final.
Modes ==
    /\ lane => buffered
    /\ InLoop => buffered
    /\ pc = "repair" <=> state = "REPAIRING"
    /\ (state = "TERMINATED" /\ (buffered \/ pc \in {"drain", "settle"})) => pending = 0
    /\ pc = "settle" => ~open
    /\ (pc = "repair" /\ back = "settle") => ~open
    /\ Blocked => state = "TERMINATED"

\* In unbuffered mode the bytes are out and nothing is held or sent again.
Unbuffered ==
    /\ ~buffered => /\ rawTo = closed + (IF open THEN 1 ELSE 0)
                    /\ released = <<>>
                    /\ pc # "repair"
                    /\ pending # 0 => early
    /\ (early /\ task \in Actions) => task \in Verdicts(TRUE)
    /\ lane => rawTo = 0

\* Decisions come in the order of the sentences and never twice; a sentence
\* whose evaluation failed has none, and the one in flight neither.
Settled ==
    /\ \A j, k \in DOMAIN decisions : j < k => decisions[j].idx < decisions[k].idx
    /\ \A k \in DOMAIN decisions :
          /\ decisions[k].idx <= started
          /\ decisions[k].idx # pending
          /\ decisions[k].idx \notin skipped
    /\ \A i \in skipped : i <= started /\ i # pending
    /\ \A i \in (rawTo + 1)..started : i = pending \/ i \in Decided \cup skipped

\* A sentence in repair has been decided so, and has not been sent.
Repairs ==
    repairing # 0 =>
        /\ HasRepair
        /\ repairing \in Decided
        /\ \A d \in DOMAIN decisions :
              decisions[d].idx = repairing => decisions[d].action = "L2_repair"

\* What was sent lies before what is in flight or in repair.
Sent ==
    /\ \A j, k \in DOMAIN released : j < k => released[j].idx < released[k].idx
    /\ \A k \in DOMAIN released :
          /\ released[k].idx <= started
          /\ released[k].idx # repairing

IInv == /\ TypeOK /\ Positions /\ Modes /\ Unbuffered /\ Settled /\ Repairs /\ Sent
        /\ CommitBeforeEmit

-----------------------------------------------------------------------------
(* Lemmas                                                                   *)

\* What Append does to a sequence, index by index.
LEMMA Appended ==
    ASSUME NEW S, NEW s \in Seq(S), NEW e \in S
    PROVE  /\ Append(s, e) \in Seq(S)
           /\ DOMAIN Append(s, e) = DOMAIN s \cup {Len(s) + 1}
           /\ \A k \in DOMAIN s : k \in Nat /\ k < Len(s) + 1 /\ Append(s, e)[k] = s[k]
           /\ Append(s, e)[Len(s) + 1] = e
           /\ Len(s) + 1 \notin DOMAIN s
<1>1. /\ Append(s, e) \in Seq(S)
      /\ Len(Append(s, e)) = Len(s) + 1
      /\ \A k \in 1..Len(s) : Append(s, e)[k] = s[k]
      /\ Append(s, e)[Len(s) + 1] = e
  BY AppendProperties
<1>2. DOMAIN s = 1..Len(s) /\ Len(s) \in Nat
  BY LenProperties
<1>3. DOMAIN Append(s, e) = 1..(Len(s) + 1)
  BY <1>1, <1>2, LenProperties
<1> QED BY <1>1, <1>2, <1>3

LEMMA Entries ==
    ASSUME NEW S, NEW s \in Seq(S), NEW k \in DOMAIN s
    PROVE  s[k] \in S
BY ElementOfSeq, LenProperties

\* An increasing sequence of entries stays increasing when a later one follows.
LEMMA AppendedInOrder ==
    ASSUME NEW S, NEW s \in Seq(S), NEW e \in S,
           \A x \in S : x.idx \in Nat,
           \A j, k \in DOMAIN s : j < k => s[j].idx < s[k].idx,
           \A k \in DOMAIN s : s[k].idx < e.idx
    PROVE  \A j, k \in DOMAIN Append(s, e) :
              j < k => Append(s, e)[j].idx < Append(s, e)[k].idx
<1> SUFFICES ASSUME NEW j \in DOMAIN Append(s, e), NEW k \in DOMAIN Append(s, e), j < k
             PROVE  Append(s, e)[j].idx < Append(s, e)[k].idx
  OBVIOUS
<1>1. j \in DOMAIN s
  BY Appended, LenProperties
<1>2. CASE k \in DOMAIN s
  BY <1>1, <1>2, Appended
<1>3. CASE k = Len(s) + 1
  BY <1>1, <1>3, Appended
<1> QED BY <1>2, <1>3, Appended

LEMMA InitInvariant == Init => IInv
<1> SUFFICES ASSUME Init PROVE IInv
  OBVIOUS
<1> USE ConstantsAssumption
<1>1. DOMAIN decisions = {} /\ DOMAIN released = {}
  BY DEF Init
<1>2. TypeOK
  <2>1. /\ decisions \in Seq([idx : Sentences, action : Actions])
        /\ released \in Seq([idx : Sentences, how : {"original", "replaced"}])
    BY EmptySeq DEF Init
  <2>2. lane \in BOOLEAN /\ buffered \in BOOLEAN /\ open \in BOOLEAN /\ early \in BOOLEAN
    BY DEF Init
  <2>3. state \in States
    BY DEF Init, States
  <2>4. /\ closed \in 0..MaxSentences /\ started \in 0..MaxSentences
        /\ pending \in 0..MaxSentences /\ todo \in 0..MaxSentences
        /\ repairing \in 0..MaxSentences /\ rawTo \in 0..MaxSentences
        /\ attempts \in 0..(MaxRepairAttempts - 1)
    BY DEF Init
  <2>5. /\ task \in {"none", "running", "engine_error"} \cup Actions
        /\ skipped \subseteq Sentences
        /\ pc \in {"idle", "chunk", "loop", "drain", "settle", "repair"}
        /\ back \in {"chunk", "loop", "drain", "settle"}
    BY DEF Init
  <2> QED BY <2>1, <2>2, <2>3, <2>4, <2>5 DEF TypeOK
<1>3. Positions
  BY DEF Init, Positions, InLoop
<1>4. Modes
  BY <1>1 DEF Init, Modes, InLoop, Blocked
<1>5. Unbuffered
  BY DEF Init, Unbuffered, Verdicts, Actions
<1>6. Settled /\ Repairs /\ Sent /\ CommitBeforeEmit
  BY <1>1 DEF Init, Settled, Repairs, Sent, CommitBeforeEmit, Decided
<1> QED BY <1>2, <1>3, <1>4, <1>5, <1>6 DEF IInv

Decision == [idx : Sentences, action : Actions]
Piece    == [idx : Sentences, how : {"original", "replaced"}]

-----------------------------------------------------------------------------
(* Collecting a verdict, in any of the four places the code does it         *)

\* Where _collect_pending is called from, and where the coroutine is after it.
Collecting(v, next) ==
    /\ v \in Actions \cup Failures
    /\ task # "none"
    /\ (early /\ v \in Actions) => v \in Verdicts(TRUE)
    /\ \/ pc = "idle" /\ next = "chunk" /\ state # "TERMINATED"
       \/ pc \in {"loop", "drain", "settle"} /\ next = pc
    /\ Collect(v, next)

\* What the invariant says when a verdict is collected.
LEMMA CollectBegins ==
    ASSUME IInv, NEW v, NEW next, Collecting(v, next)
    PROVE  /\ pending \in Sentences /\ pending = started
           /\ state # "TERMINATED" /\ ~Blocked
           /\ pc # "repair" /\ repairing = 0
           /\ ~buffered => v \notin {"L2_repair", "L3_reroute"}
           /\ next \in {"chunk", "loop", "drain", "settle"}
           /\ next # "idle"
<1> USE DEF IInv, Collecting
<1>1. pending \in Sentences /\ pending = started
  BY ConstantsAssumption DEF TypeOK, Positions, Sentences
<1>2. state # "TERMINATED" /\ ~Blocked
  BY <1>1, ConstantsAssumption DEF Modes, InLoop, Sentences
<1>3. pc # "repair" /\ repairing = 0
  BY DEF Positions
<1>4. ~buffered => v \notin {"L2_repair", "L3_reroute"}
  BY <1>1 DEF Unbuffered, Verdicts, Actions, Failures, Sentences
<1> QED BY <1>1, <1>2, <1>3, <1>4

\* The verdict is entered in the list of decisions, or its sentence skipped.
LEMMA CollectLogs ==
    ASSUME IInv, NEW v, NEW next, Collecting(v, next)
    PROVE  /\ decisions' \in Seq(Decision)
           /\ skipped' \subseteq Sentences
           /\ \A k \in DOMAIN decisions' :
                 \/ k \in DOMAIN decisions /\ decisions'[k] = decisions[k]
                 \/ v \in Actions /\ decisions'[k] = [idx |-> pending, action |-> v]
           /\ Decided' = IF v \in Actions THEN Decided \cup {pending} ELSE Decided
           /\ skipped' = IF v \in Actions THEN skipped ELSE skipped \cup {pending}
           /\ \A j, k \in DOMAIN decisions' : j < k => decisions'[j].idx < decisions'[k].idx
<1> DEFINE d == [idx |-> pending, action |-> v]
<1>1. pending \in Sentences /\ pending = started
  BY CollectBegins
<1>2. decisions \in Seq(Decision) /\ skipped \subseteq Sentences
  BY DEF IInv, TypeOK, Decision
<1>3. \A j, k \in DOMAIN decisions : j < k => decisions[j].idx < decisions[k].idx
  BY DEF IInv, Settled
<1>4. \A k \in DOMAIN decisions : decisions[k].idx < d.idx
  <2>1. \A k \in DOMAIN decisions : decisions[k] \in Decision
    BY <1>2, Entries
  <2>2. \A k \in DOMAIN decisions : decisions[k].idx <= pending /\ decisions[k].idx # pending
    BY <1>1 DEF IInv, Settled
  <2> QED BY <1>1, <2>1, <2>2, ConstantsAssumption DEF Decision, Sentences
<1>5. CASE v \in Actions
  <2>1. d \in Decision
    BY <1>1, <1>5 DEF Decision
  <2>2. decisions' = Append(decisions, d) /\ skipped' = skipped
    BY <1>5 DEF Collecting, Collect
  <2>3. /\ Append(decisions, d) \in Seq(Decision)
        /\ DOMAIN Append(decisions, d) = DOMAIN decisions \cup {Len(decisions) + 1}
        /\ \A k \in DOMAIN decisions : Append(decisions, d)[k] = decisions[k]
        /\ Append(decisions, d)[Len(decisions) + 1] = d
    BY <1>2, <2>1, Appended
  <2>4. \A j, k \in DOMAIN decisions' : j < k => decisions'[j].idx < decisions'[k].idx
    <3>1. \A x \in Decision : x.idx \in Nat
      BY ConstantsAssumption DEF Decision, Sentences
    <3> HIDE DEF d
    <3> QED BY <1>2, <1>3, <1>4, <2>1, <2>2, <3>1, AppendedInOrder
  <2>5. Decided' = Decided \cup {pending}
    <3>1. \A i : i \in Decided' <=> \E k \in DOMAIN decisions' : decisions'[k].idx = i
      BY DEF Decided
    <3>2. \A i : i \in Decided <=> \E k \in DOMAIN decisions : decisions[k].idx = i
      BY DEF Decided
    <3>3. \A i : i \in Decided' <=> (i \in Decided \/ i = d.idx)
      <4> HIDE DEF d
      <4> QED BY <2>2, <2>3, <3>1, <3>2
    <3> QED BY <3>3
  <2> QED BY <1>2, <1>5, <2>2, <2>3, <2>4, <2>5
<1>6. CASE v \notin Actions
  <2>1. decisions' = decisions /\ skipped' = skipped \cup {pending}
    BY <1>6 DEF Collecting, Collect
  <2>2. Decided' = Decided
    BY <2>1 DEF Decided
  <2> QED BY <1>1, <1>2, <1>3, <1>6, <2>1, <2>2
<1> QED BY <1>5, <1>6

\* Where a collected verdict leads: into a repair, or on with the stream.
LEMMA CollectMoves ==
    ASSUME IInv, NEW v, NEW next, Collecting(v, next)
    PROVE  \/ /\ v = "L2_repair" /\ HasRepair /\ buffered
              /\ state' = "REPAIRING" /\ pc' = "repair" /\ back' = next
              /\ repairing' = pending /\ attempts' = 0
              /\ released' = released
           \/ /\ state' = (IF v = "L5_block" THEN "TERMINATED" ELSE state)
              /\ pc' = next /\ back' = back
              /\ repairing' = 0 /\ attempts' = attempts
<1>1. repairing = 0 /\ (~buffered => v # "L2_repair")
  BY CollectBegins
<1>2. Apply(pending, v, next)
  BY DEF Collecting, Collect
<1> QED BY <1>1, <1>2 DEF Apply, BeginRepair, Failures, Withheld

\* What a collected verdict sends, if anything.
LEMMA CollectSends ==
    ASSUME IInv, NEW v, NEW next, Collecting(v, next)
    PROVE  /\ released' \in Seq(Piece)
           /\ ~buffered => released' = released
           /\ \A k \in DOMAIN released' :
                 \/ k \in DOMAIN released /\ released'[k] = released[k]
                 \/ /\ released'[k].idx = pending /\ repairing' = 0
                    /\ v \in Actions => MaySend(v, released'[k].how)
           /\ \A j, k \in DOMAIN released' : j < k => released'[j].idx < released'[k].idx
<1>1. /\ pending \in Sentences /\ pending = started /\ repairing = 0
      /\ ~buffered => v # "L2_repair"
  BY CollectBegins
<1>2. released \in Seq(Piece) /\ v \in Actions \cup Failures
  BY DEF IInv, TypeOK, Piece, Collecting
<1>3. \A j, k \in DOMAIN released : j < k => released[j].idx < released[k].idx
  BY DEF IInv, Sent
<1>4. Apply(pending, v, next)
  BY DEF Collecting, Collect
<1>5. CASE released' = released
  BY <1>2, <1>3, <1>5
<1>6. ASSUME released' # released
      PROVE  /\ buffered /\ repairing' = 0
             /\ \E how \in {"original", "replaced"} :
                   /\ released' = Append(released, [idx |-> pending, how |-> how])
                   /\ v \in Actions => MaySend(v, how)
  BY <1>1, <1>2, <1>4, <1>6 DEF Apply, BeginRepair, Release, MaySend, Actions, Failures, Withheld
<1>7. ASSUME released' # released,
             NEW how \in {"original", "replaced"},
             released' = Append(released, [idx |-> pending, how |-> how]),
             v \in Actions => MaySend(v, how)
      PROVE  /\ released' \in Seq(Piece)
             /\ \A k \in DOMAIN released' :
                   \/ k \in DOMAIN released /\ released'[k] = released[k]
                   \/ /\ released'[k].idx = pending
                      /\ v \in Actions => MaySend(v, released'[k].how)
             /\ \A j, k \in DOMAIN released' : j < k => released'[j].idx < released'[k].idx
  <2> DEFINE r == [idx |-> pending, how |-> how]
  <2>1. r \in Piece /\ r.idx = pending /\ r.how = how
    BY <1>1 DEF Piece
  <2>2. \A x \in Piece : x.idx \in Nat
    BY ConstantsAssumption DEF Piece, Sentences
  <2>3. \A k \in DOMAIN released : released[k].idx < r.idx
    <3>1. \A k \in DOMAIN released : released[k] \in Piece
      BY <1>2, Entries
    <3>2. \A k \in DOMAIN released : released[k].idx <= pending /\ released[k].idx # pending
      BY <1>1 DEF IInv, Sent, CommitBeforeEmit
    <3> QED BY <1>1, <2>2, <3>1, <3>2, ConstantsAssumption DEF Sentences
  <2>4. released' = Append(released, r)
    BY <1>7
  <2> HIDE DEF r
  <2>5. /\ Append(released, r) \in Seq(Piece)
        /\ DOMAIN Append(released, r) = DOMAIN released \cup {Len(released) + 1}
        /\ \A k \in DOMAIN released : Append(released, r)[k] = released[k]
        /\ Append(released, r)[Len(released) + 1] = r
    BY <1>2, <2>1, Appended
  <2>6. \A j, k \in DOMAIN released' : j < k => released'[j].idx < released'[k].idx
    BY <1>2, <1>3, <2>1, <2>2, <2>3, <2>4, AppendedInOrder
  <2> QED BY <1>7, <2>1, <2>4, <2>5, <2>6
<1>8. CASE released' # released
  BY <1>6, <1>7, <1>8
<1> QED BY <1>5, <1>8

\* Collecting a verdict preserves the invariant.
LEMMA CollectInvariant ==
    ASSUME IInv, NEW v, NEW next, Collecting(v, next)
    PROVE  IInv'
<1> USE ConstantsAssumption
<1>1. /\ pending \in Sentences /\ pending = started
      /\ state # "TERMINATED" /\ ~Blocked
      /\ pc # "repair" /\ repairing = 0
      /\ ~buffered => v \notin {"L2_repair", "L3_reroute"}
      /\ next \in {"chunk", "loop", "drain", "settle"}
  BY CollectBegins
<1>2. /\ decisions' \in Seq(Decision)
      /\ skipped' \subseteq Sentences
      /\ \A k \in DOMAIN decisions' :
            \/ k \in DOMAIN decisions /\ decisions'[k] = decisions[k]
            \/ v \in Actions /\ decisions'[k] = [idx |-> pending, action |-> v]
      /\ Decided' = IF v \in Actions THEN Decided \cup {pending} ELSE Decided
      /\ skipped' = IF v \in Actions THEN skipped ELSE skipped \cup {pending}
      /\ \A j, k \in DOMAIN decisions' : j < k => decisions'[j].idx < decisions'[k].idx
  BY CollectLogs
<1>3. \/ /\ v = "L2_repair" /\ HasRepair /\ buffered
         /\ state' = "REPAIRING" /\ pc' = "repair" /\ back' = next
         /\ repairing' = pending /\ attempts' = 0
         /\ released' = released
      \/ /\ state' = (IF v = "L5_block" THEN "TERMINATED" ELSE state)
         /\ pc' = next /\ back' = back
         /\ repairing' = 0 /\ attempts' = attempts
  BY CollectMoves
<1>4. /\ released' \in Seq(Piece)
      /\ ~buffered => released' = released
      /\ \A k \in DOMAIN released' :
            \/ k \in DOMAIN released /\ released'[k] = released[k]
            \/ /\ released'[k].idx = pending /\ repairing' = 0
               /\ v \in Actions => MaySend(v, released'[k].how)
      /\ \A j, k \in DOMAIN released' : j < k => released'[j].idx < released'[k].idx
  BY CollectSends
<1>5. /\ pending' = 0 /\ task' = "none"
      /\ UNCHANGED <<lane, buffered, closed, open, started, early, todo, rawTo>>
  BY DEF Collecting, Collect, segVars
<1>6. /\ v \in Actions \cup Failures
      /\ \/ pc = "idle" /\ next = "chunk"
         \/ pc \in {"loop", "drain", "settle"} /\ next = pc
  BY DEF Collecting
<1>7. TypeOK'
  <2>1. state' \in States /\ attempts' \in 0..(MaxRepairAttempts - 1) /\ repairing' \in 0..MaxSentences
    BY <1>1, <1>3 DEF IInv, TypeOK, States, Sentences
  <2>2. pc' \in {"idle", "chunk", "loop", "drain", "settle", "repair"} /\ back' \in {"chunk", "loop", "drain", "settle"}
    BY <1>1, <1>3 DEF IInv, TypeOK
  <2> QED BY <1>2, <1>4, <1>5, <2>1, <2>2 DEF IInv, TypeOK, Decision, Piece
<1>8. Positions'
  BY <1>1, <1>3, <1>5, <1>6 DEF IInv, TypeOK, Positions, InLoop, Sentences
<1>9. Modes'
  <2>1. Blocked' => v = "L5_block"
    BY <1>1, <1>2 DEF Blocked
  <2>2. Blocked' => state' = "TERMINATED"
    BY <1>3, <2>1
  <2>3. (pc = "repair" /\ back = "settle" => ~open)' /\ (pc = "settle" => ~open)'
    BY <1>1, <1>3, <1>5, <1>6 DEF IInv, Modes
  <2>4. (pc = "repair" <=> state = "REPAIRING")'
    BY <1>1, <1>3, <1>5, <1>6 DEF IInv, Modes
  <2>5. (lane => buffered)' /\ (InLoop => buffered)'
    BY <1>1, <1>3, <1>5, <1>6 DEF IInv, Modes, InLoop
  <2> QED BY <1>5, <2>2, <2>3, <2>4, <2>5 DEF Modes
<1>10. Unbuffered'
  BY <1>1, <1>3, <1>4, <1>5, <1>6 DEF IInv, Unbuffered, Verdicts, Actions
<1>11. Settled'
  <2>1. \A k \in DOMAIN decisions' :
           /\ decisions'[k].idx <= started
           /\ decisions'[k].idx # 0
           /\ decisions'[k].idx \notin skipped'
    <3> TAKE k \in DOMAIN decisions'
    <3>1. decisions'[k].idx \in Sentences
      <4>1. decisions'[k] \in Decision
        BY <1>2, Entries
      <4> QED BY <4>1 DEF Decision
    <3>2. CASE k \in DOMAIN decisions /\ decisions'[k] = decisions[k]
      <4>1. /\ decisions[k].idx <= started /\ decisions[k].idx # pending
            /\ decisions[k].idx \notin skipped
        BY <3>2 DEF IInv, Settled
      <4> QED BY <1>2, <3>1, <3>2, <4>1 DEF Sentences
    <3>3. CASE v \in Actions /\ decisions'[k] = [idx |-> pending, action |-> v]
      <4>1. pending \notin skipped
        BY DEF IInv, Settled
      <4> QED BY <1>1, <1>2, <3>1, <3>3, <4>1 DEF Sentences
    <3> QED BY <1>2, <3>2, <3>3
  <2>2. \A i \in skipped' : i <= started /\ i # 0
    BY <1>1, <1>2 DEF IInv, Settled, TypeOK, Sentences
  <2>3. \A i \in (rawTo + 1)..started : i \in Decided' \cup skipped'
    BY <1>2 DEF IInv, Settled
  <2> QED BY <1>2, <1>5, <2>1, <2>2, <2>3 DEF Settled
<1>12. Repairs'
  BY <1>1, <1>2, <1>3 DEF IInv, Repairs, Settled, Actions
<1>13. Sent'
  BY <1>1, <1>3, <1>4, <1>5 DEF IInv, Sent, CommitBeforeEmit, Sentences, TypeOK
<1>14. CommitBeforeEmit'
  <2> SUFFICES ASSUME NEW k \in DOMAIN released'
               PROVE  /\ released'[k].idx \in Decided' \cup skipped'
                      /\ released'[k].idx # 0
                      /\ \A e \in DOMAIN decisions' :
                            decisions'[e].idx = released'[k].idx
                              => MaySend(decisions'[e].action, released'[k].how)
    BY <1>5 DEF CommitBeforeEmit
  <2>1. released'[k].idx # 0
    <3>1. released'[k] \in Piece
      BY <1>4, Entries
    <3> QED BY <3>1 DEF Piece, Sentences
  <2>2. CASE k \in DOMAIN released /\ released'[k] = released[k]
    <3>1. /\ released[k].idx \in Decided \cup skipped /\ released[k].idx # pending
          /\ \A e \in DOMAIN decisions :
                decisions[e].idx = released[k].idx => MaySend(decisions[e].action, released[k].how)
      BY <2>2 DEF IInv, CommitBeforeEmit
    <3> QED BY <1>2, <2>1, <2>2, <3>1
  <2>3. CASE released'[k].idx = pending /\ (v \in Actions => MaySend(v, released'[k].how))
    <3>1. \A e \in DOMAIN decisions : decisions[e].idx # pending
      BY DEF IInv, Settled
    <3> QED BY <1>2, <2>1, <2>3, <3>1
  <2> QED BY <1>4, <2>2, <2>3
<1> QED BY <1>7, <1>8, <1>9, <1>10, <1>11, <1>12, <1>13, <1>14 DEF IInv

-----------------------------------------------------------------------------
(* The other actions                                                        *)

\* Steps that neither settle nor send a sentence keep what was settled and sent;
\* `last` is the sentence started last after the step.
LEMMA NothingSent ==
    ASSUME IInv,
           UNCHANGED <<decisions, skipped, released>>,
           NEW last \in Nat, started' = last, started <= last,
           NEW raw \in Nat, rawTo' = raw, rawTo <= raw,
           pending' \in {0, last},
           pending' # 0 => (pending' = pending \/ started < last),
           pending # 0 => (pending' = pending \/ last <= raw),
           \A i \in (raw + 1)..last : i <= started \/ i = pending',
           repairing' \in {0, repairing}
    PROVE  /\ Settled' /\ Repairs' /\ Sent' /\ CommitBeforeEmit'
           /\ Decided' = Decided /\ (Blocked' <=> Blocked)
<1> USE ConstantsAssumption
<1>1. Decided' = Decided /\ (Blocked' <=> Blocked)
  BY DEF Decided, Blocked
<1>2. \A k \in DOMAIN decisions : decisions[k].idx \in Sentences
  <2> TAKE k \in DOMAIN decisions
  <2>1. decisions[k] \in Decision
    BY Entries DEF IInv, TypeOK, Decision
  <2> QED BY <2>1 DEF Decision
<1>3. \A k \in DOMAIN released : released[k].idx \in Sentences
  <2> TAKE k \in DOMAIN released
  <2>1. released[k] \in Piece
    BY Entries DEF IInv, TypeOK, Piece
  <2> QED BY <2>1 DEF Piece
<1>4. started \in Nat /\ pending \in {0, started} /\ rawTo \in Nat
  BY DEF IInv, TypeOK, Positions
<1>5. Settled'
  <2>1. \A k \in DOMAIN decisions :
           decisions[k].idx <= last /\ decisions[k].idx # pending'
    BY <1>2, <1>4 DEF IInv, Settled, Sentences
  <2>2. \A i \in skipped : i <= last /\ i # pending'
    BY <1>4 DEF IInv, Settled, TypeOK, Sentences
  <2>3. \A i \in (raw + 1)..last : i = pending' \/ i \in Decided \cup skipped
    <3> TAKE i \in (raw + 1)..last
    <3>1. CASE i = pending'
      BY <3>1
    <3>2. CASE i <= started
      <4>1. i \in Int /\ raw < i /\ i <= last
        OBVIOUS
      <4>2. i # 0 /\ ~(last <= raw)
        BY <4>1
      <4>3. i \in (rawTo + 1)..started
        BY <1>4, <3>2, <4>1
      <4>4. i = pending \/ i \in Decided \cup skipped
        BY <4>3 DEF IInv, Settled
      <4> QED BY <4>2, <4>4
    <3> QED BY <3>1, <3>2
  <2> QED BY <1>1, <2>1, <2>2, <2>3 DEF IInv, Settled
<1>6. Repairs'
  BY <1>1 DEF IInv, Repairs
<1>7. Sent'
  BY <1>3, <1>4 DEF IInv, Sent, Sentences
<1>8. CommitBeforeEmit'
  <2>1. \A k \in DOMAIN released : released[k].idx <= started /\ released[k].idx # pending
    BY DEF IInv, Sent, CommitBeforeEmit
  <2>2. \A k \in DOMAIN released : released[k].idx # pending'
    BY <1>3, <1>4, <2>1 DEF Sentences
  <2> QED BY <1>1, <2>2 DEF IInv, CommitBeforeEmit
<1> QED BY <1>1, <1>5, <1>6, <1>7, <1>8

\* The evaluation task ends.
LEMMA EvaluateInvariant == IInv /\ Evaluate => IInv'
<1> SUFFICES ASSUME IInv, Evaluate PROVE IInv'
  OBVIOUS
<1> USE ConstantsAssumption
<1>1. UNCHANGED <<lane, state, buffered, closed, open, started, pending, early, decisions,
                  skipped, pc, back, todo, repairing, attempts, rawTo, released>>
  BY DEF Evaluate, segVars, logVars, ctlVars, outVars
<1>2. task = "running" /\ task' \in Verdicts(early) \cup {"engine_error"}
  BY DEF Evaluate
<1>3. task' \in Actions \cup {"engine_error"} /\ task' # "none"
  BY <1>2 DEF Verdicts, Actions
<1>4. TypeOK' /\ Positions'
  BY <1>1, <1>2, <1>3 DEF IInv, TypeOK, Positions, InLoop
<1>5. Modes' /\ Settled' /\ Repairs' /\ Sent' /\ CommitBeforeEmit'
  BY <1>1 DEF IInv, Modes, InLoop, Settled, Repairs, Sent, CommitBeforeEmit, Decided, Blocked
<1>6. Unbuffered'
  BY <1>1, <1>2 DEF IInv, TypeOK, Unbuffered, Verdicts, Actions
<1> QED BY <1>4, <1>5, <1>6 DEF IInv

\* An unbuffered push forwards its bytes and starts its evaluations.
LEMMA PushUnbufferedInvariant ==
    ASSUME IInv, NEW n \in 0..MaxSentences, NEW rest \in BOOLEAN, PushUnbuffered(n, rest)
    PROVE  IInv'
<1> USE ConstantsAssumption
<1> DEFINE top == closed + n
           raw == top + (IF rest THEN 1 ELSE 0)
<1>1. /\ started = closed /\ todo = 0 /\ rawTo = closed + (IF open THEN 1 ELSE 0)
      /\ released = <<>> /\ pc \in {"idle", "chunk"} /\ pending \in {0, started}
      /\ closed \in Nat /\ repairing = 0 /\ state # "REPAIRING" /\ lane = FALSE
      /\ pending # 0 => early
  BY DEF IInv, TypeOK, Positions, Modes, Unbuffered, PushUnbuffered, InPush, InLoop
<1>2. /\ buffered = FALSE /\ buffered' = FALSE /\ closed' = top /\ open' = rest /\ rawTo' = raw
      /\ raw <= MaxSentences /\ (n > 0 \/ rest \/ ~open) /\ pc' = "idle"
      /\ UNCHANGED <<lane, state, decisions, skipped, back, todo, repairing, attempts, released>>
  BY DEF IInv, TypeOK, PushUnbuffered, Segment, StartEvaluation, logVars
<1>3. \/ n > 0 /\ started' = top /\ pending' = top /\ early' = TRUE /\ task' = "running"
      \/ n = 0 /\ UNCHANGED <<started, pending, early, task>>
  BY <1>1 DEF PushUnbuffered, Segment, StartEvaluation, taskVars
<1>4. top \in Nat /\ raw \in Nat /\ started' = top /\ started <= top /\ top <= raw
  BY <1>1, <1>3
<1>5. rawTo <= raw
  BY <1>1, <1>2
<1> HIDE DEF top, raw
<1>6. TypeOK'
  <2>1. released' \in Seq(Piece) /\ decisions' \in Seq(Decision)
    BY <1>2 DEF IInv, TypeOK, Piece, Decision
  <2>2. /\ closed' \in 0..MaxSentences /\ started' \in 0..MaxSentences
        /\ pending' \in 0..MaxSentences /\ rawTo' \in 0..MaxSentences
    BY <1>1, <1>2, <1>3, <1>4
  <2>3. early' \in BOOLEAN /\ task' \in {"none", "running", "engine_error"} \cup Actions
    BY <1>3 DEF IInv, TypeOK
  <2> QED BY <1>2, <2>1, <2>2, <2>3 DEF IInv, TypeOK, Piece, Decision
<1>7. Positions'
  <2>1. /\ started' + todo' = closed' /\ todo' = 0
        /\ closed' + (IF open' THEN 1 ELSE 0) <= MaxSentences
    BY <1>1, <1>2, <1>4 DEF top, raw
  <2>2. pending' \in {0, started'} /\ (pending' = 0 <=> task' = "none")
    <3>1. CASE n > 0
      BY <1>1, <1>3, <1>4, <3>1 DEF top
    <3>2. CASE n = 0
      BY <1>1, <1>3, <3>2 DEF IInv, Positions
    <3> QED BY <3>1, <3>2
  <2>3. repairing' = 0 /\ pc' # "repair"
    BY <1>1, <1>2
  <2> QED BY <1>4, <2>1, <2>2, <2>3 DEF Positions
<1>8. Settled' /\ Repairs' /\ Sent' /\ CommitBeforeEmit' /\ (Blocked' <=> Blocked)
  <2>1. pending' # 0 => (pending' = pending \/ started < top)
    BY <1>1, <1>3, <1>4 DEF top
  <2> QED BY <1>1, <1>2, <1>3, <1>4, <1>5, <2>1, NothingSent
<1>9. Modes'
  BY <1>1, <1>2, <1>8 DEF IInv, Modes, InLoop
<1>10. Unbuffered'
  <2>1. rawTo' = closed' + (IF open' THEN 1 ELSE 0)
    BY <1>2 DEF raw
  <2>2. (early' /\ task' \in Actions) => task' \in Verdicts(TRUE)
    BY <1>3 DEF IInv, Unbuffered, Actions
  <2>3. pending' # 0 => early'
    BY <1>1, <1>3
  <2> QED BY <1>1, <1>2, <2>1, <2>2, <2>3 DEF Unbuffered
<1> QED BY <1>6, <1>7, <1>8, <1>9, <1>10 DEF IInv

\* A buffered push hands its closed sentences to the loop.
LEMMA PushBufferedInvariant ==
    ASSUME IInv, NEW n \in 0..MaxSentences, NEW rest \in BOOLEAN, PushBuffered(n, rest)
    PROVE  IInv'
<1> USE ConstantsAssumption
<1>1. /\ todo = 0 /\ pc \in {"idle", "chunk"} /\ pending \in {0, started} /\ buffered = TRUE
      /\ closed \in Nat /\ repairing = 0 /\ state # "REPAIRING" /\ started \in Nat /\ rawTo \in Nat
  BY DEF IInv, TypeOK, Positions, Modes, PushBuffered, InPush, InLoop
<1>2. /\ closed' = closed + n /\ open' = rest /\ todo' = n /\ pc' = "loop"
      /\ closed + n + (IF rest THEN 1 ELSE 0) <= MaxSentences
      /\ UNCHANGED <<lane, buffered, state, started, pending, early, task, decisions, skipped,
                     back, repairing, attempts, rawTo, released>>
  BY DEF PushBuffered, Segment, taskVars, logVars, outVars
<1>3. TypeOK'
  <2>1. closed' \in 0..MaxSentences /\ todo' \in 0..MaxSentences /\ open' \in BOOLEAN
    BY <1>1, <1>2
  <2> QED BY <1>2, <2>1 DEF IInv, TypeOK
<1>4. Positions'
  BY <1>1, <1>2 DEF IInv, TypeOK, Positions, InLoop
<1>5. Settled' /\ Repairs' /\ Sent' /\ CommitBeforeEmit' /\ (Blocked' <=> Blocked)
  BY <1>1, <1>2, NothingSent
<1>6. Modes' /\ Unbuffered'
  BY <1>1, <1>2, <1>5 DEF IInv, Modes, Unbuffered, InLoop, Verdicts
<1> QED BY <1>3, <1>4, <1>5, <1>6 DEF IInv

\* The loop of a buffered push starts the next sentence.
LEMMA LoopStartsInvariant == IInv /\ LoopStarts => IInv'
<1> SUFFICES ASSUME IInv, LoopStarts PROVE IInv'
  OBVIOUS
<1> USE ConstantsAssumption
<1> DEFINE next == started + 1
<1>1. /\ pc = "loop" /\ todo \in Nat /\ todo > 0 /\ pending = 0 /\ buffered = TRUE
      /\ started \in Nat /\ closed \in Nat /\ rawTo \in Nat /\ repairing = 0
      /\ started + todo = closed /\ closed <= MaxSentences
  BY DEF IInv, TypeOK, Positions, Modes, InLoop, LoopStarts
<1>2. /\ started' = next /\ pending' = next /\ early' = FALSE /\ task' = "running"
      /\ state' = "HOLDING" /\ todo' = todo - 1
      /\ UNCHANGED <<lane, buffered, closed, open, decisions, skipped, pc, back, repairing,
                     attempts, rawTo, released>>
  BY <1>1 DEF LoopStarts, StartEvaluation, segVars, logVars, outVars
<1>3. next \in Nat /\ next \in Sentences /\ todo' \in 0..MaxSentences
  BY <1>1, <1>2 DEF Sentences
<1>4. TypeOK'
  <2>1. started' \in 0..MaxSentences /\ pending' \in 0..MaxSentences
    BY <1>2, <1>3 DEF Sentences
  <2>2. state' \in States
    BY <1>2 DEF States
  <2>3. early' \in BOOLEAN /\ task' \in {"none", "running", "engine_error"} \cup Actions
    BY <1>2
  <2> QED BY <1>2, <1>3, <2>1, <2>2, <2>3 DEF IInv, TypeOK
<1>5. Positions'
  BY <1>1, <1>2, <1>3 DEF IInv, TypeOK, Positions, InLoop, Sentences
<1>6. Settled' /\ Repairs' /\ Sent' /\ CommitBeforeEmit' /\ (Blocked' <=> Blocked)
  BY <1>1, <1>2, <1>3, NothingSent
<1>7. ~Blocked
  BY DEF IInv, Modes, LoopStarts
<1>8. Modes' /\ Unbuffered'
  BY <1>1, <1>2, <1>3, <1>6, <1>7 DEF IInv, Modes, Unbuffered, InLoop, Sentences
<1> QED BY <1>4, <1>5, <1>6, <1>8 DEF IInv

\* finish() starts the tail, if there is one.
LEMMA FinishFlushesInvariant == IInv /\ FinishFlushes => IInv'
<1> SUFFICES ASSUME IInv, FinishFlushes PROVE IInv'
  OBVIOUS
<1> USE ConstantsAssumption
<1> DEFINE next == closed + 1
<1>1. /\ pc = "drain" /\ todo = 0 /\ pending = 0 /\ started = closed
      /\ started \in Nat /\ closed \in Nat /\ rawTo \in Nat /\ repairing = 0 /\ task = "none"
      /\ state \notin {"TERMINATED", "REPAIRING"} /\ ~Blocked
  BY DEF IInv, TypeOK, Positions, Modes, InLoop, FinishFlushes
<1>2. /\ open' = FALSE /\ pc' = "settle"
      /\ UNCHANGED <<lane, buffered, decisions, skipped, todo, back, repairing, attempts, rawTo,
                     released>>
  BY DEF FinishFlushes, logVars, outVars
<1>3. CASE open
  <2>1. /\ closed' = next /\ started' = next /\ pending' = next /\ task' = "running"
        /\ early' = ~buffered /\ state' = IF buffered THEN "HOLDING" ELSE state
    BY <1>1, <1>3 DEF FinishFlushes, StartEvaluation
  <2>2. next \in Sentences /\ next \in Nat
    BY <1>1, <1>3 DEF IInv, Positions, Sentences
  <2>3. TypeOK'
    <3>1. /\ started' \in 0..MaxSentences /\ pending' \in 0..MaxSentences
          /\ closed' \in 0..MaxSentences
          /\ task' \in {"none", "running", "engine_error"} \cup Actions
      BY <2>1, <2>2 DEF Sentences
    <3>2. state' \in States /\ early' \in BOOLEAN
      BY <2>1 DEF IInv, TypeOK, States
    <3> QED BY <1>2, <3>1, <3>2 DEF IInv, TypeOK
  <2>4. Positions'
    BY <1>1, <1>2, <2>1, <2>2 DEF Positions, InLoop, Sentences
  <2>5. ~buffered => rawTo = next
    BY <1>3 DEF IInv, Unbuffered
  <2>6. Settled' /\ Repairs' /\ Sent' /\ CommitBeforeEmit' /\ (Blocked' <=> Blocked)
    BY <1>1, <1>2, <2>1, <2>2, NothingSent
  <2>7. Modes'
    BY <1>1, <1>2, <2>1, <2>2, <2>6 DEF IInv, Modes, InLoop
  <2>8. Unbuffered'
    BY <1>1, <1>2, <2>1, <2>2, <2>5 DEF IInv, TypeOK, Unbuffered, Actions
  <2> QED BY <2>3, <2>4, <2>6, <2>7, <2>8 DEF IInv
<1>4. CASE ~open
  <2>1. UNCHANGED <<started, pending, early, task, state, closed>>
    BY <1>4 DEF FinishFlushes, taskVars
  <2>2. TypeOK' /\ Positions'
    BY <1>1, <1>2, <1>4, <2>1 DEF IInv, TypeOK, Positions, InLoop
  <2>3. Settled' /\ Repairs' /\ Sent' /\ CommitBeforeEmit' /\ (Blocked' <=> Blocked)
    BY <1>1, <1>2, <2>1, NothingSent
  <2>4. Modes' /\ Unbuffered'
    BY <1>1, <1>2, <1>4, <2>1, <2>3 DEF IInv, Modes, Unbuffered, InLoop, Verdicts
  <2> QED BY <2>2, <2>3, <2>4 DEF IInv
<1> QED BY <1>3, <1>4

\* Steps that only move the control: the loop ends, finish() begins or stops,
\* an escalation switches the mode.
LEMMA ControlInvariant ==
    ASSUME IInv, LoopEnds \/ Finish \/ FinishStops \/ FinishReturns \/ Escalate
    PROVE  IInv'
<1> USE ConstantsAssumption
<1>1. /\ UNCHANGED <<lane, closed, open, started, pending, early, task, decisions, skipped,
                     back, repairing, attempts, rawTo, released>>
      /\ state' \in {state, "TERMINATED", "BUFFERING"} /\ pc' \in {"idle", "drain"}
      /\ todo' \in {0, todo} /\ buffered' \in {buffered, TRUE}
      /\ pc # "repair"
  BY DEF LoopEnds, Finish, FinishStops, FinishReturns, Escalate, segVars, taskVars, logVars,
         outVars, ctlVars
<1>2. TypeOK'
  <2>1. state' \in States
    BY <1>1 DEF IInv, TypeOK, States
  <2>2. todo' \in 0..MaxSentences
    BY <1>1 DEF IInv, TypeOK
  <2>3. buffered' \in BOOLEAN
    BY <1>1 DEF IInv, TypeOK
  <2> QED BY <1>1, <2>1, <2>2, <2>3 DEF IInv, TypeOK
<1>3. started \in Nat /\ rawTo \in Nat /\ pending \in {0, started}
  BY DEF IInv, TypeOK, Positions
<1>4. Settled' /\ Repairs' /\ Sent' /\ CommitBeforeEmit' /\ (Blocked' <=> Blocked)
  BY <1>1, <1>3, NothingSent
<1>5. CASE LoopEnds
  <2>1. /\ pc = "loop" /\ pc' = "idle" /\ todo' = 0 /\ state' = state /\ buffered' = buffered
        /\ todo = 0 \/ state = "TERMINATED"
    BY <1>5 DEF LoopEnds
  <2>2. Positions' /\ Modes' /\ Unbuffered'
    BY <1>1, <1>4, <2>1 DEF IInv, TypeOK, Positions, Modes, Unbuffered, InLoop, Verdicts
  <2> QED BY <1>2, <1>4, <2>2 DEF IInv
<1>6. CASE Finish
  <2>1. /\ pc = "idle" /\ pc' = "drain" /\ todo' = todo /\ state' = state /\ buffered' = buffered
        /\ state # "TERMINATED"
    BY <1>6 DEF Finish
  <2>2. Positions' /\ Modes' /\ Unbuffered'
    BY <1>1, <1>4, <2>1 DEF IInv, TypeOK, Positions, Modes, Unbuffered, InLoop, Verdicts
  <2> QED BY <1>2, <1>4, <2>2 DEF IInv
<1>7. CASE FinishStops
  <2>1. /\ pc = "drain" /\ pc' = "idle" /\ todo' = todo /\ state' = state /\ buffered' = buffered
    BY <1>7 DEF FinishStops
  <2>2. Positions' /\ Modes' /\ Unbuffered'
    BY <1>1, <1>4, <2>1 DEF IInv, TypeOK, Positions, Modes, Unbuffered, InLoop, Verdicts
  <2> QED BY <1>2, <1>4, <2>2 DEF IInv
<1>8. CASE FinishReturns
  <2>1. /\ pc = "settle" /\ pc' = "idle" /\ todo' = todo /\ state' = "TERMINATED"
        /\ buffered' = buffered /\ pending = 0
    BY <1>8 DEF FinishReturns
  <2>2. Positions' /\ Modes' /\ Unbuffered'
    BY <1>1, <1>4, <2>1 DEF IInv, TypeOK, Positions, Modes, Unbuffered, InLoop, Verdicts
  <2> QED BY <1>2, <1>4, <2>2 DEF IInv
<1>9. CASE Escalate
  <2>1. /\ pc = "idle" /\ pc' = "idle" /\ todo' = todo /\ state' = "BUFFERING"
        /\ buffered' = TRUE /\ state = "PASSTHROUGH"
    BY <1>9 DEF Escalate, ctlVars
  <2>2. Positions' /\ Modes' /\ Unbuffered'
    BY <1>1, <1>4, <2>1 DEF IInv, TypeOK, Positions, Modes, Unbuffered, InLoop, Verdicts
  <2> QED BY <1>2, <1>4, <2>2 DEF IInv
<1> QED BY <1>5, <1>6, <1>7, <1>8, <1>9

\* A repair ends without text: a further attempt, or the sentence stays withheld.
LEMMA RepairFailsInvariant == IInv /\ RepairFails => IInv'
<1> SUFFICES ASSUME IInv, RepairFails PROVE IInv'
  OBVIOUS
<1> USE ConstantsAssumption
<1>1. /\ UNCHANGED <<lane, buffered, closed, open, started, pending, early, task, decisions,
                     skipped, back, todo, rawTo, released>>
      /\ pc = "repair"
      /\ \/ UNCHANGED <<state, repairing, pc>>
         \/ state' = "HOLDING" /\ repairing' = 0 /\ pc' = back
  BY DEF RepairFails, segVars, taskVars, logVars, outVars
<1>2. attempts' \in 0..(MaxRepairAttempts - 1)
  BY DEF IInv, TypeOK, RepairFails
<1>3. TypeOK'
  <2>1. state' \in States /\ repairing' \in 0..MaxSentences
        /\ pc' \in {"idle", "chunk", "loop", "drain", "settle", "repair"}
    BY <1>1 DEF IInv, TypeOK, States
  <2> QED BY <1>1, <1>2, <2>1 DEF IInv, TypeOK
<1>4. started \in Nat /\ rawTo \in Nat /\ pending \in {0, started} /\ repairing' \in {0, repairing}
  BY <1>1 DEF IInv, TypeOK, Positions
<1>5. Settled' /\ Repairs' /\ Sent' /\ CommitBeforeEmit' /\ (Blocked' <=> Blocked)
  BY <1>1, <1>4, NothingSent
<1>6. ~Blocked
  BY <1>1 DEF IInv, Modes
<1>7. Positions' /\ Modes' /\ Unbuffered'
  BY <1>1, <1>5, <1>6 DEF IInv, TypeOK, Positions, Modes, Unbuffered, InLoop, Verdicts
<1> QED BY <1>3, <1>5, <1>7 DEF IInv

\* A repair that passes its check is sent in the place of its sentence.
LEMMA RepairSucceedsInvariant == IInv /\ RepairSucceeds => IInv'
<1> SUFFICES ASSUME IInv, RepairSucceeds PROVE IInv'
  OBVIOUS
<1> USE ConstantsAssumption
<1> DEFINE r == [idx |-> repairing, how |-> "replaced"]
<1>1. /\ UNCHANGED <<lane, buffered, closed, open, started, pending, early, task, decisions,
                     skipped, back, todo, rawTo>>
      /\ pc = "repair" /\ state' = "HOLDING" /\ repairing' = 0 /\ pc' = back /\ attempts' = 0
      /\ released' = Append(released, r)
  BY DEF RepairSucceeds, Release, segVars, taskVars, logVars
<1>2. /\ repairing \in Sentences /\ repairing = started /\ pending = 0 /\ buffered /\ ~Blocked
      /\ HasRepair /\ repairing \in Decided
      /\ \A d \in DOMAIN decisions :
            decisions[d].idx = repairing => decisions[d].action = "L2_repair"
  BY <1>1 DEF IInv, TypeOK, Positions, Modes, Unbuffered, Repairs, Sentences
<1>3. r \in Piece /\ r.idx = repairing /\ r.how = "replaced"
  BY <1>2 DEF Piece
<1>4. released \in Seq(Piece) /\ \A x \in Piece : x.idx \in Nat
  BY DEF IInv, TypeOK, Piece, Sentences
<1> HIDE DEF r
<1>5. /\ released' \in Seq(Piece)
      /\ DOMAIN released' = DOMAIN released \cup {Len(released) + 1}
      /\ \A k \in DOMAIN released : released'[k] = released[k]
      /\ released'[Len(released) + 1] = r
  BY <1>1, <1>3, <1>4, Appended
<1>6. \A k \in DOMAIN released : released[k].idx < r.idx
  <2>1. \A k \in DOMAIN released : released[k].idx <= started /\ released[k].idx # repairing
    BY DEF IInv, Sent
  <2>2. \A k \in DOMAIN released : released[k].idx \in Nat
    BY <1>4, Entries
  <2> QED BY <1>2, <1>3, <2>1, <2>2 DEF Sentences
<1>7. \A j, k \in DOMAIN released' : j < k => released'[j].idx < released'[k].idx
  <2>1. \A j, k \in DOMAIN released : j < k => released[j].idx < released[k].idx
    BY DEF IInv, Sent
  <2> QED BY <1>1, <1>3, <1>4, <1>6, <2>1, AppendedInOrder
<1>8. \A k \in DOMAIN released' : released'[k].idx \in Sentences /\ released'[k].idx <= started
  <2>1. \A k \in DOMAIN released : released[k].idx <= started
    BY DEF IInv, Sent
  <2>2. \A k \in DOMAIN released' : released'[k].idx \in Sentences
    <3>1. \A k \in DOMAIN released' : released'[k] \in Piece
      BY <1>5, Entries
    <3> QED BY <3>1 DEF Piece
  <2> QED BY <1>2, <1>3, <1>5, <2>1, <2>2 DEF Sentences
<1>9. TypeOK'
  <2>1. state' \in States /\ attempts' \in 0..(MaxRepairAttempts - 1) /\ repairing' \in 0..MaxSentences
    BY <1>1 DEF States
  <2>2. pc' \in {"idle", "chunk", "loop", "drain", "settle", "repair"}
    BY <1>1 DEF IInv, TypeOK
  <2> QED BY <1>1, <1>5, <2>1, <2>2 DEF IInv, TypeOK, Piece
<1>10. Decided' = Decided /\ (Blocked' <=> Blocked)
  BY <1>1 DEF Decided, Blocked
<1>11. Positions' /\ Modes' /\ Unbuffered'
  BY <1>1, <1>2, <1>10 DEF IInv, TypeOK, Positions, Modes, Unbuffered, InLoop, Verdicts, Sentences
<1>12. Settled' /\ Repairs'
  BY <1>1, <1>10 DEF IInv, Settled, Repairs
<1>13. Sent'
  BY <1>1, <1>7, <1>8 DEF Sent, Sentences
<1>14. CommitBeforeEmit'
  <2> SUFFICES ASSUME NEW k \in DOMAIN released'
               PROVE  /\ released'[k].idx \in Decided \cup skipped
                      /\ released'[k].idx # pending
                      /\ \A d \in DOMAIN decisions : decisions[d].idx = released'[k].idx
                            => MaySend(decisions[d].action, released'[k].how)
    BY <1>1, <1>10 DEF CommitBeforeEmit
  <2>1. CASE k \in DOMAIN released
    BY <1>5, <2>1 DEF IInv, CommitBeforeEmit
  <2>2. CASE k = Len(released) + 1
    BY <1>2, <1>3, <1>5, <2>2 DEF MaySend, Sentences
  <2> QED BY <1>5, <2>1, <2>2
<1> QED BY <1>9, <1>11, <1>12, <1>13, <1>14 DEF IInv

-----------------------------------------------------------------------------
(* The theorems                                                             *)

\* Every place that collects a verdict collects one the invariant knows.
LEMMA CollectsAll ==
    ASSUME IInv, PushCollects \/ LoopCollects \/ FinishCollects \/ Watchdog
    PROVE  \E v, next : Collecting(v, next)
<1>1. CASE PushCollects \/ LoopCollects \/ FinishCollects
  <2>1. PICK next : /\ Collect(task, next) /\ TaskDone
                    /\ \/ pc = "idle" /\ next = "chunk" /\ state # "TERMINATED"
                       \/ pc \in {"loop", "drain", "settle"} /\ next = pc
    BY <1>1 DEF PushCollects, LoopCollects, FinishCollects
  <2>2. /\ task \in Actions \cup Failures /\ task # "none"
        /\ (early /\ task \in Actions) => task \in Verdicts(TRUE)
    BY <2>1 DEF IInv, TypeOK, Unbuffered, TaskDone, Failures
  <2>3. Collecting(task, next)
    BY <2>1, <2>2 DEF Collecting
  <2> QED BY <2>3
<1>2. CASE Watchdog
  <2>1. Collecting("watchdog", pc)
    BY <1>2 DEF Watchdog, Collecting, Failures, Actions
  <2> QED BY <2>1
<1> QED BY <1>1, <1>2

\* Every step of the gate preserves the invariant.
LEMMA NextInvariant == IInv /\ [Next]_vars => IInv'
<1> SUFFICES ASSUME IInv, [Next]_vars PROVE IInv'
  OBVIOUS
<1>1. CASE PushCollects \/ LoopCollects \/ FinishCollects \/ Watchdog
  BY <1>1, CollectsAll, CollectInvariant
<1>2. CASE Chunk
  BY <1>2, PushUnbufferedInvariant, PushBufferedInvariant DEF Chunk
<1>3. CASE LoopStarts \/ FinishFlushes
  BY <1>3, LoopStartsInvariant, FinishFlushesInvariant
<1>4. CASE LoopEnds \/ Finish \/ FinishStops \/ FinishReturns \/ Escalate
  BY <1>4, ControlInvariant
<1>5. CASE RepairSucceeds \/ RepairFails
  BY <1>5, RepairSucceedsInvariant, RepairFailsInvariant
<1>6. CASE Evaluate
  BY <1>6, EvaluateInvariant
<1>7. CASE UNCHANGED vars
  BY <1>7 DEF vars, segVars, taskVars, logVars, ctlVars, outVars, IInv, TypeOK, Positions, Modes,
              InLoop, Unbuffered, Settled, Repairs, Sent, CommitBeforeEmit, Decided, Blocked, Verdicts
<1> QED BY <1>1, <1>2, <1>3, <1>4, <1>5, <1>6, <1>7 DEF Next, Resume

\* The inductive invariant holds throughout, whatever the bounds are.
THEOREM Invariance == Spec => []IInv
BY InitInvariant, NextInvariant, PTL DEF Spec

\* Every variable of the gate keeps its type: no more than MaxSentences
\* evaluations are ever started and no repair exceeds its attempts.
THEOREM TypeCorrect == Spec => []TypeOK
<1>1. IInv => TypeOK
  BY DEF IInv
<1> QED BY <1>1, Invariance, PTL

\* No uncommitted sentence is ever emitted (sentence_gate.py, _apply, _release).
THEOREM CommitsBeforeEmitting == Spec => []CommitBeforeEmit
<1>1. IInv => CommitBeforeEmit
  BY DEF IInv
<1> QED BY <1>1, Invariance, PTL

\* Text goes out in the order of the answer and never twice.
THEOREM ReleasesInOrder == Spec => []InOrderOnce
<1>1. IInv => InOrderOnce
  <2> SUFFICES ASSUME IInv PROVE InOrderOnce
    OBVIOUS
  <2>1. \A j, k \in DOMAIN released : j < k => released[j].idx < released[k].idx
    BY DEF IInv, Sent
  <2>2. \A k \in DOMAIN released : released[k].idx > rawTo \/ buffered # lane
    <3> TAKE k \in DOMAIN released
    <3>1. released[k] \in Piece
      BY Entries DEF IInv, TypeOK, Piece
    <3>2. buffered \/ k \notin DOMAIN <<>>
      BY DEF IInv, Unbuffered
    <3> QED BY <3>1, <3>2, ConstantsAssumption DEF IInv, TypeOK, Unbuffered, Piece, Sentences
  <2> QED BY <2>1, <2>2 DEF InOrderOnce
<1> QED BY <1>1, Invariance, PTL

\* Unbuffered text is the provider's, byte for byte.
THEOREM ForwardsVerbatim == Spec => []UnbufferedIsVerbatim
<1>1. IInv => UnbufferedIsVerbatim
  BY DEF IInv, Unbuffered, UnbufferedIsVerbatim
<1> QED BY <1>1, Invariance, PTL

\* The buffered gate settles each sentence with exactly one outcome.
THEOREM SettlesOnce == Spec => []OneInFlight
<1>1. IInv => OneInFlight
  <2> SUFFICES ASSUME IInv PROVE OneInFlight
    OBVIOUS
  <2>1. \A k \in DOMAIN decisions : decisions[k].idx \in Nat /\ decisions[k].idx \notin skipped
    <3> TAKE k \in DOMAIN decisions
    <3>1. decisions[k] \in Decision
      BY Entries DEF IInv, TypeOK, Decision
    <3> QED BY <3>1, ConstantsAssumption DEF Decision, Sentences, IInv, Settled
  <2>2. \A j, k \in DOMAIN decisions : decisions[j].idx = decisions[k].idx => j = k
    <3>1. DOMAIN decisions \subseteq Nat
      BY LenProperties DEF IInv, TypeOK
    <3> QED BY <2>1, <3>1 DEF IInv, Settled
  <2>3. \A i \in (rawTo + 1)..started : i = pending \/ i \in Decided \cup skipped
    BY DEF IInv, Settled
  <2> QED BY <2>1, <2>2, <2>3 DEF OneInFlight, Decided
<1> QED BY <1>1, Invariance, PTL

\* Once a verdict has blocked the answer, or finish() has ended it, nothing more
\* is committed.
THEOREM SilentAtTheEnd == Spec => SilentOnceTerminated
<1> DEFINE Quiet == Blocked \/ state = "TERMINATED" =>
                       /\ released' = released
                       /\ rawTo' = rawTo \/ (pc = "chunk" /\ ~buffered)
<1>1. IInv /\ [Next]_vars => [Quiet]_vars
  <2> SUFFICES ASSUME IInv, Next, Blocked \/ state = "TERMINATED"
               PROVE  released' = released /\ (rawTo' = rawTo \/ (pc = "chunk" /\ ~buffered))
    OBVIOUS
  <2>1. state = "TERMINATED" /\ pc # "repair" /\ (InLoop => buffered)
    BY DEF IInv, Modes
  <2>2. pc \in {"loop", "drain", "settle"} => task = "none"
    BY <2>1 DEF IInv, Modes, Positions, InLoop
  <2>3. ~(PushCollects \/ LoopCollects \/ FinishCollects \/ Watchdog)
    BY <2>1, <2>2 DEF PushCollects, LoopCollects, FinishCollects, Watchdog, TaskDone
  <2>4. ~(RepairSucceeds \/ RepairFails \/ Escalate \/ LoopStarts \/ FinishFlushes)
    BY <2>1 DEF RepairSucceeds, RepairFails, Escalate, LoopStarts, FinishFlushes
  <2>5. CASE Chunk
    BY <2>1, <2>5 DEF Chunk, PushUnbuffered, PushBuffered, InPush, outVars
  <2>6. CASE LoopEnds \/ Finish \/ FinishStops \/ FinishReturns \/ Evaluate
    BY <2>6 DEF LoopEnds, Finish, FinishStops, FinishReturns, Evaluate, outVars
  <2> QED BY <2>3, <2>4, <2>5, <2>6 DEF Next, Resume
<1> QED BY <1>1, Invariance, PTL DEF Spec, SilentOnceTerminated

-----------------------------------------------------------------------------
(* A finished answer is complete                                            *)

\* The decision that keeps a sentence from the reader.
Excused(i) ==
    \E k \in DOMAIN decisions :
        /\ decisions[k].idx = i
        /\ \/ decisions[k].action \in Withheld
           \/ decisions[k].action = "L2_repair" /\ HasRepair

Answered ==
    \A i \in (rawTo + 1)..started : i = pending \/ i \in Committed \/ Excused(i)

EndedByFinish ==
    state = "TERMINATED" /\ ~Blocked =>
        /\ pc = "idle" /\ ~open /\ started = closed
        /\ pending = 0 /\ todo = 0 /\ repairing = 0

\* Collecting a verdict only adds to the decisions and to what was sent.
LEMMA CollectKeeps ==
    ASSUME IInv, NEW v, NEW next, Collecting(v, next)
    PROVE  /\ \A i : Excused(i) => Excused(i)'
           /\ Committed \subseteq Committed'
           /\ \A i : buffered /\ i = pending => i \in Committed' \/ Excused(i)'
           /\ Blocked' <=> v = "L5_block"
<1>1. pending \in Sentences /\ ~Blocked
  BY CollectBegins
<1>2. decisions \in Seq(Decision) /\ released \in Seq(Piece)
  BY DEF IInv, TypeOK, Decision, Piece
<1>3. v \in Actions \cup Failures /\ Actions \cap Failures = {}
  BY DEF Collecting, Actions, Failures
<1>4. /\ \A k \in DOMAIN decisions : k \in DOMAIN decisions' /\ decisions'[k] = decisions[k]
      /\ v \in Actions => \E k \in DOMAIN decisions' : decisions'[k] = [idx |-> pending, action |-> v]
  <2> DEFINE d == [idx |-> pending, action |-> v]
  <2>1. CASE v \in Actions
    <3>1. d \in Decision /\ decisions' = Append(decisions, d)
      BY <1>1, <2>1 DEF Decision, Collecting, Collect
    <3> HIDE DEF d
    <3>2. /\ \A k \in DOMAIN decisions : k \in DOMAIN decisions' /\ decisions'[k] = decisions[k]
          /\ \E k \in DOMAIN decisions' : decisions'[k] = d
      BY <1>2, <3>1, Appended
    <3> QED BY <3>2 DEF d
  <2>2. CASE v \notin Actions
    BY <2>2 DEF Collecting, Collect
  <2> QED BY <2>1, <2>2
<1>5. /\ \A k \in DOMAIN released : k \in DOMAIN released' /\ released'[k] = released[k]
      /\ released' # released => \E k \in DOMAIN released' : released'[k].idx = pending
  <2>1. Apply(pending, v, next)
    BY DEF Collecting, Collect
  <2>2. CASE released' = released
    BY <2>2
  <2>3. ASSUME NEW how \in {"original", "replaced"},
               released' = Append(released, [idx |-> pending, how |-> how])
        PROVE  /\ \A k \in DOMAIN released : k \in DOMAIN released' /\ released'[k] = released[k]
               /\ \E k \in DOMAIN released' : released'[k].idx = pending
    <3> DEFINE r == [idx |-> pending, how |-> how]
    <3>1. r \in Piece /\ r.idx = pending /\ released' = Append(released, r)
      BY <1>1, <2>3 DEF Piece
    <3> HIDE DEF r
    <3> QED BY <1>2, <3>1, Appended
  <2>4. \/ released' = released
        \/ \E how \in {"original", "replaced"} :
              released' = Append(released, [idx |-> pending, how |-> how])
    BY <2>1 DEF Apply, BeginRepair, Release
  <2> QED BY <2>2, <2>3, <2>4
<1>6. \A i : Excused(i) => Excused(i)'
  BY <1>4 DEF Excused
<1>7. Committed \subseteq Committed'
  BY <1>5 DEF Committed
<1>8. ASSUME NEW i, buffered, i = pending PROVE i \in Committed' \/ Excused(i)'
  <2>1. CASE v \in Withheld \/ (v = "L2_repair" /\ HasRepair)
    <3>1. v \in Actions
      BY <2>1 DEF Withheld, Actions
    <3>2. PICK k \in DOMAIN decisions' : decisions'[k] = [idx |-> pending, action |-> v]
      BY <1>4, <3>1
    <3>3. decisions'[k].idx = i /\ decisions'[k].action = v
      BY <1>8, <3>2
    <3> QED BY <2>1, <3>3 DEF Excused
  <2>2. CASE ~(v \in Withheld \/ (v = "L2_repair" /\ HasRepair))
    <3>1. \E how \in {"original", "replaced"} :
             released' = Append(released, [idx |-> pending, how |-> how])
      BY <1>3, <1>8, <2>2 DEF Collecting, Collect, Apply, Release, Actions, Failures, Withheld
    <3>2. \A how \in {"original", "replaced"} :
             Append(released, [idx |-> pending, how |-> how]) # released
      <4> TAKE how \in {"original", "replaced"}
      <4> DEFINE r == [idx |-> pending, how |-> how]
      <4>1. r \in Piece
        BY <1>1 DEF Piece
      <4> HIDE DEF r
      <4>2. DOMAIN Append(released, r) # DOMAIN released
        BY <1>2, <4>1, Appended
      <4> QED BY <4>2 DEF r
    <3> QED BY <1>5, <1>8, <3>1, <3>2 DEF Committed
  <2> QED BY <2>1, <2>2
<1>9. Blocked' <=> v = "L5_block"
  <2>1. \A k \in DOMAIN decisions' :
           \/ k \in DOMAIN decisions /\ decisions'[k] = decisions[k]
           \/ v \in Actions /\ decisions'[k] = [idx |-> pending, action |-> v]
    BY CollectLogs
  <2> QED BY <1>1, <1>4, <2>1 DEF Blocked, Actions
<1> QED BY <1>6, <1>7, <1>8, <1>9

\* Steps that decide and send nothing, and start at most a sentence in flight,
\* leave every other sentence answered.
LEMMA NothingUnanswered ==
    ASSUME IInv, Answered, UNCHANGED decisions, Committed \subseteq Committed',
           \/ UNCHANGED <<started, pending, rawTo>>
           \/ UNCHANGED rawTo /\ pending = 0 /\ started' = started + 1 /\ pending' = started'
           \/ \E top, raw \in Nat : started' = top /\ rawTo' = raw /\ top <= raw
    PROVE  Answered'
<1>1. started \in Nat /\ rawTo \in Nat
  BY DEF IInv, TypeOK
<1>2. \A i : Excused(i)' <=> Excused(i)
  BY DEF Excused
<1> QED BY <1>1, <1>2 DEF Answered

\* The two facts about the end of an answer are inductive.
LEMMA NextAnswered ==
    IInv /\ IInv' /\ Answered /\ EndedByFinish /\ [Next]_vars => Answered' /\ EndedByFinish'
<1> SUFFICES ASSUME IInv, IInv', Answered, EndedByFinish, [Next]_vars
             PROVE  Answered' /\ EndedByFinish'
  OBVIOUS
<1> USE ConstantsAssumption
<1>1. ASSUME NEW v, NEW next, Collecting(v, next) PROVE Answered' /\ EndedByFinish'
  <2>1. /\ pending = started /\ pending' = 0 /\ UNCHANGED <<rawTo, started>>
        /\ state # "TERMINATED"
    BY <1>1, CollectBegins DEF Collecting, Collect
  <2>2. ~buffered => started <= rawTo
    BY DEF IInv, TypeOK, Unbuffered, Positions
  <2>3. Answered'
    BY <1>1, <2>1, <2>2, CollectKeeps DEF Answered, IInv, TypeOK
  <2>4. state' = "TERMINATED" => v = "L5_block"
    BY <1>1, <2>1, CollectMoves
  <2>5. EndedByFinish'
    BY <1>1, <2>4, CollectKeeps DEF EndedByFinish
  <2> QED BY <2>3, <2>5
<1>2. CASE PushCollects \/ LoopCollects \/ FinishCollects \/ Watchdog
  <2>1. \E v, next : Collecting(v, next)
    BY <1>2, CollectsAll
  <2> QED BY <1>1, <2>1
<1>3. ASSUME NEW n \in 0..MaxSentences, NEW rest \in BOOLEAN, PushUnbuffered(n, rest)
      PROVE  Answered' /\ EndedByFinish'
  <2>1. /\ UNCHANGED <<decisions, released, state>> /\ buffered' = FALSE
        /\ pc = "chunk" \/ state # "TERMINATED"
    BY <1>3 DEF PushUnbuffered, InPush, logVars, StartEvaluation, IInv, TypeOK
  <2>2. \E top, raw \in Nat : started' = top /\ rawTo' = raw /\ top <= raw
    <3>1. started = closed /\ closed \in Nat
      BY <1>3 DEF PushUnbuffered, InPush, IInv, TypeOK, Positions, Modes, InLoop
    <3>2. started' = closed + n /\ rawTo' = closed + n + (IF rest THEN 1 ELSE 0)
      BY <1>3, <3>1 DEF PushUnbuffered, Segment, StartEvaluation, taskVars
    <3> QED BY <3>1, <3>2
  <2>3. Blocked' <=> Blocked
    BY <2>1 DEF Blocked
  <2> QED BY <2>1, <2>2, <2>3, NothingUnanswered DEF Committed, EndedByFinish
<1>4. ASSUME NEW n \in 0..MaxSentences, NEW rest \in BOOLEAN, PushBuffered(n, rest)
      PROVE  Answered' /\ EndedByFinish'
  <2>1. /\ UNCHANGED <<decisions, released, state, started, pending, rawTo>>
        /\ pc = "chunk" \/ state # "TERMINATED"
    BY <1>4 DEF PushBuffered, InPush, logVars, taskVars, outVars
  <2>2. Blocked' <=> Blocked
    BY <2>1 DEF Blocked
  <2> QED BY <2>1, <2>2, NothingUnanswered DEF Committed, EndedByFinish
<1>5. CASE LoopStarts
  <2>1. /\ UNCHANGED <<decisions, released, rawTo>> /\ state' # "TERMINATED"
        /\ pending = 0 /\ started' = started + 1 /\ pending' = closed - todo + 1
    BY <1>5 DEF LoopStarts, StartEvaluation, logVars, outVars, segVars, IInv, TypeOK, Modes, InLoop
  <2>2. closed - todo = started
    BY <1>5 DEF LoopStarts, IInv, TypeOK, Positions
  <2> QED BY <2>1, <2>2, NothingUnanswered DEF Committed, EndedByFinish, IInv, TypeOK
<1>6. CASE FinishFlushes
  <2>1. /\ UNCHANGED <<decisions, released, rawTo>> /\ state' # "TERMINATED"
        /\ pending = 0 /\ started = closed
        /\ \/ UNCHANGED <<started, pending>>
           \/ started' = started + 1 /\ pending' = closed + 1
    BY <1>6 DEF FinishFlushes, StartEvaluation, taskVars, logVars, outVars, IInv, TypeOK,
                Positions, InLoop
  <2> QED BY <2>1, NothingUnanswered DEF Committed, EndedByFinish, IInv, TypeOK
<1>7. CASE FinishReturns
  <2>1. /\ UNCHANGED <<decisions, released, started, pending, rawTo, closed, open, todo, repairing>>
        /\ pc = "settle" /\ pending = 0 /\ pc' = "idle"
    BY <1>7 DEF FinishReturns, segVars, taskVars, logVars, outVars
  <2>2. state = "TERMINATED" => Blocked
    BY <2>1 DEF EndedByFinish
  <2>3. Blocked' <=> Blocked
    BY <2>1 DEF Blocked
  <2>4. ~Blocked => ~open /\ started = closed /\ todo = 0 /\ repairing = 0
    BY <2>1, <2>2 DEF IInv, TypeOK, Positions, Modes, InLoop
  <2> QED BY <2>1, <2>3, <2>4, NothingUnanswered DEF Committed, EndedByFinish
<1>8. CASE LoopEnds \/ Finish \/ FinishStops \/ Evaluate \/ RepairFails \/ Escalate
  <2>1. /\ UNCHANGED <<decisions, released, started, pending, rawTo>>
        /\ state' = "TERMINATED" => state = "TERMINATED"
        /\ state = "TERMINATED" => pc \in {"loop", "drain"} \/ Evaluate
    BY <1>8 DEF LoopEnds, Finish, FinishStops, Evaluate, RepairFails, Escalate, segVars, taskVars,
                logVars, outVars, IInv, Modes
  <2>2. Blocked' <=> Blocked
    BY <2>1 DEF Blocked
  <2>3. state' = "TERMINATED" /\ ~Blocked' => task = "none"
    BY <2>1, <2>2 DEF EndedByFinish, IInv, Positions
  <2>4. EndedByFinish'
    BY <2>1, <2>2, <2>3 DEF EndedByFinish, Evaluate
  <2> QED BY <2>1, <2>4, NothingUnanswered DEF Committed
<1>9. CASE RepairSucceeds
  <2>1. /\ UNCHANGED <<decisions, started, pending, rawTo>> /\ state' = "HOLDING"
        /\ pc = "repair" /\ Release(repairing, "replaced")
    BY <1>9 DEF RepairSucceeds, segVars, taskVars, logVars
  <2>2. released' = Append(released, [idx |-> repairing, how |-> "replaced"])
    BY <2>1 DEF Release
  <2>3. [idx |-> repairing, how |-> "replaced"] \in Piece /\ released \in Seq(Piece)
    BY <2>1 DEF IInv, TypeOK, Positions, Piece, Sentences
  <2>4. \A k \in DOMAIN released : k \in DOMAIN released' /\ released'[k] = released[k]
    BY <2>2, <2>3, Appended
  <2>5. Committed \subseteq Committed'
    BY <2>4 DEF Committed
  <2> QED BY <2>1, <2>5, NothingUnanswered DEF EndedByFinish
<1>10. CASE UNCHANGED vars
  BY <1>10 DEF vars, segVars, taskVars, logVars, ctlVars, outVars, Answered, EndedByFinish,
               Committed, Excused, Blocked
<1> QED BY <1>2, <1>3, <1>4, <1>5, <1>6, <1>7, <1>8, <1>9, <1>10 DEF Next, Resume, Chunk

CompleteInv == IInv /\ Answered /\ EndedByFinish

LEMMA CompleteBegins == Init => CompleteInv
<1>1. Init => Answered /\ EndedByFinish
  BY DEF Init, Answered, EndedByFinish
<1> QED BY <1>1, InitInvariant DEF CompleteInv

LEMMA CompleteStep == CompleteInv /\ [Next]_vars => CompleteInv'
BY NextInvariant, NextAnswered DEF CompleteInv

LEMMA CompleteMeans == CompleteInv => FinishedIsComplete
<1> SUFFICES ASSUME CompleteInv, state = "TERMINATED", ~Blocked
             PROVE  /\ pc = "idle" /\ ~open /\ started = closed
                    /\ pending = 0 /\ todo = 0 /\ repairing = 0
                    /\ \A i \in (rawTo + 1)..closed : i \in Committed \/ Excused(i)
  BY DEF FinishedIsComplete, Excused
<1>1. /\ pc = "idle" /\ ~open /\ started = closed
      /\ pending = 0 /\ todo = 0 /\ repairing = 0
  BY DEF CompleteInv, EndedByFinish
<1>2. \A i \in (rawTo + 1)..closed : i # 0
  BY DEF CompleteInv, IInv, TypeOK
<1> QED BY <1>1, <1>2 DEF CompleteInv, Answered

\* A finished answer that no rule blocked left no sentence behind, whatever
\* watchdogs, repairs and escalations happened on the way.
THEOREM FinishesComplete == Spec => []FinishedIsComplete
BY CompleteBegins, CompleteStep, CompleteMeans, PTL DEF Spec

-----------------------------------------------------------------------------
(* The gate implements CommitPromise                                        *)

\* The two parts of the mapping, as functions of the state they look at.
DealtAt(b, raw, p, rep, s) ==
    IF ~b THEN raw ELSE IF p # 0 THEN p - 1 ELSE IF rep # 0 THEN rep - 1 ELSE s

CopiesOf(raw, sent) ==
    [i \in Sentences |-> (IF i <= raw THEN 1 ELSE 0)
                         + Cardinality({k \in DOMAIN sent : sent[k].idx = i})]

\* The mapping of a state and of its successor, in these terms.
LEMMA ReaderMapping ==
    /\ Dealt = DealtAt(buffered, rawTo, pending, repairing, started)
    /\ Dealt' = DealtAt(buffered', rawTo', pending', repairing', started')
    /\ Copies = CopiesOf(rawTo, released)
    /\ Copies' = CopiesOf(rawTo', released')
BY DEF Dealt, DealtAt, Copies, CopiesOf

\* Unbuffered bytes are copies of the sentences they reach.
LEMMA RawCopies ==
    ASSUME NEW raw \in Nat
    PROVE  CopiesOf(raw, <<>>) = [i \in Sentences |-> IF i <= raw THEN 1 ELSE 0]
<1>1. \A i \in Sentences : {k \in DOMAIN << >> : <<>>[k].idx = i} = {}
  OBVIOUS
<1> QED BY <1>1, FS_EmptySet DEF CopiesOf

\* Sentences sent in order are sent once.
LEMMA TextCopies ==
    ASSUME NEW s \in Seq(Piece), \A j, k \in DOMAIN s : j < k => s[j].idx < s[k].idx
    PROVE  CopiesOf(0, s) =
             [i \in Sentences |-> IF \E k \in DOMAIN s : s[k].idx = i THEN 1 ELSE 0]
<1> SUFFICES ASSUME NEW i \in Sentences
             PROVE  (IF i <= 0 THEN 1 ELSE 0) + Cardinality({k \in DOMAIN s : s[k].idx = i})
                       = IF \E k \in DOMAIN s : s[k].idx = i THEN 1 ELSE 0
  BY DEF CopiesOf
<1> DEFINE K == {k \in DOMAIN s : s[k].idx = i}
<1>1. ~(i <= 0)
  BY ConstantsAssumption DEF Sentences
<1>2. CASE \E k \in DOMAIN s : s[k].idx = i
  <2>1. PICK k \in DOMAIN s : s[k].idx = i
    BY <1>2
  <2>2. DOMAIN s \subseteq Nat /\ i \in Nat
    BY LenProperties, ConstantsAssumption DEF Sentences
  <2>3. K = {k}
    BY <2>1, <2>2
  <2>4. Cardinality(K) = 1
    BY <2>3, FS_Singleton
  <2> QED BY <1>1, <1>2, <2>4
<1>3. CASE ~\E k \in DOMAIN s : s[k].idx = i
  <2>1. K = {}
    BY <1>3
  <2>2. Cardinality(K) = 0
    BY <2>1, FS_EmptySet
  <2> QED BY <1>1, <1>3, <2>2
<1> QED BY <1>2, <1>3

\* What has been dealt with stays among the sentences.
LEMMA DealtInRange == IInv => Dealt \in 0..MaxSentences
<1> SUFFICES ASSUME IInv PROVE Dealt \in 0..MaxSentences
  OBVIOUS
<1>1. /\ rawTo \in 0..MaxSentences /\ started \in 0..MaxSentences
      /\ pending \in 0..MaxSentences /\ repairing \in 0..MaxSentences
  BY DEF IInv, TypeOK
<1> QED BY <1>1, ConstantsAssumption DEF Dealt

\* A step that deals with the sentences up to `to` and sends some of them.
LEMMA Deals ==
    ASSUME ~Over, NEW to \in Dealt..MaxSentences, Dealt' = to,
           NEW sent \in SUBSET ((Dealt + 1)..to),
           Copies' = [i \in Sentences |-> IF i \in sent THEN 1 ELSE Copies[i]]
    PROVE  Reader!Deal
<1>1. Over' \in BOOLEAN
  BY DEF Over
<1> QED BY <1>1 DEF Reader!Deal, Sentences

\* A step the reader sees nothing of, or only the end of the answer.
LEMMA DealsNothing ==
    ASSUME IInv, Dealt' = Dealt, Copies' = Copies, ~Over \/ Over' = Over
    PROVE  [Reader!Deal]_(Reader!promiseVars)
<1>1. CASE ~Over
  <2>1. Dealt \in Dealt..MaxSentences
    BY DealtInRange
  <2> DEFINE none == {}
  <2>2. /\ none \in SUBSET ((Dealt + 1)..Dealt)
        /\ Copies' = [i \in Sentences |-> IF i \in none THEN 1 ELSE Copies[i]]
    BY DEF Copies
  <2> HIDE DEF none
  <2>3. Reader!Deal
    BY <1>1, <2>1, <2>2, Deals
  <2> QED BY <2>3
<1>2. CASE Over' = Over
  BY <1>2 DEF Reader!promiseVars
<1> QED BY <1>1, <1>2

\* Once the answer is over for the reader, no step adds to it or reopens it.
LEMMA OverIsFinal ==
    ASSUME IInv, ~Escalates, Over, [Next]_vars
    PROVE  Over' /\ Dealt' = Dealt /\ Copies' = Copies
<1>1. /\ state = "TERMINATED" /\ pc # "repair" /\ (InLoop => buffered)
      /\ pc = "idle" \/ (buffered /\ pending = 0 /\ task = "none")
  BY DEF IInv, Positions, Modes, Over
<1>2. pc \in {"loop", "drain", "settle"} => task = "none" /\ pending = 0
  BY <1>1 DEF IInv, Modes, Positions, InLoop
<1>3. ~(PushCollects \/ LoopCollects \/ FinishCollects \/ Watchdog)
  BY <1>1, <1>2 DEF PushCollects, LoopCollects, FinishCollects, Watchdog, TaskDone
<1>4. ~(RepairSucceeds \/ RepairFails \/ Escalate \/ LoopStarts \/ FinishFlushes \/ Finish)
  BY <1>1 DEF RepairSucceeds, RepairFails, Escalate, LoopStarts, FinishFlushes, Finish
<1>5. UNCHANGED <<buffered, state, started, pending, repairing, rawTo, released>>
      /\ (pc = "idle" => pc' = "idle")
  <2>1. CASE Chunk
    BY <1>1, <2>1 DEF Chunk, PushUnbuffered, PushBuffered, InPush, taskVars, outVars
  <2>2. CASE LoopEnds \/ FinishStops \/ FinishReturns
    BY <1>1, <2>2 DEF LoopEnds, FinishStops, FinishReturns, taskVars, outVars
  <2>3. CASE Evaluate
    BY <2>3 DEF Evaluate, ctlVars, outVars
  <2>4. CASE UNCHANGED vars
    BY <2>4 DEF vars, taskVars, ctlVars, outVars
  <2> QED BY <1>3, <1>4, <2>1, <2>2, <2>3, <2>4 DEF Next, Resume
<1> QED BY <1>1, <1>5 DEF Over, Dealt, Copies

\* Unbuffered, the reader gets the bytes of each chunk as it comes.
LEMMA UnbufferedReader ==
    ASSUME IInv, IInv', ~Over, ~buffered, ~buffered', [Next]_vars
    PROVE  [Reader!Deal]_(Reader!promiseVars)
<1>1. released = <<>> /\ released' = <<>> /\ rawTo \in 0..MaxSentences /\ rawTo' \in 0..MaxSentences
  BY DEF IInv, TypeOK, Unbuffered
<1>2. Dealt = rawTo /\ Dealt' = rawTo'
  BY ReaderMapping DEF DealtAt
<1>3. CASE rawTo' = rawTo
  BY <1>1, <1>2, <1>3, ReaderMapping, DealsNothing
<1>4. CASE rawTo' # rawTo
  <2>1. PICK n \in 0..MaxSentences, rest \in BOOLEAN : PushUnbuffered(n, rest)
    BY <1>4 DEF Next, Resume, Chunk, PushBuffered, vars, outVars, PushCollects, LoopCollects,
                FinishCollects, Collect, LoopStarts, LoopEnds, Finish, FinishStops, FinishFlushes,
                FinishReturns, RepairSucceeds, RepairFails, Evaluate, Watchdog, Escalate
  <2>2. PICK to \in Nat : rawTo' = to /\ rawTo <= to /\ to <= MaxSentences
    <3>1. /\ rawTo = closed + (IF open THEN 1 ELSE 0) /\ closed \in Nat
      BY DEF IInv, TypeOK, Unbuffered
    <3>2. /\ rawTo' = closed + n + (IF rest THEN 1 ELSE 0)
          /\ closed + n + (IF rest THEN 1 ELSE 0) <= MaxSentences
          /\ n > 0 \/ rest \/ ~open
      BY <2>1 DEF PushUnbuffered, Segment
    <3> QED BY <3>1, <3>2
  <2> DEFINE sent == (rawTo + 1)..to
  <2>3. Copies' = [i \in Sentences |-> IF i \in sent THEN 1 ELSE Copies[i]]
    <3>1. Copies' = [i \in Sentences |-> IF i <= to THEN 1 ELSE 0]
      BY <1>1, <2>2, ReaderMapping, RawCopies
    <3>2. Copies = [i \in Sentences |-> IF i <= rawTo THEN 1 ELSE 0]
      BY <1>1, ReaderMapping, RawCopies
    <3> QED BY <1>1, <2>2, <3>1, <3>2, ConstantsAssumption DEF Sentences
  <2>4. sent \in SUBSET ((Dealt + 1)..to) /\ to \in Dealt..MaxSentences
    BY <1>1, <1>2, <2>2
  <2> HIDE DEF sent
  <2> QED BY <1>2, <2>2, <2>3, <2>4, Deals
<1> QED BY <1>3, <1>4

\* Buffered, a step that sends the sentences of `sent` and settles those up to `to`.
LEMMA Sends ==
    ASSUME IInv, IInv', ~Over, lane, lane', buffered, buffered',
           NEW to \in Dealt..MaxSentences, Dealt' = to,
           NEW sent \in SUBSET ((Dealt + 1)..to), Committed' = Committed \cup sent
    PROVE  Reader!Deal
<1>1. rawTo = 0 /\ rawTo' = 0
  BY DEF IInv, Unbuffered
<1>2. released \in Seq(Piece) /\ released' \in Seq(Piece)
  BY DEF IInv, TypeOK, Piece
<1>3. /\ \A j, k \in DOMAIN released : j < k => released[j].idx < released[k].idx
      /\ \A j, k \in DOMAIN released' : j < k => released'[j].idx < released'[k].idx
  BY DEF IInv, Sent
<1>4. Copies = [i \in Sentences |-> IF \E k \in DOMAIN released : released[k].idx = i THEN 1 ELSE 0]
  BY <1>1, <1>2, <1>3, ReaderMapping, TextCopies
<1>5. Copies' = [i \in Sentences |-> IF \E k \in DOMAIN released' : released'[k].idx = i THEN 1 ELSE 0]
  BY <1>1, <1>2, <1>3, ReaderMapping, TextCopies
<1>6. \A i \in Sentences : (\E k \in DOMAIN released' : released'[k].idx = i)
                            <=> i \in sent \/ \E k \in DOMAIN released : released[k].idx = i
  BY DEF Committed
<1>7. Copies' = [i \in Sentences |-> IF i \in sent THEN 1 ELSE Copies[i]]
  BY <1>4, <1>5, <1>6
<1> QED BY <1>7, Deals

\* Buffered, a verdict or a repair settles the sentence that was in flight.
LEMMA BufferedReader ==
    ASSUME IInv, IInv', ~Over, lane, lane', buffered, buffered', [Next]_vars
    PROVE  [Reader!Deal]_(Reader!promiseVars)
<1> USE ConstantsAssumption
<1>0. started \in 0..MaxSentences /\ pending \in {0, started} /\ repairing \in {0, started}
  BY DEF IInv, TypeOK, Positions
<1>1. ASSUME UNCHANGED released, Dealt' = Dealt, rawTo' = rawTo
      PROVE  [Reader!Deal]_(Reader!promiseVars)
  BY <1>1, ReaderMapping, DealsNothing
<1>2. rawTo = 0 /\ rawTo' = 0
  BY DEF IInv, Unbuffered
<1>3. ASSUME NEW v, NEW next, Collecting(v, next)
      PROVE  [Reader!Deal]_(Reader!promiseVars)
  <2> DEFINE sent == Committed' \cap {started}
  <2>1. pending = started /\ started \in Sentences /\ started' = started /\ pending' = 0
    BY <1>3, CollectBegins DEF Collecting, Collect
  <2>2. Dealt = started - 1
    BY <2>1, ReaderMapping DEF DealtAt, Sentences
  <2>3. CASE repairing' = started /\ released' = released
    <3>1. Dealt' = started - 1
      BY <2>1, <2>3, ReaderMapping DEF DealtAt, Sentences
    <3> QED BY <1>1, <1>2, <2>2, <2>3, <3>1
  <2>4. CASE repairing' = 0
    <3>1. Dealt' = started
      BY <2>1, <2>4, ReaderMapping DEF DealtAt
    <3>2. Committed' = Committed \cup sent
      <4>1. \A k \in DOMAIN released' :
               \/ k \in DOMAIN released /\ released'[k] = released[k]
               \/ released'[k].idx = pending
        BY <1>3, CollectSends
      <4>2. Committed \subseteq Committed'
        BY <1>3, CollectKeeps
      <4> QED BY <2>1, <4>1, <4>2 DEF Committed
    <3>3. sent \in SUBSET ((Dealt + 1)..started) /\ started \in Dealt..MaxSentences
      BY <1>0, <2>1, <2>2 DEF Sentences
    <3> HIDE DEF sent
    <3>4. Reader!Deal
      BY <3>1, <3>2, <3>3, Sends
    <3> QED BY <3>4
  <2>5. \/ repairing' = started /\ released' = released
        \/ repairing' = 0
    BY <1>3, <2>1, CollectMoves
  <2> QED BY <2>3, <2>4, <2>5
<1>4. CASE PushCollects \/ LoopCollects \/ FinishCollects \/ Watchdog
  BY <1>3, <1>4, CollectsAll
<1>5. CASE LoopStarts \/ FinishFlushes
  <2>1. /\ pending = 0 /\ repairing = 0 /\ repairing' = 0 /\ released' = released
        /\ pending' # 0 => pending' = started + 1
        /\ pending' = 0 => started' = started
    BY <1>5 DEF LoopStarts, FinishFlushes, StartEvaluation, taskVars, outVars, IInv, TypeOK,
                Positions, InLoop, Modes
  <2>2. Dealt = started
    BY <2>1, ReaderMapping DEF DealtAt
  <2>3. Dealt' = started
    <3>1. CASE pending' = 0
      BY <2>1, <3>1, ReaderMapping DEF DealtAt
    <3>2. CASE pending' # 0
      BY <1>0, <2>1, <3>2, ReaderMapping DEF DealtAt
    <3> QED BY <3>1, <3>2
  <2> QED BY <1>1, <1>2, <2>1, <2>2, <2>3
<1>6. CASE RepairSucceeds \/ RepairFails
  <2>1. /\ pc = "repair" /\ pending = 0 /\ pending' = 0 /\ started' = started
        /\ repairing = started /\ started \in Sentences
    BY <1>0, <1>6 DEF RepairSucceeds, RepairFails, taskVars, IInv, Positions, Sentences
  <2>2. Dealt = started - 1
    BY <2>1, ReaderMapping DEF DealtAt, Sentences
  <2>3. CASE RepairSucceeds
    <3> DEFINE r == [idx |-> started, how |-> "replaced"]
               sent == {started}
    <3>1. released' = Append(released, r) /\ repairing' = 0
      BY <2>1, <2>3 DEF RepairSucceeds, Release
    <3>2. r \in Piece /\ r.idx = started /\ released \in Seq(Piece)
      BY <2>1 DEF Piece, IInv, TypeOK
    <3> HIDE DEF r
    <3>3. Committed' = Committed \cup sent
      <4>1. /\ DOMAIN Append(released, r) = DOMAIN released \cup {Len(released) + 1}
            /\ \A k \in DOMAIN released : Append(released, r)[k] = released[k]
            /\ Append(released, r)[Len(released) + 1] = r
        BY <3>2, Appended
      <4>2. \A i : i \in Committed' <=> i \in Committed \/ i = started
        BY <3>1, <3>2, <4>1 DEF Committed
      <4> QED BY <4>2
    <3>4. Dealt' = started
      BY <2>1, <3>1, ReaderMapping DEF DealtAt
    <3>5. sent \in SUBSET ((Dealt + 1)..started) /\ started \in Dealt..MaxSentences
      BY <1>0, <2>1, <2>2 DEF Sentences
    <3> HIDE DEF sent
    <3>6. Reader!Deal
      BY <3>3, <3>4, <3>5, Sends
    <3> QED BY <3>6
  <2>4. CASE RepairFails
    <3> DEFINE sent == {}
    <3>1. released' = released /\ repairing' \in {0, started}
      BY <2>1, <2>4 DEF RepairFails, outVars
    <3>2. CASE repairing' = started
      <4>1. Dealt' = started - 1
        BY <2>1, <3>2, ReaderMapping DEF DealtAt, Sentences
      <4> QED BY <1>1, <1>2, <2>2, <3>1, <4>1
    <3>3. CASE repairing' = 0
      <4>1. Dealt' = started
        BY <2>1, <3>3, ReaderMapping DEF DealtAt
      <4>2. Committed' = Committed \cup sent
        BY <3>1 DEF Committed
      <4>3. sent \in SUBSET ((Dealt + 1)..started) /\ started \in Dealt..MaxSentences
        BY <1>0, <2>1, <2>2 DEF Sentences
      <4> HIDE DEF sent
      <4>4. Reader!Deal
        BY <4>1, <4>2, <4>3, Sends
      <4> QED BY <4>4
    <3> QED BY <3>1, <3>2, <3>3
  <2> QED BY <1>6, <2>3, <2>4
<1>7. CASE UNCHANGED <<started, pending, repairing, released>>
  BY <1>1, <1>2, <1>7 DEF Dealt
<1> QED BY <1>4, <1>5, <1>6, <1>7
        DEF Next, Resume, Chunk, PushUnbuffered, PushBuffered, LoopEnds, Finish, FinishStops,
            FinishReturns, Evaluate, Escalate, vars, taskVars, ctlVars, outVars

\* Without a caller of escalate() the mode is the one Lane A asked for.
LEMMA ModeIsFixed ==
    ~Escalates /\ lane \in BOOLEAN /\ buffered = lane /\ [Next]_vars =>
        lane' = lane /\ buffered' = lane'
BY DEF Next, Resume, Chunk, PushUnbuffered, PushBuffered, PushCollects, LoopCollects, FinishCollects,
       Collect, LoopStarts, LoopEnds, Finish, FinishStops, FinishFlushes, FinishReturns,
       RepairSucceeds, RepairFails, Evaluate, Watchdog, Escalate, vars

\* The gate's invariant beside the mode that nobody changes.
ReaderInv == IInv /\ lane \in BOOLEAN /\ buffered = lane

\* A gate that has done nothing has promised nothing.
LEMMA PromiseBegins == Init => ReaderInv /\ Reader!PromiseInit
<1> SUFFICES ASSUME Init PROVE ReaderInv /\ Reader!PromiseInit
  OBVIOUS
<1>1. ReaderInv
  BY InitInvariant DEF Init, ReaderInv
<1>2. Dealt = 0 /\ ~Over
  BY DEF Init, Dealt, Over
<1>3. Copies = [i \in Sentences |-> 0]
  <2>1. Copies = CopiesOf(0, <<>>)
    BY ReaderMapping DEF Init
  <2>2. Copies = [i \in Sentences |-> IF i <= 0 THEN 1 ELSE 0]
    BY <2>1, RawCopies
  <2> QED BY <2>2, ConstantsAssumption DEF Sentences
<1> QED BY <1>1, <1>2, <1>3 DEF Reader!PromiseInit, Sentences, Over

\* Every step of the gate deals with sentences, or changes nothing the reader sees.
LEMMA PromiseStep ==
    ASSUME ~Escalates, ReaderInv, [Next]_vars
    PROVE  ReaderInv' /\ [Reader!Deal]_(Reader!promiseVars)
<1>1. ReaderInv'
  BY NextInvariant, ModeIsFixed DEF ReaderInv
<1>2. CASE Over
  <2>1. Over' /\ Dealt' = Dealt /\ Copies' = Copies
    BY <1>2, OverIsFinal DEF ReaderInv
  <2>2. IInv /\ Over' = Over
    BY <1>2, <2>1 DEF Over, ReaderInv
  <2> QED BY <1>1, <2>1, <2>2, DealsNothing
<1>3. CASE ~Over /\ ~buffered
  BY <1>1, <1>3, ModeIsFixed, UnbufferedReader DEF ReaderInv
<1>4. CASE ~Over /\ buffered
  BY <1>1, <1>4, ModeIsFixed, BufferedReader DEF ReaderInv
<1> QED BY <1>2, <1>3, <1>4

\* The gate, used as the gateway uses it, implements what the reader is promised:
\* sentences in order, each at most once, nothing after the end, in both modes.
THEOREM GateKeepsPromise == ASSUME ~Escalates PROVE Spec => KeepsPromise
BY PromiseBegins, PromiseStep, PTL DEF Spec, KeepsPromise, Reader!PromiseSpec
=============================================================================
