------------------------------- MODULE Repair -------------------------------
(* One flagged sentence being repaired: CommitGate._do_repair asks the repairer of
   gate/repair.py for a replacement, the repairer asks the model for one and the
   risk engine whether it may ship.  The evidence handed to the model comes from the
   claim verifier's hint (observer/verifier.py) or from the trusted passages.  A
   completion is a sequence of tokens: reasoning tags, line breaks, the label models
   put before an answer, quotation marks and words.  The annotator of gate/ladder.py,
   the rung that needs no model, is a function of the sentence. *)
EXTENDS Naturals, Sequences, FiniteSets, SequencesExt

CONSTANTS
    Completions,         \* what the model may return, sequences of Tokens
    Originals,           \* original sentences: "claim", "certain" and "stop" tokens
    ClauseLists,         \* lengths of a sentence's clauses, as sequences
    Retrieved,           \* what retrieval found, sequences of Evidence
    Supports,            \* entailment scores, tenths, or Unscored
    MinClaimChars,       \* MIN_CLAIM_CHARS
    MaxAttempts,         \* SentenceRepairer.max_attempts
    MaxRepairAttempts    \* CommitGate.max_repair_attempts

Tokens == {"open", "close", "line", "label", "quote", "word"}
Evidence == [trusted : BOOLEAN, blank : BOOLEAN]

\* A sentence is closed where it stops.
ASSUME RepairAssumption ==
    /\ {MaxAttempts, MaxRepairAttempts, MinClaimChars} \subseteq Nat \ {0}
    /\ Completions \subseteq Seq(Tokens) /\ Retrieved \subseteq Seq(Evidence)
    /\ \A t \in Originals : /\ t \in Seq({"claim", "certain", "stop"})
                            /\ \A i \in DOMAIN t : t[i] = "stop" => i = Len(t)

VARIABLES
    mending,     \* the call and attempt in progress, what was generated, the outcome
    completion,  \* the model's last completion, as it came
    evidence,    \* the passages of the repair prompt
    lastResult,  \* SentenceRepairer.last_result: attempts and why it ended
    attempted    \* history: completions asked for this sentence

repairVars == <<mending, completion, evidence, lastResult, attempted>>

NoResult == [attempts |-> 0, reason |-> "none"]
Unscored == 99
Idle == [pc |-> "idle", call |-> 0, attempt |-> 0, generated |-> 0, aim |-> 0, original |-> <<>>, text |-> <<>>]
RungNames == {"L0_pass", "L1_annotate", "L2_repair", "L3_reroute", "L4_hold", "L5_block"}
Accepted == {"L0_pass", "L1_annotate"}

\* The members of t at the positions K, in their order.
OnlyAt(t, K) ==
    LET upTo[i \in 0..Len(t)] ==
            IF i = 0 THEN <<>> ELSE IF i \in K THEN Append(upTo[i - 1], t[i]) ELSE upTo[i - 1]
    IN  upTo[Len(t)]

-----------------------------------------------------------------------------
(* SentenceRepairer._tidy. *)

\* Where a reasoning block opens: no block is open there already.
Opens(t, i) ==
    /\ t[i] = "open"
    /\ \A j \in 1..(i - 1) : t[j] = "open" => \E m \in j..i : t[m] = "close"

\* A block ends at the first closer after its opener, or with the completion.
Reasoning(t, i) ==
    \E o \in 1..i : Opens(t, o) /\ \A m \in o..(i - 1) : t[m] # "close"

\* Plausible bug: an opener the budget cut off before its closer is taken for a stray tag.
UnreasonedClosedOnly(t) ==
    OnlyAt(t, {i \in DOMAIN t : /\ t[i] \notin {"open", "close"}
                                /\ ~(Reasoning(t, i) /\ \E m \in i..Len(t) : t[m] = "close")})

Unreasoned(t) ==
    OnlyAt(t, {i \in DOMAIN t : t[i] \notin {"open", "close"} /\ ~Reasoning(t, i)})

\* The first line that holds anything.
FirstLine(t) ==
    LET full == {i \in DOMAIN t : t[i] # "line"}
    IN  IF full = {} THEN <<>>
        ELSE LET a == CHOOSE i \in full : \A j \in full : i <= j
                 ends == {i \in a..Len(t) : t[i] = "line"}
                 b == IF ends = {} THEN Len(t) + 1 ELSE CHOOSE i \in ends : \A j \in ends : i <= j
             IN  SubSeq(t, a, b - 1)

Unlabelled(t) == IF t # <<>> /\ Head(t) = "label" THEN Tail(t) ELSE t

Unquoted(t) ==
    LET said == {i \in DOMAIN t : t[i] # "quote"}
    IN  IF said = {} THEN <<>>
        ELSE SubSeq(t, CHOOSE i \in said : \A j \in said : i <= j,
                       CHOOSE i \in said : \A j \in said : i >= j)

\* Reasoning first, then the first line, then the label, and the quotes last.
Tidy(t) == Unquoted(Unlabelled(FirstLine(Unreasoned(t))))

-----------------------------------------------------------------------------
(* The claim verifier: the clauses of a sentence, and the claims it checks. *)

\* Spans of clause numbers: a clause too short to be a claim joins the next one, and
\* a remainder too short to be one is left out, unless it is the whole sentence.
SplitClaims(lengths) ==
    LET chars(a, b) == FoldLeft(+, 0, SubSeq(lengths, a, b))
        Take(acc, i) == IF chars(acc.from, i) >= MinClaimChars
                        THEN [from |-> i + 1, spans |-> Append(acc.spans, <<acc.from, i>>)]
                        ELSE acc
        spans == FoldLeft(Take, [from |-> 1, spans |-> <<>>], [i \in DOMAIN lengths |-> i]).spans
    IN  IF spans = <<>> THEN << <<1, Len(lengths)>> >> ELSE spans

Trusted(passages) == OnlyAt(passages, {i \in DOMAIN passages : passages[i].trusted})
Worded(passages) == OnlyAt(passages, {i \in DOMAIN passages : ~passages[i].blank})
UpTo3(q) == SubSeq(q, 1, IF Len(q) < 3 THEN Len(q) ELSE 3)

\* A claim with nothing trusted to check it against, or that the model could not
\* score, is unjudged: never supported.  Support is in tenths.
VerifyClaims(claims, passages, support) ==
    [n \in 1..Len(claims) |->
        IF Worded(Trusted(passages)) = <<>> \/ support[n] = Unscored
        THEN [label |-> "unjudged", support |-> Unscored]
        ELSE [label |-> IF support[n] >= 5 THEN "supported" ELSE "contradicted",
              support |-> support[n]]]

\* The least supported judged claim, if it is contradicted (a support of exactly zero
\* counts as full support there); otherwise the repair aims at the whole sentence.
Aim(verdict) ==
    LET judged == {n \in DOMAIN verdict : verdict[n].label # "unjudged"}
        of(n) == IF verdict[n].support = 0 THEN 10 ELSE verdict[n].support
        worst == CHOOSE n \in judged : \A m \in judged : of(n) < of(m) \/ (of(n) = of(m) /\ n <= m)
    IN  IF judged # {} /\ verdict[worst].label = "contradicted" THEN worst ELSE 0

\* The engine's hint names the trusted passages; without one the repairer takes those
\* that hold anything.
HintEvidence(passages) == UpTo3(Trusted(passages))
FallbackEvidence(passages) == UpTo3(Worded(Trusted(passages)))

-----------------------------------------------------------------------------
(* Annotation: the markers are softened, a citation and the note put before the end. *)
Softened(t) == [i \in DOMAIN t |-> IF t[i] = "certain" THEN "hedge" ELSE t[i]]

AppendBeforeEnd(t, mark) ==
    IF mark \in Range(t) THEN t
    ELSE IF t # <<>> /\ Last(t) = "stop" THEN Front(t) \o <<mark, "stop">> ELSE Append(t, mark)

Annotate(t, overconfident, cited, ungrounded) ==
    LET a == IF overconfident THEN Softened(t) ELSE t
        b == IF cited THEN AppendBeforeEnd(a, "citation") ELSE a
    IN  IF t = <<>> THEN t
        ELSE IF ungrounded THEN AppendBeforeEnd(b, "unverified") ELSE b

-----------------------------------------------------------------------------
(* The state machine. *)

AnnotateSentence ==
    /\ mending.pc = "idle"
    /\ \E t \in Originals, overconfident, cited, ungrounded \in BOOLEAN :
        mending' = [Idle EXCEPT !.pc = "annotated", !.original = t,
                                !.text = Annotate(t, overconfident, cited, ungrounded)]
    /\ UNCHANGED <<completion, evidence, lastResult, attempted>>

\* The engine that prices for real gives a hint; the stub and a failed one give none.
StartRepair ==
    /\ mending.pc = "idle"
    /\ \E passages \in Retrieved, hinted \in BOOLEAN, lengths \in ClauseLists :
        \E support \in [1..Len(SplitClaims(lengths)) -> Supports] :
        /\ evidence' = IF hinted THEN HintEvidence(passages) ELSE FallbackEvidence(passages)
        /\ mending' = [Idle EXCEPT !.pc = "generate", !.call = 1,
                                   !.aim = IF hinted THEN Aim(VerifyClaims(SplitClaims(lengths), passages, support)) ELSE 0]
    /\ UNCHANGED <<completion, lastResult, attempted>>

\* repair() returns without a replacement; the gate asks again, or withholds.
GiveUp(m) ==
    /\ lastResult' = [attempts |-> MaxAttempts,
                      reason |-> IF m.generated = 0 THEN "nothing" ELSE "unverified"]
    /\ mending' = IF m.call < MaxRepairAttempts
                  THEN [m EXCEPT !.pc = "generate", !.call = @ + 1, !.attempt = 0, !.generated = 0]
                  ELSE [m EXCEPT !.pc = "withheld"]

AttemptFails(m) ==
    IF m.attempt < MaxAttempts
    THEN mending' = [m EXCEPT !.pc = "generate"] /\ UNCHANGED lastResult
    ELSE GiveUp(m)

\* The provider answers, with nothing usable perhaps, or raises.
Generate ==
    /\ mending.pc = "generate"
    /\ attempted' = attempted + 1
    /\ \E t \in Completions :
        LET m == [mending EXCEPT !.attempt = @ + 1]
        IN  IF Tidy(t) = <<>>
            THEN AttemptFails(m) /\ UNCHANGED completion
            ELSE /\ mending' = [m EXCEPT !.pc = "verify", !.generated = @ + 1, !.text = Tidy(t)]
                 /\ completion' = t
                 /\ UNCHANGED lastResult
    /\ UNCHANGED evidence

Replaced(rung) ==
    /\ rung \in Accepted
    /\ mending' = [mending EXCEPT !.pc = "replaced"]
    /\ lastResult' = [attempts |-> mending.attempt, reason |-> rung]
    /\ UNCHANGED completion

Refused(rung) ==
    /\ rung \notin Accepted
    /\ AttemptFails([mending EXCEPT !.text = <<>>])
    /\ completion' = <<>>

\* The replacement is priced by the engine that flagged the original; an engine that
\* raises holds it.
Verify ==
    /\ mending.pc = "verify"
    /\ \E rung \in RungNames : Replaced(rung) \/ Refused(rung)
    /\ UNCHANGED <<evidence, attempted>>

NextSentence ==
    /\ mending.pc \in {"annotated", "replaced", "withheld"}
    /\ mending' = Idle /\ completion' = <<>> /\ evidence' = <<>> /\ attempted' = 0
    /\ UNCHANGED lastResult

RepairInit ==
    /\ mending = Idle /\ completion = <<>> /\ evidence = <<>>
    /\ lastResult = NoResult /\ attempted = 0

RepairNext == AnnotateSentence \/ StartRepair \/ Generate \/ Verify \/ NextSentence

RepairSpec == RepairInit /\ [][RepairNext]_repairVars

-----------------------------------------------------------------------------
\* What the completion says outside its reasoning, read token by token.
Hear(h, x) ==
    CASE x = "open"  -> [mode |-> "thinking", said |-> h.said]
      [] x = "close" -> [mode |-> "aloud", said |-> h.said]
      [] OTHER -> [mode |-> h.mode, said |-> IF h.mode = "aloud" THEN Append(h.said, x) ELSE h.said]

Spoken(t) ==
    LET heard[i \in 0..Len(t)] ==
            IF i = 0 THEN [mode |-> "aloud", said |-> <<>>] ELSE Hear(heard[i - 1], t[i])
    IN  heard[Len(t)].said

\* What a sentence claims, and where it stops.
Claimed(t) == OnlyAt(t, {i \in DOMAIN t : t[i] \in {"claim", "stop"}})

\* A repaired sentence that ships is one line of what the model said aloud, with no tag
\* or reasoning in it, and no untrusted passage was offered as its evidence; an
\* annotated one says what the original said (gate/repair.py _tidy, F-011; ladder.py).
ShipsOneSpokenSentence ==
    /\ mending.pc \in {"verify", "replaced"} =>
        /\ mending.text # <<>> /\ Range(mending.text) \subseteq {"label", "quote", "word"}
        /\ \E a, b \in DOMAIN Spoken(completion) : SubSeq(Spoken(completion), a, b) = mending.text
        /\ \A i \in DOMAIN evidence : evidence[i].trusted
    /\ mending.pc = "annotated" =>
        /\ Claimed(mending.text) = Claimed(mending.original)
        /\ "stop" \in Range(mending.original) => Last(mending.text) = "stop"

\* The repairer's two failures escalate: no third completion is asked for one sentence
\* (gate/sentence_gate.py _do_repair).
TwoFailuresEscalate == attempted <= MaxRepairAttempts
=============================================================================
