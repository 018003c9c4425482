-------------------------------- MODULE LaneC -------------------------------
(***************************************************************************)
(* The background audits: interlock/lanec, and the ledger's table of       *)
(* fairness pairs they are imported into.                                  *)
(*                                                                         *)
(* evalues.py bets on a stream of 0/1 observations; fairness.py makes twin *)
(* questions and compares the answers; judge.py samples delivered answers  *)
(* and drift.py decides what may still be quoted.  The fairness monitor is *)
(* rebuilt from the stored pairs whenever the console asks; the monitor of *)
(* disagreements lives in memory.  Every observation fed to either is 0 or *)
(* 1.  An e-value is a reduced fraction <<above, below>>; the floor of     *)
(* 10^-12 under the variance is left out.                                  *)
(***************************************************************************)
EXTENDS Integers, FiniteSets, FiniteSetsExt, SequencesExt

CONSTANTS
    Null,        \* one over the rate that is tolerated: mu0 = 1 / Null
    Warmup,      \* observations before the first bet
    Alarm,       \* one over alpha
    MaxSeen,     \* bound: observations of a monitor
    Pairs,       \* ids of twin pairs
    Answers,     \* what the extractor may read in an answer:
                 \* [grants, refuses, amounts, percentages, hedges, action]
    Words        \* words of a question: sequences of pieces

ASSUME LaneCAssumption ==
    /\ Null \in Nat \ {0, 1} /\ Alarm \in Nat \ {0, 1}
    /\ Warmup \in Nat \ {0} /\ MaxSeen \in Nat

\* One of: the fairness_pairs, oldest first, the pair and whether it was
\* disparate; the monitor of disagreements and the last report; a question
\* and its twin.
VARIABLE lane

-----------------------------------------------------------------------------
(* The e-value monitor                                                      *)

NoBets == [n |-> 0, k |-> 0, e |-> <<1, 1>>, top |-> <<1, 1>>]

GcdOf(a, b) ==
    CHOOSE d \in 1..Min({a, b}) :
        a % d = 0 /\ b % d = 0 /\ \A c \in (d + 1)..Min({a, b}) : a % c # 0 \/ b % c # 0

Reduced(f) ==
    IF f[1] = 0 THEN <<0, 1>> ELSE LET d == GcdOf(f[1], f[2]) IN <<f[1] \div d, f[2] \div d>>
Times(f, g) == Reduced(<<f[1] * g[1], f[2] * g[2]>>)
AtMost(f, g) == f[1] * g[2] <= g[1] * f[2]

\* The next bet: the excess over its second moment, at most half of what would
\* be ruin, nothing during the warm-up or while there is no excess.
Bet(m) ==
    IF m.n < Warmup \/ m.k * Null <= m.n THEN <<0, 1>>
    ELSE LET excess == m.k * Null - m.n
             raw == <<excess * m.n * Null, m.k * (m.n - m.k) * Null * Null + excess * excess>>
         IN  IF AtMost(raw, <<Null, 2>>) THEN raw ELSE <<Null, 2>>

\* 1 + bet * (x - mu0)
Factor(bet, x) == <<bet[2] * Null + bet[1] * (x * Null - 1), bet[2] * Null>>

Folded(m, x, bet) ==
    LET e == Times(m.e, Factor(bet, x))
    IN  [n |-> m.n + 1, k |-> m.k + x, e |-> e, top |-> IF AtMost(e, m.top) THEN m.top ELSE e]

\* Mutant: the bet has seen the observation it is placed on.
UpdateSeeing(m, x) == Folded(m, x, Bet([m EXCEPT !.n = @ + 1, !.k = @ + x]))

\* The bet is placed before the observation is counted.
Update(m, x) == Folded(m, x, Bet(m))

\* Latched: the largest value so far decides.
Alerted(m) == AtMost(<<Alarm, 1>>, m.top)

Extend(m, observations) ==
    LET after[i \in 0..Len(observations)] ==
            IF i = 0 THEN m ELSE Update(after[i - 1], observations[i])
    IN  after[Len(observations)]

-----------------------------------------------------------------------------
(* Twins                                                                    *)

\* A refusal wins over an approval in the same answer.
Approved(a) == IF a.refuses THEN "no" ELSE IF a.grants THEN "yes" ELSE "unread"

Uncertain(a, b) == (Approved(a) = "unread") # (Approved(b) = "unread")

\* A decision read from one side only is not a difference.
Disparate(a, b) ==
    \/ "unread" \notin {Approved(a), Approved(b)} /\ Approved(a) # Approved(b)
    \/ a.amounts # b.amounts \/ a.percentages # b.percentages \/ a.action # b.action
    \/ a.hedges - b.hedges \notin -1..1

Indicator(a, b) == IF Disparate(a, b) THEN 1 ELSE 0

\* The axis where a customer may be called he or she.
Left == <<"he">>
Right == <<"s", "he">>

PartOf(marker, question) == \E w \in Range(question) : marker \in SubSeqs(w)

\* The side the question mentions, the left one first, and what replaces it.
Applicable(question) ==
    IF PartOf(Left, question) THEN {<<Left, Right>>}
    ELSE IF PartOf(Right, question) THEN {<<Right, Left>>} ELSE {}

\* Every occurrence is replaced, inside words as well.
Swap(question, from, to) ==
    [i \in DOMAIN question |-> ReplaceAllSubSeqs(to, from, question[i])]

-----------------------------------------------------------------------------
(* The deep judge                                                           *)

\* "unsupported" contains "supported", so it is looked for first; a reply
\* that says neither is unclear.
Verdict(says) ==
    IF says \cap {"unsupported", "not supported"} # {} THEN "unsupported"
    ELSE IF "supported" \in says THEN "supported" ELSE "unclear"

\* The indicators a sample yields: none when the judge could not tell.
Disagreement(says, flagged) ==
    CASE Verdict(says) = "unclear"     -> <<>>
      [] Verdict(says) = "unsupported" -> <<IF flagged THEN 0 ELSE 1>>
      [] OTHER                         -> <<IF flagged THEN 1 ELSE 0>>

\* How the anchor set came out: too few items, as fitted, tripled, or alarming.
Anchors == {"few", "fitted", "tripled", "alarming"}

\* Too few anchors are no reassurance; either alarm forbids quoting.
Assess(anchors, m) ==
    IF anchors = "alarming" \/ Alerted(m) THEN "untrusted"
    ELSE IF anchors \in {"few", "tripled"} THEN "watch" ELSE "trusted"

-----------------------------------------------------------------------------
LaneInit ==
    \/ lane = [kind |-> "pairs", rows |-> <<>>]
    \/ lane = [kind |-> "judge", watch |-> NoBets, trust |-> "none"]
    \/ lane = [kind |-> "question"]

\* A row replaces the one of the same pair and is the newest.
Insert(rows, pair, disparate) ==
    Append(SelectSeq(rows, LAMBDA r : r.pair # pair), [pair |-> pair, disparate |-> disparate])

\* A pair measured offline is imported: for the first time or once more.
ImportPair ==
    /\ lane.kind = "pairs"
    /\ \E pair \in Pairs, a, b \in Answers :
          lane' = [lane EXCEPT !.rows = Insert(@, pair, Indicator(a, b))]

\* What the console is shown: the monitor over the rows, oldest first.
Snapshot(rows) == Extend(NoBets, [i \in DOMAIN rows |-> rows[i].disparate])

\* A sampled answer comes back from the judge.
Disagree ==
    /\ lane.kind = "judge" /\ lane.watch.n < MaxSeen
    /\ \E says \in SUBSET {"unsupported", "not supported", "supported"}, flagged \in BOOLEAN :
          lane' = [lane EXCEPT !.watch = Extend(@, Disagreement(says, flagged))]

Report ==
    /\ lane.kind = "judge"
    /\ \E anchors \in Anchors : lane' = [lane EXCEPT !.trust = Assess(anchors, lane.watch)]

MakeTwin ==
    /\ lane = [kind |-> "question"]
    /\ \E question \in SeqOf(Words, 2) : \E swap \in Applicable(question) :
          lane' = [kind |-> "twin", question |-> question, twin |-> Swap(question, swap[1], swap[2])]

LaneNext == ImportPair \/ Disagree \/ Report \/ MakeTwin

-----------------------------------------------------------------------------
(* Properties                                                               *)

\* "Under the null this happens at most alpha of the time across the whole
\* run, not per look."  That bound is Ville's for a bet that is fair: whatever
\* was seen, an observation of any tolerated rate p / (2 * Null) is not expected
\* to raise the e-value, and no observation makes it negative.
BetsAreFair ==
    lane.kind = "judge" =>
        LET now == lane.watch.e
            one == Update(lane.watch, 1).e
            nil == Update(lane.watch, 0).e
        IN  /\ nil[1] >= 0
            /\ \A p \in 0..2 : (p * one[1] * nil[2] + (2 * Null - p) * nil[1] * one[2]) * now[2]
                                 <= 2 * Null * now[1] * one[2] * nil[2]

\* fairness.py: "Each pair differs on exactly one axis and nothing else".  What
\* the twin asks is made of words too.
TwinsDifferInTheMarker == lane.kind = "twin" => Range(lane.twin) \subseteq Words

\* evalues.py: "evidence that arrived does not un-arrive": an alarm the console
\* was shown stays.
FairnessAlarmsStay ==
    [][lane.kind = "pairs" /\ Alerted(Snapshot(lane.rows)) => Alerted(Snapshot(lane'.rows))]_lane
=============================================================================
