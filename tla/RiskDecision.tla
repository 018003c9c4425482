---------------------------- MODULE RiskDecision ----------------------------
(***************************************************************************)
(* From recorded scores to one decision: interlock/risk.                   *)
(*                                                                         *)
(* Offline, conformal.py walks a grid of thresholds over the scores of     *)
(* recorded defective answers and certifies the last one before the first  *)
(* that fails its test; calibration.py fits a calibrator for the defect    *)
(* classes that have examples enough.  Online, engine.py turns a sentence  *)
(* into probabilities, strikes the pass when the certificate forbids it,   *)
(* and objective.py prices every rung of the ladder and takes the          *)
(* cheapest.  stub.py is the engine of a gateway without a calibrator: it  *)
(* prices what a debug header dictates.                                    *)
(*                                                                         *)
(* Probabilities are multiples of 1/One; losses are in units of 1/One^4    *)
(* of the policy's currency.                                               *)
(***************************************************************************)
EXTENDS Integers, FiniteSets, FiniteSetsExt, SequencesExt

CONSTANTS
    One,        \* resolution of probabilities, efficacies and scales
    Policy,     \* the policy file: see RiskAssumption
    Impacts,    \* rupees a wrong answer may cost
    SampleSize, \* bound: defective answers in the recorded evaluation set
    Alpha,      \* escape rate to certify, in 1/One
    Delta,      \* allowed failure probability of the certificate, in 1/1000
    LogDelta,   \* ln(1/Delta), in 1/1000
    MaxClaims   \* bound: claims the verifier splits a sentence into

Rungs == 0..5   \* L0_pass .. L5_block, least drastic first
Pass == 0
Repair == 2
Reroute == 3
Hold == 4
Block == 5

Priced  == {"ungrounded", "contradicted"}     \* _SUPPORTED_DEFECTS
Forced  == Priced \cup {"unsafe_action", "canary_leak"}
Classes == DOMAIN Policy.reversibility   \* reversible, costly, irreversible
Prob    == 0..One
None    == -1

\* efficacy has an entry only for the pairs somebody has measured.
ASSUME RiskAssumption ==
    /\ One \in Nat \ {0} /\ Alpha \in 1..(One - 1) /\ Delta \in 1..999
    /\ SampleSize \in Nat /\ LogDelta \in Nat /\ MaxClaims \in Nat /\ Impacts \subseteq Nat
    /\ \A field \in {"nuisance", "tokens", "latency"} : Policy[field] \in [Rungs -> Nat]
    /\ \A a \in Rungs : \A d \in DOMAIN Policy.efficacy[a] : Policy.efficacy[a][d] \in Prob
    /\ Policy.defect \in [Forced -> Nat]
    /\ \A r \in Classes : Policy.reversibility[r] \in Nat
    /\ {Policy.tokenPrice, Policy.timePrice, Policy.review} \subseteq Nat
    /\ Policy.deadband \in 0..(One - 1) /\ Policy.scale \in 1..One /\ Policy.multiplier \in Nat \ {0}

VARIABLES
    sample,     \* out-of-fold scores of the recorded defective answers
    certified,  \* the threshold in lambda.json, or None
    engine,     \* the engine the gateway was started with
    asked,      \* the sentence it is asked about
    decision    \* what it decides

riskVars == <<sample, certified, engine, asked, decision>>

Nothing == [kind |-> "none"]

RiskInit ==
    /\ sample = <<>> /\ certified = None
    /\ engine = Nothing /\ asked = Nothing /\ decision = Nothing

-----------------------------------------------------------------------------
(* The certificate: conformal.py                                            *)

\* An escape is a defective answer below the threshold: nobody acts on it.
Escapes(scores, t) == Cardinality({i \in DOMAIN scores : scores[i] < t})

\* n answers, each defective with probability Alpha/One: One^n equally likely draws.
Draws(n) == [1..n -> 1..One]
Hits(draw) == Cardinality({i \in DOMAIN draw : draw[i] <= Alpha})

\* P(Bin(n, Alpha) <= k), in 1/One^n
BinomialTail(k, n) == Cardinality({draw \in Draws(n) : Hits(draw) <= k})

\* Hoeffding's exponential bound and Bentkus' e times the binomial tail.
HoeffdingRejects(k, n) ==
    LET gap == Alpha * n - k * One IN 2000 * (gap * gap) >= LogDelta * (One * One * n)
BentkusRejects(k, n) == 2718 * BinomialTail(k, n) <= Delta * Cardinality(Draws(n))

\* The smaller of the two p-values is at most Delta.
Rejected(k, n) == k * One < Alpha * n /\ (HoeffdingRejects(k, n) \/ BentkusRejects(k, n))

\* Fixed-sequence testing: up the grid, and stop at the first that is not rejected.
SelectThreshold(scores) ==
    LET passing == {t \in Prob : \A u \in 0..t : Rejected(Escapes(scores, u), Len(scores))}
    IN  IF passing = {} THEN None ELSE Max(passing)

\* calibrate.py: the recorded scores, and the certificate they license.
Certify ==
    /\ engine = Nothing /\ sample = <<>>
    /\ \E n \in 0..SampleSize : sample' \in [1..n -> Prob]
    /\ certified' = SelectThreshold(sample')
    /\ UNCHANGED <<engine, asked, decision>>

-----------------------------------------------------------------------------
(* The loss table: objective.py and policy.py                               *)

\* A class that is not priced counts as absent.
Effective(probs) ==
    [d \in Forced |-> IF d \in DOMAIN probs /\ probs[d] > Policy.deadband
                      THEN probs[d] - Policy.deadband ELSE 0]

OverClasses(f) == f["ungrounded"] + f["contradicted"] + f["unsafe_action"] + f["canary_leak"]

\* P(no defect), the classes taken as independent, in 1/One^4
Survival(effective) ==
      (One - effective["ungrounded"]) * (One - effective["contradicted"])
    * (One - effective["unsafe_action"]) * (One - effective["canary_leak"])

Efficacy(a, d) == IF d \in DOMAIN Policy.efficacy[a] THEN Policy.efficacy[a][d] ELSE 0

\* The engines pass no monetary amount here: the stakes have it already.
ImpactFor(stakes, d) ==
    stakes.impact * Policy.scale * Policy.defect[d] * Policy.reversibility[stakes.reversibility]

ResidualHarm(a, effective, stakes) ==
    OverClasses([d \in Forced |-> effective[d] * ImpactFor(stakes, d) * (One - Efficacy(a, d))])

Nuisance(a, effective) == Survival(effective) * Policy.nuisance[a] * Policy.multiplier

\* A reviewer is paid whether or not the answer was fine.
Operation(a) ==
    One * One * One * One * (  Policy.tokens[a] * Policy.tokenPrice
             + (IF a \in {Hold, Block} THEN Policy.review ELSE 0)
             + Policy.latency[a] * Policy.timePrice)

\* Every rung with its price.
LossTable(probs, stakes) ==
    LET effective == Effective(probs)
    IN  {[action |-> a,
          total  |-> One * ResidualHarm(a, effective, stakes) + Nuisance(a, effective) + Operation(a)] :
            a \in Rungs}

\* What was said cannot be repaired, rerouted or blocked.
Unavailable(emitted) == IF emitted THEN {Repair, Reroute, Block} ELSE {}

Cheapest(rows) ==
    CHOOSE r \in rows : \A q \in rows :
        r.total < q.total \/ (r.total = q.total /\ r.action <= q.action)

Open(probs, stakes, emitted, struck) ==
    {r \in LossTable(probs, stakes) : r.action \notin Unavailable(emitted) \cup struck}

\* Hard rules first, the most drastic of them; then the argmin.
ChooseAction(probs, stakes, emitted, rules, struck) ==
    LET open   == Open(probs, stakes, emitted, struck)
        best   == Cheapest(open)
        others == open \ {best}
        second == Cheapest(others)
        Bare(a) == [action |-> a, runnerUp |-> None, margin |-> 0, ruled |-> rules # {}]
    IN  CASE rules # {} -> Bare(Max(rules))
          [] rules = {} /\ open = {} -> Bare(Pass)
          [] rules = {} /\ open # {} /\ others = {} -> Bare(best.action)
          [] OTHER -> [action |-> best.action, runnerUp |-> second.action,
                       margin |-> second.total - best.total, ruled |-> FALSE]

-----------------------------------------------------------------------------
(* The engine: engine.py, stub.py and the wiring of app.py                   *)

\* Gateways start with what is on disk: classes fitted from examples enough
\* (none without a calibrator), the certificate, and two settings.
Start ==
    /\ engine = Nothing
    /\ \/ \E fitted \in SUBSET Priced, filter, verifier \in BOOLEAN :
             engine' = [kind |-> "real", fitted |-> fitted, threshold |-> certified,
                        filter |-> filter, verifier |-> verifier]
       \/ engine' = [kind |-> "stub"]
    /\ sample' = <<>>
    /\ UNCHANGED <<certified, asked, decision>>

\* Mutant: the threshold itself may pass.
FeasibilityAbove(e, probs) ==
    IF /\ e.threshold # None /\ "ungrounded" \in DOMAIN probs
       /\ e.filter /\ probs["ungrounded"] > e.threshold
    THEN {Pass} ELSE {}

\* In guaranteed mode a sentence at the threshold or above it does not pass.
Feasibility(e, probs) ==
    IF /\ e.threshold # None /\ "ungrounded" \in DOMAIN probs
       /\ e.filter /\ probs["ungrounded"] >= e.threshold
    THEN {Pass} ELSE {}

\* The least supported of the claims that could be judged.
Worst(claims) ==
    LET judged == {k \in DOMAIN claims : claims[k] # None}
    IN  IF judged = {} THEN None
        ELSE CHOOSE k \in judged : \A j \in judged :
                claims[k] < claims[j] \/ (claims[k] = claims[j] /\ k <= j)

\* What a repair aims at: that claim when nothing supports it, else all (0).
RepairHint(action, claims) ==
    LET worst == Worst(claims)
    IN  IF action # Repair THEN None
        ELSE IF worst # None /\ 2 * claims[worst] < One THEN worst ELSE 0

\* Scores of the claims, or none at all: without a verifier, without budget
\* left, after an error.  Only a repair uses them.
Verdicts(e, action) ==
    IF e.verifier /\ action = Repair THEN SeqOf({None} \cup 1..One, MaxClaims) ELSE {<<>>}

DecisionOf(choice, aim, degraded) ==
    [kind |-> "decided", action |-> choice.action, runnerUp |-> choice.runnerUp,
     margin |-> choice.margin, ruled |-> choice.ruled, aim |-> aim, degraded |-> degraded]

\* What the calibrator says of each class it was fitted for; the others are unpriced.
Probabilities(e) == [e.fitted -> Prob]

\* One sentence: egress rules, signals, calibration, filter, argmin.
Evaluate ==
    /\ engine # Nothing /\ engine.kind = "real" /\ asked = Nothing
    /\ \E probs \in Probabilities(engine), impact \in Impacts, class \in Classes,
          emitted, canary \in BOOLEAN :
          LET stakes == [impact |-> impact, reversibility |-> class]
              choice == ChooseAction(probs, stakes, emitted, IF canary THEN {Block} ELSE {},
                                     Feasibility(engine, probs))
          IN  \E claims \in Verdicts(engine, choice.action) :
              /\ asked' = [kind |-> "sentence", probs |-> probs, stakes |-> stakes,
                           emitted |-> emitted, canary |-> canary]
              /\ decision' = DecisionOf(choice, RepairHint(choice.action, claims), engine.fitted # Priced)
    /\ UNCHANGED <<sample, certified, engine>>

\* A header that does not parse forces nothing.
Directives == {{}} \cup {{d} : d \in Forced}

\* The stub: a debug header names one defect of one sentence and its
\* probability; two of the classes have a hard rule.
EvaluateForced ==
    /\ engine # Nothing /\ engine.kind = "stub" /\ asked = Nothing
    /\ \E forced \in Directives, impact \in Impacts, class \in Classes,
          emitted \in BOOLEAN :
       \E probs \in [forced -> Prob] :
          LET stakes == [impact |-> impact, reversibility |-> class]
              rules  == IF forced = {"canary_leak"} THEN {Block}
                        ELSE IF forced = {"unsafe_action"} THEN {Hold} ELSE {}
          IN  /\ asked' = [kind |-> "sentence", probs |-> probs, stakes |-> stakes,
                           emitted |-> emitted, canary |-> FALSE]
              /\ decision' = DecisionOf(ChooseAction(probs, stakes, emitted, rules, {}), None, FALSE)
    /\ UNCHANGED <<sample, certified, engine>>

\* Any internal error: the sentence passes, and the decision says why.
EvaluateFails ==
    /\ engine # Nothing /\ asked = Nothing
    /\ asked' = [kind |-> "failed"]
    /\ decision' = [kind |-> "degraded", action |-> Pass]
    /\ UNCHANGED <<sample, certified, engine>>

RiskNext == Certify \/ Start \/ Evaluate \/ EvaluateForced \/ EvaluateFails

-----------------------------------------------------------------------------
(* Properties                                                               *)

\* The recorded scores that a gateway in guaranteed mode lets pass.
Passed(stakes) ==
    LET guaranteed == [threshold |-> certified, filter |-> TRUE]
        At(p) == [d \in {"ungrounded"} |-> p]
    IN  {p \in Prob :
            ChooseAction(At(p), stakes, FALSE, {}, Feasibility(guaranteed, At(p))).action = Pass}

\* What was certified offline is what is enforced online: of the recorded
\* defective answers, those a gateway in guaranteed mode would let pass, at
\* whatever stakes, stay below the escape rate the certificate names, and no
\* higher threshold could have been certified.
EscapesStayCertified ==
    certified # None /\ sample # <<>> =>
        /\ \A stakes \in [impact : Impacts, reversibility : Classes] :
              Cardinality({i \in DOMAIN sample : sample[i] \in Passed(stakes)}) * One
                < Alpha * Len(sample)
        /\ \A t \in Prob : t > certified => ~ Rejected(Escapes(sample, t), Len(sample))

\* What a rung leaves of the harm, per rupee at stake, the classes weighed.
LeftOver(a, probs) ==
    OverClasses([d \in Forced |-> Effective(probs)[d] * Policy.defect[d] * (One - Efficacy(a, d))])

\* A decision the table made, and the rungs it could not take.
Argued == decision # Nothing /\ decision.kind = "decided" /\ ~ decision.ruled
Struck == IF engine.kind = "real" THEN Feasibility(engine, asked.probs) ELSE {}

\* Higher stakes never buy less protection: the same sentence at a higher
\* impact is never given a rung that leaves more of the harm.
HigherStakesProtectMore ==
    Argued => \A impact \in Impacts :
        impact > asked.stakes.impact =>
            LET higher == ChooseAction(asked.probs, [asked.stakes EXCEPT !.impact = impact],
                                       asked.emitted, {}, Struck)
            IN  LeftOver(higher.action, asked.probs) <= LeftOver(decision.action, asked.probs)

\* The table explains the choice: no open rung is cheaper, the runner-up is
\* what would be chosen without the winner, a tie goes to the milder rung, and
\* the margin is what the second best would have cost more.
TableExplainsChoice ==
    Argued =>
        LET open   == Open(asked.probs, asked.stakes, asked.emitted, Struck)
            runner == ChooseAction(asked.probs, asked.stakes, asked.emitted, {},
                                   Struck \cup {decision.action})
        IN  \E best, second \in open :
                /\ best.action = decision.action /\ second.action = runner.action
                /\ decision.runnerUp = runner.action
                /\ decision.margin = second.total - best.total
                /\ \A r \in open : r.total >= best.total /\ (r.total = best.total => r.action >= best.action)

\* What decides on a sentence (engine.py, objective.py): the cheapest rung its
\* table shows, never a weaker one at higher stakes, and no pass that would break
\* the certificate.
DecisionIsSound == EscapesStayCertified /\ HigherStakesProtectMore /\ TableExplainsChoice
=============================================================================
