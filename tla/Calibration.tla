---------------------------- MODULE Calibration ----------------------------
(***************************************************************************)
(* Scores turned into probabilities: interlock/risk/calibration.py, as     *)
(* scripts/calibrate.py uses it.                                           *)
(*                                                                         *)
(* A set of labelled triples is generated.  Each defect class with         *)
(* examples enough gets an isotonic map from a signal's score to the       *)
(* frequency of the defect, is saved as its knots, and is loaded by the    *)
(* gateway.  The numbers that are reported come from maps that were fitted *)
(* without the item they score (cross-fitting).                            *)
(*                                                                         *)
(* Each signal has a map of its own, so one stands for all of them; the    *)
(* logistic fusion over the maps is left out but for what makes it raise.  *)
(* Probabilities are in 1/Unit.                                            *)
(***************************************************************************)
EXTENDS Integers, FiniteSets, FiniteSetsExt, SequencesExt

CONSTANTS
    Readings,     \* scores a signal may have: naturals
    Unit,         \* resolution: divisible by what means and interpolation divide by
    MaxItems,     \* bound: triples generated
    MinPositives, \* min_positives
    Folds,        \* n_splits
    Bins          \* bins of the report

Clean   == "clean"
Defects == {"ungrounded", "contradicted"}   \* failure classes of the generator
Whole   == "any"                            \* is_defective: whatever the class

\* The unit is fine enough to divide by what means and interpolation divide by.
Divisible == \A n \in 1..MaxItems, gap \in 1..Max({1} \cup Readings) : Unit % (n * gap) = 0

ASSUME CalibrationAssumption ==
    /\ Readings \subseteq Nat /\ Readings # {} /\ IsFiniteSet(Readings)
    /\ {MaxItems, MinPositives, Bins, Unit} \subseteq Nat \ {0} /\ Folds \in Nat \ {0, 1}
    /\ Unit % Bins = 0 /\ Divisible

VARIABLES
    triples,  \* the labelled items, by score
    fitted,   \* what fit() made of them: a map per class, or what happened
    outcome   \* what was done with it: a report, or a reloaded calibrator

calibrationVars == <<triples, fitted, outcome>>

Unfitted == [kind |-> "none"]

CalibrationInit == triples = <<>> /\ fitted = Unfitted /\ outcome = Unfitted

Positive(item, class) == IF class = Whole THEN item.defect # Clean ELSE item.defect = class

\* The items with those indices as points of the regression for a class.
Points(items, indices, class) ==
    [i \in indices |-> [x |-> items[i].score, y |-> IF Positive(items[i], class) THEN Unit ELSE 0]]

BothClasses(points) == {points[i].y : i \in DOMAIN points} = {0, Unit}

\* Sum of f over a set of naturals.
SumOver(f, S) ==
    LET last == Max({0} \cup S)
        upTo[n \in 0..last] == (IF n = 0 THEN 0 ELSE upTo[n - 1]) + (IF n \in S THEN f[n] ELSE 0)
    IN  upTo[last]

-----------------------------------------------------------------------------
(* One signal's map                                                         *)

Within(points, a, b) == {i \in DOMAIN points : points[i].x \in a..b}

MeanBetween(points, a, b) ==
    LET within == Within(points, a, b)
    IN  SumOver([i \in DOMAIN points |-> points[i].y], within) \div Cardinality(within)

\* sklearn's IsotonicRegression: the closest non-decreasing map, and of its
\* points those a straight line through their neighbours would miss.
Pooled(points) ==
    LET xs == {points[i].x : i \in DOMAIN points}
    IN  [x \in xs |-> Max({Min({MeanBetween(points, a, b) : b \in {c \in xs : c >= x}}) :
                           a \in {c \in xs : c <= x}})]

OnLine(curve, x) ==
    \E l, r \in DOMAIN curve : /\ l < x /\ x < r
                               /\ ~ \E m \in DOMAIN curve \ {x} : l < m /\ m < r
                               /\ curve[l] = curve[x] /\ curve[x] = curve[r]

Isotonic(points) ==
    LET curve == Pooled(points)
    IN  [x \in {z \in DOMAIN curve : ~ OnLine(curve, z)} |-> curve[x]]

\* Between two knots on the line, beyond the last as at the last.
CalibrateOne(curve, raw) ==
    LET below == {k \in DOMAIN curve : k <= raw}
        above == {k \in DOMAIN curve : k >= raw}
    IN  CASE below = {} -> curve[Min(above)]
          [] above = {} -> curve[Max(below)]
          [] OTHER -> LET l == Max(below)  r == Min(above)
                      IN  IF l = r THEN curve[l]
                          ELSE (curve[l] * (r - raw) + curve[r] * (raw - l)) \div (r - l)

-----------------------------------------------------------------------------
(* The calibrators of the gateway                                           *)

GenerateTriple ==
    /\ fitted = Unfitted /\ outcome = Unfitted /\ Len(triples) < MaxItems
    /\ \E score \in Readings, defect \in {Clean} \cup Defects :
          /\ \A i \in DOMAIN triples : triples[i].score <= score
          /\ triples' = Append(triples, [score |-> score, defect |-> defect])
    /\ UNCHANGED <<fitted, outcome>>

Examples(class) == {i \in DOMAIN triples : Positive(triples[i], class)}

\* Below min_positives a class is not fitted but recorded as skipped.
Enough(class) == Cardinality(Examples(class)) >= MinPositives

\* fit(), one-vs-rest over the classes that occur; the fusion refuses a class
\* that every item has.
FitClasses ==
    LET classes == {d \in Defects : Examples(d) # {}}
        chosen  == {d \in classes : Enough(d)}
        Of(d)   == Points(triples, DOMAIN triples, d)
    IN  /\ fitted = Unfitted /\ outcome = Unfitted /\ triples # <<>>
        /\ fitted' = IF \A d \in chosen : BothClasses(Of(d))
                     THEN [kind |-> "classes", maps |-> [d \in chosen |-> Isotonic(Of(d))],
                           skipped |-> classes \ chosen]
                     ELSE [kind |-> "raised"]
        /\ UNCHANGED <<triples, outcome>>

\* What save() writes of a map: its knots, as points.
Knots(curve) == [k \in DOMAIN curve |-> [x |-> k, y |-> curve[k]]]

\* load() fits a map to the knots of each.
Reload ==
    /\ fitted.kind = "classes" /\ outcome = Unfitted
    /\ outcome' = [kind |-> "loaded",
                   maps |-> [d \in DOMAIN fitted.maps |-> Isotonic(Knots(fitted.maps[d]))],
                   skipped |-> fitted.skipped]
    /\ UNCHANGED <<triples, fitted>>

-----------------------------------------------------------------------------
(* The held-out report                                                      *)

\* StratifiedKFold: every class is spread evenly over the folds.
Splits(class) ==
    LET Share(f, k, positive) == Cardinality({i \in DOMAIN f : f[i] = k /\ Positive(triples[i], class) = positive})
    IN  {f \in [DOMAIN triples -> 1..Folds] :
            \A k, l \in 1..Folds, p \in BOOLEAN : Share(f, k, p) <= Share(f, l, p) + 1}

\* Mutant: the map an item is scored by has seen the item.
TrainedOnAll(split, k) == DOMAIN split

TrainedOn(split, k) == {i \in DOMAIN split : split[i] # k}

\* evaluate(): every item is scored by a map of the other folds.
OutOfFold(items, split, class) ==
    [i \in DOMAIN items |->
        CalibrateOne(Isotonic(Points(items, TrainedOn(split, split[i]), class)), items[i].score)]

\* Bins are open below and closed above; the first has zero, too.
BinOf(p) == IF p = 0 THEN 1 ELSE (p * Bins + Unit - 1) \div Unit

ReliabilityCurve(probabilities, labels) ==
    [b \in 1..Bins |->
        LET within == {i \in DOMAIN probabilities : BinOf(probabilities[i]) = b}
        IN  [count     |-> Cardinality(within),
             predicted |-> SumOver(probabilities, within),
             observed  |-> SumOver(labels, within)]]

\* The expected calibration error, times the number of items.
CalibrationError(probabilities, labels) ==
    LET rows == ReliabilityCurve(probabilities, labels)
    IN  SumOver([b \in 1..Bins |-> Max({rows[b].predicted - rows[b].observed,
                                        rows[b].observed - rows[b].predicted})], 1..Bins)

\* Failure modes whose mean is within a twentieth of the clean one.
Invisible(probabilities) ==
    LET Of(mode)  == {i \in DOMAIN triples : triples[i].defect = mode}
        Mass(mode) == SumOver(probabilities, Of(mode))
        n         == Max({1, Cardinality(Of(Clean))})
    IN  {d \in Defects : /\ Of(d) # {}
                         /\ 20 * (Mass(d) * n - Mass(Clean) * Cardinality(Of(d)))
                              < Unit * n * Cardinality(Of(d))}

\* A fold without both classes makes the fusion raise; scikit-learn itself
\* refuses when no class has as many members as there are folds.
CrossFit ==
    LET positives == Cardinality(Examples(Whole))
    IN  /\ fitted = Unfitted /\ outcome = Unfitted
        /\ Max({positives, Len(triples) - positives}) >= Folds
        /\ \E class \in {Whole} \cup Defects : \E split \in Splits(class) :
              LET Raises(k) == ~ BothClasses(Points(triples, TrainedOn(split, k), class))
                  labels    == [i \in DOMAIN triples |-> IF Positive(triples[i], class) THEN Unit ELSE 0]
                  scored    == OutOfFold(triples, split, class)
              IN  outcome' = IF \E k \in 1..Folds : Raises(k) THEN [kind |-> "raised"]
                             ELSE [kind |-> "report", class |-> class, split |-> split,
                                   probabilities |-> scored, labels |-> labels,
                                   rows |-> ReliabilityCurve(scored, labels),
                                   error |-> CalibrationError(scored, labels),
                                   invisible |-> Invisible(scored)]
        /\ UNCHANGED <<triples, fitted>>

CalibrationNext == GenerateTriple \/ FitClasses \/ Reload \/ CrossFit

-----------------------------------------------------------------------------
(* Properties                                                               *)

\* "What ships must be exactly what was measured": a calibrator that was saved
\* and loaded gives every score, seen or not, the probability it had before.
ReloadedIsTheSame ==
    outcome.kind = "loaded" =>
        /\ DOMAIN outcome.maps = DOMAIN fitted.maps
        /\ \A d \in DOMAIN outcome.maps : \A raw \in 0..(Max(Readings) + 1) :
              CalibrateOne(outcome.maps[d], raw) = CalibrateOne(fitted.maps[d], raw)

\* A map never takes a higher score for a lower risk, and over the items it was
\* fitted to it says exactly as much as happened; its own error there is none,
\* which is why evaluate() has to leave items out.
MapsAreHonest ==
    fitted.kind = "classes" =>
        \A d \in DOMAIN fitted.maps :
            LET At(raw)  == CalibrateOne(fitted.maps[d], raw)
                inSample == [i \in DOMAIN triples |-> At(triples[i].score)]
                labels   == [i \in DOMAIN triples |-> IF Positive(triples[i], d) THEN Unit ELSE 0]
            IN  /\ \A raw \in 0..Max(Readings) : At(raw) <= At(raw + 1) /\ At(raw) \in 0..Unit
                /\ CalibrationError(inSample, labels) = 0

\* Classes with too few examples have no map, are named, and only they are.
SkippedIsSaid ==
    fitted.kind = "classes" =>
        \A d \in Defects :
            LET n == Cardinality({i \in DOMAIN triples : triples[i].defect = d})
            IN  /\ d \in DOMAIN fitted.maps <=> n >= MinPositives
                /\ d \in fitted.skipped <=> n \in 1..(MinPositives - 1)

\* What an item is given does not depend on its own label: with the label
\* turned, and the folds as they are, it would have been given the same.
OwnLabelIsUnseen ==
    outcome.kind = "report" =>
        \A i \in DOMAIN triples :
            LET other  == IF Positive(triples[i], outcome.class) THEN Clean ELSE CHOOSE d \in Defects :
                             outcome.class \in {d, Whole}
                turned == [triples EXCEPT ![i].defect = other]
            IN  OutOfFold(turned, outcome.split, outcome.class)[i] = outcome.probabilities[i]

\* The bins of the report hold every item once, and the error is at least what
\* the probabilities are wrong by on the whole.
ReportCoversAll ==
    outcome.kind = "report" =>
        LET gap == SumOver(outcome.probabilities, DOMAIN triples) - SumOver(outcome.labels, DOMAIN triples)
        IN  /\ SumOver([b \in 1..Bins |-> outcome.rows[b].count], 1..Bins) = Len(triples)
            /\ outcome.error >= Max({gap, 0 - gap})

\* Calibration (risk/calibration.py): what is loaded is what was fitted, what
\* was fitted is monotone and not overstated, and what is reported about it was
\* measured on items it had not seen.
CalibrationIsHonest ==
    /\ ReloadedIsTheSame /\ MapsAreHonest /\ SkippedIsSaid /\ OwnLabelIsUnseen /\ ReportCoversAll

\* _fit_fusion: "A single-class fold would raise; that cannot happen under
\* StratifiedKFold".
FoldsHaveBothClasses == outcome.kind # "raised"
=============================================================================
