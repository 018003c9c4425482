---------------------------- MODULE PipelineProofs ----------------------------
(***************************************************************************)
(* Proofs about what happens to an answer on its way: the decision taken   *)
(* on a sentence, the verdict on a tool call, the signals both rest on,    *)
(* and the repair; and about the evaluation their policy was selected in.  *)
(*                                                                         *)
(* The decision: a set of rows always has a cheapest one, because losses   *)
(* are natural numbers (CheapestOf); what a rung leaves of the harm enters *)
(* its loss with a factor that grows with the impact (HarmIsLinear), so    *)
(* the minimum moves to rungs that leave less; and the two tests of the    *)
(* certificate reject less the more escapes there are, so the threshold    *)
(* that was selected bounds all escapes below it (RejectedDown).           *)
(*                                                                         *)
(* The verdict: what is under construction at an index is what came of one *)
(* call (Arrived), and the label that runs with a request covers all its   *)
(* turn retrieved (RunningCovers), so no match with a trusted passage can  *)
(* bring the taint of a call below it (TaintBounds).                       *)
(*                                                                         *)
(* The evaluation that selects a policy: every candidate has a row for     *)
(* every seed when it is selected (ReplayInv).                             *)
(*                                                                         *)
(* The repair: reading a completion token by token says aloud what is left *)
(* of it without its reasoning (UnreasonedIsSpoken), each later cut leaves *)
(* a part of that, and the text in hand is kept with the completion it is  *)
(* cut from (RepairInv).                                                   *)
(*                                                                         *)
(* The signals: shares only shrink as more is known (KnownShare), what is  *)
(* priced is a product of parts that grow (SeriousIsDearer), and the digit *)
(* tables of the checksum are a group and a permutation that does not      *)
(* commute with it (DAssociates, DAntisymmetric).                          *)
(***************************************************************************)
EXTENDS RiskDecision, ToolTaint, Evaluation, Repair, Signals, TLAPS, FiniteSetTheorems, SequenceTheorems, WellFoundedInduction

-----------------------------------------------------------------------------
(* Numbers                                                                  *)

\* A set of naturals that is not empty has a smallest member.
LEMMA Least ==
    ASSUME NEW I \in SUBSET Nat, I # {}
    PROVE  \E x \in I : \A y \in I : x <= y
<1> DEFINE R == {p \in Nat \X Nat : p[1] < p[2]}
<1>1. R = OpToRel(<, Nat)
  BY DEF OpToRel
<1>2. IsWellFoundedOn(R, Nat)
  BY <1>1, NatLessThanWellFounded
<1> HIDE DEF R
<1>3. PICK x \in I : \A y \in I : <<y, x>> \notin R
  BY <1>2, WFMin
<1>4. \A y \in I : x <= y
  <2> TAKE y \in I
  <2>1. <<y, x>> \notin R /\ x \in Nat /\ y \in Nat
    BY <1>3
  <2>2. ~(y < x)
    BY <2>1 DEF R
  <2> QED BY <2>1, <2>2
<1> QED BY <1>4

\* Min names the smallest member.
LEMMA SmallestOf ==
    ASSUME NEW I \in SUBSET Nat, I # {}
    PROVE  Min(I) \in I
<1>1. PICK x \in I : \A y \in I : x <= y
  BY Least
<1> QED BY <1>1 DEF Min

\* A set of naturals with a bound has a greatest member, and Max names it.
LEMMA Greatest ==
    ASSUME NEW n \in Nat, NEW I \in SUBSET (0..n), I # {}
    PROVE  Max(I) \in I /\ \A y \in I : y <= Max(I)
<1> DEFINE J == {n - x : x \in I}
<1>1. J \in SUBSET Nat /\ J # {}
  <2>1. \A x \in I : n - x \in Nat
    OBVIOUS
  <2> QED BY <2>1
<1>2. PICK j \in J : \A y \in J : j <= y
  BY <1>1, Least
<1>3. PICK x \in I : j = n - x
  BY <1>2
<1>4. \A y \in I : x >= y
  <2> TAKE y \in I
  <2>1. x \in 0..n /\ y \in 0..n
    OBVIOUS
  <2>2. n - y \in J
    OBVIOUS
  <2>3. n - x <= n - y
    BY <1>2, <1>3, <2>2
  <2> HIDE DEF J
  <2> QED BY <2>1, <2>3
<1> HIDE DEF J
<1>5. Max(I) \in I /\ \A y \in I : Max(I) >= y
  BY <1>4 DEF Max
<1> QED BY <1>5

LEMMA ProductIsNat == \A x, y \in Nat : x * y \in Nat
OBVIOUS

LEMMA ProductGrows == \A x, y, z \in Nat : x <= y => x * z <= y * z
OBVIOUS

LEMMA SquareGrows == \A x, y \in Nat : x <= y => x * x <= y * y
OBVIOUS

\* Induction, for a set of numbers.
LEMMA Counting ==
    ASSUME NEW S, 0 \in S, \A n \in Nat : n \in S => n + 1 \in S
    PROVE  Nat \subseteq S
<1> SUFFICES ASSUME Nat \ S # {} PROVE FALSE
  OBVIOUS
<1>1. PICK n \in Nat \ S : \A m \in Nat \ S : n <= m
  BY Least
<1>2. n # 0 /\ n - 1 \in Nat /\ (n - 1) + 1 = n
  BY <1>1
<1>3. n - 1 \in S
  BY <1>1, <1>2
<1> QED BY <1>1, <1>2, <1>3

\* A finite set of naturals has a greatest member.
LEMMA FiniteHasGreatest ==
    ASSUME NEW I \in SUBSET Nat, I # {}, IsFiniteSet(I)
    PROVE  Max(I) \in I /\ \A y \in I : y <= Max(I)
<1> DEFINE Topped(m) == \A f \in [1..m -> Nat] : \E i \in 1..m : \A j \in 1..m : f[j] <= f[i]
           T == {n \in Nat : Topped(n + 1)}
<1>1. 0 \in T
  OBVIOUS
<1>2. ASSUME NEW n \in Nat, n \in T PROVE n + 1 \in T
  <2>0. Topped(n + 2) => n + 1 \in T
    <3>1. (n + 1) + 1 = n + 2
      OBVIOUS
    <3> HIDE DEF Topped
    <3> QED BY <3>1
  <2> SUFFICES ASSUME NEW f \in [1..(n + 2) -> Nat]
               PROVE  \E i \in 1..(n + 2) : \A j \in 1..(n + 2) : f[j] <= f[i]
    BY <2>0
  <2> DEFINE g == [k \in 1..(n + 1) |-> f[k]]
  <2>a. g \in [1..(n + 1) -> Nat]
    OBVIOUS
  <2>1. PICK i \in 1..(n + 1) : \A j \in 1..(n + 1) : g[j] <= g[i]
    BY <1>2, <2>a
  <2>2. i \in 1..(n + 2) /\ n + 2 \in 1..(n + 2) /\ \A j \in 1..(n + 2) : j \in 1..(n + 1) \/ j = n + 2
    OBVIOUS
  <2>3. \A j \in 1..(n + 1) : f[j] <= f[i]
    BY <2>1
  <2>4. \A j \in 1..(n + 2) : f[j] \in Nat
    OBVIOUS
  <2>5. CASE f[n + 2] <= f[i]
    BY <2>2, <2>3, <2>5
  <2>6. CASE f[i] <= f[n + 2]
    <3> SUFFICES ASSUME NEW j \in 1..(n + 2) PROVE f[j] <= f[n + 2]
      BY <2>2
    <3>1. f[j] \in Nat /\ f[i] \in Nat /\ f[n + 2] \in Nat
      BY <2>2, <2>4
    <3>2. j \in 1..(n + 1) => f[j] <= f[i]
      BY <2>3
    <3> QED BY <2>2, <2>6, <3>1, <3>2
  <2> QED BY <2>2, <2>4, <2>5, <2>6
<1> HIDE DEF T
<1>3. Nat \subseteq T
  BY <1>1, <1>2, Counting
<1>4. Cardinality(I) \in Nat /\ Cardinality(I) # 0 /\ ExistsBijection(1..Cardinality(I), I)
  BY FS_CardinalityType, FS_EmptySet
<1>5. PICK f \in [1..Cardinality(I) -> I] : \A x \in I : \E k \in 1..Cardinality(I) : f[k] = x
  BY <1>4 DEF ExistsBijection, Bijection, Surjection
<1>6. PICK n \in Nat : Cardinality(I) = n + 1
  <2>1. Cardinality(I) - 1 \in Nat /\ Cardinality(I) = (Cardinality(I) - 1) + 1
    BY <1>4
  <2> QED BY <2>1
<1>7. PICK i \in 1..(n + 1) : \A j \in 1..(n + 1) : f[j] <= f[i]
  <2>1. f \in [1..(n + 1) -> Nat] /\ n \in T
    BY <1>3, <1>5, <1>6
  <2> QED BY <2>1 DEF T
<1>8. f[i] \in I /\ \A y \in I : f[i] >= y
  BY <1>5, <1>6, <1>7
<1>9. Max(I) \in I /\ \A y \in I : Max(I) >= y
  BY <1>8 DEF Max
<1> QED BY <1>9

\* What a function takes on finitely many arguments is finitely many values.
LEMMA ImageIsFinite ==
    ASSUME NEW D, NEW f, IsFiniteSet(D), f = [x \in D |-> f[x]]
    PROVE  IsFiniteSet({f[x] : x \in D})
<1>1. f \in Surjection(D, {f[x] : x \in D})
  BY DEF Surjection
<1> QED BY <1>1, FS_Surjection

-----------------------------------------------------------------------------
(* The table                                                                *)

Rows   == [action : Rungs, total : Nat]
Scores == UNION {[D -> Prob] : D \in SUBSET Forced}
Stakes == [impact : Nat, reversibility : Classes]

\* A set of rows that is not empty has a cheapest one, the mildest of those.
LEMMA CheapestOf ==
    ASSUME NEW some \in SUBSET Rows, some # {}
    PROVE  /\ Cheapest(some) \in some
           /\ \A q \in some : \/ Cheapest(some).total < q.total
                              \/ /\ Cheapest(some).total = q.total
                                 /\ Cheapest(some).action <= q.action
<1> DEFINE totals == {r.total : r \in some}
<1>1. totals \in SUBSET Nat /\ totals # {}
  BY DEF Rows
<1>2. PICK least \in totals : \A y \in totals : least <= y
  BY <1>1, Least
<1> DEFINE best == {r \in some : r.total = least}
           actions == {r.action : r \in best}
<1>3. actions \in SUBSET Nat /\ actions # {}
  BY <1>2 DEF Rows, Rungs
<1>4. PICK a \in actions : \A y \in actions : a <= y
  BY <1>3, Least
<1>5. PICK r \in best : r.action = a
  BY <1>4
<1>6. \A q \in some : r.total < q.total \/ (r.total = q.total /\ r.action <= q.action)
  <2> TAKE q \in some
  <2>1. q.total \in totals /\ r.total = least /\ least \in Nat /\ q.total \in Nat
    BY <1>1, <1>5 DEF Rows
  <2>2. CASE q.total = least
    <3>1. q.action \in actions
      BY <2>2
    <3> QED BY <1>4, <1>5, <2>1, <2>2, <3>1
  <2>3. CASE q.total # least
    BY <1>2, <2>1, <2>3
  <2> QED BY <2>2, <2>3
<1>7. r \in some
  BY <1>5
<1> HIDE DEF totals, best, actions
<1> QED BY <1>6, <1>7 DEF Cheapest
\* What the policy file guarantees of its numbers.
LEMMA PolicyNumbers ==
    /\ One \in Nat \ {0}
    /\ Policy.deadband \in Nat /\ Policy.scale \in Nat /\ Policy.multiplier \in Nat
    /\ Policy.tokenPrice \in Nat /\ Policy.timePrice \in Nat /\ Policy.review \in Nat
    /\ \A a \in Rungs :
          Policy.nuisance[a] \in Nat /\ Policy.tokens[a] \in Nat /\ Policy.latency[a] \in Nat
    /\ \A d \in Forced : Policy.defect[d] \in Nat
    /\ \A r \in Classes : Policy.reversibility[r] \in Nat
<1>1. \A field \in {"nuisance", "tokens", "latency"} : Policy[field] \in [Rungs -> Nat]
  BY RiskAssumption
<1>2. /\ Policy.nuisance \in [Rungs -> Nat] /\ Policy.tokens \in [Rungs -> Nat]
      /\ Policy.latency \in [Rungs -> Nat]
  BY <1>1
<1>3. \A a \in Rungs :
         Policy.nuisance[a] \in Nat /\ Policy.tokens[a] \in Nat /\ Policy.latency[a] \in Nat
  BY <1>2
<1>4. One \in Nat \ {0} /\ Policy.deadband \in 0..(One - 1) /\ Policy.scale \in 1..One
      /\ Policy.multiplier \in Nat \ {0} /\ {Policy.tokenPrice, Policy.timePrice, Policy.review} \subseteq Nat
      /\ Policy.defect \in [Forced -> Nat] /\ \A r \in Classes : Policy.reversibility[r] \in Nat
  BY RiskAssumption
<1> QED BY <1>3, <1>4

LEMMA EfficacyIsProb ==
    ASSUME NEW a \in Rungs, NEW d
    PROVE  Efficacy(a, d) \in Prob /\ One - Efficacy(a, d) \in Nat
<1>1. \A c \in Rungs : \A e \in DOMAIN Policy.efficacy[c] : Policy.efficacy[c][e] \in Prob
  BY RiskAssumption
<1>2. Efficacy(a, d) \in Prob
  BY <1>1, PolicyNumbers DEF Efficacy, Prob
<1> QED BY <1>2, PolicyNumbers DEF Prob

LEMMA EffectiveIsProb ==
    ASSUME NEW probs \in Scores
    PROVE  \A d \in Forced : Effective(probs)[d] \in Nat /\ One - Effective(probs)[d] \in Nat
<1> SUFFICES ASSUME NEW d \in Forced
             PROVE  Effective(probs)[d] \in Nat /\ One - Effective(probs)[d] \in Nat
  OBVIOUS
<1>1. PICK D \in SUBSET Forced : probs \in [D -> Prob]
  BY DEF Scores
<1>2. d \in DOMAIN probs => probs[d] \in Prob
  BY <1>1
<1>3. Effective(probs)[d] = IF d \in DOMAIN probs /\ probs[d] > Policy.deadband
                            THEN probs[d] - Policy.deadband ELSE 0
  BY DEF Effective
<1> QED BY <1>2, <1>3, PolicyNumbers DEF Prob

\* What a rung costs whatever is at stake.
Fixed(a, probs) == Nuisance(a, Effective(probs)) + Operation(a)

LEMMA FixedIsNat ==
    ASSUME NEW a \in Rungs, NEW probs \in Scores
    PROVE  Nuisance(a, Effective(probs)) \in Nat /\ Operation(a) \in Nat /\ Fixed(a, probs) \in Nat
<1> DEFINE e == Effective(probs)
<1>1. /\ One - e["ungrounded"] \in Nat /\ One - e["contradicted"] \in Nat
      /\ One - e["unsafe_action"] \in Nat /\ One - e["canary_leak"] \in Nat
  BY EffectiveIsProb DEF Forced, Priced
<1>2. \A p, q, r, s \in Nat : p * q * r * s \in Nat
  BY ProductIsNat
<1>3. Survival(e) \in Nat
  BY <1>1, <1>2 DEF Survival
<1>4. \A s, n, m \in Nat : s * n * m \in Nat
  BY ProductIsNat
<1> HIDE DEF e
<1>5. Nuisance(a, e) \in Nat
  BY <1>3, <1>4, PolicyNumbers DEF Nuisance
<1>6. Policy.tokens[a] * Policy.tokenPrice \in Nat /\ Policy.latency[a] * Policy.timePrice \in Nat
  BY ProductIsNat, PolicyNumbers
<1>7. One * One * One * One \in Nat
  BY <1>2, PolicyNumbers
<1>8. Operation(a) \in Nat
  <2>1. \A x, y, z \in Nat : x * (y + 0 + z) \in Nat
    BY ProductIsNat
  <2>2. \A x, y, r, z \in Nat : x * (y + r + z) \in Nat
    BY ProductIsNat
  <2> QED BY <1>6, <1>7, <2>1, <2>2, PolicyNumbers DEF Operation
<1> QED BY <1>5, <1>8 DEF Fixed, e
-----------------------------------------------------------------------------
(* Losses against the impact                                                *)

\* What one unit of impact weighs at a class of reversibility.
Scale(stakes) == Policy.scale * Policy.reversibility[stakes.reversibility]

LEMMA TermIsLinear ==
    \A e, i, s, f, r, m \in Nat : e * (i * s * f * r) * m = (i * (s * r)) * (e * f * m)
OBVIOUS

\* A rung's residual harm is what it leaves of the harm, times the impact.
LEMMA HarmIsLinear ==
    ASSUME NEW a \in Rungs, NEW probs \in Scores, NEW stakes \in Stakes
    PROVE  /\ LeftOver(a, probs) \in Nat /\ Scale(stakes) \in Nat
           /\ ResidualHarm(a, Effective(probs), stakes) = (stakes.impact * Scale(stakes)) * LeftOver(a, probs)
<1> DEFINE e == Effective(probs)
           k == stakes.impact * Scale(stakes)
           left == [d \in Forced |-> e[d] * Policy.defect[d] * (One - Efficacy(a, d))]
           harm == [d \in Forced |-> e[d] * ImpactFor(stakes, d) * (One - Efficacy(a, d))]
<1>1. stakes.impact \in Nat /\ Policy.scale \in Nat /\ Policy.reversibility[stakes.reversibility] \in Nat
  BY PolicyNumbers DEF Stakes
<1>2. Scale(stakes) \in Nat /\ k \in Nat
  BY <1>1, ProductIsNat DEF Scale
<1>3. \A d \in Forced : left[d] \in Nat /\ harm[d] = k * left[d]
  <2> TAKE d \in Forced
  <2>1. e[d] \in Nat /\ Policy.defect[d] \in Nat /\ One - Efficacy(a, d) \in Nat
    BY EffectiveIsProb, PolicyNumbers, EfficacyIsProb
  <2> HIDE DEF e
  <2>2. left[d] = e[d] * Policy.defect[d] * (One - Efficacy(a, d))
    OBVIOUS
  <2>3. harm[d] = e[d] * (stakes.impact * Policy.scale * Policy.defect[d]
                          * Policy.reversibility[stakes.reversibility]) * (One - Efficacy(a, d))
    BY DEF ImpactFor
  <2>4. \A x, y, z \in Nat : x * y * z \in Nat
    BY ProductIsNat
  <2> HIDE DEF left, harm, k
  <2>5. left[d] \in Nat
    BY <2>1, <2>2, <2>4
  <2>6. harm[d] = (stakes.impact * (Policy.scale * Policy.reversibility[stakes.reversibility]))
                  * (e[d] * Policy.defect[d] * (One - Efficacy(a, d)))
    BY <1>1, <2>1, <2>3, TermIsLinear
  <2>7. harm[d] = k * left[d]
    BY <2>2, <2>6 DEF k, Scale
  <2> QED BY <2>5, <2>7
<1>4. OverClasses(left) \in Nat /\ OverClasses(harm) = k * OverClasses(left)
  <2> HIDE DEF left, harm, k
  <2>1. \A x, p, q, r, s \in Nat : x * p + x * q + x * r + x * s = x * (p + q + r + s)
    OBVIOUS
  <2>2. \A d \in {"ungrounded", "contradicted", "unsafe_action", "canary_leak"} :
           left[d] \in Nat /\ harm[d] = k * left[d]
    BY <1>3 DEF Forced, Priced
  <2> QED BY <1>2, <2>1, <2>2 DEF OverClasses
<1>5. LeftOver(a, probs) = OverClasses(left)
  BY DEF LeftOver
<1>6. ResidualHarm(a, e, stakes) = OverClasses(harm)
  BY DEF ResidualHarm
<1> QED BY <1>2, <1>4, <1>5, <1>6

\* What a rung costs, as a row of the table has it.
Loss(a, probs, stakes) ==
    One * ResidualHarm(a, Effective(probs), stakes) + Fixed(a, probs)

LEMMA LossIsLinear ==
    ASSUME NEW a \in Rungs, NEW probs \in Scores, NEW stakes \in Stakes
    PROVE  /\ (One * Scale(stakes)) * LeftOver(a, probs) \in Nat /\ Loss(a, probs, stakes) \in Nat
           /\ Loss(a, probs, stakes) =
                 stakes.impact * ((One * Scale(stakes)) * LeftOver(a, probs)) + Fixed(a, probs)
<1>1. /\ LeftOver(a, probs) \in Nat /\ Scale(stakes) \in Nat /\ stakes.impact \in Nat /\ One \in Nat
      /\ Fixed(a, probs) \in Nat
  BY HarmIsLinear, FixedIsNat, PolicyNumbers DEF Stakes
<1>2. Loss(a, probs, stakes) = One * ((stakes.impact * Scale(stakes)) * LeftOver(a, probs)) + Fixed(a, probs)
  BY HarmIsLinear DEF Loss
<1>3. \A o, i, k, x \in Nat :
         /\ o * ((i * k) * x) = i * ((o * k) * x) /\ (o * k) * x \in Nat /\ i * ((o * k) * x) \in Nat
  <2>1. \A o, i, k, x \in Nat : o * ((i * k) * x) = i * ((o * k) * x)
    OBVIOUS
  <2>2. \A o, k, x \in Nat : (o * k) * x \in Nat
    BY ProductIsNat
  <2> QED BY <2>1, <2>2, ProductIsNat
<1> QED BY <1>1, <1>2, <1>3

\* The table has one row for every rung, and no other.
LEMMA TableHasEveryRung ==
    ASSUME NEW probs \in Scores, NEW stakes \in Stakes
    PROVE  /\ LossTable(probs, stakes) = {[action |-> a, total |-> Loss(a, probs, stakes)] : a \in Rungs}
           /\ LossTable(probs, stakes) \in SUBSET Rows
<1>1. \A a \in Rungs :
         One * ResidualHarm(a, Effective(probs), stakes) + Nuisance(a, Effective(probs)) + Operation(a)
           = Loss(a, probs, stakes)
  <2> TAKE a \in Rungs
  <2>1. PICK h \in Nat : h = One * ResidualHarm(a, Effective(probs), stakes)
    <3>1. ResidualHarm(a, Effective(probs), stakes) \in Nat
      <4>1. stakes.impact \in Nat
        BY DEF Stakes
      <4> QED BY <4>1, HarmIsLinear, ProductIsNat
    <3> QED BY <3>1, ProductIsNat, PolicyNumbers
  <2> QED BY <2>1, FixedIsNat DEF Loss, Fixed
<1>2. LossTable(probs, stakes) = {[action |-> a, total |-> Loss(a, probs, stakes)] : a \in Rungs}
  BY <1>1 DEF LossTable
<1> QED BY <1>2, LossIsLinear DEF Rows

-----------------------------------------------------------------------------
(* The choice                                                               *)

\* Annotating and holding are never struck and never too late.
LEMMA TwoRungsStayOpen ==
    ASSUME NEW probs \in Scores, NEW stakes \in Stakes, NEW emitted \in BOOLEAN, NEW struck \in SUBSET {Pass}
    PROVE  /\ Open(probs, stakes, emitted, struck) \in SUBSET Rows
           /\ \A r \in Open(probs, stakes, emitted, struck) : r.action \notin struck
           /\ \E r, q \in Open(probs, stakes, emitted, struck) : r.action = 1 /\ q.action = Hold
<1> DEFINE annotate == [action |-> 1, total |-> Loss(1, probs, stakes)]
           hold == [action |-> Hold, total |-> Loss(Hold, probs, stakes)]
<1>1. Open(probs, stakes, emitted, struck) \in SUBSET Rows
  BY TableHasEveryRung DEF Open
<1>2. annotate \in LossTable(probs, stakes) /\ hold \in LossTable(probs, stakes)
  BY TableHasEveryRung DEF Rungs, Hold
<1>3. 1 \notin Unavailable(emitted) \cup struck /\ Hold \notin Unavailable(emitted) \cup struck
  BY DEF Unavailable, Pass, Repair, Reroute, Hold, Block
<1>4. annotate \in Open(probs, stakes, emitted, struck) /\ hold \in Open(probs, stakes, emitted, struck)
  BY <1>2, <1>3 DEF Open
<1>5. \A r \in Open(probs, stakes, emitted, struck) : r.action \notin struck
  BY DEF Open
<1>6. annotate.action = 1 /\ hold.action = Hold
  OBVIOUS
<1> HIDE DEF annotate, hold
<1> QED BY <1>1, <1>4, <1>5, <1>6

\* No two rows of the table are about the same rung.
LEMMA OneRowPerRung ==
    ASSUME NEW probs \in Scores, NEW stakes \in Stakes,
           NEW r \in LossTable(probs, stakes), NEW q \in LossTable(probs, stakes), r.action = q.action
    PROVE  r = q /\ r.action \in Rungs /\ r.total = Loss(r.action, probs, stakes)
<1>1. PICK a \in Rungs : r = [action |-> a, total |-> Loss(a, probs, stakes)]
  BY TableHasEveryRung
<1>2. PICK b \in Rungs : q = [action |-> b, total |-> Loss(b, probs, stakes)]
  BY TableHasEveryRung
<1>3. a = b
  BY <1>1, <1>2
<1> QED BY <1>1, <1>2, <1>3

\* Without a hard rule the cheapest open rung is taken.
LEMMA ChoiceIsCheapest ==
    ASSUME NEW probs, NEW stakes, NEW emitted, NEW struck, Open(probs, stakes, emitted, struck) # {}
    PROVE  LET open   == Open(probs, stakes, emitted, struck)
               choice == ChooseAction(probs, stakes, emitted, {}, struck)
               others == open \ {Cheapest(open)}
           IN  /\ choice.action = Cheapest(open).action
               /\ others # {} => /\ choice.runnerUp = Cheapest(others).action
                                 /\ choice.margin = Cheapest(others).total - Cheapest(open).total
<1> DEFINE open == Open(probs, stakes, emitted, struck)
           others == open \ {Cheapest(open)}
<1>1. open # {}
  OBVIOUS
<1> HIDE DEF open
<1>2. CASE others = {}
  BY <1>1, <1>2 DEF ChooseAction, open
<1>3. CASE others # {}
  BY <1>1, <1>3 DEF ChooseAction, open
<1> QED BY <1>2, <1>3 DEF open

\* The same of the rung alone.
LEMMA TakesTheCheapest ==
    \A probs, stakes, emitted, struck :
       Open(probs, stakes, emitted, struck) # {} =>
          ChooseAction(probs, stakes, emitted, {}, struck).action = Cheapest(Open(probs, stakes, emitted, struck)).action
<1> SUFFICES ASSUME NEW probs, NEW stakes, NEW emitted, NEW struck, Open(probs, stakes, emitted, struck) # {}
             PROVE  ChooseAction(probs, stakes, emitted, {}, struck).action
                      = Cheapest(Open(probs, stakes, emitted, struck)).action
  OBVIOUS
<1> QED BY ChoiceIsCheapest

\* A hard rule leaves its mark on the decision.
LEMMA RulesAreMarked ==
    ASSUME NEW probs, NEW stakes, NEW emitted, NEW rules, NEW struck, rules # {}
    PROVE  ChooseAction(probs, stakes, emitted, rules, struck).ruled
BY DEF ChooseAction

\* The table explains what was chosen from it.
LEMMA ChoiceIsExplained ==
    ASSUME NEW probs \in Scores, NEW stakes \in Stakes, NEW emitted \in BOOLEAN, NEW struck \in SUBSET {Pass}
    PROVE  LET open   == Open(probs, stakes, emitted, struck)
               choice == ChooseAction(probs, stakes, emitted, {}, struck)
               runner == ChooseAction(probs, stakes, emitted, {}, struck \cup {choice.action})
           IN  \E best, second \in open :
                  /\ best.action = choice.action /\ second.action = runner.action
                  /\ choice.runnerUp = runner.action
                  /\ choice.margin = second.total - best.total
                  /\ \A r \in open : r.total >= best.total /\ (r.total = best.total => r.action >= best.action)
<1> DEFINE open   == Open(probs, stakes, emitted, struck)
           best   == Cheapest(open)
           others == open \ {best}
           second == Cheapest(others)
           choice == ChooseAction(probs, stakes, emitted, {}, struck)
           left   == Open(probs, stakes, emitted, struck \cup {choice.action})
           runner == ChooseAction(probs, stakes, emitted, {}, struck \cup {choice.action})
<1>1. PICK annotate, hold \in open : annotate.action = 1 /\ hold.action = Hold
  BY TwoRungsStayOpen
<1>2. open \in SUBSET Rows /\ open \in SUBSET LossTable(probs, stakes)
  BY TwoRungsStayOpen DEF Open
<1> HIDE DEF open
<1>3. best \in open /\ \A q \in open : \/ best.total < q.total
                                       \/ best.total = q.total /\ best.action <= q.action
  BY <1>1, <1>2, CheapestOf
<1>4. others \in SUBSET Rows /\ others # {}
  <2>1. annotate # hold
    BY <1>1 DEF Hold
  <2> QED BY <1>1, <1>2, <2>1
<1>5. second \in others
  BY <1>4, CheapestOf
<1>6. choice.action = best.action /\ choice.runnerUp = second.action /\ choice.margin = second.total - best.total
  BY <1>1, <1>4, ChoiceIsCheapest DEF open
<1>7. left = others
  <2>1. left = {r \in open : r.action # best.action}
    BY <1>6 DEF Open, open
  <2>2. \A r \in open : r.action = best.action => r = best
    BY <1>2, <1>3, OneRowPerRung
  <2> QED BY <2>1, <2>2
<1>8. runner.action = second.action
  <2>1. left # {}
    BY <1>4, <1>7
  <2>2. runner.action = Cheapest(left).action
    BY <2>1, TakesTheCheapest
  <2> HIDE DEF left, runner, others
  <2> QED BY <1>7, <2>2
<1>9. \A r \in open : r.total >= best.total /\ (r.total = best.total => r.action >= best.action)
  <2> TAKE r \in open
  <2>1. r.total \in Nat /\ best.total \in Nat /\ r.action \in Nat /\ best.action \in Nat
    BY <1>2, <1>3 DEF Rows, Rungs
  <2> QED BY <1>3, <2>1
<1> HIDE DEF best, others, second, choice, left, runner
<1> QED BY <1>3, <1>5, <1>6, <1>8, <1>9 DEF others, open, best, choice, runner

\* If the cheaper of two lines at one impact is the dearer at a lower one, it
\* is not the steeper.
LEMMA FlatterWinsLater ==
    ASSUME NEW low \in Nat, NEW high \in Nat, low < high,
           NEW u \in Nat, NEW v \in Nat, NEW c \in Nat, NEW d \in Nat,
           low * u + c <= low * v + d, high * v + d <= high * u + c
    PROVE  v <= u
<1>1. PICK gap \in Nat : high = low + gap /\ gap # 0
  <2>1. high - low \in Nat /\ high = low + (high - low) /\ high - low # 0
    OBVIOUS
  <2> QED BY <2>1
<1>2. high * v = low * v + gap * v /\ high * u = low * u + gap * u
  BY <1>1
<1>3. PICK lu, lv, gu, gv \in Nat : lu = low * u /\ lv = low * v /\ gu = gap * u /\ gv = gap * v
  BY ProductIsNat, <1>1
<1>4. gv <= gu
  BY <1>2, <1>3
<1>5. SUFFICES ASSUME u < v
               PROVE  FALSE
  OBVIOUS
<1>6. PICK more \in Nat : v = u + more /\ more # 0
  <2>1. v - u \in Nat /\ v = u + (v - u) /\ v - u # 0
    BY <1>5
  <2> QED BY <2>1
<1>7. gap * v = gap * u + gap * more
  BY <1>1, <1>6
<1>8. \A x, y \in Nat : x # 0 /\ y # 0 => x * y \in Nat /\ x * y # 0
  OBVIOUS
<1>9. PICK gm \in Nat : gm = gap * more /\ gm # 0
  BY <1>1, <1>6, <1>8
<1> QED BY <1>3, <1>4, <1>7, <1>9

\* A product with a factor that is not zero keeps the order.
LEMMA FactorCancels ==
    ASSUME NEW k \in Nat \ {0}, NEW u \in Nat, NEW v \in Nat, k * v <= k * u
    PROVE  v <= u
<1> SUFFICES ASSUME u < v
             PROVE  FALSE
  OBVIOUS
<1>1. PICK more \in Nat : v = u + more /\ more # 0
  <2>1. v - u \in Nat /\ v = u + (v - u) /\ v - u # 0
    OBVIOUS
  <2> QED BY <2>1
<1>2. k * v = k * u + k * more
  BY <1>1
<1>3. \A x, y \in Nat : x # 0 /\ y # 0 => x * y \in Nat /\ x * y # 0
  OBVIOUS
<1>4. PICK km, ku \in Nat : km = k * more /\ km # 0 /\ ku = k * u
  BY <1>1, <1>3, ProductIsNat
<1> QED BY <1>2, <1>4

\* Of the same sentence, the rung chosen at the higher impact leaves no more.
LEMMA MoreAtStakeLeavesLess ==
    ASSUME NEW probs \in Scores, NEW stakes \in Stakes, NEW emitted \in BOOLEAN, NEW struck \in SUBSET {Pass},
           NEW impact \in Nat, impact > stakes.impact
    PROVE  LET raised == [stakes EXCEPT !.impact = impact]
           IN  LeftOver(ChooseAction(probs, raised, emitted, {}, struck).action, probs)
                 <= LeftOver(ChooseAction(probs, stakes, emitted, {}, struck).action, probs)
<1> DEFINE raised == [stakes EXCEPT !.impact = impact]
           lower  == Open(probs, stakes, emitted, struck)
           upper  == Open(probs, raised, emitted, struck)
           a == Cheapest(lower).action
           b == Cheapest(upper).action
<1>1. /\ raised \in Stakes /\ raised.impact = impact /\ stakes.impact \in Nat
      /\ raised.reversibility = stakes.reversibility
  BY DEF Stakes
<1> HIDE DEF raised
<1>2. /\ lower \in SUBSET Rows /\ lower # {} /\ lower \in SUBSET LossTable(probs, stakes)
      /\ upper \in SUBSET Rows /\ upper # {} /\ upper \in SUBSET LossTable(probs, raised)
  <2>1. \A s \in {stakes, raised} :
           /\ Open(probs, s, emitted, struck) \in SUBSET Rows /\ Open(probs, s, emitted, struck) # {}
           /\ Open(probs, s, emitted, struck) \in SUBSET LossTable(probs, s)
    <3> TAKE s \in {stakes, raised}
    <3>1. s \in Stakes
      BY <1>1
    <3>2. \E r \in Open(probs, s, emitted, struck) : r.action = 1
      BY <3>1, TwoRungsStayOpen
    <3>3. Open(probs, s, emitted, struck) \in SUBSET Rows
      BY <3>1, TwoRungsStayOpen
    <3> QED BY <3>2, <3>3 DEF Open
  <2> QED BY <2>1
<1>3. /\ a = ChooseAction(probs, stakes, emitted, {}, struck).action
      /\ b = ChooseAction(probs, raised, emitted, {}, struck).action
  BY <1>2, TakesTheCheapest
<1>4. /\ Cheapest(lower) \in lower /\ \A q \in lower : Cheapest(lower).total < q.total \/ Cheapest(lower).total = q.total
      /\ Cheapest(upper) \in upper /\ \A q \in upper : Cheapest(upper).total < q.total \/ Cheapest(upper).total = q.total
  BY <1>2, CheapestOf
<1>5. a \in Rungs \ (Unavailable(emitted) \cup struck) /\ b \in Rungs \ (Unavailable(emitted) \cup struck)
  BY <1>2, <1>4 DEF Open, Rows
<1>6. \A s \in {stakes, raised} : \A c \in Rungs \ (Unavailable(emitted) \cup struck) :
         [action |-> c, total |-> Loss(c, probs, s)] \in Open(probs, s, emitted, struck)
  BY <1>1, TableHasEveryRung DEF Open
<1>7. Cheapest(lower).total = Loss(a, probs, stakes) /\ Cheapest(upper).total = Loss(b, probs, raised)
  BY <1>1, <1>2, <1>4, OneRowPerRung
<1>8. Loss(a, probs, stakes) \in Nat /\ Loss(b, probs, stakes) \in Nat
      /\ Loss(a, probs, raised) \in Nat /\ Loss(b, probs, raised) \in Nat
  BY <1>1, <1>5, LossIsLinear
<1>9. Loss(a, probs, stakes) <= Loss(b, probs, stakes) /\ Loss(b, probs, raised) <= Loss(a, probs, raised)
  <2>1. /\ [action |-> b, total |-> Loss(b, probs, stakes)] \in lower
        /\ [action |-> a, total |-> Loss(a, probs, raised)] \in upper
    BY <1>5, <1>6
  <2> HIDE DEF lower, upper, a, b
  <2> QED BY <1>4, <1>7, <1>8, <2>1
<1> HIDE DEF lower, upper, a, b
<1>10. Scale(raised) = Scale(stakes)
  BY <1>1 DEF Scale
<1>11. LeftOver(a, probs) \in Nat /\ LeftOver(b, probs) \in Nat /\ Scale(stakes) \in Nat
  BY <1>5, HarmIsLinear
<1> DEFINE k == One * Scale(stakes)
           L(c) == LeftOver(c, probs)
<1>12. k \in Nat
  BY <1>11, ProductIsNat, PolicyNumbers
<1>13. k * L(b) <= k * L(a)
  <2>1. /\ Loss(a, probs, stakes) = stakes.impact * (k * L(a)) + Fixed(a, probs)
        /\ Loss(b, probs, stakes) = stakes.impact * (k * L(b)) + Fixed(b, probs)
        /\ Loss(a, probs, raised) = impact * (k * L(a)) + Fixed(a, probs)
        /\ Loss(b, probs, raised) = impact * (k * L(b)) + Fixed(b, probs)
    BY <1>1, <1>5, <1>10, LossIsLinear
  <2>2. Fixed(a, probs) \in Nat /\ Fixed(b, probs) \in Nat
    BY <1>5, FixedIsNat
  <2>3. k * L(a) \in Nat /\ k * L(b) \in Nat
    BY <1>11, <1>12, ProductIsNat
  <2> HIDE DEF k, L
  <2> QED BY <1>1, <1>9, <2>1, <2>2, <2>3, FlatterWinsLater
<1>14. CASE k # 0
  BY <1>3, <1>11, <1>12, <1>13, <1>14, FactorCancels DEF raised
<1>15. CASE k = 0
  <2>1. \A c \in Rungs : Loss(c, probs, raised) = Loss(c, probs, stakes)
    <3> TAKE c \in Rungs
    <3>1. /\ Loss(c, probs, stakes) = stakes.impact * (k * L(c)) + Fixed(c, probs)
          /\ Loss(c, probs, raised) = impact * (k * L(c)) + Fixed(c, probs)
      BY <1>1, <1>10, LossIsLinear
    <3>2. L(c) \in Nat /\ Fixed(c, probs) \in Nat
      BY HarmIsLinear, FixedIsNat
    <3>3. \A i, x \in Nat : i * (0 * x) = 0
      OBVIOUS
    <3> HIDE DEF k, L
    <3> QED BY <1>1, <1>15, <3>1, <3>2, <3>3
  <2>2. LossTable(probs, raised) = LossTable(probs, stakes)
    <3>1. LossTable(probs, raised) = {[action |-> c, total |-> Loss(c, probs, raised)] : c \in Rungs}
      BY <1>1, TableHasEveryRung
    <3>2. LossTable(probs, stakes) = {[action |-> c, total |-> Loss(c, probs, stakes)] : c \in Rungs}
      BY TableHasEveryRung
    <3>3. {[action |-> c, total |-> Loss(c, probs, raised)] : c \in Rungs}
            = {[action |-> c, total |-> Loss(c, probs, stakes)] : c \in Rungs}
      BY ONLY <2>1
    <3> QED BY ONLY <3>1, <3>2, <3>3
  <2>3. a = b
    BY <2>2 DEF Open, a, b, lower, upper
  <2> QED BY <1>3, <1>11, <2>3 DEF raised
<1> QED BY <1>14, <1>15

-----------------------------------------------------------------------------
(* The certificate                                                          *)

LEMMA DrawsAreFinite == ASSUME NEW n \in Nat PROVE IsFiniteSet(Draws(n))
<1> DEFINE S == (1..n) \X (1..One)
           T == SUBSET S
           f == [draw \in Draws(n) |-> {<<i, draw[i]>> : i \in 1..n}]
<1>1. IsFiniteSet(S)
  <2>1. IsFiniteSet(1..n) /\ IsFiniteSet(1..One)
    <3>1. 1 \in Int /\ n \in Int /\ One \in Int
      BY PolicyNumbers
    <3> QED BY <3>1, FS_Interval
  <2> QED BY <2>1, FS_Product
<1>2. IsFiniteSet(T)
  <2> HIDE DEF S
  <2> QED BY <1>1, FS_SUBSET, Zenon
<1>3. f \in [Draws(n) -> T]
  BY DEF Draws
<1>4. \A d, e \in Draws(n) : f[d] = f[e] => d = e
  <2> SUFFICES ASSUME NEW d \in Draws(n), NEW e \in Draws(n), f[d] = f[e]
               PROVE  d = e
    OBVIOUS
  <2>1. \A i \in 1..n : d[i] = e[i]
    <3> TAKE i \in 1..n
    <3>1. <<i, d[i]>> \in f[d]
      OBVIOUS
    <3>2. <<i, d[i]>> \in {<<j, e[j]>> : j \in 1..n}
      BY <3>1
    <3> QED BY <3>2
  <2> QED BY <2>1 DEF Draws
<1>5. f \in Injection(Draws(n), T)
  <2> HIDE DEF f, T
  <2> QED BY <1>3, <1>4 DEF Injection, IsInjective
<1> HIDE DEF f, T
<1> QED BY <1>2, <1>5, FS_Injection

\* The more escapes are allowed, the likelier they are.
LEMMA TailGrows ==
    ASSUME NEW n \in Nat, NEW j \in Nat, NEW k \in Nat, k <= j
    PROVE  /\ BinomialTail(k, n) \in Nat /\ BinomialTail(j, n) \in Nat
           /\ BinomialTail(k, n) <= BinomialTail(j, n)
<1> DEFINE Within(m) == {draw \in Draws(n) : Hits(draw) <= m}
<1>1. \A draw \in Draws(n) : Hits(draw) \in Nat
  <2> TAKE draw \in Draws(n)
  <2>1. {i \in DOMAIN draw : draw[i] <= Alpha} \in SUBSET (1..n)
    BY DEF Draws
  <2>2. IsFiniteSet({i \in DOMAIN draw : draw[i] <= Alpha})
    BY <2>1, FS_Interval, FS_Subset
  <2> QED BY <2>2, FS_CardinalityType DEF Hits
<1>2. Within(k) \in SUBSET Within(j) /\ Within(j) \in SUBSET Draws(n)
  BY <1>1
<1>3. IsFiniteSet(Within(j)) /\ IsFiniteSet(Within(k)) /\ Cardinality(Within(k)) <= Cardinality(Within(j))
  BY <1>2, DrawsAreFinite, FS_Subset
<1>4. BinomialTail(k, n) = Cardinality(Within(k)) /\ BinomialTail(j, n) = Cardinality(Within(j))
  BY DEF BinomialTail
<1> HIDE DEF Within
<1> QED BY <1>3, <1>4, FS_CardinalityType

\* What was rejected with more escapes is rejected with fewer.
LEMMA RejectedDown ==
    ASSUME NEW n \in Nat, NEW j \in Nat, NEW k \in Nat, k <= j, Rejected(j, n)
    PROVE  Rejected(k, n)
<1>1. One \in Nat /\ Alpha \in Nat /\ LogDelta \in Nat /\ Delta \in Nat
  BY RiskAssumption
<1>2. k * One <= j * One
  BY <1>1, ProductGrows
<1>3. PICK ko, jo, an \in Nat : ko = k * One /\ jo = j * One /\ an = Alpha * n
  BY <1>1, ProductIsNat
<1>4. ko <= jo /\ jo < an
  BY <1>2, <1>3 DEF Rejected
<1>5. CASE HoeffdingRejects(j, n)
  <2> DEFINE x == an - jo
             y == an - ko
  <2>1. x \in Nat /\ y \in Nat /\ x <= y
    BY <1>3, <1>4
  <2>2. 2000 * (x * x) >= LogDelta * (One * One * n)
    BY <1>3, <1>5 DEF HoeffdingRejects
  <2>3. PICK bar \in Nat : bar = LogDelta * (One * One * n)
    BY <1>1, ProductIsNat
  <2> HIDE DEF x, y
  <2>4. PICK xx, yy \in Nat : xx = x * x /\ yy = y * y /\ xx <= yy
    BY <2>1, ProductIsNat, SquareGrows
  <2>5. 2000 * (y * y) >= LogDelta * (One * One * n)
    BY <2>2, <2>3, <2>4
  <2>6. HoeffdingRejects(k, n)
    BY <1>3, <2>5 DEF HoeffdingRejects, y
  <2> QED BY <1>3, <1>4, <2>6 DEF Rejected
<1>6. CASE BentkusRejects(j, n)
  <2>1. PICK s, t \in Nat : s = BinomialTail(k, n) /\ t = BinomialTail(j, n) /\ s <= t
    BY TailGrows
  <2>2. PICK bar \in Nat : bar = Delta * Cardinality(Draws(n))
    BY <1>1, DrawsAreFinite, FS_CardinalityType, ProductIsNat
  <2>3. BentkusRejects(k, n)
    BY <1>6, <2>1, <2>2 DEF BentkusRejects
  <2> QED BY <1>3, <1>4, <2>3 DEF Rejected
<1> QED BY <1>5, <1>6 DEF Rejected

\* Escapes of a recorded sample: a number that grows with the threshold.
LEMMA EscapesGrow ==
    ASSUME NEW scores \in Seq(Prob), NEW t \in Prob, NEW u \in Prob, u <= t
    PROVE  /\ IsFiniteSet({i \in DOMAIN scores : scores[i] < t})
           /\ Escapes(scores, u) \in Nat /\ Escapes(scores, t) \in Nat
           /\ Escapes(scores, u) <= Escapes(scores, t)
<1> DEFINE Under(v) == {i \in DOMAIN scores : scores[i] < v}
<1>1. Under(t) \in SUBSET (1..Len(scores)) /\ Len(scores) \in Nat
  OBVIOUS
<1>2. \A i \in DOMAIN scores : scores[i] \in Prob
  OBVIOUS
<1>3. Under(u) \in SUBSET Under(t)
  BY <1>2, PolicyNumbers DEF Prob
<1>4. IsFiniteSet(Under(t))
  BY <1>1, FS_Interval, FS_Subset
<1>5. IsFiniteSet(Under(u)) /\ Cardinality(Under(u)) <= Cardinality(Under(t))
  BY <1>3, <1>4, FS_Subset
<1> QED BY <1>4, <1>5, FS_CardinalityType DEF Escapes

\* The threshold that was selected is rejected, and no higher one is.
LEMMA SelectedIsLast ==
    ASSUME NEW scores \in Seq(Prob), SelectThreshold(scores) # None
    PROVE  /\ SelectThreshold(scores) \in Prob
           /\ Rejected(Escapes(scores, SelectThreshold(scores)), Len(scores))
           /\ \A t \in Prob : t > SelectThreshold(scores) => ~ Rejected(Escapes(scores, t), Len(scores))
<1> DEFINE passing == {t \in Prob : \A u \in 0..t : Rejected(Escapes(scores, u), Len(scores))}
<1>1. passing # {} /\ SelectThreshold(scores) = Max(passing)
  BY DEF SelectThreshold
<1>2. Max(passing) \in passing /\ \A t \in passing : t <= Max(passing)
  <2>1. passing \in SUBSET (0..One) /\ One \in Nat
    BY PolicyNumbers DEF Prob
  <2> HIDE DEF passing
  <2> QED BY <1>1, <2>1, Greatest
<1>3. Max(passing) \in Prob /\ Rejected(Escapes(scores, Max(passing)), Len(scores))
  <2>1. \A t \in passing : t \in Prob /\ t \in 0..t /\ \A u \in 0..t : Rejected(Escapes(scores, u), Len(scores))
    BY PolicyNumbers DEF Prob
  <2> HIDE DEF passing
  <2> QED BY <1>2, <2>1
<1>4. ASSUME NEW t \in Prob, t > Max(passing), Rejected(Escapes(scores, t), Len(scores))
      PROVE  FALSE
  <2>1. \A u \in 0..t : Rejected(Escapes(scores, u), Len(scores))
    <3> TAKE u \in 0..t
    <3>1. u \in Prob /\ u <= t
      BY PolicyNumbers DEF Prob
    <3>2. Len(scores) \in Nat
      OBVIOUS
    <3> QED BY <1>4, <3>1, <3>2, EscapesGrow, RejectedDown
  <2>2. t \in passing
    BY <1>4, <2>1
  <2>3. t \in Nat /\ Max(passing) \in Nat
    BY <1>3, PolicyNumbers DEF Prob
  <2> HIDE DEF passing
  <2> QED BY <1>2, <1>4, <2>2, <2>3
<1> QED BY <1>1, <1>3, <1>4

\* Of a recorded sample, what a gateway in guaranteed mode lets pass lies below
\* the threshold that was selected, and so does the share the certificate names.
LEMMA PassedLiesBelow ==
    ASSUME NEW stakes \in Stakes, certified \in Prob
    PROVE  \A p \in Passed(stakes) : p \in Prob /\ p < certified
<1> DEFINE guaranteed == [threshold |-> certified, filter |-> TRUE]
           At(p) == [d \in {"ungrounded"} |-> p]
<1> SUFFICES ASSUME NEW p \in Passed(stakes), ~ (p < certified)
             PROVE  FALSE
  BY DEF Passed
<1>1. /\ p \in Prob
      /\ ChooseAction(At(p), stakes, FALSE, {}, Feasibility(guaranteed, At(p))).action = Pass
  BY DEF Passed
<1>2. Feasibility(guaranteed, At(p)) = {Pass}
  <2>1. p >= certified /\ certified # None
    BY <1>1, PolicyNumbers DEF Prob, None
  <2>2. DOMAIN At(p) = {"ungrounded"} /\ At(p)["ungrounded"] = p
    OBVIOUS
  <2>3. guaranteed.threshold = certified /\ guaranteed.filter
    OBVIOUS
  <2> HIDE DEF guaranteed, At
  <2> QED BY <2>1, <2>2, <2>3 DEF Feasibility
<1>3. At(p) \in Scores
  <2>1. At(p) \in [{"ungrounded"} -> Prob] /\ {"ungrounded"} \in SUBSET Forced
    BY <1>1 DEF Forced, Priced
  <2> HIDE DEF At
  <2> QED BY <2>1 DEF Scores
<1> HIDE DEF At, guaranteed
<1> DEFINE open == Open(At(p), stakes, FALSE, {Pass})
<1>4. open \in SUBSET Rows /\ open # {} /\ \A r \in open : r.action # Pass
  <2>1. PICK scores \in Scores, emitted \in BOOLEAN, struck \in SUBSET {Pass} :
           scores = At(p) /\ emitted = FALSE /\ struck = {Pass}
    BY <1>3
  <2>2. /\ Open(scores, stakes, emitted, struck) \in SUBSET Rows
        /\ \A r \in Open(scores, stakes, emitted, struck) : r.action \notin struck
        /\ \E r, q \in Open(scores, stakes, emitted, struck) : r.action = 1 /\ q.action = Hold
    BY TwoRungsStayOpen
  <2> QED BY <2>1, <2>2
<1>5. ChooseAction(At(p), stakes, FALSE, {}, {Pass}).action = Cheapest(open).action
  BY <1>4, TakesTheCheapest
<1> HIDE DEF open
<1>6. Cheapest(open) \in open
  BY <1>4, CheapestOf
<1> QED BY <1>1, <1>2, <1>4, <1>5, <1>6

-----------------------------------------------------------------------------
(* The invariant                                                            *)

Engines ==
    {Nothing, [kind |-> "stub"]}
    \cup [kind : {"real"}, fitted : SUBSET Priced, threshold : Prob \cup {None}, filter : BOOLEAN, verifier : BOOLEAN]

\* The certificate is the one the recorded scores license, nothing is decided
\* before the gateway runs, and an argued decision is the choice from the table
\* of the sentence it was asked about.
DecisionInv ==
    /\ sample \in Seq(Prob)
    /\ certified \in Prob \cup {None}
    /\ sample # <<>> => certified = SelectThreshold(sample)
    /\ engine \in Engines
    /\ engine = Nothing => decision = Nothing
    /\ Argued =>
          /\ asked.probs \in Scores /\ asked.stakes \in Stakes /\ asked.emitted \in BOOLEAN
          /\ Struck \in SUBSET {Pass}
          /\ LET choice == ChooseAction(asked.probs, asked.stakes, asked.emitted, {}, Struck)
             IN  /\ decision.action = choice.action /\ decision.runnerUp = choice.runnerUp
                 /\ decision.margin = choice.margin

LEMMA FeasibilityStrikesPass == \A e, probs : Feasibility(e, probs) \in SUBSET {Pass}
BY DEF Feasibility

LEMMA CertificateHolds ==
    ASSUME DecisionInv
    PROVE  EscapesStayCertified
<1> SUFFICES ASSUME certified # None, sample # <<>>
             PROVE  /\ \A stakes \in [impact : Impacts, reversibility : Classes] :
                          Cardinality({i \in DOMAIN sample : sample[i] \in Passed(stakes)}) * One
                            < Alpha * Len(sample)
                    /\ \A t \in Prob : t > certified => ~ Rejected(Escapes(sample, t), Len(sample))
  BY DEF EscapesStayCertified
<1>1. sample \in Seq(Prob) /\ certified \in Prob /\ certified = SelectThreshold(sample)
  BY DEF DecisionInv
<1>2. /\ Rejected(Escapes(sample, certified), Len(sample))
      /\ \A t \in Prob : t > certified => ~ Rejected(Escapes(sample, t), Len(sample))
  BY <1>1, SelectedIsLast
<1>3. ASSUME NEW stakes \in [impact : Impacts, reversibility : Classes]
      PROVE  Cardinality({i \in DOMAIN sample : sample[i] \in Passed(stakes)}) * One < Alpha * Len(sample)
  <2> DEFINE passed == {i \in DOMAIN sample : sample[i] \in Passed(stakes)}
             under  == {i \in DOMAIN sample : sample[i] < certified}
  <2>1. stakes \in Stakes
    BY RiskAssumption DEF Stakes
  <2>2. passed \in SUBSET under
    BY <1>1, <2>1, PassedLiesBelow
  <2>3. IsFiniteSet(under) /\ Escapes(sample, certified) = Cardinality(under)
    <3>1. certified <= certified
      BY <1>1, PolicyNumbers DEF Prob
    <3> QED BY <1>1, <3>1, EscapesGrow DEF Escapes
  <2> HIDE DEF passed, under
  <2>4. IsFiniteSet(passed) /\ Cardinality(passed) <= Cardinality(under)
    BY <2>2, <2>3, FS_Subset
  <2>5. PICK k, j \in Nat : k = Cardinality(passed) /\ j = Cardinality(under) /\ k <= j
    BY <2>3, <2>4, FS_CardinalityType
  <2>6. Rejected(k, Len(sample))
    <3>1. Len(sample) \in Nat
      BY <1>1
    <3> QED BY <1>2, <2>3, <2>5, <3>1, RejectedDown
  <2> QED BY <2>5, <2>6 DEF Rejected, passed
<1> QED BY <1>2, <1>3

LEMMA TableHolds ==
    ASSUME DecisionInv
    PROVE  HigherStakesProtectMore /\ TableExplainsChoice
<1>1. HigherStakesProtectMore
  <2> SUFFICES ASSUME Argued, NEW impact \in Impacts, impact > asked.stakes.impact
               PROVE  LeftOver(ChooseAction(asked.probs, [asked.stakes EXCEPT !.impact = impact],
                                            asked.emitted, {}, Struck).action, asked.probs)
                        <= LeftOver(decision.action, asked.probs)
    BY DEF HigherStakesProtectMore
  <2>1. /\ asked.probs \in Scores /\ asked.stakes \in Stakes /\ asked.emitted \in BOOLEAN
        /\ Struck \in SUBSET {Pass} /\ impact \in Nat
        /\ decision.action = ChooseAction(asked.probs, asked.stakes, asked.emitted, {}, Struck).action
    BY RiskAssumption DEF DecisionInv
  <2> QED BY <2>1, MoreAtStakeLeavesLess
<1>2. TableExplainsChoice
  <2> SUFFICES ASSUME Argued
               PROVE  LET open   == Open(asked.probs, asked.stakes, asked.emitted, Struck)
                          runner == ChooseAction(asked.probs, asked.stakes, asked.emitted, {},
                                                 Struck \cup {decision.action})
                      IN  \E best, second \in open :
                              /\ best.action = decision.action /\ second.action = runner.action
                              /\ decision.runnerUp = runner.action
                              /\ decision.margin = second.total - best.total
                              /\ \A r \in open : /\ r.total >= best.total
                                                 /\ r.total = best.total => r.action >= best.action
    BY DEF TableExplainsChoice
  <2> DEFINE choice == ChooseAction(asked.probs, asked.stakes, asked.emitted, {}, Struck)
  <2>1. /\ asked.probs \in Scores /\ asked.stakes \in Stakes /\ asked.emitted \in BOOLEAN
        /\ Struck \in SUBSET {Pass}
        /\ decision.action = choice.action /\ decision.runnerUp = choice.runnerUp
        /\ decision.margin = choice.margin
    BY DEF DecisionInv
  <2> HIDE DEF Struck
  <2> QED BY <2>1, ChoiceIsExplained
<1> QED BY <1>1, <1>2

LEMMA InitEstablishes == RiskInit => DecisionInv
<1> SUFFICES ASSUME RiskInit
             PROVE  DecisionInv
  OBVIOUS
<1>1. sample = <<>> /\ certified = None /\ engine = Nothing /\ decision = Nothing
  BY DEF RiskInit
<1>2. ~ Argued
  BY <1>1 DEF Argued
<1> QED BY <1>1, <1>2 DEF DecisionInv, Engines

\* A decision on a typed sentence by the engine that struck what it had to.
LEMMA DecidedFromTheTable ==
    ASSUME DecisionInv, engine' = engine, engine # Nothing, UNCHANGED <<sample, certified>>,
           NEW probs \in Scores, NEW stakes \in Stakes, NEW emitted \in BOOLEAN, NEW rules, NEW aim, NEW degraded,
           NEW canary \in BOOLEAN, NEW struck,
           struck = IF engine.kind = "real" THEN Feasibility(engine, probs) ELSE {},
           asked' = [kind |-> "sentence", probs |-> probs, stakes |-> stakes,
                     emitted |-> emitted, canary |-> canary],
           decision' = DecisionOf(ChooseAction(probs, stakes, emitted, rules, struck), aim, degraded)
    PROVE  DecisionInv'
<1> DEFINE choice == ChooseAction(probs, stakes, emitted, rules, struck)
<1>1. /\ decision'.ruled = choice.ruled /\ decision'.action = choice.action
      /\ decision'.runnerUp = choice.runnerUp /\ decision'.margin = choice.margin
  <2> HIDE DEF choice
  <2> QED BY DEF DecisionOf, choice
<1>2. asked'.probs = probs /\ asked'.stakes = stakes /\ asked'.emitted = emitted
  OBVIOUS
<1>3. Struck' = struck /\ struck \in SUBSET {Pass}
  BY <1>2, FeasibilityStrikesPass DEF Struck
<1>4. Argued' => rules = {}
  BY <1>1, RulesAreMarked DEF Argued
<1>5. ASSUME Argued'
      PROVE  LET c == ChooseAction(asked'.probs, asked'.stakes, asked'.emitted, {}, Struck')
             IN  /\ decision'.action = c.action /\ decision'.runnerUp = c.runnerUp
                 /\ decision'.margin = c.margin
  BY <1>1, <1>2, <1>3, <1>4, <1>5
<1>6. /\ (sample \in Seq(Prob))' /\ (certified \in Prob \cup {None})' /\ (engine \in Engines)'
      /\ (sample # <<>> => certified = SelectThreshold(sample))'
      /\ (engine = Nothing => decision = Nothing)'
  BY DEF DecisionInv
<1> HIDE DEF choice
<1> QED BY <1>2, <1>3, <1>5, <1>6 DEF DecisionInv

LEMMA StepPreserves == DecisionInv /\ [RiskNext]_riskVars => DecisionInv'
<1> SUFFICES ASSUME DecisionInv, [RiskNext]_riskVars
             PROVE  DecisionInv'
  OBVIOUS
<1>1. CASE Certify
  <2>1. PICK n \in 0..SampleSize : sample' \in [1..n -> Prob]
    BY <1>1 DEF Certify
  <2>2. sample' \in Seq(Prob)
    <3>1. n \in Nat
      BY RiskAssumption
    <3> QED BY <2>1, <3>1
  <2>3. certified' = SelectThreshold(sample')
    BY <1>1 DEF Certify
  <2>4. certified' \in Prob \cup {None}
    BY <2>2, <2>3, SelectedIsLast
  <2>5. engine' = Nothing /\ decision' = Nothing
    BY <1>1 DEF Certify, DecisionInv
  <2>6. ~ Argued'
    BY <2>5 DEF Argued
  <2> QED BY <2>2, <2>3, <2>4, <2>5, <2>6 DEF DecisionInv, Engines
<1>2. CASE Start
  <2>1. engine' \in Engines
    BY <1>2 DEF Start, DecisionInv, Engines
  <2>2. sample' = <<>> /\ certified' = certified /\ decision' = Nothing
    BY <1>2 DEF Start, DecisionInv
  <2>3. ~ Argued'
    BY <2>2 DEF Argued
  <2> QED BY <2>1, <2>2, <2>3 DEF DecisionInv
<1>3. CASE Evaluate
  <2>1. engine # Nothing /\ engine.kind = "real" /\ UNCHANGED <<sample, certified, engine>>
    BY <1>3 DEF Evaluate
  <2>2. PICK probs \in Probabilities(engine), impact \in Impacts, class \in Classes,
             emitted, canary \in BOOLEAN, rules \in {{}, {Block}} :
           LET stakes == [impact |-> impact, reversibility |-> class]
           IN  /\ asked' = [kind |-> "sentence", probs |-> probs, stakes |-> stakes,
                            emitted |-> emitted, canary |-> canary]
               /\ decision' = DecisionOf(ChooseAction(probs, stakes, emitted, rules, Feasibility(engine, probs)),
                                         decision'.aim, decision'.degraded)
    BY <1>3 DEF Evaluate, DecisionOf
  <2>3. probs \in Scores
    <3>1. engine \in Engines
      BY DEF DecisionInv
    <3>2. engine.fitted \in SUBSET Priced
      BY <2>1, <3>1 DEF Engines
    <3> QED BY <2>2, <3>2 DEF Probabilities, Scores, Forced
  <2>4. [impact |-> impact, reversibility |-> class] \in Stakes
    BY RiskAssumption DEF Stakes
  <2> QED BY <2>1, <2>2, <2>3, <2>4, DecidedFromTheTable
<1>4. CASE EvaluateForced
  <2>1. engine # Nothing /\ engine.kind = "stub" /\ UNCHANGED <<sample, certified, engine>>
    BY <1>4 DEF EvaluateForced
  <2> DEFINE Rules(forced) == IF forced = {"canary_leak"} THEN {Block}
                              ELSE IF forced = {"unsafe_action"} THEN {Hold} ELSE {}
             Given(forced, impact, class, emitted, probs) ==
                LET stakes == [impact |-> impact, reversibility |-> class]
                IN  /\ asked' = [kind |-> "sentence", probs |-> probs, stakes |-> stakes,
                                 emitted |-> emitted, canary |-> FALSE]
                    /\ decision' = DecisionOf(ChooseAction(probs, stakes, emitted, Rules(forced), {}), None, FALSE)
  <2>2. PICK forced \in Directives, impact \in Impacts, class \in Classes, emitted \in BOOLEAN :
           \E probs \in [forced -> Prob] : Given(forced, impact, class, emitted, probs)
    BY <1>4 DEF EvaluateForced
  <2>3. PICK probs \in [forced -> Prob] : Given(forced, impact, class, emitted, probs)
    BY <2>2
  <2>4. probs \in Scores
    BY <2>2, <2>3 DEF Directives, Scores
  <2>5. [impact |-> impact, reversibility |-> class] \in Stakes
    BY RiskAssumption DEF Stakes
  <2> HIDE DEF Rules
  <2> QED BY <2>1, <2>3, <2>4, <2>5, DecidedFromTheTable
<1>5. CASE EvaluateFails
  <2>1. decision'.kind = "degraded" /\ engine # Nothing /\ UNCHANGED <<sample, certified, engine>>
    BY <1>5 DEF EvaluateFails
  <2>2. ~ Argued'
    BY <2>1 DEF Argued
  <2> QED BY <2>1, <2>2 DEF DecisionInv
<1>6. CASE UNCHANGED riskVars
  BY <1>6 DEF riskVars, DecisionInv, Argued, Struck
<1> QED BY <1>1, <1>2, <1>3, <1>4, <1>5, <1>6 DEF RiskNext

\* What decides on a sentence (engine.py, objective.py, conformal.py), for every
\* policy file, sample and stakes: the cheapest rung its table shows, never a
\* weaker one at higher stakes, and no pass that would break the certificate.
THEOREM DecisionsAreSound ==
    RiskInit /\ [][RiskNext]_riskVars => []DecisionIsSound
<1>1. DecisionInv => DecisionIsSound
  BY CertificateHolds, TableHolds DEF DecisionIsSound
<1> QED BY <1>1, InitEstablishes, StepPreserves, PTL

-----------------------------------------------------------------------------
(* The verdict on a tool call                                                *)

\* What the policy and the model's calls guarantee.
LEMMA CallBound == MaxCalls \in Nat
BY TaintAssumption

LEMMA CallsAreNamed == \A c \in Calls : c.tool # Unnamed /\ c.amount \in Nat \cup {NoAmount}
BY TaintAssumption

LEMMA LabelsAreTyped == \A p \in Passages : p.label \in Labels
BY TaintAssumption

LEMMA CapsAreTyped == \A name : ToolOf(name).cap \in Nat \cup {NoAmount}
BY TaintAssumption DEF ToolOf

-----------------------------------------------------------------------------
(* Putting calls together                                                   *)

\* Numbers without a gap are in order as they are.
LEMMA OrderOfAll ==
    ASSUME NEW n \in Nat
    PROVE  InOrder(0..(n - 1)) = [k \in 1..n |-> k - 1]
<1> DEFINE S == 0..(n - 1)
<1>1. Cardinality(S) = n
  BY FS_Interval
<1>2. \A i \in S : Cardinality({j \in S : j < i}) = i
  <2> TAKE i \in S
  <2>1. {j \in S : j < i} = 0..(i - 1)
    OBVIOUS
  <2>2. Cardinality(0..(i - 1)) = i
    BY FS_Interval
  <2> QED BY <2>1, <2>2
<1>3. \A k \in 1..n : (CHOOSE i \in S : Cardinality({j \in S : j < i}) = k - 1) = k - 1
  <2> TAKE k \in 1..n
  <2>1. k - 1 \in S
    OBVIOUS
  <2>2. \A i \in S : Cardinality({j \in S : j < i}) = k - 1 <=> i = k - 1
    BY <1>2
  <2> HIDE DEF S
  <2> QED BY <2>1, <2>2
<1> HIDE DEF S
<1>4. InOrder(S) = [k \in 1..n |-> CHOOSE i \in S : Cardinality({j \in S : j < i}) = k - 1]
  BY <1>1 DEF InOrder
<1> QED BY <1>3, <1>4 DEF S

\* What has come of a call's arguments after so many deltas.
TextAfter(c, deltas) ==
    IF deltas <= 1 THEN <<>> ELSE IF deltas = 2 THEN << <<c, 1>> >> ELSE << <<c, 1>>, <<c, 2>> >>

\* Of each call some deltas came; what came of it is under construction at its index.
Arrived ==
    ~ turn.over =>
        \E n \in 1..MaxCalls :
            /\ turn \in [n : Nat, retrieved : SUBSET Passages, sent : [1..n -> Calls],
                        numbered : BOOLEAN, next : [1..n -> 0..3], over : {FALSE}]
            /\ ~ turn.numbered => n = 1
            /\ DOMAIN partials = {i - 1 : i \in {j \in 1..n : turn.next[j] > 0}}
            /\ \A i \in 1..n : turn.next[i] > 0 =>
                  partials[i - 1] = [name |-> turn.sent[i].tool, text |-> TextAfter(turn.sent[i], turn.next[i])]

\* Text that is the whole of a call's arguments parses to them.
LEMMA WholeTextParses ==
    ASSUME NEW c \in Calls, NEW name
    PROVE  Parsed(name, TextAfter(c, 3)) = [tool |-> name, arguments |-> c.arguments, amount |-> c.amount]
<1>1. TextAfter(c, 3) = << <<c, 1>>, <<c, 2>> >>
  BY DEF TextAfter
<1>2. {d \in Calls : << <<c, 1>>, <<c, 2>> >> = << <<d, 1>>, <<d, 2>> >>} = {c}
  OBVIOUS
<1>3. (CHOOSE d \in {c} : TRUE) = c
  OBVIOUS
<1> QED BY <1>1, <1>2, <1>3 DEF Parsed

\* When all deltas of all calls have come, they are put together as they were sent.
LEMMA AllArrived ==
    ASSUME Arrived
    PROVE  AssemblyIgnoresInterleaving
<1> SUFFICES ASSUME ~ turn.over, \A i \in DOMAIN turn.next : turn.next[i] = 3
             PROVE  Assemble = [i \in DOMAIN turn.sent |->
                      [tool |-> turn.sent[i].tool, arguments |-> turn.sent[i].arguments,
                       amount |-> turn.sent[i].amount]]
  BY DEF AssemblyIgnoresInterleaving
<1>1. PICK n \in 1..MaxCalls :
            /\ turn.sent \in [1..n -> Calls] /\ turn.next \in [1..n -> 0..3]
            /\ DOMAIN partials = {i - 1 : i \in {j \in 1..n : turn.next[j] > 0}}
            /\ \A i \in 1..n : turn.next[i] > 0 =>
                  partials[i - 1] = [name |-> turn.sent[i].tool, text |-> TextAfter(turn.sent[i], turn.next[i])]
  BY DEF Arrived
<1>2. n \in Nat
  BY CallBound
<1>3. \A i \in 1..n : turn.next[i] = 3 /\ turn.sent[i] \in Calls
  BY <1>1
<1>4. DOMAIN partials = 0..(n - 1)
  <2>1. {j \in 1..n : turn.next[j] > 0} = 1..n
    BY <1>3
  <2>2. {i - 1 : i \in 1..n} = 0..(n - 1)
    <3>1. \A x \in 0..(n - 1) : x + 1 \in 1..n /\ x = (x + 1) - 1
      BY <1>2
    <3>2. \A i \in 1..n : i - 1 \in 0..(n - 1)
      BY <1>2
    <3> QED BY <3>1, <3>2
  <2> QED BY <1>1, <2>1, <2>2
<1>5. \A i \in 1..n : partials[i - 1] = [name |-> turn.sent[i].tool, text |-> TextAfter(turn.sent[i], 3)]
  BY <1>1, <1>3
<1> DEFINE named == {i \in DOMAIN partials : partials[i].name # Unnamed}
<1>6. named = 0..(n - 1)
  <2>1. \A x \in 0..(n - 1) : partials[x].name # Unnamed
    <3> TAKE x \in 0..(n - 1)
    <3>1. x + 1 \in 1..n /\ x = (x + 1) - 1
      BY <1>2
    <3>2. turn.sent[x + 1].tool # Unnamed
      BY <1>3, <3>1, CallsAreNamed
    <3>3. partials[(x + 1) - 1] = [name |-> turn.sent[x + 1].tool, text |-> TextAfter(turn.sent[x + 1], 3)]
      BY <1>5, <3>1
    <3>4. partials[(x + 1) - 1].name = turn.sent[x + 1].tool
      BY <3>3
    <3> QED BY <3>1, <3>2, <3>4
  <2> QED BY <1>4, <2>1
<1>7. InOrder(named) = [k \in 1..n |-> k - 1]
  BY <1>2, <1>6, OrderOfAll
<1>8. Assemble = [k \in 1..n |-> Parsed(partials[k - 1].name, partials[k - 1].text)]
  BY <1>7 DEF Assemble
<1>9. \A k \in 1..n : Parsed(partials[k - 1].name, partials[k - 1].text)
                        = [tool |-> turn.sent[k].tool, arguments |-> turn.sent[k].arguments,
                           amount |-> turn.sent[k].amount]
  <2> TAKE k \in 1..n
  <2>1. partials[k - 1] = [name |-> turn.sent[k].tool, text |-> TextAfter(turn.sent[k], 3)]
    BY <1>5
  <2>2. partials[k - 1].name = turn.sent[k].tool /\ partials[k - 1].text = TextAfter(turn.sent[k], 3)
    BY <2>1
  <2> QED BY <1>3, <2>2, WholeTextParses
<1>10. DOMAIN turn.sent = 1..n
  BY <1>1
<1> QED BY <1>8, <1>9, <1>10

\* The name and the text that the next delta of call c brings when k of its deltas
\* came before it, and what those had made of the call.
DeltaName(c, k) == IF k = 0 THEN c.tool ELSE Unnamed
DeltaText(c, k, last) == IF k = 0 THEN <<>> ELSE [j \in 1..(last - k + 1) |-> <<c, k + j - 1>>]
SoFar(c, k) == IF k > 0 THEN [name |-> c.tool, text |-> TextAfter(c, k)] ELSE [name |-> Unnamed, text |-> <<>>]

LEMMA DeltaExtendsCall ==
    ASSUME NEW c, c.tool # Unnamed, NEW k \in 0..2, NEW last,
           last = k \/ (k = 1 /\ last = 2)
    PROVE  [name |-> IF DeltaName(c, k) = Unnamed THEN SoFar(c, k).name ELSE DeltaName(c, k),
            text |-> IF Len(DeltaText(c, k, last)) = 2 THEN DeltaText(c, k, last)
                     ELSE SoFar(c, k).text \o DeltaText(c, k, last)]
              = [name |-> c.tool, text |-> TextAfter(c, last + 1)]
<1> DEFINE name == DeltaName(c, k)
           text == DeltaText(c, k, last)
           old  == SoFar(c, k)
<1>1. /\ name = IF k = 0 THEN c.tool ELSE Unnamed
      /\ text = IF k = 0 THEN <<>> ELSE [j \in 1..(last - k + 1) |-> <<c, k + j - 1>>]
      /\ old = IF k > 0 THEN [name |-> c.tool, text |-> TextAfter(c, k)] ELSE [name |-> Unnamed, text |-> <<>>]
  BY DEF DeltaName, DeltaText, SoFar
<1> HIDE DEF name, text, old
<1>2. [name |-> IF name = Unnamed THEN old.name ELSE name,
       text |-> IF Len(text) = 2 THEN text ELSE old.text \o text]
         = [name |-> c.tool, text |-> TextAfter(c, last + 1)]
  <2>1. CASE k = 0
    <3>1. old.name = Unnamed /\ old.text = <<>> /\ text = <<>> /\ name = c.tool /\ last = 0
      BY <1>1, <2>1
    <3>2. TextAfter(c, last + 1) = <<>> /\ Len(text) # 2 /\ old.text \o text = <<>>
      BY <3>1 DEF TextAfter
    <3> QED BY <3>1, <3>2
  <2>2. CASE k = 1 /\ last = 2
    <3>1. old.name = c.tool /\ name = Unnamed /\ last = 2
      BY <1>1, <2>2
    <3>2. text = << <<c, 1>>, <<c, 2>> >>
      BY <1>1, <2>2, <3>1
    <3>3. TextAfter(c, last + 1) = << <<c, 1>>, <<c, 2>> >> /\ Len(text) = 2
      BY <3>1, <3>2 DEF TextAfter
    <3> QED BY <3>1, <3>2, <3>3
  <2>3. CASE k = 1 /\ last = 1
    <3>1. old.name = c.tool /\ name = Unnamed /\ last = 1
      BY <1>1, <2>3
    <3>2. text = << <<c, 1>> >> /\ old.text = <<>>
      BY <1>1, <2>3, <3>1 DEF TextAfter
    <3>3. TextAfter(c, last + 1) = << <<c, 1>> >>
      BY <3>1 DEF TextAfter
    <3>4. Len(text) = 1 /\ old.text \o text = << <<c, 1>> >>
      BY ONLY <3>2
    <3> QED BY <3>1, <3>3, <3>4
  <2>4. CASE k = 2
    <3>1. old.name = c.tool /\ name = Unnamed /\ last = 2
      BY <1>1, <2>4
    <3>2. text = << <<c, 2>> >> /\ old.text = << <<c, 1>> >>
      BY <1>1, <2>4, <3>1 DEF TextAfter
    <3>3. TextAfter(c, last + 1) = << <<c, 1>>, <<c, 2>> >>
      BY <3>1 DEF TextAfter
    <3>4. \A a, b : Len(<<b>>) = 1 /\ <<a>> \o <<b>> = <<a, b>>
      <4> TAKE a, b
      <4>1. <<a>> \in Seq({a, b}) /\ <<b>> \in Seq({a, b}) /\ Len(<<b>>) = 1 /\ <<a, b>> \in Seq({a, b})
        OBVIOUS
      <4>2. <<a>> \o <<b>> \in Seq({a, b}) /\ Len(<<a>> \o <<b>>) = 2 /\ Len(<<a, b>>) = 2
        BY <4>1
      <4>3. (<<a>> \o <<b>>)[1] = a /\ (<<a>> \o <<b>>)[2] = b
        BY <4>1
      <4>4. \A m \in 1..Len(<<a>> \o <<b>>) : (<<a>> \o <<b>>)[m] = <<a, b>>[m]
        BY <4>2, <4>3
      <4> QED BY ONLY <4>1, <4>2, <4>4, SeqEqual
    <3>5. Len(text) = 1 /\ old.text \o text = << <<c, 1>>, <<c, 2>> >>
      BY ONLY <3>2, <3>4
    <3>6. IF Len(text) = 2 THEN FALSE ELSE TRUE
      BY <3>5
    <3> QED BY <3>1, <3>3, <3>5, <3>6
  <2>5. k = 0 \/ (k = 1 /\ last = 2) \/ (k = 1 /\ last = 1) \/ k = 2
    OBVIOUS
  <2> QED BY <2>1, <2>2, <2>3, <2>4, <2>5
<1> QED BY <1>2 DEF name, text, old

\* A delta extends what came of its call, and of no other.
LEMMA DeltaKeepsArrived ==
    ASSUME Arrived, DeltaArrives
    PROVE  Arrived'
<1>1. PICK i \in DOMAIN turn.sent, whole \in BOOLEAN :
         LET k    == turn.next[i]
             last == IF whole THEN 2 ELSE k
         IN  /\ k < 3 /\ (whole => k = 1)
             /\ partials' = AbsorbOne([index |-> IF turn.numbered THEN i - 1 ELSE -1,
                                       name  |-> IF k = 0 THEN turn.sent[i].tool ELSE Unnamed,
                                       text  |-> IF k = 0 THEN <<>>
                                                 ELSE [j \in 1..(last - k + 1) |-> <<turn.sent[i], k + j - 1>>]])
             /\ turn' = [turn EXCEPT !.next[i] = last + 1]
  BY DEF DeltaArrives
<1>2. ~ turn.over
  BY DEF DeltaArrives
<1>3. PICK n \in 1..MaxCalls :
         /\ turn \in [n : Nat, retrieved : SUBSET Passages, sent : [1..n -> Calls],
                     numbered : BOOLEAN, next : [1..n -> 0..3], over : {FALSE}]
         /\ ~ turn.numbered => n = 1
         /\ DOMAIN partials = {m - 1 : m \in {j \in 1..n : turn.next[j] > 0}}
         /\ \A m \in 1..n : turn.next[m] > 0 =>
               partials[m - 1] = [name |-> turn.sent[m].tool, text |-> TextAfter(turn.sent[m], turn.next[m])]
  BY <1>2 DEF Arrived
<1> DEFINE c    == turn.sent[i]
           k    == turn.next[i]
           last == IF whole THEN 2 ELSE k
           name == DeltaName(c, k)
           text == DeltaText(c, k, last)
           entry == [index |-> IF turn.numbered THEN i - 1 ELSE -1, name |-> name, text |-> text]
           new  == [name |-> c.tool, text |-> TextAfter(c, last + 1)]
<1>4. /\ n \in Nat /\ i \in 1..n
      /\ k \in 0..2 /\ c \in Calls /\ c.tool # Unnamed
  <2>1. DOMAIN turn.sent = 1..n
    BY <1>3
  <2>2. n \in Nat /\ i \in 1..n
    BY <1>3, <2>1, CallBound
  <2>3. turn.next[i] \in 0..3 /\ turn.sent[i] \in Calls
    BY <1>3, <2>2
  <2>4. k < 3
    BY <1>1
  <2>5. k \in 0..2
    BY <2>3, <2>4
  <2>6. c.tool # Unnamed
    BY <2>3, CallsAreNamed
  <2> QED BY <2>2, <2>3, <2>5, <2>6
<1>5. i \in Int /\ i >= 1 /\ i <= n
  BY ONLY <1>4
<1>6. IndexOf(entry) = i - 1
  <2>1. entry.index = IF turn.numbered THEN i - 1 ELSE -1
    OBVIOUS
  <2> HIDE DEF entry, c, k, last, name, text, new
  <2>2. turn.numbered \in BOOLEAN
    BY <1>3
  <2>3. CASE turn.numbered
    <3>1. entry.index = i - 1 /\ i - 1 # -1
      BY <1>5, <2>1, <2>3
    <3> QED BY <3>1 DEF IndexOf
  <2>4. CASE ~ turn.numbered
    <3>1. entry.index = -1 /\ n = 1
      BY <1>3, <2>1, <2>4
    <3>2. i = 1
      BY <1>5, <3>1
    <3> QED BY <3>1, <3>2 DEF IndexOf
  <2> QED BY <2>2, <2>3, <2>4
<1> DEFINE old == IF i - 1 \in DOMAIN partials THEN partials[i - 1] ELSE [name |-> Unnamed, text |-> <<>>]
<1>7. i - 1 \in DOMAIN partials <=> k > 0
  <2>1. i - 1 \in DOMAIN partials <=> \E m \in 1..n : turn.next[m] > 0 /\ m - 1 = i - 1
    BY <1>3
  <2>2. \A m \in 1..n : m - 1 = i - 1 <=> m = i
    BY ONLY <1>5
  <2> QED BY <1>4, <2>1, <2>2
<1>8. old = IF k > 0 THEN [name |-> c.tool, text |-> TextAfter(c, k)] ELSE [name |-> Unnamed, text |-> <<>>]
  BY <1>3, <1>4, <1>7
<1>9. (k < 3) /\ (whole => k = 1) /\ last = IF whole THEN 2 ELSE k
  BY <1>1
<1>10. name = DeltaName(c, k) /\ text = DeltaText(c, k, last) /\ old = SoFar(c, k)
  BY <1>8 DEF SoFar
<1>11. partials' = AbsorbOne(entry)
  BY <1>1 DEF DeltaName, DeltaText
<1>12. turn' = [turn EXCEPT !.next[i] = last + 1]
  BY <1>1
<1>13. k = turn.next[i] /\ c = turn.sent[i]
  OBVIOUS
<1>14. entry.name = name /\ entry.text = text
  OBVIOUS
<1>15. new = [name |-> c.tool, text |-> TextAfter(c, last + 1)]
  OBVIOUS
<1> HIDE DEF old, c, k, last, name, text, entry, new
<1>16. [name |-> IF name = Unnamed THEN old.name ELSE name,
        text |-> IF Len(text) = 2 THEN text ELSE old.text \o text] = new
  <2>1. [name |-> IF name = Unnamed THEN old.name ELSE name,
         text |-> IF Len(text) = 2 THEN text ELSE old.text \o text]
           = [name |-> c.tool, text |-> TextAfter(c, last + 1)]
    <3>1. last = k \/ (k = 1 /\ last = 2)
      BY <1>9
    <3> QED BY ONLY <1>4, <1>10, <3>1, DeltaExtendsCall
  <2> QED BY <1>15, <2>1
<1>17. partials' = With(partials, i - 1, new)
  <2>1. AbsorbOne(entry) = With(partials, i - 1,
                                [name |-> IF name = Unnamed THEN old.name ELSE name,
                                 text |-> IF Len(text) = 2 THEN text ELSE old.text \o text])
    BY <1>6, <1>14 DEF AbsorbOne, old
  <2> QED BY <1>11, <1>16, <2>1
<1>18. last + 1 \in 0..3 /\ last + 1 > 0
  BY ONLY <1>4, <1>9
<1>19. /\ turn' \in [n : Nat, retrieved : SUBSET Passages, sent : [1..n -> Calls],
                     numbered : BOOLEAN, next : [1..n -> 0..3], over : {FALSE}]
       /\ turn'.next = [turn.next EXCEPT ![i] = last + 1]
       /\ turn'.sent = turn.sent /\ turn'.numbered = turn.numbered
  <2>1. turn \in [n : Nat, retrieved : SUBSET Passages, sent : [1..n -> Calls],
                  numbered : BOOLEAN, next : [1..n -> 0..3], over : {FALSE}]
    BY <1>3
  <2> QED BY ONLY <1>4, <1>12, <1>18, <2>1
<1>20. turn'.next[i] = last + 1 /\ \A m \in 1..n : m # i => turn'.next[m] = turn.next[m]
  BY <1>3, <1>4, <1>19
<1>21. DOMAIN partials' = {m - 1 : m \in {j \in 1..n : turn'.next[j] > 0}}
  <2>1. DOMAIN partials' = DOMAIN partials \cup {i - 1}
    BY <1>17 DEF With
  <2>2. {j \in 1..n : turn'.next[j] > 0} = {j \in 1..n : turn.next[j] > 0} \cup {i}
    BY <1>4, <1>18, <1>20
  <2> QED BY <1>3, <2>1, <2>2
<1>22. \A m \in 1..n : turn'.next[m] > 0 =>
          partials'[m - 1] = [name |-> turn'.sent[m].tool, text |-> TextAfter(turn'.sent[m], turn'.next[m])]
  <2> SUFFICES ASSUME NEW m \in 1..n, turn'.next[m] > 0
               PROVE  partials'[m - 1] = [name |-> turn'.sent[m].tool, text |-> TextAfter(turn'.sent[m], turn'.next[m])]
    OBVIOUS
  <2>1. CASE m = i
    <3>1. partials'[i - 1] = new
      BY <1>17 DEF With
    <3> QED BY <1>13, <1>15, <1>19, <1>20, <2>1, <3>1
  <2>2. CASE m # i
    <3>1. turn'.next[m] = turn.next[m]
      BY <1>20, <2>2
    <3>2. m - 1 # i - 1
      BY ONLY <1>5, <2>2, m \in 1..n
    <3>3. m - 1 \in DOMAIN partials
      BY <1>3, <3>1
    <3>4. partials'[m - 1] = partials[m - 1]
      BY <1>17, <3>2, <3>3 DEF With
    <3> QED BY <1>3, <1>19, <3>1, <3>4
  <2> QED BY <2>1, <2>2
<1>23. n \in 1..MaxCalls /\ (~ turn'.numbered => n = 1)
  BY <1>3, <1>19
<1> QED BY <1>19, <1>21, <1>22, <1>23 DEF Arrived

-----------------------------------------------------------------------------
(* What a call is judged by                                                 *)

\* The highest of some labels is a label, and none of them is above it.
LEMMA HighestLabel ==
    ASSUME NEW labels \in SUBSET Labels
    PROVE  MaxProvenance(labels) \in Labels /\ \A l \in labels : l <= MaxProvenance(labels)
<1> DEFINE I == labels \cup {System}
<1>1. I \in SUBSET (0..4) /\ I # {} /\ labels \subseteq I
  BY DEF Labels, System, External
<1> HIDE DEF I
<1>2. Max(I) \in I /\ \A l \in I : l <= Max(I)
  BY <1>1, Greatest
<1>3. I \subseteq Labels
  BY DEF I, Labels, System, External
<1>4. MaxProvenance(labels) = Max(I)
  BY DEF I, MaxProvenance
<1> QED BY <1>1, <1>2, <1>3, <1>4

\* A call is traced to passages of its turn only.
LEMMA TracedInTurn ==
    ASSUME NEW call, NEW retrieved
    PROVE  Traced(call, retrieved) \subseteq retrieved
<1> DEFINE Match(s) == {p \in retrieved : Matches(s, p.tokens)}
           First(a) == SelectInSeq(call.arguments[a], LAMBDA s : Match(s) # {})
           By(a)    == IF First(a) = 0 THEN {} ELSE Match(call.arguments[a][First(a)])
<1>1. Traced(call, retrieved) = UNION {By(a) : a \in DOMAIN call.arguments}
  BY DEF Traced
<1>2. \A s : Match(s) \subseteq retrieved
  OBVIOUS
<1> HIDE DEF Match, First
<1>3. \A a : By(a) \subseteq retrieved
  BY <1>2
<1> HIDE DEF By
<1> QED BY <1>1, <1>3

\* The taint of a call is no lower than what the turn began with.
LEMMA TaintBounds ==
    ASSUME NEW call, NEW retrieved \in SUBSET Passages, NEW prior \in Labels
    PROVE  /\ InfluencingTaint(call, retrieved, prior).taint \in Labels
           /\ prior <= InfluencingTaint(call, retrieved, prior).taint
<1> DEFINE traced    == Traced(call, retrieved)
           untrusted == {p \in retrieved : p.label = Untrusted}
           from      == IF traced # {} THEN traced ELSE IF untrusted # {} THEN untrusted ELSE retrieved
           labels    == {p.label : p \in from} \cup {prior}
<1>1. from \subseteq Passages
  BY TracedInTurn
<1>2. InfluencingTaint(call, retrieved, prior).taint = MaxProvenance(labels)
  BY DEF InfluencingTaint
<1> HIDE DEF from
<1>3. labels \in SUBSET Labels /\ prior \in labels
  BY <1>1, LabelsAreTyped
<1> HIDE DEF labels
<1> QED BY <1>2, <1>3, HighestLabel

\* A verdict is the policy's on the taint of the call.
JudgedBy(v, prior) ==
    /\ v.taint \in Labels /\ prior <= v.taint
    /\ v.allowed = Allowed(v.call, v.taint)
    /\ v.call.amount \in Nat \cup {NoAmount}

LEMMA VerdictIsJudgedBy ==
    ASSUME NEW call, NEW retrieved \in SUBSET Passages, NEW prior \in Labels,
           call.amount \in Nat \cup {NoAmount}
    PROVE  JudgedBy(Verdict(call, retrieved, prior), prior)
<1>1. /\ Verdict(call, retrieved, prior).call = call
      /\ Verdict(call, retrieved, prior).taint = InfluencingTaint(call, retrieved, prior).taint
      /\ Verdict(call, retrieved, prior).allowed = Allowed(call, InfluencingTaint(call, retrieved, prior).taint)
  BY DEF Verdict
<1> QED BY <1>1, TaintBounds DEF JudgedBy

\* The calls put together are a sequence, and their amounts are amounts.
LEMMA AssembledCalls ==
    ASSUME Arrived, ~ turn.over
    PROVE  \E m \in Nat : /\ DOMAIN Assemble = 1..m
                          /\ \A k \in 1..m : Assemble[k].amount \in Nat \cup {NoAmount}
<1> DEFINE named == {i \in DOMAIN partials : partials[i].name # Unnamed}
           m == Cardinality(named)
           order == InOrder(named)
<1>1. PICK n \in 1..MaxCalls : DOMAIN partials = {i - 1 : i \in {j \in 1..n : turn.next[j] > 0}}
  BY DEF Arrived
<1>2. n \in Nat
  BY CallBound
<1>3. \A i \in 1..n : i - 1 \in 0..n
  BY <1>2
<1>4. named \subseteq 0..n
  BY <1>1, <1>3
<1>5. IsFiniteSet(named)
  <2>1. IsFiniteSet(0..n)
    BY <1>2, FS_Interval
  <2> HIDE DEF named
  <2> QED BY <1>4, <2>1, FS_Subset
<1>6. m \in Nat
  BY <1>5, FS_CardinalityType
<1>7. Assemble = [k \in DOMAIN order |-> Parsed(partials[order[k]].name, partials[order[k]].text)]
  BY DEF Assemble
<1>8. DOMAIN order = 1..m
  BY DEF InOrder
<1>9. \A name, text : Parsed(name, text).amount \in Nat \cup {NoAmount}
  <2> TAKE name, text
  <2> DEFINE whole == {c \in Calls : text = <<<<c, 1>>, <<c, 2>>>>}
  <2>1. CASE whole # {}
    <3> DEFINE c == CHOOSE c \in whole : TRUE
    <3>1. c \in Calls
      BY <2>1
    <3>2. Parsed(name, text) = [tool |-> name, arguments |-> c.arguments, amount |-> c.amount]
      BY <2>1 DEF Parsed
    <3> HIDE DEF c
    <3> QED BY <3>1, <3>2, CallsAreNamed
  <2>2. CASE whole = {}
    <3>1. Parsed(name, text).amount = NoAmount
      BY <2>2 DEF Parsed
    <3> QED BY <3>1
  <2> QED BY <2>1, <2>2
<1> HIDE DEF order, m, named
<1> QED BY <1>6, <1>7, <1>8, <1>9

\* The verdicts of a turn are those of the policy, as many as there are.
LEMMA JudgedByThePolicy ==
    ASSUME NEW calls, NEW m \in Nat, DOMAIN calls = 1..m,
           \A k \in 1..m : calls[k].amount \in Nat \cup {NoAmount},
           NEW retrieved \in SUBSET Passages, NEW prior \in Labels
    PROVE  \A k \in DOMAIN Judge(calls, retrieved, prior) : JudgedBy(Judge(calls, retrieved, prior)[k], prior)
<1> DEFINE verdicts == [k \in DOMAIN calls |-> Verdict(calls[k], retrieved, prior)]
           held     == SelectInSeq(verdicts, LAMBDA v : ~ v.allowed)
           places   == {k \in 1..Len(verdicts) : ~ verdicts[k].allowed}
           V        == {verdicts[k] : k \in 1..m}
<1>1. \A k \in 1..m : JudgedBy(verdicts[k], prior)
  BY VerdictIsJudgedBy
<1>2. verdicts \in Seq(V) /\ Len(verdicts) = m /\ DOMAIN verdicts = 1..m
  OBVIOUS
<1>3. held = IF places # {} THEN Min(places) ELSE 0
  BY DEF SelectInSeq
<1>4. Judge(calls, retrieved, prior) = IF held = 0 THEN verdicts ELSE SubSeq(verdicts, 1, held)
  BY DEF Judge
<1>5. places \subseteq 1..m
  BY <1>2
<1> HIDE DEF verdicts, held, places, V
<1>6. held # 0 => held \in 1..m
  <2>1. places \in SUBSET Nat
    BY <1>5
  <2>2. places # {} => Min(places) \in places
    BY <2>1, SmallestOf
  <2> QED BY <1>3, <1>5, <2>2
<1>7. CASE held = 0
  BY <1>1, <1>2, <1>4, <1>7
<1>8. CASE held # 0
  <2>1. held \in Nat /\ 1 <= held /\ held <= m
    BY <1>6, <1>8
  <2>2. /\ SubSeq(verdicts, 1, held) \in Seq(V) /\ Len(SubSeq(verdicts, 1, held)) = held
        /\ \A k \in 1..held : SubSeq(verdicts, 1, held)[k] = verdicts[k]
    BY <1>2, <2>1, SubSeqProperties
  <2>3. DOMAIN SubSeq(verdicts, 1, held) = 1..held
    BY <2>2, LenProperties
  <2> QED BY <1>1, <1>4, <1>8, <2>1, <2>2, <2>3
<1> QED BY <1>7, <1>8

-----------------------------------------------------------------------------
(* The conversation                                                         *)

\* A label runs for every request under way, and covers what its turn retrieved.
RunningCovers ==
    /\ \A r \in DOMAIN running : running[r] \in Labels
    /\ ~ turn.over => /\ turn.retrieved \subseteq Passages
                      /\ turn.n \in DOMAIN running
                      /\ \A p \in turn.retrieved : p.label <= running[turn.n]

\* Nothing is judged of a turn that is over; what is judged is as the policy has it.
JudgedSoundly ==
    /\ turn.over => judged = <<>>
    /\ ~ turn.over => \A k \in DOMAIN judged : JudgedBy(judged[k], running[turn.n])

TaintInv == turn.n \in Nat /\ turn.over \in BOOLEAN /\ Arrived /\ RunningCovers /\ JudgedSoundly

LEMMA TaintInvInit == TaintInit => TaintInv
<1> SUFFICES ASSUME TaintInit PROVE TaintInv
  OBVIOUS
<1>1. turn.n = 0 /\ turn.over = TRUE /\ running = <<>> /\ judged = <<>>
  BY DEF TaintInit, NoTurn
<1>2. Arrived
  BY <1>1 DEF Arrived
<1>3. RunningCovers
  BY <1>1 DEF RunningCovers
<1>4. JudgedSoundly
  BY <1>1 DEF JudgedSoundly
<1>5. turn.over \in BOOLEAN
  BY <1>1, Zenon
<1>6. turn.n \in Nat
  BY <1>1
<1> QED BY <1>2, <1>3, <1>4, <1>5, <1>6 DEF TaintInv

\* What is observed of a request is a label no lower than its passages'.
LEMMA ObservedCovers ==
    ASSUME NEW request, NEW retrieved \in SUBSET Passages, \A r \in DOMAIN running : running[r] \in Labels
    PROVE  /\ \A r \in DOMAIN Observe(request, retrieved) : Observe(request, retrieved)[r] \in Labels
           /\ request \in DOMAIN Observe(request, retrieved)
           /\ \A p \in retrieved : p.label <= Observe(request, retrieved)[request]
<1> DEFINE labels == {p.label : p \in retrieved} \cup {Prior(request)}
<1>1. Prior(request) \in Labels
  BY DEF Prior, Labels, System, External
<1>2. labels \in SUBSET Labels
  BY <1>1, LabelsAreTyped
<1>3. MaxProvenance(labels) \in Labels /\ \A l \in labels : l <= MaxProvenance(labels)
  BY <1>2, HighestLabel
<1>4. \A p \in retrieved : p.label \in labels
  OBVIOUS
<1>5. Observe(request, retrieved) = With(running, request, MaxProvenance(labels))
  BY DEF Observe
<1> HIDE DEF labels
<1> QED BY <1>3, <1>4, <1>5 DEF With

LEMMA TurnBeginsKeeps == TaintInv /\ TurnBegins => TaintInv'
<1> SUFFICES ASSUME TaintInv, TurnBegins PROVE TaintInv'
  OBVIOUS
<1>1. PICK retrieved \in SUBSET Passages, sent \in SeqOf(Calls, MaxCalls), numbered \in BOOLEAN :
          /\ Len(sent) > 0 /\ (numbered \/ Len(sent) = 1)
          /\ turn' = [n |-> turn.n + 1, retrieved |-> retrieved, sent |-> sent,
                      numbered |-> numbered, next |-> [i \in DOMAIN sent |-> 0], over |-> FALSE]
          /\ running' = Observe(turn.n + 1, retrieved)
  BY DEF TurnBegins
<1>2. turn.over /\ turn.n < MaxTurns /\ partials' = <<>> /\ judged' = judged
  BY DEF TurnBegins
<1>3. judged = <<>>
  BY <1>2 DEF TaintInv, JudgedSoundly
<1>4. PICK n \in 0..MaxCalls : sent \in [1..n -> Calls]
  BY DEF SeqOf
<1>5. n \in Nat /\ Len(sent) = n /\ DOMAIN sent = 1..n
  BY <1>4, CallBound
<1>6. n \in 1..MaxCalls /\ (~ numbered => n = 1)
  BY <1>1, <1>4, <1>5, CallBound
<1>7. /\ turn'.n = turn.n + 1 /\ turn'.retrieved = retrieved /\ turn'.sent = sent /\ turn'.numbered = numbered
      /\ turn'.next = [i \in 1..n |-> 0] /\ turn'.over = FALSE
  BY <1>1, <1>5
<1>8. Arrived'
  <2>1. turn' \in [n : Nat, retrieved : SUBSET Passages, sent : [1..n -> Calls],
                   numbered : BOOLEAN, next : [1..n -> 0..3], over : {FALSE}]
    <3>1. turn.n + 1 \in Nat
      BY DEF TaintInv
    <3>2. [i \in DOMAIN sent |-> 0] \in [1..n -> 0..3]
      BY <1>5
    <3> QED BY <1>1, <1>4, <3>1, <3>2
  <2>2. \A j \in 1..n : ~(turn'.next[j] > 0)
    BY <1>7
  <2>3. DOMAIN partials' = {i - 1 : i \in {j \in 1..n : turn'.next[j] > 0}}
    <3>1. {j \in 1..n : turn'.next[j] > 0} = {}
      BY <2>2
    <3>2. DOMAIN partials' = {}
      BY <1>2
    <3> QED BY <3>1, <3>2
  <2>4. ~ turn'.numbered => n = 1
    BY <1>6, <1>7
  <2> QED BY <1>6, <2>1, <2>2, <2>3, <2>4 DEF Arrived
<1>9. RunningCovers'
  <2>1. \A r \in DOMAIN running : running[r] \in Labels
    BY DEF TaintInv, RunningCovers
  <2>2. /\ \A r \in DOMAIN running' : running'[r] \in Labels
        /\ turn.n + 1 \in DOMAIN running'
        /\ \A p \in retrieved : p.label <= running'[turn.n + 1]
    BY <1>1, <2>1, ObservedCovers
  <2> QED BY <1>7, <2>2 DEF RunningCovers
<1>10. JudgedSoundly'
  BY <1>2, <1>3, <1>7 DEF JudgedSoundly
<1>11. turn'.n \in Nat /\ turn'.over \in BOOLEAN
  <2>1. turn.n \in Nat
    BY DEF TaintInv
  <2>2. turn'.n = turn.n + 1 /\ turn'.over = FALSE
    BY <1>7
  <2>3. turn'.n \in Nat
    BY <2>1, <2>2
  <2>4. turn'.over \in BOOLEAN
    BY <2>2, Zenon
  <2> QED BY <2>3, <2>4
<1> QED BY <1>8, <1>9, <1>10, <1>11 DEF TaintInv

LEMMA DeltaArrivesKeeps == TaintInv /\ DeltaArrives => TaintInv'
<1> SUFFICES ASSUME TaintInv, DeltaArrives PROVE TaintInv'
  OBVIOUS
<1>1. Arrived'
  BY DeltaKeepsArrived DEF TaintInv
<1>2. PICK i, value : turn' = [turn EXCEPT !.next[i] = value]
  BY DEF DeltaArrives
<1>3. running' = running /\ judged' = judged /\ ~ turn.over /\ judged = <<>>
  BY DEF DeltaArrives
<1>4. PICK n \in 1..MaxCalls :
         turn \in [n : Nat, retrieved : SUBSET Passages, sent : [1..n -> Calls],
                   numbered : BOOLEAN, next : [1..n -> 0..3], over : {FALSE}]
  BY <1>3 DEF TaintInv, Arrived
<1>5. turn'.n = turn.n /\ turn'.retrieved = turn.retrieved /\ turn'.over = turn.over
  BY ONLY <1>2, <1>4
<1>6. RunningCovers' /\ JudgedSoundly'
  BY <1>3, <1>5 DEF TaintInv, RunningCovers, JudgedSoundly
<1> QED BY <1>1, <1>5, <1>6 DEF TaintInv

LEMMA CallsJudgedKeeps == TaintInv /\ CallsJudged => TaintInv'
<1> SUFFICES ASSUME TaintInv, CallsJudged PROVE TaintInv'
  OBVIOUS
<1>1. ~ turn.over /\ judged' = Judge(Assemble, turn.retrieved, Prior(turn.n))
  BY DEF CallsJudged
<1>2. UNCHANGED <<turn, partials, running>>
  BY DEF CallsJudged
<1>3. turn.retrieved \in SUBSET Passages /\ turn.n \in DOMAIN running /\ running[turn.n] \in Labels
  BY <1>1 DEF TaintInv, RunningCovers
<1>4. Prior(turn.n) = running[turn.n]
  BY <1>3 DEF Prior
<1>5. PICK m \in Nat : /\ DOMAIN Assemble = 1..m
                       /\ \A k \in 1..m : Assemble[k].amount \in Nat \cup {NoAmount}
  BY <1>1, AssembledCalls DEF TaintInv
<1>6. \A k \in DOMAIN judged' : JudgedBy(judged'[k], running[turn.n])
  BY ONLY <1>1, <1>3, <1>4, <1>5, JudgedByThePolicy
<1>7. JudgedSoundly'
  BY <1>1, <1>2, <1>6 DEF JudgedSoundly
<1>8. Arrived' /\ RunningCovers' /\ turn'.over \in BOOLEAN /\ turn'.n \in Nat
  BY <1>2 DEF TaintInv, Arrived, RunningCovers
<1> QED BY <1>7, <1>8 DEF TaintInv

LEMMA TurnEndsKeeps == TaintInv /\ TurnEnds => TaintInv'
<1> SUFFICES ASSUME TaintInv, TurnEnds PROVE TaintInv'
  OBVIOUS
<1>1. /\ turn' = [turn EXCEPT !.over = TRUE] /\ judged' = <<>> /\ ~ turn.over
      /\ running' = [r \in DOMAIN running \ {turn.n} |-> running[r]]
  BY DEF TurnEnds
<1>2. PICK n \in 1..MaxCalls :
         turn \in [n : Nat, retrieved : SUBSET Passages, sent : [1..n -> Calls],
                   numbered : BOOLEAN, next : [1..n -> 0..3], over : {FALSE}]
  BY <1>1 DEF TaintInv, Arrived
<1>3. turn'.over = TRUE /\ turn'.n = turn.n
  BY ONLY <1>1, <1>2
<1>4. turn'.n \in Nat /\ Arrived' /\ JudgedSoundly'
  BY <1>1, <1>2, <1>3 DEF TaintInv, Arrived, JudgedSoundly
<1>5. RunningCovers'
  BY <1>1, <1>3 DEF TaintInv, RunningCovers
<1> QED BY <1>3, <1>4, <1>5 DEF TaintInv

\* What the invariant says of the verdicts, as the turn's passages have it.
LEMMA SoundVerdictsCover == TaintInv => TaintCoversTheTurn
<1> SUFFICES ASSUME TaintInv, NEW k \in DOMAIN judged, NEW p \in turn.retrieved
             PROVE  judged[k].taint >= p.label
  BY DEF TaintCoversTheTurn
<1>1. ~ turn.over
  BY DEF TaintInv, JudgedSoundly
<1>2. judged[k].taint \in Labels /\ running[turn.n] <= judged[k].taint
  BY <1>1 DEF TaintInv, JudgedSoundly, JudgedBy
<1>3. running[turn.n] \in Labels /\ p.label <= running[turn.n]
  BY <1>1 DEF TaintInv, RunningCovers
<1>4. p.label \in Labels
  BY <1>1, LabelsAreTyped DEF TaintInv, RunningCovers
<1> QED BY <1>2, <1>3, <1>4 DEF Labels, System, External

LEMMA SoundVerdictsJustify == TaintInv => ReleaseIsJustified
<1> SUFFICES ASSUME TaintInv, NEW k \in DOMAIN judged, judged[k].allowed
             PROVE  LET call == judged[k].call
                        tool == ToolOf(call.tool)
                    IN  /\ tool.cap = NoAmount \/ call.amount <= tool.cap
                        /\ \/ tool.class = "reversible"
                           \/ \A p \in turn.retrieved : p.label \notin {Untrusted, External}
  BY DEF ReleaseIsJustified
<1> DEFINE call == judged[k].call
           tool == ToolOf(call.tool)
           taint == judged[k].taint
<1>1. ~ turn.over
  BY DEF TaintInv, JudgedSoundly
<1>2. JudgedBy(judged[k], running[turn.n])
  BY <1>1 DEF TaintInv, JudgedSoundly
<1>3. /\ ~ (tool.cap # NoAmount /\ call.amount # NoAmount /\ call.amount > tool.cap)
      /\ tool.class = "reversible" \/ taint < UntrustedFloor
  BY <1>2 DEF JudgedBy, Allowed
<1>4. tool.cap \in Nat \cup {NoAmount} /\ call.amount \in Nat \cup {NoAmount}
  BY <1>2, CapsAreTyped DEF JudgedBy
<1>5. \A p \in turn.retrieved : taint >= p.label /\ p.label \in Labels
  BY <1>1, SoundVerdictsCover, LabelsAreTyped DEF TaintInv, TaintCoversTheTurn, RunningCovers
<1>6. taint \in Labels
  BY <1>2 DEF JudgedBy
<1> HIDE DEF call, tool, taint
<1>7. tool.cap = NoAmount \/ call.amount <= tool.cap
  BY <1>3, <1>4 DEF NoAmount
<1>8. taint < UntrustedFloor => \A p \in turn.retrieved : p.label \notin {Untrusted, External}
  BY <1>5, <1>6 DEF UntrustedFloor, Untrusted, External, Labels, System
<1>9. tool.class = "reversible" \/ \A p \in turn.retrieved : p.label \notin {Untrusted, External}
  BY <1>3, <1>8
<1> QED BY <1>7, <1>9 DEF call, tool

\* Whatever passages, tools and calls there are, and however the pieces of the
\* calls interleave: a complete stream is put together as it was sent, no call is
\* judged below the label of a passage of its turn, and what is released is below
\* its cap and reversible or free of what is untrusted.
THEOREM CallsAreJudged == TaintInit /\ [][TaintNext]_taintVars => []CallsAreJudgedWhole
<1>1. TaintInit => TaintInv
  BY TaintInvInit
<1>2. TaintInv /\ [TaintNext]_taintVars => TaintInv'
  <2>1. TaintInv /\ UNCHANGED taintVars => TaintInv'
    BY DEF taintVars, TaintInv, Arrived, RunningCovers, JudgedSoundly
  <2> QED BY <2>1, TurnBeginsKeeps, DeltaArrivesKeeps, CallsJudgedKeeps, TurnEndsKeeps DEF TaintNext
<1>3. TaintInv => CallsAreJudgedWhole
  BY AllArrived, SoundVerdictsCover, SoundVerdictsJustify DEF TaintInv, CallsAreJudgedWhole
<1> QED BY <1>1, <1>2, <1>3, PTL

-----------------------------------------------------------------------------
(* What is trained on, and the policy that is selected                      *)

\* A domain of two or more is cut so that something is left behind the cut.
LEMMA CutLeavesOne == ASSUME NEW n \in Nat, n >= 2 PROVE Cut(n) \in 1..(n - 1)
<1> DEFINE c == (6 * n + 5) \div 10
           m == Min({n - 1, c})
<1>1. c \in Nat /\ n - 1 \in Nat /\ 1 <= n - 1
  OBVIOUS
<1> HIDE DEF c
<1>2. m \in {n - 1, c} /\ m <= n - 1
  <2>1. PICK x \in {n - 1, c} : \A y \in {n - 1, c} : x <= y
    BY <1>1
  <2>2. Min({n - 1, c}) \in {n - 1, c} /\ \A y \in {n - 1, c} : Min({n - 1, c}) <= y
    BY <2>1 DEF Min
  <2> QED BY <2>2
<1>3. Cut(n) = Max({1, m})
  BY DEF Cut, c
<1> HIDE DEF m
<1>4. m \in Nat
  BY <1>1, <1>2
<1>5. Max({1, m}) \in {1, m} /\ Max({1, m}) >= 1
  <2>1. PICK x \in {1, m} : \A y \in {1, m} : x >= y
    BY <1>4
  <2>2. Max({1, m}) \in {1, m} /\ \A y \in {1, m} : Max({1, m}) >= y
    BY <2>1 DEF Max
  <2> QED BY <2>2
<1> QED BY <1>1, <1>2, <1>3, <1>4, <1>5

\* The last of two or more documents is not in the first half.
LEMMA HalfLeavesOne ==
    ASSUME NEW domain, IsFiniteSet(Free(domain)), Cardinality(Free(domain)) >= 2
    PROVE  \E d \in Free(domain) : d \notin FirstHalf(domain)
<1> DEFINE F == Free(domain)
           n == Cardinality(F)
<1>1. n \in Nat /\ F \in SUBSET Nat /\ F # {}
  <2>1. n \in Nat /\ F # {}
    BY FS_CardinalityType, FS_EmptySet
  <2>2. F \subseteq Nat
    BY EvaluationAssumption DEF Free, Of
  <2> QED BY <2>1, <2>2
<1>2. Max(F) \in F /\ \A y \in F : y <= Max(F)
  BY <1>1, FiniteHasGreatest
<1> DEFINE d == Max(F)
           B == {e \in F : e < d}
<1> HIDE DEF F, d
<1>3. B = F \ {d}
  <2>1. d \in F /\ d \in Nat /\ \A y \in F : y \in Nat /\ y <= d
    BY <1>1, <1>2 DEF d
  <2>2. \A y \in F : y < d <=> y # d
    BY <2>1
  <2> QED BY <2>2
<1>4. Cardinality(B) = n - 1
  <2>1. d \in F /\ IsFiniteSet(F)
    BY <1>2 DEF F, d
  <2> QED BY <1>3, <2>1, FS_RemoveElement
<1>5. Cut(n) <= n - 1
  BY <1>1, CutLeavesOne DEF F
<1>6. d \notin FirstHalf(domain)
  <2>1. Cut(n) \in Nat
    BY <1>1, CutLeavesOne DEF F
  <2>2. ~(Cardinality(B) < Cut(n))
    BY <1>1, <1>4, <1>5, <2>1
  <2> QED BY <2>2 DEF FirstHalf, F
<1> QED BY <1>2, <1>6 DEF F, d

LEMMA SplitIsSound == ASSUME SplitCorpus PROVE NothingTrainedOnIsMeasured'
<1> DEFINE calibration == UNION {FirstHalf(domain) : domain \in DocDomains}
           evaluation == Documents \ calibration
<1>1. \E moved \in SUBSET calibration : halves' = [calibration |-> calibration \ moved, evaluation |-> evaluation \cup moved]
  <2>1. CASE Contradictory(evaluation)
    <3>1. halves' = [calibration |-> calibration, evaluation |-> evaluation]
      BY <2>1 DEF SplitCorpus
    <3>2. calibration \ {} = calibration /\ evaluation \cup {} = evaluation /\ {} \in SUBSET calibration
      OBVIOUS
    <3> QED BY <3>1, <3>2
  <2>2. CASE ~Contradictory(evaluation)
    BY <2>2 DEF SplitCorpus
  <2> QED BY <2>1, <2>2
<1>2. PICK moved \in SUBSET calibration : halves' = [calibration |-> calibration \ moved, evaluation |-> evaluation \cup moved]
  BY <1>1
<1>3. calibration \subseteq Documents \ EvalPinned
  BY DEF FirstHalf, Free, Of
<1>4. domainOf' = domainOf
  BY DEF SplitCorpus
<1> HIDE DEF calibration
<1>5. /\ halves'.calibration \cap halves'.evaluation = {}
      /\ halves'.calibration \cup halves'.evaluation = Documents
      /\ EvalPinned \subseteq halves'.evaluation
  BY <1>2, <1>3, EvaluationAssumption
<1>6. ASSUME NEW domain \in DocDomains, Cardinality(Of(domain) \ EvalPinned) >= 2
      PROVE  (Of(domain) \ EvalPinned) \cap halves'.evaluation # {}
  <2>1. Of(domain) \ EvalPinned = Free(domain) /\ Free(domain) \subseteq Documents /\ Free(domain) \in SUBSET Documents
    BY DEF Free, Of
  <2>2. IsFiniteSet(Free(domain))
    BY <2>1, FS_Subset, EvaluationAssumption
  <2>3. PICK d \in Free(domain) : d \notin FirstHalf(domain)
    BY <1>6, <2>1, <2>2, HalfLeavesOne
  <2>4. d \notin calibration
    <3>1. \A other \in DocDomains : d \in FirstHalf(other) => other = domain
      BY DEF FirstHalf, Free, Of
    <3> QED BY <2>3, <3>1 DEF calibration
  <2> QED BY <1>2, <2>1, <2>3, <2>4
<1>7. \A domain : Of(domain)' = Of(domain)
  BY <1>4 DEF Of
<1> QED BY <1>5, <1>6, <1>7 DEF NothingTrainedOnIsMeasured

\* The seeded set is finite, so what is counted over it is a number.
LEMMA SeededSetIsFinite == IsFiniteSet(SeededSet)
<1> DEFINE a == [n \in 1..CaseCounts.clean |-> CleanCase(n)]
           b == [n \in 1..CaseCounts.missing_retrieval |-> InducedCase(n)]
           c == [n \in 1..CaseCounts.poisoned_document |-> PoisonedCase(n)]
           d == [n \in 1..CaseCounts.canary_pii |-> LeakCase(n)]
           e == [n \in 1..CaseCounts.demographic_twin |-> TwinCase(n)]
           f == [n \in 1..CaseCounts.agent_loop |-> LoopCase(n)]
           Image(D, g) == {g[x] : x \in D}
<1>1. /\ IsFiniteSet(1..CaseCounts.clean) /\ IsFiniteSet(1..CaseCounts.missing_retrieval)
      /\ IsFiniteSet(1..CaseCounts.poisoned_document) /\ IsFiniteSet(1..CaseCounts.canary_pii)
      /\ IsFiniteSet(1..CaseCounts.demographic_twin) /\ IsFiniteSet(1..CaseCounts.agent_loop)
  BY FS_Interval, EvaluationAssumption
<1>2. IsFiniteSet(Image(1..CaseCounts.clean, a))
  BY <1>1, ImageIsFinite
<1>3. IsFiniteSet(Image(1..CaseCounts.missing_retrieval, b))
  BY <1>1, ImageIsFinite
<1>4. IsFiniteSet(Image(1..CaseCounts.poisoned_document, c))
  BY <1>1, ImageIsFinite
<1>5. IsFiniteSet(Image(1..CaseCounts.canary_pii, d))
  BY <1>1, ImageIsFinite
<1>6. IsFiniteSet(Image(1..CaseCounts.demographic_twin, e))
  BY <1>1, ImageIsFinite
<1>7. IsFiniteSet(Image(1..CaseCounts.agent_loop, f))
  BY <1>1, ImageIsFinite
<1>8. SeededSet = Image(1..CaseCounts.clean, a) \cup Image(1..CaseCounts.missing_retrieval, b)
                  \cup Image(1..CaseCounts.poisoned_document, c) \cup Image(1..CaseCounts.canary_pii, d)
                  \cup Image(1..CaseCounts.demographic_twin, e) \cup Image(1..CaseCounts.agent_loop, f)
  BY DEF SeededSet
<1> HIDE DEF Image
<1> QED BY <1>2, <1>3, <1>4, <1>5, <1>6, <1>7, <1>8, FS_Union

Counted(r) == r.disruptive \in Nat /\ r.intervened \in Nat

LEMMA MetricsAreCounted == ASSUME NEW action, NEW frozen PROVE Counted(ComputeMetrics(action, frozen))
<1>1. ASSUME NEW rungs, NEW C \in SUBSET SeededSet PROVE Interrupted(C, action, rungs) \in Nat
  <2>1. {case \in C : action[case] \in rungs} \in SUBSET SeededSet
    OBVIOUS
  <2> QED BY <2>1, SeededSetIsFinite, FS_Subset, FS_CardinalityType DEF Interrupted
<1> DEFINE clean == SeededSet \ {case \in SeededSet : IsDefective(case)}
<1>2. /\ ComputeMetrics(action, frozen).disruptive = Interrupted(clean, action, DisruptiveActions)
      /\ ComputeMetrics(action, frozen).intervened
           = Interrupted(clean, action, (EvalRungs \cup {"L5_block"}) \ {"L0_pass"})
  BY DEF ComputeMetrics
<1>3. clean \in SUBSET SeededSet
  OBVIOUS
<1> QED BY <1>1, <1>2, <1>3 DEF Counted

\* Every candidate has a row for every seed that was run, but for the one in hand,
\* which some have yet to be replayed on; what is selected is final.
ReplayInv ==
    /\ DOMAIN escapesOff \subseteq Seeds
    /\ rows = [c \in Candidates |-> rows[c]]
    /\ \A c \in Candidates : \A s \in DOMAIN rows[c] : Counted(rows[c][s])
    /\ baseline = NoTrace => \A c \in Candidates : DOMAIN rows[c] = DOMAIN escapesOff
    /\ baseline # NoTrace =>
         /\ baseline.seed \in DOMAIN escapesOff
         /\ \A c \in Candidates : DOMAIN rows[c] \in {DOMAIN escapesOff, DOMAIN escapesOff \ {baseline.seed}}
    /\ selected # "none" => DOMAIN escapesOff = Seeds /\ baseline = NoTrace

EvalInv == ReplayInv /\ EvaluationIsSound

LEMMA EvalBegins == EvalInit => EvalInv
<1> SUFFICES ASSUME EvalInit PROVE EvalInv
  OBVIOUS
<1>1. DOMAIN escapesOff = {} /\ \A c \in Candidates : DOMAIN rows[c] = {}
  BY DEF EvalInit
<1>2. ReplayInv
  BY <1>1 DEF EvalInit, ReplayInv
<1>3. EvaluationIsSound
  BY DEF EvalInit, EvaluationIsSound, NothingTrainedOnIsMeasured, SelectionIsSafe
<1> QED BY <1>2, <1>3 DEF EvalInv

\* What was selected stays right as long as what it was selected from is there.
LEMMA SelectedOnce ==
    ASSUME SelectionIsSafe, UNCHANGED <<rows, escapesOff, regressing, selected>>
    PROVE  SelectionIsSafe'
<1>1. \A c : WorstDisruptive(c)' = WorstDisruptive(c) /\ WorstIntervened(c)' = WorstIntervened(c)
  BY DEF WorstDisruptive, WorstIntervened
<1> QED BY <1>1 DEF SelectionIsSafe

LEMMA SplitUntouched ==
    ASSUME NothingTrainedOnIsMeasured, UNCHANGED <<domainOf, halves>>
    PROVE  NothingTrainedOnIsMeasured'
BY DEF NothingTrainedOnIsMeasured, Of

LEMMA CorpusStepsKeep == EvalInv /\ (SplitCorpus \/ BuildSeededSet) => EvalInv'
<1> SUFFICES ASSUME EvalInv, SplitCorpus \/ BuildSeededSet PROVE EvalInv'
  OBVIOUS
<1>1. UNCHANGED <<baseline, rows, escapesOff, regressing, selected>>
  BY DEF SplitCorpus, BuildSeededSet
<1>2. ReplayInv'
  BY <1>1 DEF EvalInv, ReplayInv
<1>3. SelectionIsSafe'
  BY <1>1, SelectedOnce DEF EvalInv, EvaluationIsSound
<1>4. NothingTrainedOnIsMeasured'
  <2>1. CASE SplitCorpus
    BY <2>1, SplitIsSound
  <2>2. CASE BuildSeededSet
    BY <2>2 DEF BuildSeededSet, NothingTrainedOnIsMeasured
  <2> QED BY <2>1, <2>2
<1> QED BY <1>2, <1>3, <1>4 DEF EvalInv, EvaluationIsSound

LEMMA RunSeedKeeps == EvalInv /\ RunSeed => EvalInv'
<1> SUFFICES ASSUME EvalInv, RunSeed PROVE EvalInv'
  OBVIOUS
<1>1. PICK s \in {Min(Seeds \ DOMAIN escapesOff)}, action \in Decisions, frozen \in Freezes :
         /\ baseline' = [seed |-> s, frozen |-> frozen]
         /\ escapesOff' = [t \in DOMAIN escapesOff \cup {s} |->
                             IF t = s THEN ComputeMetrics(action, frozen).escapes ELSE escapesOff[t]]
  BY DEF RunSeed
<1>2. baseline = NoTrace /\ DOMAIN escapesOff # Seeds /\ UNCHANGED <<domainOf, halves, rows, regressing, selected>>
  BY DEF RunSeed
<1>3. s \in Seeds /\ s \notin DOMAIN escapesOff /\ s # 0
  <2>1. Seeds \ DOMAIN escapesOff # {} /\ Seeds \ DOMAIN escapesOff \in SUBSET Nat
    BY <1>2, EvaluationAssumption DEF EvalInv, ReplayInv
  <2>2. s \in Seeds \ DOMAIN escapesOff
    BY <2>1, SmallestOf
  <2> QED BY <2>2, EvaluationAssumption
<1>4. baseline' # NoTrace /\ baseline'.seed = s
  BY <1>1, <1>3 DEF NoTrace
<1>5. DOMAIN escapesOff' = DOMAIN escapesOff \cup {s}
  BY <1>1
<1>6. selected = "none"
  BY <1>2 DEF EvalInv, ReplayInv
<1>7. \A c \in Candidates : DOMAIN rows'[c] = DOMAIN escapesOff' \ {s}
  BY <1>2, <1>3, <1>5 DEF EvalInv, ReplayInv
<1>8. ReplayInv'
  BY <1>2, <1>3, <1>4, <1>5, <1>6, <1>7 DEF EvalInv, ReplayInv
<1>9. EvaluationIsSound'
  BY <1>2, <1>6, SplitUntouched DEF EvalInv, EvaluationIsSound, SelectionIsSafe
<1> QED BY <1>8, <1>9 DEF EvalInv

LEMMA ReplayKeeps == ASSUME EvalInv, NEW c \in Candidates, ReplaySeedCandidate(c) PROVE EvalInv'
<1>1. /\ baseline # NoTrace /\ baseline.seed \notin DOMAIN rows[c]
      /\ \A b \in Candidates : b < c => baseline.seed \in DOMAIN rows[b]
      /\ baseline' = IF \A b \in Candidates : b <= c THEN NoTrace ELSE baseline
      /\ UNCHANGED <<domainOf, halves, escapesOff, regressing, selected>>
  BY DEF ReplaySeedCandidate
<1>2. PICK action \in Decisions :
        rows' = [rows EXCEPT ![c] = [t \in DOMAIN rows[c] \cup {baseline.seed} |->
                    IF t = baseline.seed THEN ComputeMetrics(action, baseline.frozen) ELSE rows[c][t]]]
  BY DEF ReplaySeedCandidate
<1>3. ReplayInv /\ selected = "none"
  BY <1>1 DEF EvalInv, ReplayInv
<1>4. /\ rows' = [b \in Candidates |-> rows'[b]] /\ \A b \in Candidates \ {c} : rows'[b] = rows[b]
      /\ rows'[c] = [t \in DOMAIN rows[c] \cup {baseline.seed} |->
                      IF t = baseline.seed THEN ComputeMetrics(action, baseline.frozen) ELSE rows[c][t]]
  BY <1>2, <1>3 DEF ReplayInv
<1>5. DOMAIN rows'[c] = DOMAIN escapesOff
  <2>1. DOMAIN rows'[c] = DOMAIN rows[c] \cup {baseline.seed}
    BY <1>4
  <2> QED BY <1>1, <1>3, <2>1 DEF ReplayInv
<1>6. \A b \in Candidates : \A s \in DOMAIN rows'[b] : Counted(rows'[b][s])
  <2> SUFFICES ASSUME NEW b \in Candidates, NEW s \in DOMAIN rows'[b] PROVE Counted(rows'[b][s])
    OBVIOUS
  <2>1. CASE b # c
    BY <1>3, <1>4, <2>1 DEF ReplayInv
  <2>2. CASE b = c
    <3>1. CASE s = baseline.seed
      <4>1. rows'[b][s] = ComputeMetrics(action, baseline.frozen)
        BY <1>4, <2>2, <3>1
      <4> QED BY <4>1, MetricsAreCounted
    <3>2. CASE s # baseline.seed
      <4>1. s \in DOMAIN rows[c] /\ rows'[b][s] = rows[c][s]
        BY <1>4, <2>2, <3>2
      <4> QED BY <1>3, <4>1 DEF ReplayInv
    <3> QED BY <3>1, <3>2
  <2> QED BY <2>1, <2>2
<1>7. baseline' = NoTrace => \A b \in Candidates : DOMAIN rows'[b] = DOMAIN escapesOff
  <2> SUFFICES ASSUME baseline' = NoTrace, NEW b \in Candidates, b # c
               PROVE  DOMAIN rows'[b] = DOMAIN escapesOff
    BY <1>5
  <2>1. b < c
    BY <1>1, EvaluationAssumption
  <2> QED BY <1>1, <1>3, <1>4, <2>1 DEF ReplayInv
<1>8. baseline' # NoTrace =>
        /\ baseline' = baseline
        /\ \A b \in Candidates : DOMAIN rows'[b] \in {DOMAIN escapesOff, DOMAIN escapesOff \ {baseline.seed}}
  BY <1>1, <1>3, <1>4, <1>5 DEF ReplayInv
<1>9. ReplayInv'
  BY <1>1, <1>3, <1>4, <1>6, <1>7, <1>8 DEF ReplayInv
<1>10. EvaluationIsSound'
  BY <1>1, <1>3, SplitUntouched DEF EvalInv, EvaluationIsSound, SelectionIsSafe
<1> QED BY <1>9, <1>10 DEF EvalInv

\* The worst of a candidate's seeds is a number.
LEMMA WorstIsCounted ==
    ASSUME NEW c, DOMAIN rows[c] = Seeds, \A s \in Seeds : Counted(rows[c][s])
    PROVE  WorstDisruptive(c) \in Nat /\ WorstIntervened(c) \in Nat
<1> DEFINE d == [s \in Seeds |-> rows[c][s].disruptive]
           i == [s \in Seeds |-> rows[c][s].intervened]
           D == {d[s] : s \in Seeds}
           I == {i[s] : s \in Seeds}
<1>1. IsFiniteSet(D) /\ IsFiniteSet(I)
  <2>1. IsFiniteSet(Seeds) /\ d = [s \in Seeds |-> d[s]] /\ i = [s \in Seeds |-> i[s]]
    BY EvaluationAssumption
  <2> HIDE DEF d, i
  <2> QED BY <2>1, ImageIsFinite
<1>2. D \in SUBSET Nat /\ D # {} /\ I \in SUBSET Nat /\ I # {}
  <2>1. \A s \in Seeds : d[s] \in Nat /\ i[s] \in Nat
    BY DEF Counted
  <2>2. Seeds # {}
    BY EvaluationAssumption
  <2> HIDE DEF d, i
  <2> QED BY <2>1, <2>2
<1>3. WorstDisruptive(c) = Max(D) /\ WorstIntervened(c) = Max(I)
  BY DEF WorstDisruptive, WorstIntervened
<1> HIDE DEF D, I
<1> QED BY <1>1, <1>2, <1>3, FiniteHasGreatest

\* Of candidates there is one that comes before all others: the least disruptive,
\* of these the one that intervenes least, of these the nearest to neutral.
LEMMA FirstOfFrontier ==
    ASSUME NEW F \in SUBSET Candidates, F # {},
           \A c \in F : WorstDisruptive(c) \in Nat /\ WorstIntervened(c) \in Nat
    PROVE  \E c \in F : \A b \in F :
              \/ WorstDisruptive(c) < WorstDisruptive(b)
              \/ /\ WorstDisruptive(c) = WorstDisruptive(b)
                 /\ \/ WorstIntervened(c) < WorstIntervened(b)
                    \/ WorstIntervened(c) = WorstIntervened(b) /\ c <= b
<1> DEFINE D == {WorstDisruptive(c) : c \in F}
<1>1. PICK d \in D : \A x \in D : d <= x
  <2>1. D \in SUBSET Nat /\ D # {}
    OBVIOUS
  <2> HIDE DEF D
  <2> QED BY <2>1, Least
<1> DEFINE G == {c \in F : WorstDisruptive(c) = d}
           I == {WorstIntervened(c) : c \in G}
<1>2. PICK i \in I : \A x \in I : i <= x
  <2>1. I \in SUBSET Nat /\ I # {}
    OBVIOUS
  <2> HIDE DEF I
  <2> QED BY <2>1, Least
<1> DEFINE H == {c \in G : WorstIntervened(c) = i}
<1>3. PICK c \in H : \A b \in H : c <= b
  <2>1. H \in SUBSET Nat /\ H # {}
    BY EvaluationAssumption
  <2> HIDE DEF H
  <2> QED BY <2>1, Least
<1>4. ASSUME NEW b \in F
      PROVE  \/ WorstDisruptive(c) < WorstDisruptive(b)
             \/ /\ WorstDisruptive(c) = WorstDisruptive(b)
                /\ \/ WorstIntervened(c) < WorstIntervened(b)
                   \/ WorstIntervened(c) = WorstIntervened(b) /\ c <= b
  <2>1. c \in F /\ WorstDisruptive(c) = d /\ WorstIntervened(c) = i
    BY <1>3
  <2>2. WorstDisruptive(b) \in Nat /\ d \in Nat /\ WorstIntervened(b) \in Nat /\ i \in Nat
    BY <2>1
  <2>3. d <= WorstDisruptive(b)
    BY <1>1
  <2>4. WorstDisruptive(b) = d => b \in G /\ i <= WorstIntervened(b)
    BY <1>2
  <2>5. WorstDisruptive(b) = d /\ WorstIntervened(b) = i => c <= b
    BY <1>3
  <2> QED BY <2>1, <2>2, <2>3, <2>4, <2>5
<1> QED BY <1>3, <1>4

LEMMA SelectKeeps == EvalInv /\ SelectCandidate => EvalInv'
<1> SUFFICES ASSUME EvalInv, SelectCandidate PROVE EvalInv'
  OBVIOUS
<1>1. /\ DOMAIN escapesOff = Seeds /\ baseline = NoTrace
      /\ UNCHANGED <<domainOf, halves, baseline, rows, escapesOff>>
  BY DEF SelectCandidate
<1>2. \A c \in Candidates : DOMAIN rows[c] = Seeds /\ \A s \in Seeds : Counted(rows[c][s])
  BY <1>1 DEF EvalInv, ReplayInv
<1>3. \A c \in Candidates : WorstDisruptive(c) \in Nat /\ WorstIntervened(c) \in Nat
  BY <1>2, WorstIsCounted
<1>4. \A c : WorstDisruptive(c)' = WorstDisruptive(c) /\ WorstIntervened(c)' = WorstIntervened(c)
  BY <1>1 DEF WorstDisruptive, WorstIntervened
<1>5. ReplayInv'
  BY <1>1 DEF EvalInv, ReplayInv
<1>6. NothingTrainedOnIsMeasured'
  BY <1>1, SplitUntouched DEF EvalInv, EvaluationIsSound
<1>7. SelectionIsSafe'
  <2> SUFFICES ASSUME selected' \notin {"none", "refused"}
               PROVE  \E c \in Candidates :
                         /\ ToString(c) = selected' /\ c \notin regressing'
                         /\ \A s \in Seeds : rows[c][s].escapes <= escapesOff[s]
                         /\ \A b \in Candidates \ regressing' :
                              (\A s \in Seeds : /\ rows[b][s].escapes <= escapesOff[s]
                                                /\ rows[b][s].caught * 100 >= MinCatchPercent * DefectiveCount)
                              => ~(WorstDisruptive(b) < WorstDisruptive(c) /\ WorstIntervened(b) < WorstIntervened(c))
    BY <1>1, <1>4 DEF SelectionIsSafe
  <2> DEFINE before(b, c) == \/ WorstDisruptive(b) < WorstDisruptive(c)
                             \/ /\ WorstDisruptive(b) = WorstDisruptive(c)
                                /\ \/ WorstIntervened(b) < WorstIntervened(c)
                                   \/ WorstIntervened(b) = WorstIntervened(c) /\ b <= c
  <2>1. PICK changed \in ReferenceActionRegressions :
          /\ regressing' = changed /\ Frontier(changed) # {}
          /\ selected' = ToString(CHOOSE c \in Frontier(changed) : \A b \in Frontier(changed) : before(c, b))
    BY DEF SelectCandidate
  <2>2. Frontier(changed) \subseteq Candidates
    BY DEF Frontier
  <2>3. \E c \in Frontier(changed) : \A b \in Frontier(changed) : before(c, b)
    BY <1>3, <2>1, <2>2, FirstOfFrontier
  <2> HIDE DEF before
  <2>4. PICK c \in Frontier(changed) : selected' = ToString(c)
    BY <2>1, <2>3
  <2>5. c \in Candidates /\ Eligible(c, changed) /\ \A b \in Candidates : Eligible(b, changed) => ~Dominates(b, c)
    BY <2>4 DEF Frontier
  <2>6. c \notin regressing' /\ \A s \in Seeds : rows[c][s].escapes <= escapesOff[s]
    BY <1>2, <2>1, <2>5 DEF Eligible
  <2>7. ASSUME NEW b \in Candidates \ regressing',
               \A s \in Seeds : /\ rows[b][s].escapes <= escapesOff[s]
                                /\ rows[b][s].caught * 100 >= MinCatchPercent * DefectiveCount,
               WorstDisruptive(b) < WorstDisruptive(c), WorstIntervened(b) < WorstIntervened(c)
        PROVE  FALSE
    <3>1. Eligible(b, changed)
      BY <1>1, <1>2, <2>1, <2>7 DEF Eligible
    <3>2. Dominates(b, c)
      BY <1>3, <2>5, <2>7 DEF Dominates
    <3> QED BY <2>5, <3>1, <3>2
  <2> QED BY <2>4, <2>5, <2>6, <2>7
<1> QED BY <1>5, <1>6, <1>7 DEF EvalInv, EvaluationIsSound

\* Whatever documents, domains, seeds and candidates there are, and whatever the
\* engine decided: no document is on both sides of the split, every domain that can
\* be measured is, and the candidate selected lets no more through than the baseline
\* on any seed and is not worse throughout than another that is safe.
THEOREM EvaluationStaysSound == EvalSpec => []EvaluationIsSound
<1>1. EvalInit => EvalInv
  BY EvalBegins
<1>2. EvalInv /\ [EvalNext]_evalVars => EvalInv'
  <2> SUFFICES ASSUME EvalInv, [EvalNext]_evalVars PROVE EvalInv'
    OBVIOUS
  <2>1. CASE SplitCorpus \/ BuildSeededSet
    BY <2>1, CorpusStepsKeep
  <2>2. CASE RunSeed \/ SelectCandidate
    BY <2>2, RunSeedKeeps, SelectKeeps
  <2>3. CASE \E c \in Candidates : ReplaySeedCandidate(c)
    BY <2>3, ReplayKeeps
  <2>4. CASE UNCHANGED evalVars
    <3>1. ReplayInv'
      BY <2>4 DEF evalVars, EvalInv, ReplayInv
    <3>2. EvaluationIsSound'
      BY <2>4, SplitUntouched, SelectedOnce DEF evalVars, EvalInv, EvaluationIsSound
    <3> QED BY <3>1, <3>2 DEF EvalInv
  <2> QED BY <2>1, <2>2, <2>3, <2>4 DEF EvalNext
<1>3. EvalInv => EvaluationIsSound
  BY DEF EvalInv
<1> QED BY <1>1, <1>2, <1>3, PTL DEF EvalSpec

-----------------------------------------------------------------------------
(* What a repair sends                                                      *)

\* The first n members of t, those at K, as they are collected.
Collects(c, t, K, n) ==
    /\ DOMAIN c = 0..n
    /\ c = [i \in 0..n |-> IF i = 0 THEN <<>> ELSE IF i \in K THEN Append(c[i - 1], t[i]) ELSE c[i - 1]]

LEMMA CollectsExist == ASSUME NEW t, NEW K, NEW n \in Nat PROVE \E c : Collects(c, t, K, n)
<1> DEFINE S == {k \in Nat : \E c : Collects(c, t, K, k)}
<1>1. 0 \in S
  <2> DEFINE c == [k \in 0..0 |-> <<>>]
  <2>1. Collects(c, t, K, 0)
    BY DEF Collects
  <2> QED BY <2>1
<1>2. ASSUME NEW k \in Nat, k \in S PROVE k + 1 \in S
  <2>1. PICK c : Collects(c, t, K, k)
    BY <1>2
  <2> DEFINE last == IF k + 1 \in K THEN Append(c[k], t[k + 1]) ELSE c[k]
             d == [j \in 0..(k + 1) |-> IF j = k + 1 THEN last ELSE c[j]]
  <2>2. \A j \in 0..(k + 1) : d[j] = IF j = 0 THEN <<>> ELSE IF j \in K THEN Append(d[j - 1], t[j]) ELSE d[j - 1]
    <3> SUFFICES ASSUME NEW j \in 0..(k + 1)
                 PROVE  d[j] = IF j = 0 THEN <<>> ELSE IF j \in K THEN Append(d[j - 1], t[j]) ELSE d[j - 1]
      OBVIOUS
    <3>1. CASE j = k + 1
      <4>1. j # 0 /\ j - 1 = k /\ k \in 0..(k + 1) /\ k # k + 1
        BY <3>1
      <4>2. d[j] = last /\ d[j - 1] = c[k]
        BY <3>1, <4>1
      <4> HIDE DEF d
      <4> QED BY <3>1, <4>1, <4>2
    <3>2. CASE j # k + 1
      <4>1. c[j] = IF j = 0 THEN <<>> ELSE IF j \in K THEN Append(c[j - 1], t[j]) ELSE c[j - 1]
        <5>1. j \in 0..k
          BY <3>2
        <5> QED BY ONLY <2>1, <5>1 DEF Collects
      <4>2. d[j] = c[j]
        BY <3>2
      <4>3. j # 0 => j - 1 \in 0..(k + 1) /\ j - 1 # k + 1
        BY <3>2
      <4>4. j # 0 => d[j - 1] = c[j - 1]
        BY <4>3
      <4> HIDE DEF d
      <4> QED BY <4>1, <4>2, <4>4
    <3> QED BY <3>1, <3>2
  <2>3. d = [j \in 0..(k + 1) |-> d[j]] /\ DOMAIN d = 0..(k + 1)
    OBVIOUS
  <2> HIDE DEF d
  <2>4. d = [j \in 0..(k + 1) |-> IF j = 0 THEN <<>> ELSE IF j \in K THEN Append(d[j - 1], t[j]) ELSE d[j - 1]]
    BY <2>2, <2>3
  <2>5. Collects(d, t, K, k + 1)
    BY <2>3, <2>4 DEF Collects
  <2> QED BY <2>5
<1> HIDE DEF S
<1>3. Nat \subseteq S
  BY <1>1, <1>2, Counting
<1> QED BY <1>3 DEF S

LEMMA OnlyAtIsLast ==
    ASSUME NEW t, NEW K, Len(t) \in Nat
    PROVE  \E c : Collects(c, t, K, Len(t)) /\ OnlyAt(t, K) = c[Len(t)]
<1> DEFINE n == Len(t)
           c == CHOOSE c : c = [i \in 0..n |-> IF i = 0 THEN <<>> ELSE IF i \in K THEN Append(c[i - 1], t[i]) ELSE c[i - 1]]
<1>1. OnlyAt(t, K) = c[n]
  BY DEF OnlyAt
<1>2. PICK d : Collects(d, t, K, n)
  BY CollectsExist
<1>3. c = [i \in 0..n |-> IF i = 0 THEN <<>> ELSE IF i \in K THEN Append(c[i - 1], t[i]) ELSE c[i - 1]]
  BY <1>2 DEF Collects
<1> HIDE DEF c
<1>4. Collects(c, t, K, n)
  BY <1>3 DEF Collects
<1> QED BY <1>1, <1>4

LEMMA CollectsStep ==
    ASSUME NEW c, NEW t, NEW K, NEW n \in Nat, Collects(c, t, K, n)
    PROVE  /\ c[0] = <<>>
           /\ \A i \in Nat : i + 1 <= n => c[i + 1] = IF i + 1 \in K THEN Append(c[i], t[i + 1]) ELSE c[i]
<1>1. c[0] = <<>>
  BY DEF Collects
<1>2. ASSUME NEW i \in Nat, i + 1 <= n PROVE c[i + 1] = IF i + 1 \in K THEN Append(c[i], t[i + 1]) ELSE c[i]
  <2>1. i + 1 \in 0..n /\ i + 1 # 0 /\ (i + 1) - 1 = i
    BY <1>2
  <2>2. c[i + 1] = IF i + 1 \in K THEN Append(c[(i + 1) - 1], t[i + 1]) ELSE c[(i + 1) - 1]
    BY <2>1 DEF Collects
  <2> QED BY <2>1, <2>2
<1> QED BY <1>1, <1>2

\* Two collections of the same members are the same.
LEMMA CollectsAgree ==
    ASSUME NEW s, NEW t, NEW K, NEW L, NEW n \in Nat, NEW m \in Nat, NEW c, NEW d,
           Collects(c, s, K, n), Collects(d, t, L, m), NEW k \in Nat, k <= n, k <= m,
           \A i \in 1..k : (i \in K <=> i \in L) /\ (i \in K => s[i] = t[i])
    PROVE  c[k] = d[k]
<1> DEFINE S == {j \in Nat : j <= k => c[j] = d[j]}
<1>1. 0 \in S
  BY CollectsStep
<1>2. ASSUME NEW j \in Nat, j \in S PROVE j + 1 \in S
  <2> SUFFICES ASSUME j + 1 <= k PROVE c[j + 1] = d[j + 1]
    OBVIOUS
  <2>1. c[j] = d[j] /\ j + 1 \in 1..k /\ j + 1 <= n /\ j + 1 <= m
    BY <1>2
  <2>2. /\ c[j + 1] = IF j + 1 \in K THEN Append(c[j], s[j + 1]) ELSE c[j]
        /\ d[j + 1] = IF j + 1 \in L THEN Append(d[j], t[j + 1]) ELSE d[j]
    BY <2>1, CollectsStep
  <2> QED BY <2>1, <2>2
<1> HIDE DEF S
<1>3. Nat \subseteq S
  BY <1>1, <1>2, Counting
<1>4. k \in S
  BY <1>3
<1> QED BY <1>4 DEF S

\* What is collected comes from the positions it is collected at.
LEMMA OnlyAtIsFrom ==
    ASSUME NEW A, NEW t \in Seq(A), NEW K \in SUBSET DOMAIN t, NEW B, \A i \in K : t[i] \in B
    PROVE  OnlyAt(t, K) \in Seq(B)
<1> DEFINE n == Len(t)
<1>1. n \in Nat
  OBVIOUS
<1>2. PICK c : Collects(c, t, K, n) /\ OnlyAt(t, K) = c[n]
  BY OnlyAtIsLast
<1> DEFINE S == {j \in Nat : j <= n => c[j] \in Seq(B)}
<1>3. 0 \in S
  <2>1. c[0] = <<>>
    BY <1>1, <1>2, CollectsStep
  <2>2. <<>> \in Seq(B)
    OBVIOUS
  <2> QED BY <2>1, <2>2
<1>4. ASSUME NEW j \in Nat, j \in S PROVE j + 1 \in S
  <2> SUFFICES ASSUME j + 1 <= n PROVE c[j + 1] \in Seq(B)
    OBVIOUS
  <2>1. c[j] \in Seq(B)
    BY <1>4
  <2>2. c[j + 1] = IF j + 1 \in K THEN Append(c[j], t[j + 1]) ELSE c[j]
    BY <1>1, <1>2, CollectsStep
  <2> QED BY <2>1, <2>2
<1> HIDE DEF S
<1>5. Nat \subseteq S
  BY <1>3, <1>4, Counting
<1>6. n \in S
  BY <1>1, <1>5
<1> QED BY <1>2, <1>6 DEF S

\* Whether the model is still thinking after the first i tokens.
Thinks(t, i) == \E o \in 1..i : Opens(t, o) /\ \A m \in o..i : t[m] # "close"

\* An opener that is not closed up to i means the model thinks at i, though the opener
\* need not be the one that began it.
LEMMA UnclosedThinks ==
    ASSUME NEW t, NEW i \in Nat, NEW j \in 1..i, t[j] = "open", \A m \in j..i : t[m] # "close"
    PROVE  Thinks(t, i)
<1> DEFINE I == {o \in 1..i : t[o] = "open" /\ \A m \in o..i : t[m] # "close"}
<1>1. I \in SUBSET Nat /\ j \in I
  OBVIOUS
<1>2. PICK o \in I : \A q \in I : o <= q
  <2> HIDE DEF I
  <2>1. I # {}
    BY <1>1
  <2> QED BY <1>1, <2>1, Least
<1>3. o \in 1..i /\ t[o] = "open" /\ \A m \in o..i : t[m] # "close"
  OBVIOUS
<1>4. ASSUME NEW q \in 1..(o - 1), t[q] = "open" PROVE \E m \in q..o : t[m] = "close"
  <2>1. q \in 1..i /\ ~(o <= q) /\ o \in 1..i
    BY <1>3
  <2>2. q \notin I
    BY <1>2, <2>1
  <2>3. PICK m \in q..i : t[m] = "close"
    BY <1>4, <2>1, <2>2
  <2>4. m \notin o..i
    BY <1>3, <2>3
  <2>5. m \in q..o
    BY <2>1, <2>3, <2>4
  <2> QED BY <2>3, <2>5
<1>5. Opens(t, o)
  BY <1>3, <1>4 DEF Opens
<1> QED BY <1>3, <1>5 DEF Thinks

\* Token by token: what thinking there is goes on or ends.
LEMMA ThinksStep ==
    ASSUME NEW t, NEW i \in Nat
    PROVE  /\ ~Thinks(t, 0)
           /\ t[i + 1] = "open" => Thinks(t, i + 1)
           /\ t[i + 1] = "close" => ~Thinks(t, i + 1)
           /\ t[i + 1] \notin {"open", "close"} => (Thinks(t, i + 1) <=> Thinks(t, i))
           /\ t[i + 1] \notin {"open", "close"} => (Reasoning(t, i + 1) <=> Thinks(t, i))
<1>1. ~Thinks(t, 0)
  BY DEF Thinks
<1>2. ASSUME t[i + 1] = "open" PROVE Thinks(t, i + 1)
  <2>1. i + 1 \in Nat /\ i + 1 \in 1..(i + 1) /\ \A m \in (i + 1)..(i + 1) : t[m] # "close"
    BY <1>2
  <2> QED BY <1>2, <2>1, UnclosedThinks
<1>3. ASSUME t[i + 1] = "close" PROVE ~Thinks(t, i + 1)
  <2> SUFFICES ASSUME NEW o \in 1..(i + 1), \A m \in o..(i + 1) : t[m] # "close" PROVE FALSE
    BY DEF Thinks
  <2>1. i + 1 \in o..(i + 1)
    OBVIOUS
  <2> QED BY <1>3, <2>1
<1>4. ASSUME t[i + 1] \notin {"open", "close"}
      PROVE  (Thinks(t, i + 1) <=> Thinks(t, i)) /\ (Reasoning(t, i + 1) <=> Thinks(t, i))
  <2>1. ~Opens(t, i + 1) /\ t[i + 1] # "close"
    BY <1>4 DEF Opens
  <2>2. (i + 1) - 1 = i /\ \A o \in 1..(i + 1) : o \in 1..i \/ o = i + 1
    OBVIOUS
  <2>3. \A o \in 1..i : o \in 1..(i + 1) /\ \A m \in o..(i + 1) : m \in o..i \/ m = i + 1
    OBVIOUS
  <2>4. \A o \in 1..i : \A m \in o..i : m \in o..(i + 1)
    OBVIOUS
  <2>5. Thinks(t, i + 1) => Thinks(t, i)
    BY <2>1, <2>2, <2>4 DEF Thinks
  <2>6. Thinks(t, i) => Thinks(t, i + 1)
    BY <2>1, <2>3 DEF Thinks
  <2>7. Reasoning(t, i + 1) => Thinks(t, i)
    BY <2>1, <2>2 DEF Reasoning, Thinks
  <2>8. Thinks(t, i) => Reasoning(t, i + 1)
    BY <2>2, <2>3 DEF Reasoning, Thinks
  <2> QED BY <2>5, <2>6, <2>7, <2>8
<1> QED BY <1>1, <1>2, <1>3, <1>4

\* What is heard of the first n tokens.
Hears(h, t, n) ==
    h = [i \in 0..n |->
            IF i = 0 THEN [mode |-> "aloud", said |-> <<>>]
            ELSE Hear(h[i - 1], t[i])]

\* The positions at which the model speaks.
Aloud(t) == {i \in DOMAIN t : t[i] \notin {"open", "close"} /\ ~Reasoning(t, i)}

\* What is heard is what is collected there.
Reading(c, t) == [i \in 0..Len(t) |-> [mode |-> IF Thinks(t, i) THEN "thinking" ELSE "aloud", said |-> c[i]]]

LEMMA ReadingHears ==
    ASSUME NEW t, Len(t) \in Nat, DOMAIN t = 1..Len(t), NEW c, Collects(c, t, Aloud(t), Len(t))
    PROVE  Hears(Reading(c, t), t, Len(t))
<1> DEFINE n == Len(t)
           r == Reading(c, t)
<1>1. ASSUME NEW i \in 0..n
      PROVE  r[i] = IF i = 0 THEN [mode |-> "aloud", said |-> <<>>]
                    ELSE Hear(r[i - 1], t[i])
  <2>1. CASE i = 0
    <3>1. r[0] = [mode |-> IF Thinks(t, 0) THEN "thinking" ELSE "aloud", said |-> c[0]]
      BY DEF Reading
    <3>2. ~Thinks(t, 0) /\ c[0] = <<>>
      BY ThinksStep, CollectsStep
    <3> HIDE DEF r
    <3> QED BY <2>1, <3>1, <3>2
  <2>2. CASE i # 0
    <3> DEFINE k == i - 1
    <3>1. k \in Nat /\ k + 1 = i /\ k \in 0..n /\ i <= n /\ i \in 1..n
      BY <2>2
    <3>2. /\ r[i] = [mode |-> IF Thinks(t, i) THEN "thinking" ELSE "aloud", said |-> c[i]]
          /\ r[k] = [mode |-> IF Thinks(t, k) THEN "thinking" ELSE "aloud", said |-> c[k]]
      BY <3>1 DEF Reading
    <3> HIDE DEF k, r, n
    <3>3. c[i] = IF i \in Aloud(t) THEN Append(c[k], t[i]) ELSE c[k]
      BY <3>1, CollectsStep DEF n
    <3>4. /\ t[i] = "open" => Thinks(t, i)
          /\ t[i] = "close" => ~Thinks(t, i)
          /\ t[i] \notin {"open", "close"} => (Thinks(t, i) <=> Thinks(t, k))
          /\ t[i] \notin {"open", "close"} => (Reasoning(t, i) <=> Thinks(t, k))
      BY <3>1, ThinksStep
    <3>5. i \in Aloud(t) <=> t[i] \notin {"open", "close"} /\ ~Reasoning(t, i)
      BY <3>1 DEF Aloud, n
    <3>6. r[k].said = c[k] /\ (r[k].mode = "aloud" <=> ~Thinks(t, k))
      BY <3>2
    <3>7. CASE t[i] = "open"
      <4>1. r[i] = [mode |-> "thinking", said |-> c[k]]
        BY <3>2, <3>3, <3>4, <3>5, <3>7
      <4> QED BY <2>2, <3>6, <3>7, <4>1 DEF k, Hear
    <3>8. CASE t[i] = "close"
      <4>1. r[i] = [mode |-> "aloud", said |-> c[k]]
        BY <3>2, <3>3, <3>4, <3>5, <3>8
      <4> QED BY <2>2, <3>6, <3>8, <4>1 DEF k, Hear
    <3>9. CASE t[i] \notin {"open", "close"}
      <4>1. r[i] = [mode |-> r[k].mode, said |-> IF r[k].mode = "aloud" THEN Append(r[k].said, t[i]) ELSE r[k].said]
        BY <3>2, <3>3, <3>4, <3>5, <3>6, <3>9
      <4> QED BY <2>2, <3>9, <4>1 DEF k, Hear
    <3> QED BY <3>7, <3>8, <3>9
  <2> QED BY <2>1, <2>2
<1>2. r = [i \in 0..n |-> r[i]]
  BY DEF Reading
<1> HIDE DEF r, n
<1>3. Hears(r, t, n)
  BY <1>1, <1>2 DEF Hears
<1> QED BY <1>3 DEF r, n

LEMMA HearsStep ==
    ASSUME NEW h, NEW t, NEW n \in Nat, Hears(h, t, n)
    PROVE  /\ h[0] = [mode |-> "aloud", said |-> <<>>]
           /\ \A i \in Nat : i + 1 <= n => h[i + 1] = Hear(h[i], t[i + 1])
<1>1. h[0] = [mode |-> "aloud", said |-> <<>>]
  BY DEF Hears
<1>2. ASSUME NEW i \in Nat, i + 1 <= n PROVE h[i + 1] = Hear(h[i], t[i + 1])
  <2>1. i + 1 \in 0..n /\ i + 1 # 0 /\ (i + 1) - 1 = i
    BY <1>2
  <2>2. \A j \in 0..n : j # 0 => h[j] = Hear(h[j - 1], t[j])
    BY DEF Hears
  <2> QED BY <2>1, <2>2
<1> QED BY <1>1, <1>2

LEMMA HearsAgree ==
    ASSUME NEW t, NEW n \in Nat, NEW g, NEW h, Hears(g, t, n), Hears(h, t, n)
    PROVE  g[n] = h[n]
<1> DEFINE S == {j \in Nat : j <= n => g[j] = h[j]}
<1>1. 0 \in S
  <2>1. g[0] = h[0]
    BY HearsStep
  <2> QED BY <2>1
<1>2. ASSUME NEW j \in Nat, j \in S PROVE j + 1 \in S
  <2> SUFFICES ASSUME j + 1 <= n PROVE g[j + 1] = h[j + 1]
    OBVIOUS
  <2>1. g[j] = h[j]
    BY <1>2
  <2> HIDE DEF S
  <2> QED BY <2>1, HearsStep
<1> HIDE DEF S
<1>3. Nat \subseteq S
  BY <1>1, <1>2, Counting
<1>4. n \in S
  BY <1>3
<1> QED BY <1>4 DEF S

\* What is left of a completion without its reasoning is what it says aloud.
LEMMA UnreasonedIsSpoken ==
    ASSUME NEW t, Len(t) \in Nat, DOMAIN t = 1..Len(t)
    PROVE  Unreasoned(t) = Spoken(t)
<1> DEFINE n == Len(t)
           h == CHOOSE h : Hears(h, t, n)
<1>1. Spoken(t) = h[n].said
  BY DEF Spoken, Hears
<1>2. PICK c : Collects(c, t, Aloud(t), n) /\ OnlyAt(t, Aloud(t)) = c[n]
  BY OnlyAtIsLast
<1>3. Hears(Reading(c, t), t, n)
  BY <1>2, ReadingHears
<1>4. Hears(h, t, n)
  BY <1>3
<1> HIDE DEF h
<1>5. h[n] = Reading(c, t)[n]
  BY <1>3, <1>4, HearsAgree
<1>6. Reading(c, t)[n].said = c[n]
  BY DEF Reading
<1>7. Unreasoned(t) = OnlyAt(t, Aloud(t))
  BY DEF Unreasoned, Aloud
<1> QED BY <1>1, <1>2, <1>5, <1>6, <1>7

\* A part of a sequence: its members in a row, from some place on.
IsPart(p, t) == \E k \in Nat : k + Len(p) <= Len(t) /\ \A i \in 1..Len(p) : p[i] = t[k + i]

LEMMA PartsOfParts ==
    ASSUME NEW A, NEW p \in Seq(A), NEW q \in Seq(A), NEW t \in Seq(A), IsPart(p, q), IsPart(q, t)
    PROVE  IsPart(p, t)
<1>1. PICK k \in Nat : k + Len(p) <= Len(q) /\ \A i \in 1..Len(p) : p[i] = q[k + i]
  BY DEF IsPart
<1>2. PICK l \in Nat : l + Len(q) <= Len(t) /\ \A i \in 1..Len(q) : q[i] = t[l + i]
  BY DEF IsPart
<1> DEFINE m == l + k
<1>3. Len(p) \in Nat /\ Len(q) \in Nat /\ Len(t) \in Nat
  OBVIOUS
<1>4. m \in Nat /\ m + Len(p) <= Len(t)
  BY <1>1, <1>2, <1>3
<1>5. ASSUME NEW i \in 1..Len(p) PROVE p[i] = t[m + i]
  <2>1. k + i \in 1..Len(q) /\ l + (k + i) = m + i
    BY <1>1, <1>3
  <2> QED BY <1>1, <1>2, <2>1
<1> QED BY <1>4, <1>5 DEF IsPart

LEMMA SliceIsPart ==
    ASSUME NEW A, NEW t \in Seq(A), NEW a \in 1..Len(t), NEW b \in 0..Len(t)
    PROVE  /\ SubSeq(t, a, b) \in Seq(A) /\ IsPart(SubSeq(t, a, b), t)
           /\ \A i \in 1..Len(SubSeq(t, a, b)) : a + i - 1 \in a..b /\ SubSeq(t, a, b)[i] = t[a + i - 1]
<1> DEFINE p == SubSeq(t, a, b)
<1>1. p \in Seq(A)
  OBVIOUS
<1>2. Len(p) = IF a <= b THEN b - a + 1 ELSE 0
  OBVIOUS
<1>3. \A i \in 1..Len(p) : p[i] = t[a + i - 1]
  OBVIOUS
<1> HIDE DEF p
<1>4. a - 1 \in Nat /\ (a - 1) + Len(p) <= Len(t)
  BY <1>2
<1>5. \A i \in 1..Len(p) : a + i - 1 = (a - 1) + i /\ a + i - 1 \in a..b
  BY <1>2
<1>6. IsPart(p, t)
  BY <1>3, <1>4, <1>5 DEF IsPart
<1> QED BY <1>1, <1>3, <1>5, <1>6 DEF p

LEMMA PartIsSlice ==
    ASSUME NEW A, NEW t \in Seq(A), NEW p \in Seq(A), p # <<>>, IsPart(p, t)
    PROVE  \E a, b \in DOMAIN t : SubSeq(t, a, b) = p
<1>1. PICK k \in Nat : k + Len(p) <= Len(t) /\ \A i \in 1..Len(p) : p[i] = t[k + i]
  BY DEF IsPart
<1>2. Len(p) \in Nat /\ Len(p) # 0 /\ Len(t) \in Nat /\ DOMAIN t = 1..Len(t)
  OBVIOUS
<1> DEFINE a == k + 1
           b == k + Len(p)
           q == SubSeq(t, a, b)
<1>3. a \in 1..Len(t) /\ b \in 1..Len(t) /\ a <= b /\ b - a + 1 = Len(p)
  BY <1>1, <1>2
<1>4. q \in Seq(A) /\ Len(q) = Len(p)
  BY <1>2, <1>3
<1>5. \A i \in 1..Len(p) : q[i] = t[k + i]
  <2> TAKE i \in 1..Len(p)
  <2>1. a + i - 1 = k + i
    BY <1>2
  <2>2. q[i] = t[a + i - 1]
    BY <1>3, <1>4, SliceIsPart
  <2> QED BY <2>1, <2>2
<1> HIDE DEF q
<1>6. q = p
  BY <1>1, <1>4, <1>5, SeqEqual
<1> QED BY <1>2, <1>3, <1>6 DEF q

Said == {"label", "quote", "word"}

\* The first line with anything on it is a part, and one line.
LEMMA FirstLineIsPart ==
    ASSUME NEW t \in Seq(Said \cup {"line"})
    PROVE  FirstLine(t) \in Seq(Said) /\ IsPart(FirstLine(t), t)
<1> DEFINE A == Said \cup {"line"}
           n == Len(t)
           full == {i \in DOMAIN t : t[i] # "line"}
           a == CHOOSE i \in full : \A j \in full : i <= j
           ends == {i \in a..n : t[i] = "line"}
           b == IF ends = {} THEN n + 1 ELSE CHOOSE i \in ends : \A j \in ends : i <= j
<1>1. n \in Nat /\ DOMAIN t = 1..n
  OBVIOUS
<1>2. FirstLine(t) = IF full = {} THEN <<>> ELSE SubSeq(t, a, b - 1)
  BY DEF FirstLine
<1>3. CASE full = {}
  <2>1. IsPart(<<>>, t)
    BY <1>1 DEF IsPart
  <2> QED BY <1>2, <1>3, <2>1
<1>4. CASE full # {}
  <2>1. full \in SUBSET Nat /\ full \subseteq 1..n
    BY <1>1
  <2> HIDE DEF full
  <2>2. a \in 1..n
    <3>1. a \in full
      BY <1>4, <2>1, Least
    <3> QED BY <2>1, <3>1
  <2> HIDE DEF a
  <2>3. ends \in SUBSET Nat /\ ends \subseteq a..n
    BY <1>1, <2>2
  <2>4. \A i \in a..n : t[i] = "line" => i \in ends
    OBVIOUS
  <2> HIDE DEF ends
  <2>5. b \in a..(n + 1) /\ \A i \in ends : b <= i
    <3>1. CASE ends = {}
      BY <1>1, <2>2, <3>1
    <3>2. CASE ends # {}
      <4>1. b \in ends /\ \A i \in ends : b <= i
        BY <2>3, <3>2, Least
      <4> HIDE DEF b
      <4> QED BY <1>1, <2>2, <2>3, <4>1
    <3> QED BY <3>1, <3>2
  <2> DEFINE p == SubSeq(t, a, b - 1)
  <2> HIDE DEF b
  <2>6. b - 1 \in 0..n /\ t \in Seq(A)
    BY <1>1, <2>2, <2>5
  <2>7. /\ p \in Seq(A) /\ IsPart(p, t)
        /\ \A i \in 1..Len(p) : a + i - 1 \in a..(b - 1) /\ p[i] = t[a + i - 1]
    BY <2>2, <2>6, SliceIsPart
  <2>8. \A i \in a..(b - 1) : t[i] # "line"
    <3> SUFFICES ASSUME NEW i \in a..(b - 1), t[i] = "line" PROVE FALSE
      OBVIOUS
    <3>1. i \in a..n
      BY <1>1, <2>2, <2>5
    <3>2. b <= i
      BY <2>4, <2>5, <3>1
    <3> QED BY <2>2, <2>5, <3>2
  <2> HIDE DEF p
  <2>9. \A i \in 1..Len(p) : p[i] \in Said
    <3> TAKE i \in 1..Len(p)
    <3>1. p[i] # "line"
      BY <2>7, <2>8
    <3>2. p[i] \in A
      BY <2>7
    <3> QED BY <3>1, <3>2
  <2>10. p \in Seq(Said)
    BY <2>7, <2>9
  <2> QED BY <1>2, <1>4, <2>7, <2>10 DEF p
<1> QED BY <1>3, <1>4

LEMMA UnlabelledIsPart ==
    ASSUME NEW t \in Seq(Said)
    PROVE  Unlabelled(t) \in Seq(Said) /\ IsPart(Unlabelled(t), t)
<1>1. IsPart(t, t)
  <2>1. 0 + Len(t) <= Len(t) /\ \A i \in 1..Len(t) : t[i] = t[0 + i]
    OBVIOUS
  <2> QED BY <2>1 DEF IsPart
<1>2. t # <<>> => Tail(t) \in Seq(Said) /\ IsPart(Tail(t), t)
  <2> SUFFICES ASSUME t # <<>> PROVE Tail(t) \in Seq(Said) /\ IsPart(Tail(t), t)
    OBVIOUS
  <2>1. Tail(t) \in Seq(Said) /\ 1 + Len(Tail(t)) <= Len(t) /\ \A i \in 1..Len(Tail(t)) : Tail(t)[i] = t[1 + i]
    OBVIOUS
  <2> QED BY <2>1 DEF IsPart
<1> QED BY <1>1, <1>2 DEF Unlabelled

LEMMA UnquotedIsPart ==
    ASSUME NEW t \in Seq(Said)
    PROVE  Unquoted(t) \in Seq(Said) /\ IsPart(Unquoted(t), t)
<1> DEFINE n == Len(t)
           said == {i \in DOMAIN t : t[i] # "quote"}
           a == CHOOSE i \in said : \A j \in said : i <= j
           b == CHOOSE i \in said : \A j \in said : i >= j
<1>1. n \in Nat /\ DOMAIN t = 1..n
  OBVIOUS
<1>2. Unquoted(t) = IF said = {} THEN <<>> ELSE SubSeq(t, a, b)
  BY DEF Unquoted
<1>3. CASE said = {}
  <2>1. IsPart(<<>>, t)
    BY <1>1 DEF IsPart
  <2> QED BY <1>2, <1>3, <2>1
<1>4. CASE said # {}
  <2>1. said \in SUBSET (0..n) /\ said \subseteq 1..n /\ said \in SUBSET Nat
    BY <1>1
  <2> HIDE DEF said
  <2>2. a \in said
    BY <1>4, <2>1, Least
  <2>3. Max(said) \in said /\ \A y \in said : y <= Max(said)
    BY <1>1, <1>4, <2>1, Greatest
  <2>4. b \in said
    <3>1. \E i \in said : \A j \in said : i >= j
      <4> DEFINE m == Max(said)
      <4>1. m \in said /\ \A y \in said : y <= m
        BY <2>3
      <4> HIDE DEF m
      <4>2. \A y \in said : m >= y
        BY <2>1, <4>1
      <4> QED BY <4>1, <4>2
    <3> QED BY <3>1
  <2> HIDE DEF a, b
  <2>5. a \in 1..n /\ b \in 0..n
    BY <1>1, <2>1, <2>2, <2>4
  <2>6. SubSeq(t, a, b) \in Seq(Said) /\ IsPart(SubSeq(t, a, b), t)
    BY <2>5, SliceIsPart
  <2> QED BY <1>2, <1>4, <2>6
<1> QED BY <1>3, <1>4

\* What the repairer keeps of a completion is one line of what was said aloud.
LEMMA TidyIsSpoken ==
    ASSUME NEW t \in Seq(Tokens), Tidy(t) # <<>>
    PROVE  /\ Tidy(t) \in Seq(Said)
           /\ \E a, b \in DOMAIN Spoken(t) : SubSeq(Spoken(t), a, b) = Tidy(t)
<1> DEFINE A == Said \cup {"line"}
           u == Unreasoned(t)
           f == FirstLine(u)
           l == Unlabelled(f)
           q == Unquoted(l)
<1>1. u \in Seq(A) /\ u = Spoken(t)
  <2>1. Aloud(t) \in SUBSET DOMAIN t /\ \A i \in Aloud(t) : t[i] \in A
    <3>1. \A i \in DOMAIN t : t[i] \in Tokens
      OBVIOUS
    <3> QED BY <3>1 DEF Aloud, Tokens, Said
  <2>2. u = OnlyAt(t, Aloud(t))
    BY DEF Unreasoned, Aloud
  <2> HIDE DEF A
  <2>3. u \in Seq(A)
    BY <2>1, <2>2, OnlyAtIsFrom
  <2>4. Len(t) \in Nat /\ DOMAIN t = 1..Len(t)
    OBVIOUS
  <2> QED BY <2>3, <2>4, UnreasonedIsSpoken
<1> HIDE DEF u
<1>2. f \in Seq(Said) /\ IsPart(f, u)
  BY <1>1, FirstLineIsPart
<1> HIDE DEF f
<1>3. l \in Seq(Said) /\ IsPart(l, f)
  BY <1>2, UnlabelledIsPart
<1> HIDE DEF l
<1>4. q \in Seq(Said) /\ IsPart(q, l)
  BY <1>3, UnquotedIsPart
<1>5. Tidy(t) = q
  BY DEF Tidy, u, f, l
<1> HIDE DEF q
<1>6. q \in Seq(A) /\ l \in Seq(A) /\ f \in Seq(A)
  BY <1>2, <1>3, <1>4
<1> HIDE DEF A
<1>7. IsPart(q, f)
  BY <1>3, <1>4, <1>6, PartsOfParts
<1>8. IsPart(q, u)
  BY <1>1, <1>2, <1>6, <1>7, PartsOfParts
<1>9. \E a, b \in DOMAIN u : SubSeq(u, a, b) = q
  BY <1>1, <1>5, <1>6, <1>8, PartIsSlice
<1> QED BY <1>1, <1>4, <1>5, <1>9

\* Only trusted passages are offered as evidence.
LEMMA EvidenceIsTrusted ==
    ASSUME NEW passages \in Retrieved
    PROVE  /\ \A i \in DOMAIN HintEvidence(passages) : HintEvidence(passages)[i].trusted
           /\ \A i \in DOMAIN FallbackEvidence(passages) : FallbackEvidence(passages)[i].trusted
<1> DEFINE E == {p \in Evidence : p.trusted}
           q == Trusted(passages)
           w == Worded(q)
<1>1. passages \in Seq(Evidence)
  BY RepairAssumption
<1>2. q \in Seq(E)
  <2> DEFINE K == {i \in DOMAIN passages : passages[i].trusted}
  <2>1. K \in SUBSET DOMAIN passages /\ \A i \in K : passages[i] \in E
    BY <1>1
  <2> HIDE DEF E, K
  <2>2. OnlyAt(passages, K) \in Seq(E)
    BY <1>1, <2>1, OnlyAtIsFrom
  <2> QED BY <2>2 DEF Trusted, K
<1> HIDE DEF q
<1>3. w \in Seq(E)
  <2> DEFINE K == {i \in DOMAIN q : ~q[i].blank}
  <2>1. K \in SUBSET DOMAIN q /\ \A i \in K : q[i] \in E
    <3> HIDE DEF E
    <3> QED BY <1>2
  <2> HIDE DEF E, K
  <2>2. OnlyAt(q, K) \in Seq(E)
    BY <1>2, <2>1, OnlyAtIsFrom
  <2> QED BY <2>2 DEF Worded, K
<1> HIDE DEF w
<1>4. ASSUME NEW s \in Seq(E) PROVE \A i \in DOMAIN UpTo3(s) : UpTo3(s)[i] \in E
  <2> HIDE DEF E
  <2>1. SubSeq(s, 1, IF Len(s) < 3 THEN Len(s) ELSE 3) \in Seq(E)
    <3>1. CASE Len(s) < 3
      BY <3>1
    <3>2. CASE ~(Len(s) < 3)
      BY <3>2
    <3> QED BY <3>1, <3>2
  <2> QED BY <2>1 DEF UpTo3
<1>5. \A p \in E : p.trusted
  OBVIOUS
<1> HIDE DEF E
<1>6. HintEvidence(passages) = UpTo3(q) /\ FallbackEvidence(passages) = UpTo3(w)
  BY DEF HintEvidence, FallbackEvidence, q, w
<1> QED BY <1>2, <1>3, <1>4, <1>5, <1>6

SentenceParts == {"claim", "certain", "stop", "hedge", "citation", "unverified"}
Closed(t) == t # <<>> /\ Last(t) = "stop"

\* What a sentence claims does not depend on the marks in it.
LEMMA ClaimedOfAppend ==
    ASSUME NEW t \in Seq(SentenceParts), NEW x \in SentenceParts
    PROVE  Claimed(Append(t, x)) = IF x \in {"claim", "stop"} THEN Append(Claimed(t), x) ELSE Claimed(t)
<1> DEFINE n == Len(t)
           s == Append(t, x)
           K == {i \in DOMAIN t : t[i] \in {"claim", "stop"}}
           L == {i \in DOMAIN s : s[i] \in {"claim", "stop"}}
<1>1. n \in Nat /\ Len(s) = n + 1 /\ DOMAIN s = 1..(n + 1) /\ DOMAIN t = 1..n
  OBVIOUS
<1>2. s[n + 1] = x /\ \A i \in 1..n : s[i] = t[i]
  OBVIOUS
<1> HIDE DEF n, s
<1>3. /\ n + 1 \in L <=> x \in {"claim", "stop"}
      /\ \A i \in 1..n : i \in L <=> i \in K
  BY <1>1, <1>2
<1>4. Claimed(s) = OnlyAt(s, L) /\ Claimed(t) = OnlyAt(t, K)
  BY DEF Claimed
<1> HIDE DEF K, L
<1>5. PICK c : Collects(c, s, L, n + 1) /\ OnlyAt(s, L) = c[n + 1]
  BY <1>1, OnlyAtIsLast
<1>6. PICK d : Collects(d, t, K, n) /\ OnlyAt(t, K) = d[n]
  BY <1>1, OnlyAtIsLast DEF n
<1>7. n + 1 \in Nat /\ n <= n + 1 /\ n <= n /\ n + 1 <= n + 1
  BY <1>1
<1>8. c[n] = d[n]
  BY <1>1, <1>2, <1>3, <1>5, <1>6, <1>7, CollectsAgree
<1>9. c[n + 1] = IF n + 1 \in L THEN Append(c[n], s[n + 1]) ELSE c[n]
  BY <1>1, <1>5, <1>7, CollectsStep
<1> QED BY <1>2, <1>3, <1>4, <1>5, <1>6, <1>8, <1>9 DEF s

LEMMA SoftenedKeeps ==
    ASSUME NEW t \in Seq(SentenceParts)
    PROVE  /\ Softened(t) \in Seq(SentenceParts) /\ (Softened(t) = <<>> <=> t = <<>>)
           /\ Claimed(Softened(t)) = Claimed(t)
           /\ Closed(t) => Closed(Softened(t))
<1> DEFINE n == Len(t)
           s == Softened(t)
           K == {i \in DOMAIN t : t[i] \in {"claim", "stop"}}
           L == {i \in DOMAIN s : s[i] \in {"claim", "stop"}}
<1>1. n \in Nat /\ DOMAIN t = 1..n /\ \A i \in 1..n : t[i] \in SentenceParts
  OBVIOUS
<1>2. s = [i \in 1..n |-> IF t[i] = "certain" THEN "hedge" ELSE t[i]]
  BY <1>1 DEF Softened
<1>3. \A i \in 1..n : s[i] \in SentenceParts /\ (s[i] = t[i] \/ (t[i] = "certain" /\ s[i] = "hedge"))
  <2> TAKE i \in 1..n
  <2>1. s[i] = IF t[i] = "certain" THEN "hedge" ELSE t[i]
    BY <1>2
  <2>2. "hedge" \in SentenceParts /\ t[i] \in SentenceParts
    BY <1>1 DEF SentenceParts
  <2> HIDE DEF s
  <2>3. CASE t[i] = "certain"
    BY ONLY <2>1, <2>2, <2>3
  <2>4. CASE t[i] # "certain"
    BY ONLY <2>1, <2>2, <2>4
  <2> QED BY ONLY <2>3, <2>4
<1>4. DOMAIN s = 1..n /\ s = [i \in 1..n |-> s[i]]
  BY <1>2
<1> HIDE DEF s
<1>5. s \in Seq(SentenceParts) /\ Len(s) = n
  <2>1. s \in [1..n -> SentenceParts]
    BY <1>3, <1>4
  <2>2. s \in Seq(SentenceParts)
    BY <1>1, <2>1
  <2> QED BY <1>1, <1>4, <2>2
<1>6. \A i \in 1..n : (i \in L <=> i \in K) /\ (i \in L => s[i] = t[i])
  BY <1>1, <1>3, <1>4
<1>7. Claimed(s) = OnlyAt(s, L) /\ Claimed(t) = OnlyAt(t, K)
  BY DEF Claimed
<1> HIDE DEF K, L
<1>8. PICK c : Collects(c, s, L, n) /\ OnlyAt(s, L) = c[n]
  BY <1>1, <1>5, OnlyAtIsLast
<1>9. PICK d : Collects(d, t, K, n) /\ OnlyAt(t, K) = d[n]
  BY <1>1, OnlyAtIsLast
<1>10. c[n] = d[n]
  <2>1. n <= n
    BY <1>1
  <2>2. n \in Nat
    BY <1>1
  <2> HIDE DEF n
  <2> QED BY ONLY <1>6, <1>8, <1>9, <2>1, <2>2, CollectsAgree
<1>11. s = <<>> <=> t = <<>>
  BY <1>1, <1>5
<1>12. Closed(t) => Closed(s)
  <2> SUFFICES ASSUME Closed(t) PROVE Closed(s)
    OBVIOUS
  <2>1. t # <<>> /\ t[n] = "stop"
    BY DEF Closed, Last
  <2>2. n \in 1..n
    BY <1>1, <2>1
  <2>3. s[n] = "stop"
    BY <1>3, <2>1, <2>2
  <2> QED BY <1>5, <1>11, <2>1, <2>3 DEF Closed, Last
<1> QED BY <1>5, <1>7, <1>8, <1>9, <1>10, <1>11, <1>12 DEF s

LEMMA AppendKeepsClaims ==
    ASSUME NEW t \in Seq(SentenceParts), NEW mark \in {"citation", "unverified"}
    PROVE  /\ AppendBeforeEnd(t, mark) \in Seq(SentenceParts)
           /\ Claimed(AppendBeforeEnd(t, mark)) = Claimed(t)
           /\ Closed(t) => Closed(AppendBeforeEnd(t, mark))
<1> DEFINE s == AppendBeforeEnd(t, mark)
<1>1. mark \in SentenceParts /\ mark \notin {"claim", "stop"} /\ "stop" \in SentenceParts
  BY DEF SentenceParts
<1>2. CASE mark \in Range(t)
  BY <1>2 DEF AppendBeforeEnd
<1>3. CASE mark \notin Range(t) /\ Closed(t)
  <2> DEFINE f == Front(t)
  <2>1. s = f \o <<mark, "stop">>
    BY <1>3 DEF AppendBeforeEnd, Closed
  <2>2. f \in Seq(SentenceParts) /\ t = Append(f, "stop")
    <3>1. t # <<>> /\ t[Len(t)] = "stop"
      BY <1>3 DEF Closed, Last
    <3>2. f = SubSeq(t, 1, Len(t) - 1)
      BY DEF Front
    <3>3. f \in Seq(SentenceParts) /\ Len(f) = Len(t) - 1 /\ \A i \in 1..Len(f) : f[i] = t[i]
      <4>1. Len(t) \in Nat /\ Len(t) - 1 \in 0..Len(t) /\ 1 \in 1..Len(t)
        BY <3>1
      <4>2. PICK b \in 0..Len(t) : b = Len(t) - 1
        BY <4>1
      <4>3. f = SubSeq(t, 1, b)
        BY <3>2, <4>2
      <4> HIDE DEF f
      <4>4. f \in Seq(SentenceParts) /\ \A i \in 1..Len(f) : f[i] = t[1 + i - 1]
        BY <4>1, <4>3, SliceIsPart
      <4>5. Len(f) = b
        <5>1. Len(SubSeq(t, 1, b)) = IF 1 <= b THEN b - 1 + 1 ELSE 0
          BY <4>1, <4>2
        <5> QED BY <4>1, <4>2, <4>3, <5>1
      <4>6. \A i \in 1..Len(f) : 1 + i - 1 = i
        BY <4>1, <4>5
      <4>7. \A i \in 1..Len(f) : f[i] = t[i]
        BY <4>4, <4>6
      <4> QED BY <4>2, <4>4, <4>5, <4>7
    <3> HIDE DEF f
    <3>4. Append(f, "stop") \in Seq(SentenceParts) /\ Len(Append(f, "stop")) = Len(t)
      BY <1>1, <3>3
    <3>5. \A i \in 1..Len(t) : Append(f, "stop")[i] = t[i]
      BY <3>1, <3>3
    <3>6. Append(f, "stop") = t
      BY <3>4, <3>5, SeqEqual
    <3> QED BY <3>3, <3>6
  <2> HIDE DEF f
  <2> DEFINE g == Append(f, mark)
  <2>3. g \in Seq(SentenceParts) /\ s = Append(g, "stop")
    BY <1>1, <2>1, <2>2
  <2>4. Claimed(t) = Append(Claimed(f), "stop")
    BY <1>1, <2>2, ClaimedOfAppend
  <2>5. Claimed(g) = Claimed(f)
    BY <1>1, <2>2, ClaimedOfAppend
  <2> HIDE DEF g, s
  <2>6. Claimed(s) = Append(Claimed(g), "stop")
    BY <1>1, <2>3, ClaimedOfAppend
  <2>7. s \in Seq(SentenceParts) /\ Closed(s)
    BY <1>1, <2>3 DEF Closed, Last
  <2> QED BY <2>4, <2>5, <2>6, <2>7 DEF s
<1>4. CASE mark \notin Range(t) /\ ~Closed(t)
  <2>1. s = Append(t, mark)
    BY <1>4 DEF AppendBeforeEnd, Closed
  <2>2. Claimed(s) = Claimed(t)
    BY <1>1, <2>1, ClaimedOfAppend
  <2>3. s \in Seq(SentenceParts)
    BY <1>1, <2>1
  <2> QED BY <1>4, <2>2, <2>3
<1> QED BY <1>2, <1>3, <1>4

\* An annotated sentence claims what it claimed, and ends where it ended.
LEMMA AnnotationKeeps ==
    ASSUME NEW t \in Originals, NEW overconfident \in BOOLEAN, NEW cited \in BOOLEAN, NEW ungrounded \in BOOLEAN
    PROVE  /\ Claimed(Annotate(t, overconfident, cited, ungrounded)) = Claimed(t)
           /\ "stop" \in Range(t) => Last(Annotate(t, overconfident, cited, ungrounded)) = "stop"
<1> DEFINE a == IF overconfident THEN Softened(t) ELSE t
           b == IF cited THEN AppendBeforeEnd(a, "citation") ELSE a
           c == IF t = <<>> THEN t ELSE IF ungrounded THEN AppendBeforeEnd(b, "unverified") ELSE b
<1>1. t \in Seq(SentenceParts) /\ ("stop" \in Range(t) => Closed(t))
  <2>1. t \in Seq({"claim", "certain", "stop"}) /\ \A i \in DOMAIN t : t[i] = "stop" => i = Len(t)
    BY RepairAssumption
  <2>2. t \in Seq(SentenceParts)
    BY <2>1 DEF SentenceParts
  <2>3. ASSUME "stop" \in Range(t) PROVE Closed(t)
    <3>1. PICK i \in DOMAIN t : t[i] = "stop"
      BY <2>3 DEF Range
    <3>2. t[Len(t)] = "stop" /\ t # <<>>
      BY <2>1, <3>1
    <3> QED BY <3>2 DEF Closed, Last
  <2> QED BY <2>2, <2>3
<1>2. a \in Seq(SentenceParts) /\ Claimed(a) = Claimed(t) /\ (Closed(t) => Closed(a))
  <2>1. CASE overconfident
    BY <1>1, <2>1, SoftenedKeeps
  <2>2. CASE ~overconfident
    BY <1>1, <2>2
  <2> QED BY <2>1, <2>2
<1> HIDE DEF a
<1>3. b \in Seq(SentenceParts) /\ Claimed(b) = Claimed(a) /\ (Closed(a) => Closed(b))
  <2>1. CASE cited
    BY <1>2, <2>1, AppendKeepsClaims
  <2>2. CASE ~cited
    BY <1>2, <2>2
  <2> QED BY <2>1, <2>2
<1> HIDE DEF b
<1>4. t # <<>> => Claimed(c) = Claimed(b) /\ (Closed(b) => Closed(c))
  <2>1. CASE ungrounded
    BY <1>3, <2>1, AppendKeepsClaims
  <2>2. CASE ~ungrounded
    BY <1>3, <2>2
  <2> QED BY <2>1, <2>2
<1>5. Annotate(t, overconfident, cited, ungrounded) = c
  BY DEF Annotate, a, b
<1>6. t = <<>> => c = t
  OBVIOUS
<1> HIDE DEF c
<1>7. Claimed(c) = Claimed(t)
  BY <1>2, <1>3, <1>4, <1>6
<1>8. Closed(t) => Closed(c)
  BY <1>2, <1>3, <1>4 DEF Closed
<1> QED BY <1>1, <1>5, <1>7, <1>8 DEF Closed

(* The repaired sentence is one line of the last completion, which is kept with it. *)
MendingFields == {"pc", "call", "attempt", "generated", "aim", "original", "text"}

RepairInv ==
    /\ DOMAIN mending = MendingFields
    /\ mending.pc \in {"verify", "replaced"} =>
        completion \in Seq(Tokens) /\ mending.text = Tidy(completion) /\ mending.text # <<>>
    /\ \A i \in DOMAIN evidence : evidence[i].trusted
    /\ mending.pc = "annotated" =>
        /\ Claimed(mending.text) = Claimed(mending.original)
        /\ "stop" \in Range(mending.original) => Last(mending.text) = "stop"

\* The invariant is stronger than the property.
LEMMA RepairInvSpeaks == RepairInv => ShipsOneSpokenSentence
<1> SUFFICES ASSUME RepairInv PROVE ShipsOneSpokenSentence
  OBVIOUS
<1>1. ASSUME mending.pc \in {"verify", "replaced"}
      PROVE  /\ mending.text # <<>> /\ Range(mending.text) \subseteq {"label", "quote", "word"}
             /\ \E a, b \in DOMAIN Spoken(completion) : SubSeq(Spoken(completion), a, b) = mending.text
  <2>1. completion \in Seq(Tokens) /\ mending.text = Tidy(completion) /\ mending.text # <<>>
    BY <1>1 DEF RepairInv
  <2>2. /\ mending.text \in Seq(Said)
        /\ \E a, b \in DOMAIN Spoken(completion) : SubSeq(Spoken(completion), a, b) = mending.text
    BY <2>1, TidyIsSpoken
  <2>3. Range(mending.text) \subseteq Said
    BY <2>2 DEF Range
  <2> QED BY <2>1, <2>2, <2>3 DEF Said
<1> QED BY <1>1 DEF RepairInv, ShipsOneSpokenSentence

\* A step that leaves the text alone, or leaves the sentence unsent, keeps the rest.
LEMMA FailuresKeep ==
    ASSUME NEW m, DOMAIN m = MendingFields, AttemptFails(m)
    PROVE  DOMAIN mending' = MendingFields /\ mending'.pc \in {"generate", "withheld"}
<1>1. "pc" \in DOMAIN m
  BY DEF MendingFields
<1>2. CASE mending' = [m EXCEPT !.pc = "generate"]
  BY <1>1, <1>2
<1>3. CASE mending' = [m EXCEPT !.pc = "generate", !.call = @ + 1, !.attempt = 0, !.generated = 0]
  BY <1>1, <1>3
<1>4. CASE mending' = [m EXCEPT !.pc = "withheld"]
  BY <1>1, <1>4
<1> QED BY <1>2, <1>3, <1>4 DEF AttemptFails, GiveUp

LEMMA RepairInvStarts == RepairInit => RepairInv
<1> SUFFICES ASSUME RepairInit PROVE RepairInv
  OBVIOUS
<1>1. DOMAIN mending = MendingFields /\ mending.pc = "idle"
  BY DEF RepairInit, Idle, MendingFields
<1>2. DOMAIN evidence = {}
  BY DEF RepairInit
<1> QED BY <1>1, <1>2 DEF RepairInv

LEMMA RepairInvKept == RepairInv /\ [RepairNext]_repairVars => RepairInv'
<1> SUFFICES ASSUME RepairInv, [RepairNext]_repairVars PROVE RepairInv'
  OBVIOUS
<1>1. CASE AnnotateSentence
  <2>1. PICK t \in Originals, overconfident \in BOOLEAN, cited \in BOOLEAN, ungrounded \in BOOLEAN :
            mending' = [Idle EXCEPT !.pc = "annotated", !.original = t,
                                    !.text = Annotate(t, overconfident, cited, ungrounded)]
    BY <1>1 DEF AnnotateSentence
  <2> DEFINE s == Annotate(t, overconfident, cited, ungrounded)
  <2>2. Claimed(s) = Claimed(t) /\ ("stop" \in Range(t) => Last(s) = "stop")
    BY AnnotationKeeps
  <2> HIDE DEF s
  <2>3. DOMAIN mending' = MendingFields /\ mending'.pc = "annotated" /\ mending'.original = t /\ mending'.text = s
    BY <2>1 DEF Idle, MendingFields, s
  <2>4. evidence' = evidence
    BY <1>1 DEF AnnotateSentence
  <2> QED BY <2>2, <2>3, <2>4 DEF RepairInv
<1>2. CASE StartRepair
  <2>1. PICK passages \in Retrieved : evidence' \in {HintEvidence(passages), FallbackEvidence(passages)}
    BY <1>2 DEF StartRepair
  <2>2. \A i \in DOMAIN evidence' : evidence'[i].trusted
    BY <2>1, EvidenceIsTrusted
  <2>3. PICK n : mending' = [Idle EXCEPT !.pc = "generate", !.call = 1, !.aim = n]
    BY <1>2 DEF StartRepair
  <2>4. DOMAIN mending' = MendingFields /\ mending'.pc = "generate"
    BY <2>3 DEF Idle, MendingFields
  <2> QED BY <2>2, <2>4 DEF RepairInv
<1>3. CASE Generate
  <2> DEFINE m == [mending EXCEPT !.attempt = @ + 1]
  <2>1. DOMAIN m = MendingFields
    BY DEF RepairInv
  <2>2. evidence' = evidence
    BY <1>3 DEF Generate
  <2>3. PICK t \in Completions :
            IF Tidy(t) = <<>>
            THEN AttemptFails(m) /\ UNCHANGED completion
            ELSE /\ mending' = [m EXCEPT !.pc = "verify", !.generated = @ + 1, !.text = Tidy(t)]
                 /\ completion' = t /\ UNCHANGED lastResult
    BY <1>3 DEF Generate
  <2> HIDE DEF m
  <2>4. CASE Tidy(t) = <<>>
    <3>1. DOMAIN mending' = MendingFields /\ mending'.pc \in {"generate", "withheld"}
      BY <2>1, <2>3, <2>4, FailuresKeep
    <3> QED BY <2>2, <3>1 DEF RepairInv
  <2>5. CASE Tidy(t) # <<>>
    <3>1. DOMAIN mending' = MendingFields /\ mending'.pc = "verify" /\ mending'.text = Tidy(t) /\ completion' = t
      BY <2>1, <2>3, <2>5 DEF MendingFields
    <3>2. t \in Seq(Tokens)
      BY RepairAssumption
    <3> QED BY <2>2, <2>5, <3>1, <3>2 DEF RepairInv
  <2> QED BY <2>4, <2>5
<1>4. CASE Verify
  <2>1. PICK rung : Replaced(rung) \/ Refused(rung)
    BY <1>4 DEF Verify
  <2>2. mending.pc = "verify" /\ evidence' = evidence
    BY <1>4 DEF Verify
  <2>3. CASE Replaced(rung)
    <3>1. mending' = [mending EXCEPT !.pc = "replaced"] /\ completion' = completion
      BY <2>3 DEF Replaced
    <3>2. DOMAIN mending' = MendingFields /\ mending'.pc = "replaced" /\ mending'.text = mending.text
      BY <3>1 DEF RepairInv, MendingFields
    <3> QED BY <2>2, <3>1, <3>2 DEF RepairInv
  <2>4. CASE Refused(rung)
    <3> DEFINE m == [mending EXCEPT !.text = <<>>]
    <3>1. DOMAIN m = MendingFields
      BY DEF RepairInv
    <3>2. AttemptFails(m)
      BY <2>4 DEF Refused
    <3> HIDE DEF m
    <3>3. DOMAIN mending' = MendingFields /\ mending'.pc \in {"generate", "withheld"}
      BY <3>1, <3>2, FailuresKeep
    <3> QED BY <2>2, <3>3 DEF RepairInv
  <2> QED BY <2>1, <2>3, <2>4
<1>5. CASE NextSentence
  <2>1. mending' = Idle /\ evidence' = <<>>
    BY <1>5 DEF NextSentence
  <2>2. DOMAIN mending' = MendingFields /\ mending'.pc = "idle" /\ DOMAIN evidence' = {}
    BY <2>1 DEF Idle, MendingFields
  <2> QED BY <2>2 DEF RepairInv
<1>6. CASE UNCHANGED repairVars
  <2>1. mending' = mending /\ completion' = completion /\ evidence' = evidence
    BY <1>6 DEF repairVars
  <2> QED BY <2>1 DEF RepairInv
<1> QED BY <1>1, <1>2, <1>3, <1>4, <1>5, <1>6 DEF RepairNext

\* Whatever the model answers and whatever was retrieved, a repaired sentence is one
\* line of what the model said aloud, mended from trusted passages only, and an
\* annotated one claims what it claimed and stops where it stopped (gate/repair.py
\* _tidy and _fallback_evidence, gate/ladder.py annotate).
THEOREM RepairsStaySpoken == RepairSpec => []ShipsOneSpokenSentence
<1>1. RepairSpec => []RepairInv
  BY RepairInvStarts, RepairInvKept, PTL DEF RepairSpec
<1> QED BY <1>1, RepairInvSpeaks, PTL

-----------------------------------------------------------------------------
(* What the detectors make of what they read                                *)

LEMMA SeqOfIsSeq ==
    ASSUME NEW S, NEW n \in Nat, NEW t \in SeqOf(S, n)
    PROVE  t \in Seq(S) /\ Len(t) \in 0..n
<1>1. PICK m \in 0..n : t \in [1..m -> S]
  BY DEF SeqOf
<1>2. t \in Seq(S)
  BY <1>1
<1>3. Len(t) = m
  BY <1>1, <1>2
<1> QED BY <1>2, <1>3

\* The more is known, the less of what is said is not.
LEMMA KnownShare ==
    ASSUME NEW S, NEW said \in Seq(S), NEW known, NEW more, known \subseteq more
    PROVE  /\ Share(said, known)[1] = Cardinality({i \in DOMAIN said : said[i] \notin known})
           /\ Share(said, more)[1] \in Nat /\ Share(said, known)[1] \in Nat
           /\ Share(said, more)[1] <= Share(said, known)[1]
<1> DEFINE A == {i \in DOMAIN said : said[i] \notin known}
           B == {i \in DOMAIN said : said[i] \notin more}
<1>1. IsFiniteSet(DOMAIN said)
  <2>1. Len(said) \in Nat /\ DOMAIN said = 1..Len(said)
    OBVIOUS
  <2>2. IsFiniteSet(1..Len(said))
    BY <2>1, FS_Interval
  <2> QED BY <2>1, <2>2
<1>2. A \subseteq DOMAIN said /\ B \subseteq A
  OBVIOUS
<1>3. Share(said, known)[1] = Cardinality(A) /\ Share(said, more)[1] = Cardinality(B)
  BY DEF Share
<1> HIDE DEF A, B
<1>4. IsFiniteSet(A) /\ IsFiniteSet(B)
  BY <1>1, <1>2, FS_Subset
<1>5. Cardinality(B) <= Cardinality(A) /\ Cardinality(A) \in Nat /\ Cardinality(B) \in Nat
  BY <1>2, <1>4, FS_Subset, FS_CardinalityType
<1> QED BY <1>3, <1>5 DEF A

LEMMA StatementParts ==
    ASSUME NEW s \in Statements
    PROVE  s.figures \in Seq(Figures) /\ s.clauses \in Seq(Clauses) /\ s.words \in Seq(Words)
<1>1. s.figures \in SeqOf(Figures, 1) /\ s.clauses \in SeqOf(Clauses, 1) /\ s.words \in SeqOf(Words, 2)
  BY DEF Statements
<1> QED BY <1>1, SeqOfIsSeq

\* Another passage, and no share is larger.
LEMMA ContextHelps ==
    ASSUME NEW s \in Statements, NEW context, NEW p, NEW question
    PROVE  LET less == GroundingSignals(s, context, question)
               more == GroundingSignals(s, context \cup {p}, question)
           IN  /\ more.numeric[1] <= less.numeric[1]
               /\ more.citation[1] <= less.citation[1]
               /\ more.content[1] <= less.content[1]
<1> DEFINE wider == context \cup {p}
           none == <<0, 0>>
<1>0. none[1] = 0
  OBVIOUS
<1>1. NumericUnsupported(s, wider)[1] <= NumericUnsupported(s, context)[1]
  <2> DEFINE A == {f \in Range(s.figures) : Found(f, context)}
             B == {f \in Range(s.figures) : Found(f, wider)}
  <2>1. A \subseteq B
    BY DEF Found
  <2>2. NumericUnsupported(s, wider) = Share(s.figures, B) /\ NumericUnsupported(s, context) = Share(s.figures, A)
    BY DEF NumericUnsupported
  <2> HIDE DEF A, B
  <2> QED BY <2>1, <2>2, StatementParts, KnownShare
<1>2. CitationUnsupported(s, wider)[1] <= CitationUnsupported(s, context)[1]
  <2> DEFINE A == UNION {q.clauses : q \in context}
             B == UNION {q.clauses : q \in wider}
  <2>1. A \subseteq B
    OBVIOUS
  <2>2. CitationUnsupported(s, wider) = Share(s.clauses, B) /\ CitationUnsupported(s, context) = Share(s.clauses, A)
    BY DEF CitationUnsupported
  <2> HIDE DEF A, B
  <2> QED BY <2>1, <2>2, StatementParts, KnownShare
<1>3. ContentUnsupported(s, wider)[1] <= ContentUnsupported(s, context)[1]
  <2> DEFINE A == UNION {q.words : q \in context}
             B == UNION {q.words : q \in wider}
  <2>1. A \subseteq B
    OBVIOUS
  <2>2. ContentUnsupported(s, wider) = Share(s.words, B) /\ ContentUnsupported(s, context) = Share(s.words, A)
    BY DEF ContentUnsupported
  <2> HIDE DEF A, B
  <2> QED BY <2>1, <2>2, StatementParts, KnownShare
<1>4. ASSUME NEW c
      PROVE  /\ GroundingSignals(s, c, question).numeric = IF ClaimBearing(s) THEN NumericUnsupported(s, c) ELSE none
             /\ GroundingSignals(s, c, question).citation = IF ClaimBearing(s) THEN CitationUnsupported(s, c) ELSE none
             /\ GroundingSignals(s, c, question).content = IF ClaimBearing(s) THEN ContentUnsupported(s, c) ELSE none
  BY DEF GroundingSignals
<1>5. 0 <= 0
  OBVIOUS
<1> HIDE DEF none
<1>6. CASE ClaimBearing(s)
  BY <1>1, <1>2, <1>3, <1>4, <1>6 DEF wider
<1>7. CASE ~ClaimBearing(s)
  BY <1>0, <1>4, <1>5, <1>7 DEF wider
<1> QED BY <1>6, <1>7

\* An invented figure counts, whatever else the sentence is.
LEMMA InventedCounts ==
    ASSUME NEW s \in Statements, NEW context, NEW question
    PROVE  GroundingSignals(s, context, question).numeric[1]
              = Cardinality({i \in DOMAIN s.figures : \A p \in context : s.figures[i].value \notin Values(p)})
<1> DEFINE invented == {i \in DOMAIN s.figures : \A p \in context : s.figures[i].value \notin Values(p)}
           K == {f \in Range(s.figures) : Found(f, context)}
           none == <<0, 0>>
<1>1. GroundingSignals(s, context, question).numeric = IF ClaimBearing(s) THEN NumericUnsupported(s, context) ELSE none
  BY DEF GroundingSignals
<1>2. CASE s.figures = <<>>
  <2>1. DOMAIN s.figures = {} /\ none[1] = 0
    BY <1>2
  <2>2. invented = {} /\ {i \in DOMAIN s.figures : s.figures[i] \notin K} = {}
    BY <2>1
  <2>3. NumericUnsupported(s, context)[1] = Cardinality({i \in DOMAIN s.figures : s.figures[i] \notin K})
    BY DEF NumericUnsupported, Share
  <2> HIDE DEF invented, K, none
  <2>4. Cardinality({}) = 0
    BY FS_EmptySet
  <2>5. GroundingSignals(s, context, question).numeric[1] = 0
    BY <1>1, <2>1, <2>2, <2>3, <2>4
  <2> QED BY <2>2, <2>4, <2>5 DEF invented
<1>3. CASE s.figures # <<>>
  <2>1. ClaimBearing(s)
    BY <1>3 DEF ClaimBearing
  <2>2. NumericUnsupported(s, context)[1] = Cardinality({i \in DOMAIN s.figures : s.figures[i] \notin K})
    BY DEF NumericUnsupported, Share
  <2>3. ASSUME NEW i \in DOMAIN s.figures
        PROVE  s.figures[i] \notin K <=> \A p \in context : s.figures[i].value \notin Values(p)
    <3>1. s.figures[i] \in Range(s.figures)
      BY DEF Range
    <3>2. Found(s.figures[i], context) <=> \E p \in context : s.figures[i].value \in Values(p)
      BY DEF Found, Values
    <3> QED BY <3>1, <3>2
  <2>4. {i \in DOMAIN s.figures : s.figures[i] \notin K} = invented
    BY <2>3
  <2> HIDE DEF invented, K
  <2> QED BY <1>1, <2>1, <2>2, <2>4 DEF invented
<1> QED BY <1>2, <1>3

(* Stakes *)

\* Some position's entry is met most often.
LEMMA DomainIsKnown ==
    ASSUME NEW retrieved \in Seq(DOMAIN Domains), NEW keyword \in {"none"} \cup DOMAIN Domains
    PROVE  DomainOf(retrieved, keyword) \in DOMAIN Domains
<1> DEFINE n == Len(retrieved)
           most == {i \in DOMAIN retrieved : \A j \in DOMAIN retrieved : Alike(retrieved, i) >= Alike(retrieved, j)}
           counts == {Alike(retrieved, i) : i \in 1..n}
<1>1. n \in Nat /\ DOMAIN retrieved = 1..n
  OBVIOUS
<1>2. CASE retrieved # <<>>
  <2>1. 1 \in 1..n
    BY <1>1, <1>2
  <2>2. \A i \in 1..n : Alike(retrieved, i) \in 0..n
    <3> TAKE i \in 1..n
    <3> DEFINE A == {j \in 1..n : retrieved[j] = retrieved[i]}
    <3>1. A \subseteq 1..n /\ Alike(retrieved, i) = Cardinality(A)
      BY <1>1 DEF Alike
    <3> HIDE DEF A
    <3>2. IsFiniteSet(1..n) /\ Cardinality(1..n) = n
      <4>1. IsFiniteSet(1..n) /\ Cardinality(1..n) = IF 1 > n THEN 0 ELSE n - 1 + 1
        BY <1>1, FS_Interval
      <4> QED BY <1>1, <2>1, <4>1
    <3> HIDE DEF n
    <3>3. IsFiniteSet(A) /\ Cardinality(A) <= Cardinality(1..n)
      BY <3>1, <3>2, FS_Subset
    <3>4. Cardinality(A) \in Nat
      BY <3>3, FS_CardinalityType
    <3> QED BY <1>1, <3>1, <3>2, <3>3, <3>4
  <2>3. counts \in SUBSET (0..n) /\ counts # {}
    BY <2>1, <2>2
  <2>4. Max(counts) \in counts /\ \A c \in counts : c <= Max(counts)
    BY <1>1, <2>3, Greatest
  <2>5. PICK i \in 1..n : Alike(retrieved, i) = Max(counts)
    BY <2>4
  <2>6. \A j \in 1..n : Alike(retrieved, j) <= Alike(retrieved, i)
    BY <2>4, <2>5
  <2>7. \A j \in 1..n : Alike(retrieved, i) >= Alike(retrieved, j)
    BY <1>1, <2>2, <2>6
  <2>8. i \in most /\ most \in SUBSET Nat
    BY <1>1, <2>7
  <2>9. Min(most) \in most
    BY <2>8, SmallestOf
  <2>10. DomainOf(retrieved, keyword) = retrieved[Min(most)]
    BY <1>2 DEF DomainOf
  <2> QED BY <2>9, <2>10
<1>3. CASE retrieved = <<>>
  <2>1. DomainOf(retrieved, keyword) = IF keyword # "none" THEN keyword ELSE "general"
    BY <1>3 DEF DomainOf
  <2> QED BY <2>1, SignalsAssumption
<1> QED BY <1>2, <1>3

LEMMA RankIsKnown == ASSUME NEW c \in Range(ClassOrder) PROVE Rank(c) \in 1..3
<1>1. \E k \in DOMAIN ClassOrder : ClassOrder[k] = c
  BY DEF Range
<1>2. Rank(c) \in DOMAIN ClassOrder
  BY <1>1 DEF Rank
<1>3. DOMAIN ClassOrder = 1..3
  BY DEF ClassOrder
<1> QED BY <1>2, <1>3

\* A larger amount has no smaller multiplier.
LEMMA LargerMultiplier ==
    ASSUME NEW a \in Nat, NEW b \in Nat, a <= b
    PROVE  Multiplier(a) \in Nat /\ Multiplier(b) \in Nat /\ Multiplier(a) <= Multiplier(b)
<1> DEFINE cleared(x) == {k \in DOMAIN Bands : x >= k}
<1>1. ASSUME NEW x \in Nat, cleared(x) # {}
      PROVE  Max(cleared(x)) \in cleared(x) /\ \A k \in cleared(x) : k <= Max(cleared(x))
  <2>1. cleared(x) \in SUBSET (0..x)
    BY SignalsAssumption
  <2> HIDE DEF cleared
  <2> QED BY <1>1, <2>1, Greatest
<1>2. ASSUME NEW x \in Nat
      PROVE  Multiplier(x) = IF cleared(x) = {} THEN 4 ELSE Bands[Max(cleared(x))]
  BY DEF Multiplier
<1>3. cleared(a) \subseteq cleared(b)
  BY SignalsAssumption
<1>4. \A x : cleared(x) \subseteq DOMAIN Bands
  OBVIOUS
<1> HIDE DEF cleared
<1>5. CASE cleared(a) = {} /\ cleared(b) = {}
  BY <1>2, <1>5
<1>6. CASE cleared(a) = {} /\ cleared(b) # {}
  <2>1. Max(cleared(b)) \in DOMAIN Bands
    BY <1>1, <1>4, <1>6
  <2> QED BY <1>2, <1>6, <2>1, SignalsAssumption
<1>7. CASE cleared(a) # {}
  <2>1. cleared(b) # {} /\ Max(cleared(a)) \in cleared(a) /\ Max(cleared(b)) \in cleared(b) /\ Max(cleared(a)) <= Max(cleared(b))
    BY <1>1, <1>3, <1>7
  <2>2. Max(cleared(a)) \in DOMAIN Bands /\ Max(cleared(b)) \in DOMAIN Bands
    BY <1>4, <2>1
  <2> QED BY <1>2, <1>7, <2>1, <2>2, SignalsAssumption
<1> QED BY <1>5, <1>6, <1>7

LEMMA TimesKeepsOrder ==
    ASSUME NEW a \in Nat, NEW b \in Nat, NEW c \in Nat, NEW d \in Nat, a <= b, c <= d
    PROVE  a * c \in Nat /\ b * d \in Nat /\ a * c <= b * d
<1>1. PICK e \in Nat : b = a + e
  <2>1. b - a \in Nat /\ b = a + (b - a)
    OBVIOUS
  <2> QED BY <2>1
<1>2. PICK f \in Nat : d = c + f
  <2>1. d - c \in Nat /\ d = c + (d - c)
    OBVIOUS
  <2> QED BY <2>1
<1>3. a * c \in Nat /\ a * f \in Nat /\ e * c \in Nat /\ e * f \in Nat
  OBVIOUS
<1>4. b * d = a * c + a * f + e * c + e * f
  BY <1>1, <1>2
<1>5. \A w, x, y, z \in Nat : w <= w + x + y + z /\ w + x + y + z \in Nat
  OBVIOUS
<1> QED BY <1>3, <1>4, <1>5

LEMMA RoleIsKnown == ASSUME NEW role \in Range(Roles) PROVE RoleTenths(role) \in 10..20 /\ RoleTenths("admin") = 20
<1>1. role \in {"customer", "agent", "underwriter", "admin"}
  BY DEF Range, Roles
<1> QED BY <1>1 DEF RoleTenths

DepthFourths(depth) == IF depth >= 3 THEN 5 ELSE 4

\* The parts of an estimate.
LEMMA EstimateParts ==
    ASSUME NEW r
    PROVE  /\ Estimate(r).impact = Domains[Domain(r)].impact * Multiplier(LargestAmount(r)) * RoleTenths(r.role) * DepthFourths(r.depth)
           /\ Estimate(r).class = WorstClass(Rank(Domains[Domain(r)].class), {Rank(c) : c \in r.tools})
  BY DEF Estimate, DepthFourths

\* What is at least as serious in every respect is at least as dear.
LEMMA SeriousIsDearer ==
    ASSUME NEW r, NEW q, Domain(r) = Domain(q), Domain(r) \in DOMAIN Domains,
           LargestAmount(q) \in Nat, LargestAmount(r) \in Nat, LargestAmount(q) <= LargestAmount(r),
           RoleTenths(q.role) \in Nat, RoleTenths(r.role) \in Nat, RoleTenths(q.role) <= RoleTenths(r.role),
           DepthFourths(q.depth) <= DepthFourths(r.depth), q.tools \subseteq r.tools, r.tools \subseteq ToolClasses
    PROVE  Estimate(r).impact >= Estimate(q).impact /\ Estimate(r).class >= Estimate(q).class
<1> DEFINE base == Domains[Domain(r)].impact
           mr == Multiplier(LargestAmount(r))
           mq == Multiplier(LargestAmount(q))
           x == RoleTenths(r.role)
           y == RoleTenths(q.role)
           d == DepthFourths(r.depth)
           e == DepthFourths(q.depth)
<1>1. Estimate(r).impact = base * mr * x * d /\ Estimate(q).impact = base * mq * y * e
  BY EstimateParts
<1>2. base \in Nat /\ base <= base
  <2>1. base \in Nat
    BY SignalsAssumption
  <2> QED BY <2>1
<1>3. mq \in Nat /\ mr \in Nat /\ mq <= mr
  BY LargerMultiplier
<1>4. d \in Nat /\ e \in Nat /\ e <= d /\ x \in Nat /\ y \in Nat /\ y <= x
  BY DEF DepthFourths
<1> HIDE DEF base, mr, mq, x, y, d, e
<1>5. base * mq \in Nat /\ base * mr \in Nat /\ base * mq <= base * mr
  BY <1>2, <1>3, TimesKeepsOrder
<1>6. (base * mq) * y \in Nat /\ (base * mr) * x \in Nat /\ (base * mq) * y <= (base * mr) * x
  BY <1>4, <1>5, TimesKeepsOrder
<1>7. ((base * mq) * y) * e \in Nat /\ ((base * mr) * x) * d \in Nat /\ ((base * mq) * y) * e <= ((base * mr) * x) * d
  BY <1>4, <1>6, TimesKeepsOrder
<1>8. Estimate(r).impact >= Estimate(q).impact
  <2>1. \A i, j \in Nat : i <= j => j >= i
    OBVIOUS
  <2> QED BY <1>1, <1>7, <2>1
<1>9. Estimate(r).class >= Estimate(q).class
  <2> DEFINE entry == Rank(Domains[Domain(r)].class)
             R == {Rank(c) : c \in r.tools} \cup {entry}
             Q == {Rank(c) : c \in q.tools} \cup {entry}
  <2>1. Estimate(r).class = Max(R) /\ Estimate(q).class = Max(Q)
    BY EstimateParts DEF WorstClass
  <2>2. entry \in 1..3
    BY SignalsAssumption, RankIsKnown
  <2>3. \A c \in r.tools : Rank(c) \in 1..3
    BY SignalsAssumption, RankIsKnown
  <2>4. Q \subseteq R /\ R \in SUBSET (0..3) /\ Q # {}
    BY <2>2, <2>3
  <2> HIDE DEF Q, R
  <2>5. Max(Q) \in Q /\ Max(R) \in R /\ \A c \in R : c <= Max(R)
    BY <2>4, Greatest
  <2>6. Max(Q) <= Max(R) /\ Max(Q) \in 0..3 /\ Max(R) \in 0..3
    BY <2>4, <2>5
  <2>7. \A i, j \in 0..3 : i <= j => j >= i
    OBVIOUS
  <2> QED BY <2>1, <2>6, <2>7
<1> QED BY <1>8, <1>9

LEMMA NothingSeriousIsCheaper ==
    ASSUME NEW q \in StakesRequests,
           NEW r \in {[q EXCEPT !.asked = a] : a \in {x \in Amounts : x > LargestAmount(q)}}
                     \cup {[q EXCEPT !.tools = @ \cup {c}] : c \in ToolClasses}
                     \cup {[q EXCEPT !.role = "admin"], [q EXCEPT !.depth = 3]}
    PROVE  Estimate(r).impact >= Estimate(q).impact /\ Estimate(r).class >= Estimate(q).class
<1>1. /\ q.asked \in Amounts /\ q.elsewhere \in Amounts /\ q.role \in Range(Roles) /\ q.depth \in 2..3
      /\ q.tools \subseteq ToolClasses /\ q.keyword \in {"none"} \cup DOMAIN Domains
      /\ q.retrieved \in SeqOf(DOMAIN Domains, 2)
      /\ DOMAIN q = {"asked", "elsewhere", "retrieved", "keyword", "tools", "role", "depth"}
  BY DEF StakesRequests
<1>2. q.retrieved \in Seq(DOMAIN Domains)
  BY <1>1, SeqOfIsSeq
<1>3. Domain(q) \in DOMAIN Domains
  BY <1>1, <1>2, DomainIsKnown DEF Domain
<1>4. LargestAmount(q) \in Nat /\ q.asked \in Nat /\ q.elsewhere \in Nat
  BY <1>1, SignalsAssumption DEF LargestAmount
<1>5. RoleTenths(q.role) \in 10..20 /\ RoleTenths("admin") = 20
  BY <1>1, RoleIsKnown
<1>6. \A k \in 10..20 : k \in Nat /\ k <= 20 /\ k <= k /\ 20 \in Nat
  OBVIOUS
<1>7. LargestAmount(q) <= LargestAmount(q)
  BY <1>4
<1>8. ASSUME NEW a \in Amounts, a > LargestAmount(q), r = [q EXCEPT !.asked = a]
      PROVE  Estimate(r).impact >= Estimate(q).impact /\ Estimate(r).class >= Estimate(q).class
  <2>1. /\ r.asked = a /\ r.retrieved = q.retrieved /\ r.keyword = q.keyword
        /\ r.tools = q.tools /\ r.role = q.role /\ r.depth = q.depth
    BY <1>1, <1>8
  <2>2. a \in Nat
    BY SignalsAssumption
  <2>3. LargestAmount(r) = a /\ LargestAmount(q) <= a
    BY <1>4, <1>8, <2>1, <2>2 DEF LargestAmount
  <2>4. Domain(r) = Domain(q)
    BY <2>1 DEF Domain
  <2>5. DepthFourths(q.depth) <= DepthFourths(r.depth)
    BY <2>1 DEF DepthFourths
  <2> QED BY <1>1, <1>3, <1>4, <1>5, <1>6, <2>1, <2>2, <2>3, <2>4, <2>5, SeriousIsDearer
<1>9. ASSUME NEW c \in ToolClasses, r = [q EXCEPT !.tools = @ \cup {c}]
      PROVE  Estimate(r).impact >= Estimate(q).impact /\ Estimate(r).class >= Estimate(q).class
  <2>1. /\ r.asked = q.asked /\ r.elsewhere = q.elsewhere /\ r.retrieved = q.retrieved /\ r.keyword = q.keyword
        /\ r.tools = q.tools \cup {c} /\ r.role = q.role /\ r.depth = q.depth
    BY <1>1, <1>9
  <2>2. LargestAmount(r) = LargestAmount(q)
    BY <2>1 DEF LargestAmount
  <2>3. Domain(r) = Domain(q)
    BY <2>1 DEF Domain
  <2>4. DepthFourths(q.depth) <= DepthFourths(r.depth)
    BY <2>1 DEF DepthFourths
  <2>5. q.tools \subseteq r.tools /\ r.tools \subseteq ToolClasses
    BY <1>1, <2>1
  <2> QED BY <1>3, <1>4, <1>5, <1>6, <1>7, <2>1, <2>2, <2>3, <2>4, <2>5, SeriousIsDearer
<1>10. ASSUME r = [q EXCEPT !.role = "admin"]
       PROVE  Estimate(r).impact >= Estimate(q).impact /\ Estimate(r).class >= Estimate(q).class
  <2>1. /\ r.asked = q.asked /\ r.elsewhere = q.elsewhere /\ r.retrieved = q.retrieved /\ r.keyword = q.keyword
        /\ r.tools = q.tools /\ r.role = "admin" /\ r.depth = q.depth
    BY <1>1, <1>10
  <2>2. LargestAmount(r) = LargestAmount(q)
    BY <2>1 DEF LargestAmount
  <2>3. Domain(r) = Domain(q)
    BY <2>1 DEF Domain
  <2>4. DepthFourths(q.depth) <= DepthFourths(r.depth)
    BY <2>1 DEF DepthFourths
  <2> QED BY <1>1, <1>3, <1>4, <1>5, <1>6, <1>7, <2>1, <2>2, <2>3, <2>4, SeriousIsDearer
<1>11. ASSUME r = [q EXCEPT !.depth = 3]
       PROVE  Estimate(r).impact >= Estimate(q).impact /\ Estimate(r).class >= Estimate(q).class
  <2>1. /\ r.asked = q.asked /\ r.elsewhere = q.elsewhere /\ r.retrieved = q.retrieved /\ r.keyword = q.keyword
        /\ r.tools = q.tools /\ r.role = q.role /\ r.depth = 3
    BY <1>1, <1>11
  <2>2. LargestAmount(r) = LargestAmount(q)
    BY <2>1 DEF LargestAmount
  <2>3. Domain(r) = Domain(q)
    BY <2>1 DEF Domain
  <2>4. DepthFourths(q.depth) <= DepthFourths(r.depth)
    BY <2>1 DEF DepthFourths
  <2> QED BY <1>1, <1>3, <1>4, <1>5, <1>6, <1>7, <2>1, <2>2, <2>3, <2>4, SeriousIsDearer
<1> QED BY <1>8, <1>9, <1>10, <1>11

(* Signatures *)

\* One signature is enough to cross the threshold.
LEMMA SignatureIsEnough ==
    ASSUME NEW found \in SUBSET DOMAIN Weight
    PROVE  InjectionScore(found) >= 60 <=> found # {}
<1> DEFINE W == {Weight[f] : f \in found}
           rest == 5 * (Cardinality(found) - 1)
           S == {100, Max(W) + rest}
<1>1. CASE found = {}
  <2>1. InjectionScore(found) = 0
    BY <1>1 DEF InjectionScore
  <2> QED BY <1>1, <2>1
<1>2. CASE found # {}
  <2>1. \A f \in DOMAIN Weight : Weight[f] \in 60..100
    BY DEF Weight
  <2>2. W \in SUBSET (0..100) /\ W # {} /\ W \subseteq 60..100
    BY <1>2, <2>1
  <2> HIDE DEF W
  <2>3. Max(W) \in W
    BY <2>2, Greatest
  <2>4. IsFiniteSet(found)
    <3>1. ASSUME NEW a, NEW b, NEW c PROVE IsFiniteSet({a, b, c})
      <4>1. IsFiniteSet({a}) /\ IsFiniteSet({b}) /\ IsFiniteSet({c})
        BY FS_Singleton
      <4>2. IsFiniteSet({a} \cup {b})
        BY <4>1, FS_Union
      <4>3. IsFiniteSet(({a} \cup {b}) \cup {c})
        BY <4>1, <4>2, FS_Union
      <4>4. ({a} \cup {b}) \cup {c} = {a, b, c}
        OBVIOUS
      <4> QED BY <4>3, <4>4
    <3> DEFINE X == {"instruction_override", "role_reassignment", "exfiltration"}
               Y == {"exfiltration_url", "authority_claim", "secret_disclosure"}
               Z == {"compliance_bait", "hidden_text", "invisible_characters"}
    <3>2. DOMAIN Weight = (X \cup Y) \cup Z
      BY DEF Weight
    <3>3. IsFiniteSet(X) /\ IsFiniteSet(Y) /\ IsFiniteSet(Z)
      BY <3>1
    <3> HIDE DEF X, Y, Z
    <3>4. IsFiniteSet(X \cup Y)
      BY <3>3, FS_Union
    <3>5. IsFiniteSet((X \cup Y) \cup Z)
      BY <3>3, <3>4, FS_Union
    <3> QED BY <3>2, <3>5, FS_Subset
  <2>5. Cardinality(found) \in Nat /\ Cardinality(found) # 0
    BY <1>2, <2>4, FS_CardinalityType, FS_EmptySet
  <2>6. \A n \in Nat : n # 0 => 5 * (n - 1) \in Nat
    OBVIOUS
  <2>7. rest \in Nat
    BY <2>5, <2>6
  <2> HIDE DEF rest
  <2>8. Max(W) + rest \in Nat /\ Max(W) + rest >= 60
    <3>1. PICK m \in 60..100 : m = Max(W)
      BY <2>2, <2>3
    <3>2. PICK k \in Nat : k = rest
      BY <2>7
    <3>3. m + k \in Nat /\ m + k >= 60
      BY ONLY m \in 60..100, k \in Nat
    <3> QED BY <3>1, <3>2, <3>3
  <2>9. S \in SUBSET Nat /\ S # {} /\ \A x \in S : x >= 60
    BY <2>8
  <2> HIDE DEF S
  <2>10. Min(S) \in S
    BY <2>9, SmallestOf
  <2>11. InjectionScore(found) = Min(S)
    BY <1>2 DEF InjectionScore, W, rest, S
  <2> QED BY <1>2, <2>9, <2>10, <2>11
<1> QED BY <1>1, <1>2

(* Checksums *)

LEMMA DRows ==
    /\ DTable[1] = <<0, 1, 2, 3, 4, 5, 6, 7, 8, 9>> /\ DTable[2] = <<1, 2, 3, 4, 0, 6, 7, 8, 9, 5>>
    /\ DTable[3] = <<2, 3, 4, 0, 1, 7, 8, 9, 5, 6>> /\ DTable[4] = <<3, 4, 0, 1, 2, 8, 9, 5, 6, 7>>
    /\ DTable[5] = <<4, 0, 1, 2, 3, 9, 5, 6, 7, 8>> /\ DTable[6] = <<5, 9, 8, 7, 6, 0, 4, 3, 2, 1>>
    /\ DTable[7] = <<6, 5, 9, 8, 7, 1, 0, 4, 3, 2>> /\ DTable[8] = <<7, 6, 5, 9, 8, 2, 1, 0, 4, 3>>
    /\ DTable[9] = <<8, 7, 6, 5, 9, 3, 2, 1, 0, 4>> /\ DTable[10] = <<9, 8, 7, 6, 5, 4, 3, 2, 1, 0>>
  BY DEF DTable

LEMMA PRows ==
    /\ PTable[1] = <<0, 1, 2, 3, 4, 5, 6, 7, 8, 9>> /\ PTable[2] = <<1, 5, 7, 6, 2, 8, 3, 0, 9, 4>>
    /\ PTable[3] = <<5, 8, 0, 3, 7, 9, 6, 1, 4, 2>> /\ PTable[4] = <<8, 9, 1, 6, 0, 4, 3, 5, 2, 7>>
    /\ PTable[5] = <<9, 4, 5, 3, 1, 2, 6, 8, 7, 0>> /\ PTable[6] = <<4, 2, 8, 6, 5, 7, 3, 9, 0, 1>>
    /\ PTable[7] = <<2, 7, 9, 3, 8, 0, 6, 4, 1, 5>> /\ PTable[8] = <<7, 0, 4, 6, 9, 1, 3, 2, 5, 8>>
  BY DEF PTable

\* A row as arithmetic: rotations first, reflections after them.
D(x, y) == IF x < 5 THEN (IF y < 5 THEN (x + y) % 5 ELSE 5 + ((x + y) % 5))
           ELSE (IF y < 5 THEN 5 + ((x - y) % 5) ELSE (x - y) % 5)

LEMMA DTableIsD == \A x, y \in 0..9 : DTable[x + 1][y + 1] = D(x, y)
<1>1. \A y \in 0..9 : DTable[1][y + 1] = D(0, y)
  BY DRows DEF D
<1>2. \A y \in 0..9 : DTable[2][y + 1] = D(1, y)
  BY DRows DEF D
<1>3. \A y \in 0..9 : DTable[3][y + 1] = D(2, y)
  BY DRows DEF D
<1>4. \A y \in 0..9 : DTable[4][y + 1] = D(3, y)
  BY DRows DEF D
<1>5. \A y \in 0..9 : DTable[5][y + 1] = D(4, y)
  BY DRows DEF D
<1>6. \A y \in 0..9 : DTable[6][y + 1] = D(5, y)
  BY DRows DEF D
<1>7. \A y \in 0..9 : DTable[7][y + 1] = D(6, y)
  BY DRows DEF D
<1>8. \A y \in 0..9 : DTable[8][y + 1] = D(7, y)
  BY DRows DEF D
<1>9. \A y \in 0..9 : DTable[9][y + 1] = D(8, y)
  BY DRows DEF D
<1>10. \A y \in 0..9 : DTable[10][y + 1] = D(9, y)
  BY DRows DEF D
<1> QED BY <1>1, <1>2, <1>3, <1>4, <1>5, <1>6, <1>7, <1>8, <1>9, <1>10

LEMMA DCancels ==
    \A x, y, z \in 0..9 : (D(x, y) = D(x, z) => y = z) /\ (D(y, x) = D(z, x) => y = z) /\ D(x, y) \in 0..9
  BY DEF D

LEMMA DAssociates == \A x, y, z \in 0..9 : D(D(x, y), z) = D(x, D(y, z))
  BY DEF D

LEMMA PRowsPermute ==
    \A p \in 0..7 : \A x, y \in 0..9 : PTable[p + 1][x + 1] \in 0..9 /\ (PTable[p + 1][x + 1] = PTable[p + 1][y + 1] => x = y)
<1> DEFINE Row(p) == \A x, y \in 0..9 : PTable[p + 1][x + 1] \in 0..9 /\ (PTable[p + 1][x + 1] = PTable[p + 1][y + 1] => x = y)
<1>1. Row(0)
  <2>1. \A x, y \in 0..9 : PTable[1][x + 1] \in 0..9 /\ (PTable[1][x + 1] = PTable[1][y + 1] => x = y)
    BY PRows
  <2>2. 0 + 1 = 1
    OBVIOUS
  <2> QED BY <2>1, <2>2
<1>2. Row(1)
  <2>1. \A x, y \in 0..9 : PTable[2][x + 1] \in 0..9 /\ (PTable[2][x + 1] = PTable[2][y + 1] => x = y)
    BY PRows
  <2>2. 1 + 1 = 2
    OBVIOUS
  <2> QED BY <2>1, <2>2
<1>3. Row(2)
  <2>1. \A x, y \in 0..9 : PTable[3][x + 1] \in 0..9 /\ (PTable[3][x + 1] = PTable[3][y + 1] => x = y)
    BY PRows
  <2>2. 2 + 1 = 3
    OBVIOUS
  <2> QED BY <2>1, <2>2
<1>4. Row(3)
  <2>1. \A x, y \in 0..9 : PTable[4][x + 1] \in 0..9 /\ (PTable[4][x + 1] = PTable[4][y + 1] => x = y)
    BY PRows
  <2>2. 3 + 1 = 4
    OBVIOUS
  <2> QED BY <2>1, <2>2
<1>5. Row(4)
  <2>1. \A x, y \in 0..9 : PTable[5][x + 1] \in 0..9 /\ (PTable[5][x + 1] = PTable[5][y + 1] => x = y)
    BY PRows
  <2>2. 4 + 1 = 5
    OBVIOUS
  <2> QED BY <2>1, <2>2
<1>6. Row(5)
  <2>1. \A x, y \in 0..9 : PTable[6][x + 1] \in 0..9 /\ (PTable[6][x + 1] = PTable[6][y + 1] => x = y)
    BY PRows
  <2>2. 5 + 1 = 6
    OBVIOUS
  <2> QED BY <2>1, <2>2
<1>7. Row(6)
  <2>1. \A x, y \in 0..9 : PTable[7][x + 1] \in 0..9 /\ (PTable[7][x + 1] = PTable[7][y + 1] => x = y)
    BY PRows
  <2>2. 6 + 1 = 7
    OBVIOUS
  <2> QED BY <2>1, <2>2
<1>8. Row(7)
  <2>1. \A x, y \in 0..9 : PTable[8][x + 1] \in 0..9 /\ (PTable[8][x + 1] = PTable[8][y + 1] => x = y)
    BY PRows
  <2>2. 7 + 1 = 8
    OBVIOUS
  <2> QED BY <2>1, <2>2
<1> HIDE DEF Row
<1>9. \A p \in 0..7 : p \in {0, 1, 2, 3, 4, 5, 6, 7}
  OBVIOUS
<1>10. \A p \in 0..7 : Row(p)
  BY <1>1, <1>2, <1>3, <1>4, <1>5, <1>6, <1>7, <1>8, <1>9
<1> QED BY <1>10 DEF Row

LEMMA PRowsFollow ==
    \A p \in 0..7 : \A x \in 0..9 : PTable[((p + 1) % 8) + 1][x + 1] = PTable[2][PTable[p + 1][x + 1] + 1]
<1> DEFINE Row(p) == \A x \in 0..9 : PTable[((p + 1) % 8) + 1][x + 1] = PTable[2][PTable[p + 1][x + 1] + 1]
<1>1. Row(0)
  <2>1. \A x \in 0..9 : PTable[2][x + 1] = PTable[2][PTable[1][x + 1] + 1]
    BY PRows
  <2>2. 0 + 1 = 1 /\ ((0 + 1) % 8) + 1 = 2
    OBVIOUS
  <2> QED BY <2>1, <2>2
<1>2. Row(1)
  <2>1. \A x \in 0..9 : PTable[3][x + 1] = PTable[2][PTable[2][x + 1] + 1]
    BY PRows
  <2>2. 1 + 1 = 2 /\ ((1 + 1) % 8) + 1 = 3
    OBVIOUS
  <2> QED BY <2>1, <2>2
<1>3. Row(2)
  <2>1. \A x \in 0..9 : PTable[4][x + 1] = PTable[2][PTable[3][x + 1] + 1]
    BY PRows
  <2>2. 2 + 1 = 3 /\ ((2 + 1) % 8) + 1 = 4
    OBVIOUS
  <2> QED BY <2>1, <2>2
<1>4. Row(3)
  <2>1. \A x \in 0..9 : PTable[5][x + 1] = PTable[2][PTable[4][x + 1] + 1]
    BY PRows
  <2>2. 3 + 1 = 4 /\ ((3 + 1) % 8) + 1 = 5
    OBVIOUS
  <2> QED BY <2>1, <2>2
<1>5. Row(4)
  <2>1. \A x \in 0..9 : PTable[6][x + 1] = PTable[2][PTable[5][x + 1] + 1]
    BY PRows
  <2>2. 4 + 1 = 5 /\ ((4 + 1) % 8) + 1 = 6
    OBVIOUS
  <2> QED BY <2>1, <2>2
<1>6. Row(5)
  <2>1. \A x \in 0..9 : PTable[7][x + 1] = PTable[2][PTable[6][x + 1] + 1]
    BY PRows
  <2>2. 5 + 1 = 6 /\ ((5 + 1) % 8) + 1 = 7
    OBVIOUS
  <2> QED BY <2>1, <2>2
<1>7. Row(6)
  <2>1. \A x \in 0..9 : PTable[8][x + 1] = PTable[2][PTable[7][x + 1] + 1]
    BY PRows
  <2>2. 6 + 1 = 7 /\ ((6 + 1) % 8) + 1 = 8
    OBVIOUS
  <2> QED BY <2>1, <2>2
<1>8. Row(7)
  <2>1. \A x \in 0..9 : PTable[1][x + 1] = PTable[2][PTable[8][x + 1] + 1]
    BY PRows
  <2>2. 7 + 1 = 8 /\ ((7 + 1) % 8) + 1 = 1
    OBVIOUS
  <2> QED BY <2>1, <2>2
<1> HIDE DEF Row
<1>9. \A p \in 0..7 : p \in {0, 1, 2, 3, 4, 5, 6, 7}
  OBVIOUS
<1>10. \A p \in 0..7 : Row(p)
  BY <1>1, <1>2, <1>3, <1>4, <1>5, <1>6, <1>7, <1>8, <1>9
<1> QED BY <1>10 DEF Row

\* Two digits that changed places: after one more permutation they do not commute.
LEMMA DAntisymmetric ==
    \A x, y \in 0..9 : D(x, PTable[2][y + 1]) = D(y, PTable[2][x + 1]) => x = y
<1>1. \A y \in 0..9 : D(0, PTable[2][y + 1]) = D(y, PTable[2][1]) => 0 = y
  BY PRows DEF D
<1>2. \A y \in 0..9 : D(1, PTable[2][y + 1]) = D(y, PTable[2][2]) => 1 = y
  BY PRows DEF D
<1>3. \A y \in 0..9 : D(2, PTable[2][y + 1]) = D(y, PTable[2][3]) => 2 = y
  BY PRows DEF D
<1>4. \A y \in 0..9 : D(3, PTable[2][y + 1]) = D(y, PTable[2][4]) => 3 = y
  BY PRows DEF D
<1>5. \A y \in 0..9 : D(4, PTable[2][y + 1]) = D(y, PTable[2][5]) => 4 = y
  BY PRows DEF D
<1>6. \A y \in 0..9 : D(5, PTable[2][y + 1]) = D(y, PTable[2][6]) => 5 = y
  BY PRows DEF D
<1>7. \A y \in 0..9 : D(6, PTable[2][y + 1]) = D(y, PTable[2][7]) => 6 = y
  BY PRows DEF D
<1>8. \A y \in 0..9 : D(7, PTable[2][y + 1]) = D(y, PTable[2][8]) => 7 = y
  BY PRows DEF D
<1>9. \A y \in 0..9 : D(8, PTable[2][y + 1]) = D(y, PTable[2][9]) => 8 = y
  BY PRows DEF D
<1>10. \A y \in 0..9 : D(9, PTable[2][y + 1]) = D(y, PTable[2][10]) => 9 = y
  BY PRows DEF D
<1> QED BY <1>1, <1>2, <1>3, <1>4, <1>5, <1>6, <1>7, <1>8, <1>9, <1>10

\* The digit as the checksum takes it at a position.
Permuted(n, d) == PTable[(n % 8) + 1][d + 1]

LEMMA PermutedDigits ==
    ASSUME NEW n \in Nat, NEW d \in 0..9
    PROVE  /\ Permuted(n, d) \in 0..9 /\ Permuted(n + 1, d) = PTable[2][Permuted(n, d) + 1]
           /\ PTable[2][Permuted(n, d) + 1] \in 0..9
           /\ \A e \in 0..9 : Permuted(n, d) = Permuted(n, e) => d = e
<1>1. n % 8 \in 0..7 /\ (n + 1) % 8 = ((n % 8) + 1) % 8
  OBVIOUS
<1>2. PICK p \in 0..7 : p = n % 8
  BY <1>1
<1>3. \A e \in 0..9 : Permuted(n, e) = PTable[p + 1][e + 1] /\ Permuted(n + 1, e) = PTable[((p + 1) % 8) + 1][e + 1]
  BY <1>1, <1>2 DEF Permuted
<1>4. \A e \in 0..9 : PTable[p + 1][e + 1] \in 0..9 /\ (PTable[p + 1][d + 1] = PTable[p + 1][e + 1] => d = e)
  BY PRowsPermute
<1>5. PTable[((p + 1) % 8) + 1][d + 1] = PTable[2][PTable[p + 1][d + 1] + 1]
  BY PRowsFollow
<1>6. \A e \in 0..9 : PTable[2][e + 1] \in 0..9
  <2>1. 1 \in 0..7 /\ 1 + 1 = 2
    OBVIOUS
  <2>2. \A e \in 0..9 : PTable[1 + 1][e + 1] \in 0..9
    BY <2>1, PRowsPermute
  <2> QED BY <2>1, <2>2
<1> QED BY <1>3, <1>4, <1>5, <1>6

\* A step of the checksum in the group of the ten digits.
LEMMA VerhoeffIsD ==
    ASSUME NEW c \in 0..9, NEW n \in Nat, NEW d \in 0..9
    PROVE  Verhoeff(c, n, d) = D(c, Permuted(n, d)) /\ Verhoeff(c, n, d) \in 0..9
<1>1. Verhoeff(c, n, d) = DTable[c + 1][Permuted(n, d) + 1]
  BY DEF Verhoeff, Permuted
<1>2. PICK x \in 0..9 : x = Permuted(n, d)
  BY PermutedDigits
<1>3. DTable[c + 1][x + 1] = D(c, x)
  BY DTableIsD
<1>4. D(c, x) \in 0..9
  BY DCancels
<1> QED BY <1>1, <1>2, <1>3, <1>4

LEMMA TyposAreCaught ==
    ASSUME NEW s \in 0..9, NEW n \in Nat, NEW a \in 0..9, NEW b \in 0..9, a # b
    PROVE  /\ Verhoeff(s, n, a) # Verhoeff(s, n, b)
           /\ \A c \in 0..9 : Verhoeff(a, n, c) # Verhoeff(b, n, c)
           /\ Verhoeff(Verhoeff(s, n, a), n + 1, b) # Verhoeff(Verhoeff(s, n, b), n + 1, a)
<1>1. PICK x \in 0..9 : x = Permuted(n, a)
  BY PermutedDigits
<1>2. PICK y \in 0..9 : y = Permuted(n, b)
  BY PermutedDigits
<1>3. x # y
  BY <1>1, <1>2, PermutedDigits
<1>4. PICK i \in 0..9 : i = PTable[2][x + 1] /\ i = Permuted(n + 1, a)
  BY <1>1, PermutedDigits
<1>5. PICK j \in 0..9 : j = PTable[2][y + 1] /\ j = Permuted(n + 1, b)
  BY <1>2, PermutedDigits
<1>6. n + 1 \in Nat
  OBVIOUS
<1>7. Verhoeff(s, n, a) = D(s, x) /\ Verhoeff(s, n, b) = D(s, y) /\ D(s, x) \in 0..9 /\ D(s, y) \in 0..9
  BY <1>1, <1>2, VerhoeffIsD
<1>8. Verhoeff(D(s, x), n + 1, b) = D(D(s, x), j) /\ Verhoeff(D(s, y), n + 1, a) = D(D(s, y), i)
  BY <1>4, <1>5, <1>6, <1>7, VerhoeffIsD
<1>9. D(x, j) # D(y, i)
  BY <1>3, <1>4, <1>5, DAntisymmetric
<1>10. D(x, j) \in 0..9 /\ D(y, i) \in 0..9
  BY DCancels
<1>11. D(D(s, x), j) = D(s, D(x, j)) /\ D(D(s, y), i) = D(s, D(y, i))
  BY DAssociates
<1>12. D(s, D(x, j)) # D(s, D(y, i))
  BY <1>9, <1>10, DCancels
<1>13. D(s, x) # D(s, y)
  BY <1>3, DCancels
<1>14. ASSUME NEW c \in 0..9 PROVE Verhoeff(a, n, c) # Verhoeff(b, n, c)
  <2>1. PICK z \in 0..9 : z = Permuted(n, c)
    BY PermutedDigits
  <2>2. Verhoeff(a, n, c) = D(a, z) /\ Verhoeff(b, n, c) = D(b, z)
    BY <2>1, VerhoeffIsD
  <2> QED BY <2>2, DCancels
<1> QED BY <1>7, <1>8, <1>11, <1>12, <1>13, <1>14

(* What is seen is what a detector makes of what it read. *)
RegisterFields == {"kind", "planted", "matcher", "dirty"}

SignalInv ==
    /\ seen.kind = "sentence" =>
        seen.s \in Statements /\ seen.scores = GroundingSignals(seen.s, seen.context, seen.question)
    /\ seen.kind = "request" => seen.r \in StakesRequests /\ seen.stakes = Estimate(seen.r)
    /\ seen.kind = "register" =>
        /\ DOMAIN seen = RegisterFields
        /\ seen.dirty \in BOOLEAN
        /\ ~ seen.dirty => seen.matcher = seen.planted
    /\ seen.kind = "passage" =>
        /\ seen.label \in 0..4 /\ seen.found \in SUBSET DOMAIN Weight
        /\ seen.flagged <=> InjectionScore(seen.found) >= 60
        /\ seen.relabelled = Distrusted(seen.label, seen.found)
    /\ seen.kind = "digits" =>
        DOMAIN seen = {"kind", "n", "checksum"} /\ seen.n \in Nat /\ seen.checksum \in 0..9

LEMMA SignalInvIsSound == SignalInv => SignalsAreSound
<1> SUFFICES ASSUME SignalInv PROVE SignalsAreSound
  OBVIOUS
<1>1. InventedFigureIsSeen
  <2> SUFFICES ASSUME seen.kind = "sentence"
               PROVE  seen.scores.numeric[1]
                        = Cardinality({i \in DOMAIN seen.s.figures : \A p \in seen.context : seen.s.figures[i].value \notin Values(p)})
    BY DEF InventedFigureIsSeen
  <2>1. seen.s \in Statements /\ seen.scores = GroundingSignals(seen.s, seen.context, seen.question)
    BY DEF SignalInv
  <2> QED BY <2>1, InventedCounts
<1>2. MoreContextNeverHurts
  <2> SUFFICES ASSUME seen.kind = "sentence", NEW p \in PassagesOf({"fees"})
               PROVE  LET more == GroundingSignals(seen.s, seen.context \cup {p}, seen.question)
                      IN  /\ more.numeric[1] <= seen.scores.numeric[1]
                          /\ more.citation[1] <= seen.scores.citation[1]
                          /\ more.content[1] <= seen.scores.content[1]
    BY DEF MoreContextNeverHurts
  <2>1. seen.s \in Statements /\ seen.scores = GroundingSignals(seen.s, seen.context, seen.question)
    BY DEF SignalInv
  <2> QED BY <2>1, ContextHelps
<1>3. SeriousNeverCheaper
  <2> DEFINE worse == {[seen.r EXCEPT !.asked = a] : a \in {x \in Amounts : x > LargestAmount(seen.r)}}
                      \cup {[seen.r EXCEPT !.tools = @ \cup {c}] : c \in ToolClasses}
                      \cup {[seen.r EXCEPT !.role = "admin"], [seen.r EXCEPT !.depth = 3]}
  <2> SUFFICES ASSUME seen.kind = "request", NEW r \in worse
               PROVE  Estimate(r).impact >= seen.stakes.impact /\ Estimate(r).class >= seen.stakes.class
    BY DEF SeriousNeverCheaper
  <2>1. seen.r \in StakesRequests /\ seen.stakes = Estimate(seen.r)
    BY DEF SignalInv
  <2>2. Estimate(r).impact >= Estimate(seen.r).impact /\ Estimate(r).class >= Estimate(seen.r).class
    BY <2>1, NothingSeriousIsCheaper
  <2> QED BY <2>1, <2>2
<1>4. RegisteredIsFound
  BY DEF SignalInv, RegisteredIsFound
<1>5. SignaturesDistrust
  <2> SUFFICES ASSUME seen.kind = "passage"
               PROVE  /\ (seen.flagged /\ seen.label # 0) \/ seen.label >= Doubtful <=> seen.relabelled >= Doubtful
                      /\ seen.flagged <=> seen.found # {}
    BY DEF SignaturesDistrust
  <2>1. seen.label \in 0..4 /\ seen.found \in SUBSET DOMAIN Weight
    BY DEF SignalInv
  <2>2. seen.flagged <=> InjectionScore(seen.found) >= 60
    BY DEF SignalInv
  <2>3. InjectionScore(seen.found) >= 60 <=> seen.found # {}
    BY <2>1, SignatureIsEnough
  <2>4. seen.relabelled = IF InjectionScore(seen.found) >= 60 /\ seen.label # 0 THEN Doubtful ELSE seen.label
    BY DEF SignalInv, Distrusted
  <2>5. CASE InjectionScore(seen.found) >= 60 /\ seen.label # 0
    <3>1. seen.relabelled >= Doubtful
      BY <2>4, <2>5 DEF Doubtful
    <3> QED BY <2>2, <2>3, <2>5, <3>1
  <2>6. CASE ~(InjectionScore(seen.found) >= 60 /\ seen.label # 0)
    <3>1. seen.relabelled = seen.label
      BY <2>4, <2>6
    <3> QED BY <2>2, <2>3, <2>6, <3>1
  <2> QED BY <2>5, <2>6
<1>6. ChecksumCatchesTypos
  <2> SUFFICES ASSUME seen.kind = "digits", NEW a \in 0..9, NEW b \in 0..9, a # b
               PROVE  /\ Verhoeff(seen.checksum, seen.n, a) # Verhoeff(seen.checksum, seen.n, b)
                      /\ \A c \in 0..9 : Verhoeff(a, seen.n, c) # Verhoeff(b, seen.n, c)
                      /\ Verhoeff(Verhoeff(seen.checksum, seen.n, a), seen.n + 1, b)
                            # Verhoeff(Verhoeff(seen.checksum, seen.n, b), seen.n + 1, a)
    BY DEF ChecksumCatchesTypos
  <2>1. seen.n \in Nat /\ seen.checksum \in 0..9
    BY DEF SignalInv
  <2> QED BY <2>1, TyposAreCaught
<1> QED BY <1>1, <1>2, <1>3, <1>4, <1>5, <1>6 DEF SignalsAreSound

LEMMA SignalInvStarts == SignalInit => SignalInv
  BY DEF SignalInit, Unseen, SignalInv

LEMMA SignalInvKept == SignalInv /\ [SignalNext]_seen => SignalInv'
<1> SUFFICES ASSUME SignalInv, [SignalNext]_seen PROVE SignalInv'
  OBVIOUS
<1>1. CASE Score
  <2>1. PICK s \in Statements : \E context, question :
            seen' = [kind |-> "sentence", s |-> s, context |-> context, question |-> question,
                     scores |-> GroundingSignals(s, context, question)]
    BY <1>1 DEF Score
  <2> QED BY <2>1 DEF SignalInv
<1>2. CASE Price
  <2>1. PICK r \in StakesRequests : seen' = [kind |-> "request", r |-> r, stakes |-> Estimate(r)]
    BY <1>2 DEF Price
  <2> QED BY <2>1 DEF SignalInv
<1>3. CASE OpenRegister
  BY <1>3 DEF OpenRegister, Register, SignalInv, RegisterFields
<1>4. CASE RegisterCanary
  <2>1. PICK c : seen' = [seen EXCEPT !.planted = @ \cup {c}, !.dirty = TRUE]
    BY <1>4 DEF RegisterCanary, Registered
  <2>2. DOMAIN seen = RegisterFields /\ seen.kind = "register"
    BY <1>4 DEF RegisterCanary, SignalInv
  <2>3. DOMAIN seen' = RegisterFields /\ seen'.kind = "register" /\ seen'.dirty = TRUE
    BY <2>1, <2>2 DEF RegisterFields
  <2> QED BY <2>3 DEF SignalInv
<1>5. CASE ScanEgress
  <2>1. seen' = [seen EXCEPT !.matcher = IF seen.dirty THEN seen.planted ELSE @, !.dirty = FALSE]
    BY <1>5 DEF ScanEgress
  <2>2. DOMAIN seen = RegisterFields /\ seen.kind = "register" /\ (~ seen.dirty => seen.matcher = seen.planted)
    BY <1>5 DEF ScanEgress, SignalInv
  <2>3. /\ DOMAIN seen' = RegisterFields /\ seen'.kind = "register" /\ seen'.dirty = FALSE /\ seen'.planted = seen.planted
        /\ seen'.matcher = IF seen.dirty THEN seen.planted ELSE seen.matcher
    BY <2>1, <2>2 DEF RegisterFields
  <2>4. seen'.matcher = seen'.planted
    BY <2>2, <2>3
  <2> QED BY <2>3, <2>4 DEF SignalInv
<1>6. CASE Distrust
  <2>1. PICK label \in 0..4, found \in SUBSET DOMAIN Weight :
            seen' = [kind |-> "passage", label |-> label, found |-> found,
                     flagged |-> InjectionScore(found) >= 60, relabelled |-> Distrusted(label, found)]
    BY <1>6 DEF Distrust
  <2>2. /\ seen'.kind = "passage" /\ seen'.label = label /\ seen'.found = found
        /\ seen'.flagged = (InjectionScore(found) >= 60) /\ seen'.relabelled = Distrusted(label, found)
    BY <2>1
  <2> QED BY <2>2 DEF SignalInv
<1>7. CASE StartDigits
  BY <1>7 DEF StartDigits, SignalInv
<1>8. CASE ReadDigit
  <2>1. PICK digit \in 0..9 : seen' = [seen EXCEPT !.n = @ + 1, !.checksum = Verhoeff(@, seen.n, digit)]
    BY <1>8 DEF ReadDigit
  <2>2. seen.kind = "digits" /\ DOMAIN seen = {"kind", "n", "checksum"} /\ seen.n \in Nat /\ seen.checksum \in 0..9
    BY <1>8 DEF ReadDigit, SignalInv
  <2>3. /\ DOMAIN seen' = {"kind", "n", "checksum"} /\ seen'.kind = "digits"
        /\ seen'.n = seen.n + 1 /\ seen'.checksum = Verhoeff(seen.checksum, seen.n, digit)
    BY <2>1, <2>2
  <2>4. Verhoeff(seen.checksum, seen.n, digit) \in 0..9
    BY <2>2, VerhoeffIsD
  <2> QED BY <2>2, <2>3, <2>4 DEF SignalInv
<1>9. CASE UNCHANGED seen
  BY <1>9 DEF SignalInv
<1> QED BY <1>1, <1>2, <1>3, <1>4, <1>5, <1>6, <1>7, <1>8, <1>9 DEF SignalNext

\* Whatever the policy, the passages and the canaries are: an invented figure is seen
\* and more context never hurts (signals/grounding.py); what is more serious is never
\* cheaper (stakes.py); what was registered is found (canary.py); one signature makes a
\* passage distrusted (injection.py); and the checksum of an identifier catches each
\* wrong digit and each pair that changed places (pii.py).
THEOREM SignalsStaySound == SignalSpec => []SignalsAreSound
<1>1. SignalSpec => []SignalInv
  BY SignalInvStarts, SignalInvKept, PTL DEF SignalSpec
<1> QED BY <1>1, SignalInvIsSound, PTL
=============================================================================
