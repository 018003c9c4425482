---------------------------- MODULE JudgeRunProofs ----------------------------
(***************************************************************************)
(* The paid judge audit, for any number of judge models, rows, attempts,   *)
(* commands and faults: what was charged is accounted for on disk and      *)
(* stays under the cap.                                                    *)
(*                                                                         *)
(* What is committed is, per plan, the cost of the batches other than the  *)
(* one in flight, and the reservation of that one.  It grows only when a   *)
(* batch is dispatched, within the cap, and shrinks only when the records  *)
(* of the batch are all there; a kill or a power loss leaves it as it is,  *)
(* since the records it takes belong to the batch in flight.               *)
(***************************************************************************)
EXTENDS JudgeRun, TLAPS, SequenceTheorems, FiniteSetTheorems, WellFoundedInduction

-----------------------------------------------------------------------------
(* Sums                                                                     *)

\* Induction, for a set of numbers.
LEMMA Counting ==
    ASSUME NEW S, 0 \in S, \A n \in Nat : n \in S => n + 1 \in S
    PROVE  Nat \subseteq S
<1> DEFINE T == Nat \ S
           R == {p \in Nat \X Nat : p[1] < p[2]}
<1>1. SUFFICES ASSUME T # {} PROVE FALSE
  OBVIOUS
<1>2. R = OpToRel(<, Nat)
  BY DEF OpToRel
<1>3. IsWellFoundedOn(R, Nat)
  BY <1>2, NatLessThanWellFounded
<1> HIDE DEF R
<1>4. T \subseteq Nat
  OBVIOUS
<1>5. PICK n \in T : \A m \in T : <<m, n>> \notin R
  BY <1>1, <1>3, <1>4, WFMin
<1>6. n \in Nat /\ n \notin S /\ n # 0
  BY <1>5
<1>7. n - 1 \in Nat /\ <<n - 1, n>> \in R
  BY <1>6 DEF R
<1>8. n - 1 \in S
  BY <1>5, <1>7
<1>9. (n - 1) + 1 = n
  BY <1>6
<1> QED BY <1>6, <1>7, <1>8, <1>9

\* The sums of the first members of f, up to n.
Sums(s, f, n) ==
    /\ DOMAIN s = 0..n
    /\ s = [k \in 0..n |-> IF k = 0 THEN 0 ELSE s[k - 1] + f[k]]

LEMMA SumsExist == ASSUME NEW f, NEW n \in Nat PROVE \E s : Sums(s, f, n)
<1> DEFINE S == {k \in Nat : \E s : Sums(s, f, k)}
<1>1. 0 \in S
  <2> DEFINE s == [k \in 0..0 |-> 0]
  <2>1. Sums(s, f, 0)
    BY DEF Sums
  <2> QED BY <2>1
<1>2. ASSUME NEW k \in Nat, k \in S PROVE k + 1 \in S
  <2>1. PICK s : Sums(s, f, k)
    BY <1>2
  <2> DEFINE t == [j \in 0..(k + 1) |-> IF j = k + 1 THEN s[k] + f[k + 1] ELSE s[j]]
  <2>2. \A j \in 0..(k + 1) : t[j] = IF j = 0 THEN 0 ELSE t[j - 1] + f[j]
    <3> SUFFICES ASSUME NEW j \in 0..(k + 1)
                 PROVE  t[j] = IF j = 0 THEN 0 ELSE t[j - 1] + f[j]
      OBVIOUS
    <3>1. CASE j = k + 1
      <4>1. j # 0 /\ j - 1 = k /\ k \in 0..(k + 1) /\ k # k + 1
        BY <3>1
      <4>2. t[j] = s[k] + f[k + 1] /\ t[j - 1] = s[k]
        BY <3>1, <4>1
      <4> QED BY <3>1, <4>1, <4>2
    <3>2. CASE j # k + 1
      <4>1. j \in 0..k /\ s[j] = IF j = 0 THEN 0 ELSE s[j - 1] + f[j]
        BY <2>1, <3>2 DEF Sums
      <4>2. t[j] = s[j]
        BY <3>2
      <4>3. j # 0 => j - 1 \in 0..(k + 1) /\ j - 1 # k + 1
        BY <3>2
      <4>4. j # 0 => t[j - 1] = s[j - 1]
        BY <4>3
      <4> QED BY <4>1, <4>2, <4>4
    <3> QED BY <3>1, <3>2
  <2>3. t = [j \in 0..(k + 1) |-> t[j]] /\ DOMAIN t = 0..(k + 1)
    OBVIOUS
  <2> HIDE DEF t
  <2>4. t = [j \in 0..(k + 1) |-> IF j = 0 THEN 0 ELSE t[j - 1] + f[j]]
    BY <2>2, <2>3
  <2>5. Sums(t, f, k + 1)
    BY <2>3, <2>4 DEF Sums
  <2> QED BY <2>5
<1> HIDE DEF S
<1>3. Nat \subseteq S
  BY <1>1, <1>2, Counting
<1> QED BY <1>3 DEF S

LEMMA SumIsLast == ASSUME NEW f, NEW n \in Nat PROVE \E s : Sums(s, f, n) /\ SumOf(f, n) = s[n]
<1> DEFINE s == CHOOSE s : s = [k \in 0..n |-> IF k = 0 THEN 0 ELSE s[k - 1] + f[k]]
<1>1. SumOf(f, n) = s[n]
  BY DEF SumOf
<1>2. PICK t : Sums(t, f, n)
  BY SumsExist
<1>3. s = [k \in 0..n |-> IF k = 0 THEN 0 ELSE s[k - 1] + f[k]]
  BY <1>2 DEF Sums
<1> HIDE DEF s
<1>4. Sums(s, f, n)
  BY <1>3 DEF Sums
<1> QED BY <1>1, <1>4

\* Two sums over the same members are the same.
LEMMA SumsAgree ==
    ASSUME NEW f, NEW g, NEW n \in Nat, NEW m \in Nat, NEW s, NEW t,
           Sums(s, f, n), Sums(t, g, m), NEW i \in Nat, i <= n, i <= m,
           \A k \in 1..i : f[k] = g[k]
    PROVE  s[i] = t[i]
<1> DEFINE S == {k \in Nat : k <= i => s[k] = t[k]}
<1>1. 0 \in S
  BY DEF Sums
<1>2. ASSUME NEW k \in Nat, k \in S PROVE k + 1 \in S
  <2> SUFFICES ASSUME k + 1 <= i PROVE s[k + 1] = t[k + 1]
    OBVIOUS
  <2>1. s[k] = t[k] /\ f[k + 1] = g[k + 1] /\ k + 1 \in 0..n /\ k + 1 \in 0..m /\ (k + 1) - 1 = k
    BY <1>2
  <2>2. s[k + 1] = s[k] + f[k + 1] /\ t[k + 1] = t[k] + g[k + 1]
    BY <2>1 DEF Sums
  <2> QED BY <2>1, <2>2
<1> HIDE DEF S
<1>3. Nat \subseteq S
  BY <1>1, <1>2, Counting
<1>4. i \in S
  BY <1>3
<1> QED BY <1>4 DEF S

LEMMA SumSame ==
    ASSUME NEW f, NEW g, NEW n \in Nat, \A k \in 1..n : f[k] = g[k]
    PROVE  SumOf(f, n) = SumOf(g, n)
<1>1. PICK s : Sums(s, f, n) /\ SumOf(f, n) = s[n]
  BY SumIsLast
<1>2. PICK t : Sums(t, g, n) /\ SumOf(g, n) = t[n]
  BY SumIsLast
<1>3. s[n] = t[n]
  BY <1>1, <1>2, SumsAgree
<1> QED BY <1>1, <1>2, <1>3

LEMMA SumStep ==
    ASSUME NEW f, NEW n \in Nat
    PROVE  SumOf(f, 0) = 0 /\ SumOf(f, n + 1) = SumOf(f, n) + f[n + 1]
<1>1. PICK s : Sums(s, f, n) /\ SumOf(f, n) = s[n]
  BY SumIsLast
<1>2. PICK t : Sums(t, f, n + 1) /\ SumOf(f, n + 1) = t[n + 1]
  BY SumIsLast
<1>3. PICK z : Sums(z, f, 0) /\ SumOf(f, 0) = z[0]
  BY SumIsLast
<1>4. s[n] = t[n]
  BY <1>1, <1>2, SumsAgree
<1>5. n + 1 \in 0..(n + 1) /\ n + 1 # 0 /\ (n + 1) - 1 = n /\ 0 \in 0..0
  OBVIOUS
<1>6. t[n + 1] = t[n] + f[n + 1]
  BY <1>2, <1>5 DEF Sums
<1>7. z[0] = 0
  BY <1>3, <1>5 DEF Sums
<1> QED BY <1>1, <1>2, <1>3, <1>4, <1>6, <1>7

LEMMA SumIsNat ==
    ASSUME NEW f, NEW n \in Nat, \A k \in 1..n : f[k] \in Nat
    PROVE  SumOf(f, n) \in Nat
<1> DEFINE S == {k \in Nat : k <= n => SumOf(f, k) \in Nat}
<1>1. 0 \in S
  BY SumStep
<1>2. ASSUME NEW k \in Nat, k \in S PROVE k + 1 \in S
  <2> SUFFICES ASSUME k + 1 <= n PROVE SumOf(f, k + 1) \in Nat
    OBVIOUS
  <2>1. SumOf(f, k) \in Nat /\ f[k + 1] \in Nat
    BY <1>2
  <2> QED BY <2>1, SumStep
<1> HIDE DEF S
<1>3. Nat \subseteq S
  BY <1>1, <1>2, Counting
<1>4. n \in S
  BY <1>3
<1> QED BY <1>4 DEF S

\* Where one member differs, so do the sums.
LEMMA SumChanges ==
    ASSUME NEW f, NEW g, NEW n \in Nat, NEW i \in 1..n,
           \A k \in 1..n : f[k] \in Nat /\ g[k] \in Nat,
           \A k \in 1..n : k # i => f[k] = g[k]
    PROVE  SumOf(f, n) + g[i] = SumOf(g, n) + f[i]
<1> DEFINE S == {k \in Nat : k <= n => SumOf(f, k) + (IF i <= k THEN g[i] ELSE 0)
                                     = SumOf(g, k) + (IF i <= k THEN f[i] ELSE 0)}
<1>1. 0 \in S
  BY SumStep
<1>2. ASSUME NEW k \in Nat, k \in S PROVE k + 1 \in S
  <2> SUFFICES ASSUME k + 1 <= n
               PROVE  SumOf(f, k + 1) + (IF i <= k + 1 THEN g[i] ELSE 0)
                        = SumOf(g, k + 1) + (IF i <= k + 1 THEN f[i] ELSE 0)
    OBVIOUS
  <2>1. SumOf(f, k) + (IF i <= k THEN g[i] ELSE 0) = SumOf(g, k) + (IF i <= k THEN f[i] ELSE 0)
    BY <1>2
  <2>2. SumOf(f, k) \in Nat /\ SumOf(g, k) \in Nat /\ f[k + 1] \in Nat /\ g[k + 1] \in Nat
        /\ f[i] \in Nat /\ g[i] \in Nat
    BY SumIsNat
  <2>3. SumOf(f, k + 1) = SumOf(f, k) + f[k + 1] /\ SumOf(g, k + 1) = SumOf(g, k) + g[k + 1]
    BY SumStep
  <2>4. CASE i = k + 1
    <3>1. ~(i <= k) /\ i <= k + 1
      BY <2>4
    <3>2. SumOf(f, k) = SumOf(g, k)
      BY <2>1, <2>2, <3>1
    <3> QED BY <2>2, <2>3, <2>4, <3>1, <3>2
  <2>5. CASE i # k + 1
    <3>1. f[k + 1] = g[k + 1] /\ (i <= k + 1 <=> i <= k)
      BY <2>5
    <3> QED BY <2>1, <2>2, <2>3, <3>1
  <2> QED BY <2>4, <2>5
<1> HIDE DEF S
<1>3. Nat \subseteq S
  BY <1>1, <1>2, Counting
<1>4. n \in S
  BY <1>3
<1> QED BY <1>4 DEF S

\* Member by member at most the members of two others.
LEMMA SumAtMost ==
    ASSUME NEW f, NEW g, NEW h, NEW n \in Nat,
           \A k \in 1..n : f[k] \in Nat /\ g[k] \in Nat /\ h[k] \in Nat /\ f[k] <= g[k] + h[k]
    PROVE  SumOf(f, n) <= SumOf(g, n) + SumOf(h, n)
<1> DEFINE S == {k \in Nat : k <= n => SumOf(f, k) <= SumOf(g, k) + SumOf(h, k)}
<1>1. 0 \in S
  BY SumStep
<1>2. ASSUME NEW k \in Nat, k \in S PROVE k + 1 \in S
  <2> SUFFICES ASSUME k + 1 <= n PROVE SumOf(f, k + 1) <= SumOf(g, k + 1) + SumOf(h, k + 1)
    OBVIOUS
  <2>1. SumOf(f, k) <= SumOf(g, k) + SumOf(h, k)
    BY <1>2
  <2>2. SumOf(f, k) \in Nat /\ SumOf(g, k) \in Nat /\ SumOf(h, k) \in Nat
    BY SumIsNat
  <2>3. /\ f[k + 1] \in Nat /\ g[k + 1] \in Nat /\ h[k + 1] \in Nat
        /\ f[k + 1] <= g[k + 1] + h[k + 1]
    OBVIOUS
  <2>4. /\ SumOf(f, k + 1) = SumOf(f, k) + f[k + 1] /\ SumOf(g, k + 1) = SumOf(g, k) + g[k + 1]
        /\ SumOf(h, k + 1) = SumOf(h, k) + h[k + 1]
    BY SumStep
  <2> QED BY <2>1, <2>2, <2>3, <2>4
<1> HIDE DEF S
<1>3. Nat \subseteq S
  BY <1>1, <1>2, Counting
<1>4. n \in S
  BY <1>3
<1> QED BY <1>4 DEF S

\* Members that are zero add nothing.
LEMMA SumOfZeros ==
    ASSUME NEW f, NEW n \in Nat, NEW m \in Nat, n <= m,
           \A k \in 1..m : f[k] \in Nat, \A k \in (n + 1)..m : f[k] = 0
    PROVE  SumOf(f, m) = SumOf(f, n)
<1> DEFINE S == {k \in Nat : n <= k /\ k <= m => SumOf(f, k) = SumOf(f, n)}
<1>1. 0 \in S
  <2>1. n <= 0 => n = 0
    OBVIOUS
  <2> QED BY <2>1
<1>2. ASSUME NEW k \in Nat, k \in S PROVE k + 1 \in S
  <2> SUFFICES ASSUME n <= k + 1, k + 1 <= m PROVE SumOf(f, k + 1) = SumOf(f, n)
    OBVIOUS
  <2>1. CASE n = k + 1
    BY <2>1
  <2>2. CASE n <= k
    <3>1. SumOf(f, k) = SumOf(f, n) /\ f[k + 1] = 0
      BY <1>2, <2>2
    <3>2. SumOf(f, k) \in Nat
      BY SumIsNat
    <3> QED BY <3>1, <3>2, SumStep
  <2> QED BY <2>1, <2>2
<1> HIDE DEF S
<1>3. Nat \subseteq S
  BY <1>1, <1>2, Counting
<1>4. m \in S
  BY <1>3
<1> QED BY <1>4 DEF S
-----------------------------------------------------------------------------
(* The inductive invariant                                                  *)

Entry == [item : ItemIds, batch : BatchIds, cost : Nat]

TypeInv ==
    /\ file \in [PlanIds -> Seq(Entry)] /\ synced \in [PlanIds -> Nat]
    /\ \A m \in PlanIds : synced[m] <= Len(file[m])
    /\ torn \in [PlanIds -> BOOLEAN] /\ inFlight \in [PlanIds -> BatchIds]
    /\ pc \in {"idle", "loading", "batch", "judging", "recording", "progress"}
    /\ plan \in PlanIds /\ config \in [size : Nat, limit : 0..Items]
    /\ budget \in [remaining : Nat, max : Nat] /\ cost \in Nat
    /\ batch \in [id : BatchIds, attempts : Nat, cost : Nat]
    /\ spent \in Nat /\ overrun \in BOOLEAN /\ trusted \in BOOLEAN
    /\ paid \in [once : [PlanIds -> SUBSET ItemIds], again : [PlanIds -> SUBSET ItemIds]]
    /\ commands \in Nat /\ faults \in Nat

Running == pc \in {"batch", "judging", "recording", "progress"}
AtJudge == pc \in {"judging", "recording", "progress"}

\* The cost of the batches other than b, counted as _load_state() counts it.
Without(records, b) ==
    SumOf([k \in DOMAIN records |->
              IF IsFirst(records, k) /\ records[k].batch # b THEN records[k].cost ELSE 0], Len(records))

\* What a plan may have cost: what is settled, and the reservation in flight.
Full(m)   == Without(file[m], inFlight[m]) + Reserved(inFlight[m])
Committed == SumOf([m \in PlanIds |-> Full(m)], Plans)

FilesInv ==
    \A m \in PlanIds : \A k \in 1..Len(file[m]) :
        /\ file[m][k].item \in file[m][k].batch.items
        /\ \A j \in 1..Len(file[m]) :
              file[m][j].batch = file[m][k].batch => file[m][j].cost = file[m][k].cost
        /\ overrun \/ file[m][k].cost <= Reserved(file[m][k].batch)
        /\ k <= synced[m] \/ file[m][k].batch = inFlight[m]

AtMostOne(h) ==
    /\ \A m \in PlanIds : h[m] # NoBatch => h[m].items # {}
    /\ \A m, n \in PlanIds : h[m] # NoBatch /\ h[n] # NoBatch => m = n

FlightInv ==
    /\ AtMostOne(inFlight)
    /\ Running => \A m \in PlanIds \ {plan} : inFlight[m] = NoBatch
    /\ pc = "batch" => inFlight[plan] = NoBatch
    /\ AtJudge => inFlight[plan] = batch.id /\ batch.id.items # {}
    /\ pc = "loading" => \A m \in PlanIds : m < plan => inFlight[m] = NoBatch

WorkInv ==
    /\ pc = "judging" => /\ batch.attempts < MaxAttempts
                         /\ \A k \in 1..Len(file[plan]) : file[plan][k].item \notin batch.id.items
    /\ pc \in {"recording", "progress"} =>
          /\ overrun \/ batch.cost <= Reserved(batch.id)
          /\ \A k \in 1..Len(file[plan]) :
                /\ file[plan][k].batch = batch.id => file[plan][k].cost = batch.cost
                /\ file[plan][k].item \in batch.id.items => file[plan][k].batch = batch.id
    /\ pc = "progress" => /\ synced[plan] = Len(file[plan])
                          /\ batch.id.items \subseteq Completed(plan)

MoneyInv ==
    Running =>
        /\ cost = IF pc \in {"judging", "recording"} THEN Without(file[plan], batch.id) ELSE Cost(plan)
        /\ budget.remaining <= budget.max /\ budget.max <= cost + budget.remaining
        /\ budget.remaining > 0 => budget.max + Existing <= Cap + Cost(plan)
        /\ pc \in {"judging", "recording"} => cost + Reserved(batch.id) <= budget.max

\* What the batch at the judge may have been charged.
Open == IF pc = "judging" THEN Projected(batch.id) * batch.attempts
        ELSE IF pc = "recording" THEN batch.cost ELSE 0

\* Every item of the batch in flight has its record.
Complete(m) ==
    \A i \in inFlight[m].items : \E k \in 1..Len(file[m]) :
        file[m][k].batch = inFlight[m] /\ file[m][k].item = i

PaidUp  == Running => spent + Cost(plan) <= Existing + cost + Open
Settled == ~Running /\ (\A m \in PlanIds : Complete(m)) => spent <= Existing
Covered == overrun \/ (spent <= Committed /\ Committed <= Cap)

SpendInv == PaidUp /\ Settled /\ Covered

Remembered == \A m \in PlanIds : paid.once[m] \subseteq Completed(m) \cup inFlight[m].items

PaidInv ==
    /\ Remembered
    /\ pc = "judging" /\ batch.attempts = 0 => paid.once[plan] \cap batch.id.items = {}
    /\ \A m \in PlanIds : paid.again[m] = {}

Sound == FilesInv /\ FlightInv /\ WorkInv /\ MoneyInv /\ SpendInv /\ PaidInv

AuditInv == trusted \/ Sound

ConfigInv == pc # "idle" => config.size # 0

RunInv == TypeInv /\ ConfigInv /\ AuditInv
-----------------------------------------------------------------------------
(* The cost of records                                                      *)

LEMMA Constants ==
    /\ Plans \in Nat /\ Items \in Nat /\ MaxAttempts \in Nat /\ Cap \in Nat
    /\ Plans # 0 /\ Items # 0 /\ MaxAttempts # 0 /\ Sizes \subseteq Nat /\ MaxCommands \in Nat
BY JudgeAssumption

LEMMA EntryFields ==
    ASSUME NEW es \in Seq(Entry)
    PROVE  /\ Len(es) \in Nat /\ DOMAIN es = 1..Len(es)
           /\ \A k \in 1..Len(es) : /\ es[k] \in Entry /\ es[k].item \in ItemIds
                                    /\ es[k].batch \in BatchIds /\ es[k].cost \in Nat
<1>1. \A k \in 1..Len(es) : es[k] \in Entry
  OBVIOUS
<1>2. \A e \in Entry : e.item \in ItemIds /\ e.batch \in BatchIds /\ e.cost \in Nat
  BY DEF Entry
<1> QED BY <1>1, <1>2

LEMMA CostIsNat ==
    ASSUME NEW es \in Seq(Entry), NEW b
    PROVE  /\ CostOf(es) \in Nat /\ Without(es, b) \in Nat
           /\ Without(es, b) <= CostOf(es)
<1> DEFINE n == Len(es)
           f == [k \in DOMAIN es |-> IF IsFirst(es, k) THEN es[k].cost ELSE 0]
           g == [k \in DOMAIN es |-> IF IsFirst(es, k) /\ es[k].batch # b THEN es[k].cost ELSE 0]
           z == [k \in DOMAIN es |-> 0]
<1>1. n \in Nat /\ DOMAIN es = 1..n /\ \A k \in 1..n : es[k].cost \in Nat
  BY EntryFields
<1>2. \A k \in 1..n : f[k] \in Nat /\ g[k] \in Nat /\ z[k] \in Nat /\ g[k] <= f[k] + z[k]
  BY <1>1
<1>3. \A k \in 1..n : z[k] = 0
  BY <1>1
<1>4. CostOf(es) = SumOf(f, n) /\ Without(es, b) = SumOf(g, n)
  BY DEF CostOf, Without
<1> HIDE DEF f, g, n, z
<1>5. SumOf(z, n) = SumOf(z, 0) /\ SumOf(z, 0) = 0
  BY <1>1, <1>2, <1>3, SumOfZeros, SumStep
<1>6. SumOf(f, n) \in Nat /\ SumOf(g, n) \in Nat
  BY <1>1, <1>2, SumIsNat
<1>7. SumOf(g, n) <= SumOf(f, n) + SumOf(z, n)
  BY <1>1, <1>2, SumAtMost
<1> QED BY <1>4, <1>5, <1>6, <1>7

\* Records of b at the end do not change what the others cost.
LEMMA TailOfOne ==
    ASSUME NEW es \in Seq(Entry), NEW fs \in Seq(Entry), NEW b, Len(es) <= Len(fs),
           \A k \in 1..Len(es) : fs[k] = es[k],
           \A k \in 1..Len(fs) : k > Len(es) => fs[k].batch = b
    PROVE  Without(fs, b) = Without(es, b)
<1> DEFINE n == Len(es)
           m == Len(fs)
           f == [k \in DOMAIN es |-> IF IsFirst(es, k) /\ es[k].batch # b THEN es[k].cost ELSE 0]
           g == [k \in DOMAIN fs |-> IF IsFirst(fs, k) /\ fs[k].batch # b THEN fs[k].cost ELSE 0]
<1>1. n \in Nat /\ m \in Nat /\ n <= m /\ DOMAIN es = 1..n /\ DOMAIN fs = 1..m
      /\ \A k \in 1..m : fs[k].cost \in Nat
  BY EntryFields
<1>2. \A k \in 1..n : IsFirst(es, k) <=> IsFirst(fs, k)
  <2> SUFFICES ASSUME NEW k \in 1..n PROVE IsFirst(es, k) <=> IsFirst(fs, k)
    OBVIOUS
  <2>1. \A j \in 1..(k - 1) : j \in 1..n /\ fs[j] = es[j]
    BY <1>1
  <2> QED BY <2>1 DEF IsFirst
<1>3. \A k \in 1..n : f[k] = g[k]
  BY <1>1, <1>2
<1>4. \A k \in 1..m : g[k] \in Nat
  BY <1>1
<1>5. \A k \in (n + 1)..m : g[k] = 0
  BY <1>1
<1>6. Without(fs, b) = SumOf(g, m) /\ Without(es, b) = SumOf(f, n)
  BY DEF Without
<1> HIDE DEF f, g, n, m
<1>7. SumOf(g, m) = SumOf(g, n)
  BY <1>1, <1>4, <1>5, SumOfZeros
<1>8. SumOf(f, n) = SumOf(g, n)
  BY <1>1, <1>3, SumSame
<1> QED BY <1>6, <1>7, <1>8

LEMMA CostWithoutAbsent ==
    ASSUME NEW es \in Seq(Entry), NEW b, \A k \in 1..Len(es) : es[k].batch # b
    PROVE  Without(es, b) = CostOf(es)
<1> DEFINE n == Len(es)
           f == [k \in DOMAIN es |-> IF IsFirst(es, k) THEN es[k].cost ELSE 0]
           g == [k \in DOMAIN es |-> IF IsFirst(es, k) /\ es[k].batch # b THEN es[k].cost ELSE 0]
<1>1. n \in Nat /\ DOMAIN es = 1..n
  OBVIOUS
<1>2. \A k \in 1..n : g[k] = f[k]
  BY <1>1
<1>3. CostOf(es) = SumOf(f, n) /\ Without(es, b) = SumOf(g, n)
  BY DEF CostOf, Without
<1> HIDE DEF f, g, n
<1> QED BY <1>1, <1>2, <1>3, SumSame

LEMMA SmallestOf ==
    ASSUME NEW S \in SUBSET Nat, S # {}
    PROVE  \E x \in S : \A y \in S : x <= y
<1> DEFINE R == {p \in Nat \X Nat : p[1] < p[2]}
<1>1. R = OpToRel(<, Nat)
  BY DEF OpToRel
<1>2. IsWellFoundedOn(R, Nat)
  BY <1>1, NatLessThanWellFounded
<1> HIDE DEF R
<1>3. PICK x \in S : \A y \in S : <<y, x>> \notin R
  BY <1>2, WFMin
<1>4. ASSUME NEW y \in S PROVE x <= y
  <2>1. x \in Nat /\ y \in Nat /\ (y < x => <<y, x>> \in R)
    BY DEF R
  <2> QED BY <1>3, <2>1
<1> QED BY <1>3, <1>4

\* A batch is counted once, whatever the number of its records.
LEMMA CostWithRecorded ==
    ASSUME NEW es \in Seq(Entry), NEW b, NEW c \in Nat, NEW k0 \in 1..Len(es), es[k0].batch = b,
           \A k \in 1..Len(es) : es[k].batch = b => es[k].cost = c
    PROVE  CostOf(es) = Without(es, b) + c
<1> DEFINE n == Len(es)
           f == [k \in DOMAIN es |-> IF IsFirst(es, k) THEN es[k].cost ELSE 0]
           g == [k \in DOMAIN es |-> IF IsFirst(es, k) /\ es[k].batch # b THEN es[k].cost ELSE 0]
           S == {k \in 1..n : es[k].batch = b}
<1>1. n \in Nat /\ DOMAIN es = 1..n /\ \A k \in 1..n : es[k].cost \in Nat
  BY EntryFields
<1>2. PICK i \in S : \A k \in S : i <= k
  <2>1. S \in SUBSET Nat /\ S # {}
    BY <1>1
  <2> HIDE DEF S
  <2> QED BY <2>1, SmallestOf
<1>3. i \in 1..n /\ es[i].batch = b /\ \A k \in 1..n : es[k].batch = b => i <= k
  BY <1>2
<1>4. IsFirst(es, i)
  <2> SUFFICES ASSUME NEW j \in 1..(i - 1) PROVE es[j].batch # es[i].batch
    BY DEF IsFirst
  <2>1. j \in 1..n /\ ~(i <= j)
    BY <1>1, <1>3
  <2> QED BY <1>3, <2>1
<1>5. \A k \in 1..n : IsFirst(es, k) /\ es[k].batch = b => k = i
  <2> SUFFICES ASSUME NEW k \in 1..n, IsFirst(es, k), es[k].batch = b, k # i PROVE FALSE
    OBVIOUS
  <2>1. i \in 1..(k - 1)
    BY <1>1, <1>3
  <2> QED BY <1>3, <2>1 DEF IsFirst
<1>6. f[i] = c /\ g[i] = 0
  BY <1>1, <1>3, <1>4
<1>7. \A k \in 1..n : k # i => f[k] = g[k]
  BY <1>1, <1>5
<1>8. \A k \in 1..n : f[k] \in Nat /\ g[k] \in Nat
  BY <1>1
<1>9. CostOf(es) = SumOf(f, n) /\ Without(es, b) = SumOf(g, n)
  BY DEF CostOf, Without
<1> HIDE DEF f, g, n, S
<1>10. SumOf(f, n) + g[i] = SumOf(g, n) + f[i]
  BY <1>1, <1>3, <1>7, <1>8, SumChanges
<1>11. SumOf(f, n) \in Nat /\ SumOf(g, n) \in Nat
  BY <1>1, <1>8, SumIsNat
<1> QED BY <1>6, <1>9, <1>10, <1>11

-----------------------------------------------------------------------------
(* Amounts                                                                  *)

LEMMA FiniteItems ==
    ASSUME NEW T \in SUBSET ItemIds
    PROVE  IsFiniteSet(T) /\ Cardinality(T) \in Nat
<1>1. IsFiniteSet(ItemIds)
  BY Constants, FS_Interval DEF ItemIds
<1>2. IsFiniteSet(T)
  BY <1>1, FS_Subset
<1> QED BY <1>2, FS_CardinalityType

LEMMA Product ==
    ASSUME NEW p \in Nat, NEW a \in Nat, NEW m \in Nat
    PROVE  /\ p * a \in Nat /\ p * (a + 1) = p * a + p
           /\ a <= m => p * a <= p * m
           /\ m # 0 /\ p # 0 => p * m # 0
<1>1. p * a \in Nat /\ p * (a + 1) = p * a + p
  OBVIOUS
<1>2. ASSUME a <= m PROVE p * a <= p * m
  <2>1. PICK d \in Nat : m = a + d
    <3>1. m - a \in Nat /\ m = a + (m - a)
      BY <1>2
    <3> QED BY <3>1
  <2>2. p * m = p * a + p * d /\ p * d \in Nat /\ p * a \in Nat
    BY <2>1
  <2> QED BY <2>2
<1>3. ASSUME m # 0, p # 0 PROVE p * m # 0
  BY <1>3
<1> QED BY <1>1, <1>2, <1>3

LEMMA ProjectedIsNat ==
    ASSUME NEW b \in BatchIds
    PROVE  Projected(b) \in Nat /\ Projected(b) # 0 /\ Reserved(b) \in Nat
           /\ (b # NoBatch => Reserved(b) = Projected(b) * MaxAttempts /\ Reserved(b) # 0)
<1>1. Cardinality(b.items) \in Nat
  BY FiniteItems DEF BatchIds
<1>2. Projected(b) \in Nat /\ Projected(b) # 0
  BY <1>1 DEF Projected
<1> HIDE DEF Projected
<1>3. MaxAttempts \in Nat /\ MaxAttempts # 0
  BY Constants
<1>4. Projected(b) * MaxAttempts \in Nat /\ Projected(b) * MaxAttempts # 0
  BY <1>2, <1>3, Product
<1> QED BY <1>2, <1>4 DEF Reserved

LEMMA MinIsMember ==
    ASSUME NEW T \in SUBSET ItemIds, T # {}
    PROVE  Min(T) \in T
<1>1. T \in SUBSET Nat
  BY Constants DEF ItemIds
<1>2. \E x \in T : \A y \in T : x <= y
  BY <1>1, SmallestOf
<1> QED BY <1>2 DEF Min
LEMMA CostsAreNat ==
    ASSUME TypeInv
    PROVE  /\ \A m \in PlanIds : /\ Cost(m) \in Nat /\ Full(m) \in Nat
                                 /\ Reserved(inFlight[m]) \in Nat
                                 /\ Full(m) <= Cost(m) + Reserved(inFlight[m])
           /\ Existing \in Nat /\ Committed \in Nat
<1>1. ASSUME NEW m \in PlanIds
      PROVE  /\ Cost(m) \in Nat /\ Full(m) \in Nat /\ Reserved(inFlight[m]) \in Nat
             /\ Full(m) <= Cost(m) + Reserved(inFlight[m])
  <2>1. file[m] \in Seq(Entry) /\ inFlight[m] \in BatchIds
    BY DEF TypeInv
  <2>2. /\ CostOf(file[m]) \in Nat /\ Without(file[m], inFlight[m]) \in Nat
        /\ Without(file[m], inFlight[m]) <= CostOf(file[m])
    BY <2>1, CostIsNat
  <2>3. Reserved(inFlight[m]) \in Nat
    BY <2>1, ProjectedIsNat
  <2> QED BY <2>2, <2>3 DEF Cost, Full
<1> DEFINE f == [m \in PlanIds |-> Cost(m)]
           g == [m \in PlanIds |-> Full(m)]
<1>2. \A m \in 1..Plans : f[m] \in Nat /\ g[m] \in Nat
  BY <1>1 DEF PlanIds
<1>3. Existing = SumOf(f, Plans) /\ Committed = SumOf(g, Plans)
  BY DEF Existing, Committed
<1> HIDE DEF f, g
<1>4. SumOf(f, Plans) \in Nat /\ SumOf(g, Plans) \in Nat
  BY <1>2, SumIsNat, Constants
<1> QED BY <1>1, <1>3, <1>4

-----------------------------------------------------------------------------
(* Types                                                                    *)

LEMMA ExitTypes ==
    ASSUME TypeInv, Exit
    PROVE  /\ pc' = "idle" /\ plan' \in PlanIds /\ config' \in [size : Nat, limit : 0..Items]
           /\ budget' \in [remaining : Nat, max : Nat] /\ cost' \in Nat
           /\ batch' \in [id : BatchIds, attempts : Nat, cost : Nat]
<1>1. 1 \in PlanIds /\ 0 \in 0..Items
  BY Constants DEF PlanIds
<1>2. NoBatch \in BatchIds
  BY DEF NoBatch, BatchIds
<1> QED BY <1>1, <1>2 DEF Exit, NoConfig, NoBudget, NoWork

LEMMA StartTypes ==
    ASSUME TypeInv, NEW m \in PlanIds, NEW remaining \in Nat, StartPlan(m, remaining)
    PROVE  /\ pc' = "batch" /\ plan' \in PlanIds /\ config' \in [size : Nat, limit : 0..Items]
           /\ budget' \in [remaining : Nat, max : Nat] /\ cost' \in Nat
           /\ batch' \in [id : BatchIds, attempts : Nat, cost : Nat]
<1>1. Cost(m) \in Nat
  BY CostsAreNat
<1>2. NoBatch \in BatchIds
  BY DEF NoBatch, BatchIds
<1> QED BY <1>1, <1>2 DEF StartPlan, NoWork, TypeInv

LEMMA EndTypes ==
    ASSUME TypeInv, PlanEnds
    PROVE  /\ pc' \in {"batch", "idle"} /\ plan' \in PlanIds
           /\ config' \in [size : Nat, limit : 0..Items]
           /\ budget' \in [remaining : Nat, max : Nat] /\ cost' \in Nat
           /\ batch' \in [id : BatchIds, attempts : Nat, cost : Nat]
<1>1. CASE plan < Plans
  <2> DEFINE new == cost - (budget.max - budget.remaining)
             left == IF new < budget.remaining THEN budget.remaining - new ELSE 0
  <2>1. plan + 1 \in PlanIds
    BY <1>1, Constants DEF TypeInv, PlanIds
  <2>2. left \in Nat
    BY DEF TypeInv
  <2>3. StartPlan(plan + 1, left)
    BY <1>1 DEF PlanEnds
  <2> HIDE DEF left
  <2> QED BY <2>1, <2>2, <2>3, StartTypes
<1>2. CASE ~(plan < Plans)
  BY <1>2, ExitTypes DEF PlanEnds
<1> QED BY <1>1, <1>2

LEMMA ChargeTypes ==
    ASSUME TypeInv, NEW charged \in Nat, Charge(charged)
    PROVE  /\ spent' \in Nat /\ overrun' \in BOOLEAN
           /\ paid' \in [once : [PlanIds -> SUBSET ItemIds], again : [PlanIds -> SUBSET ItemIds]]
<1>1. batch.id.items \in SUBSET ItemIds /\ plan \in PlanIds
  BY DEF TypeInv, BatchIds
<1>2. /\ paid.once \in [PlanIds -> SUBSET ItemIds] /\ paid.again \in [PlanIds -> SUBSET ItemIds]
  BY DEF TypeInv
<1>3. /\ paid'.once = [paid.once EXCEPT ![plan] = @ \cup batch.id.items]
      /\ \/ paid'.again = paid.again
         \/ paid'.again = [paid.again EXCEPT ![plan] = @ \cup (paid.once[plan] \cap batch.id.items)]
      /\ paid' = [once |-> paid'.once, again |-> paid'.again]
  BY <1>1, <1>2 DEF Charge, TypeInv
<1>4. paid'.once \in [PlanIds -> SUBSET ItemIds]
  BY <1>1, <1>2, <1>3
<1>5. paid'.again \in [PlanIds -> SUBSET ItemIds]
  BY <1>1, <1>2, <1>3
<1>6. spent' \in Nat /\ overrun' \in BOOLEAN
  BY DEF Charge, TypeInv
<1> QED BY <1>3, <1>4, <1>5, <1>6

LEMMA InitTypes == Init => TypeInv
<1> SUFFICES ASSUME Init PROVE TypeInv
  OBVIOUS
<1>1. 1 \in PlanIds /\ 0 \in 0..Items /\ NoBatch \in BatchIds
  BY Constants DEF PlanIds, NoBatch, BatchIds
<1>2. \A m \in PlanIds : file[m] = <<>> /\ synced[m] = 0
  BY DEF Init
<1>3. /\ file \in [PlanIds -> Seq(Entry)] /\ synced \in [PlanIds -> Nat]
      /\ \A m \in PlanIds : synced[m] <= Len(file[m])
  BY <1>2 DEF Init
<1>4. torn \in [PlanIds -> BOOLEAN] /\ inFlight \in [PlanIds -> BatchIds]
  BY <1>1 DEF Init
<1>5. paid \in [once : [PlanIds -> SUBSET ItemIds], again : [PlanIds -> SUBSET ItemIds]]
  BY DEF Init
<1>6. /\ pc = "idle" /\ plan \in PlanIds /\ config \in [size : Nat, limit : 0..Items]
      /\ budget \in [remaining : Nat, max : Nat] /\ cost \in Nat
      /\ batch \in [id : BatchIds, attempts : Nat, cost : Nat]
  BY <1>1 DEF Init, NoConfig, NoBudget, NoWork
<1>7. spent \in Nat /\ overrun \in BOOLEAN /\ trusted \in BOOLEAN /\ commands \in Nat /\ faults \in Nat
  BY DEF Init
<1> QED BY <1>3, <1>4, <1>5, <1>6, <1>7 DEF TypeInv

LEMMA NextBatchType ==
    ASSUME TypeInv, Pending(plan) # {}
    PROVE  /\ Pending(plan) \in SUBSET ItemIds /\ NextBatch(plan) \in BatchIds
           /\ NextBatch(plan).items \cap Completed(plan) = {}
<1>1. Pending(plan) \in SUBSET ItemIds /\ Pending(plan) \cap Completed(plan) = {}
  BY Constants DEF TypeInv, Pending, ItemIds
<1> DEFINE e == file[plan]
<1>2. e \in Seq(Entry)
  BY DEF TypeInv
<1>3. Batches(plan) = {e[k].batch : k \in 1..Len(e)}
  BY <1>2, EntryFields DEF Batches, Records
<1> DEFINE h == [k \in 1..Len(e) |-> e[k].batch]
<1>4. IsFiniteSet(1..Len(e))
  <2>1. Len(e) \in Nat
    BY <1>2, EntryFields
  <2> QED BY <2>1, FS_Interval
<1>5. h \in Surjection(1..Len(e), Batches(plan))
  BY <1>3 DEF Surjection
<1>6. IsFiniteSet(Batches(plan))
  BY <1>4, <1>5, FS_Surjection
<1>7. Cardinality(Batches(plan)) \in Nat
  BY <1>6, FS_CardinalityType
<1> QED BY <1>1, <1>7 DEF NextBatch, BatchIds
LEMMA NextTypes == TypeInv /\ [Next]_vars => TypeInv'
<1> SUFFICES ASSUME TypeInv, [Next]_vars PROVE TypeInv'
  OBVIOUS
<1> USE DEF diskVars, processVars, historyVars
<1>0. NoBatch \in BatchIds /\ 1 \in PlanIds
  BY Constants DEF PlanIds, NoBatch, BatchIds
<1>1. ASSUME NEW size \in Sizes, NEW limit \in 1..Items, Command(size, limit) PROVE TypeInv'
  <2>1. size \in Nat /\ limit \in 0..Items /\ commands + 1 \in Nat
    BY Constants DEF TypeInv
  <2> QED BY <1>0, <1>1, <2>1 DEF Command, TypeInv
<1>2. CASE Load
  <2>1. inFlight' \in [PlanIds -> BatchIds] /\ trusted' \in BOOLEAN
    BY <1>0, <1>2 DEF Load, Reconcile, TypeInv
  <2>2. CASE plan < Plans
    <3>1. plan + 1 \in PlanIds
      BY <2>2, Constants DEF TypeInv, PlanIds
    <3> QED BY <1>2, <2>1, <2>2, <3>1 DEF Load, TypeInv
  <2>3. CASE ~(plan < Plans)
    <3>1. Existing <= Cap /\ StartPlan(1, Cap - Existing)
      BY <1>2, <2>3 DEF Load
    <3>2. Existing \in Nat
      BY CostsAreNat
    <3>3. Cap - Existing \in Nat
      BY <3>1, <3>2, Constants
    <3> HIDE DEF TypeInv
    <3>4. /\ pc' = "batch" /\ plan' \in PlanIds /\ config' \in [size : Nat, limit : 0..Items]
          /\ budget' \in [remaining : Nat, max : Nat] /\ cost' \in Nat
          /\ batch' \in [id : BatchIds, attempts : Nat, cost : Nat]
      BY <1>0, <3>1, <3>3, StartTypes
    <3> QED BY <1>2, <2>1, <3>4 DEF Load, TypeInv
  <2> QED BY <2>2, <2>3
<1>3. CASE Refuse
  <2>1. inFlight' \in [PlanIds -> BatchIds] /\ trusted' \in BOOLEAN
    <3>1. \/ inFlight' = inFlight /\ trusted' = trusted
          \/ Reconcile(plan)
      BY <1>3 DEF Refuse
    <3>2. CASE Reconcile(plan)
      BY <1>0, <3>2 DEF Reconcile, TypeInv
    <3> QED BY <3>1, <3>2 DEF TypeInv
  <2>2. Exit
    BY <1>3 DEF Refuse
  <2>3. /\ pc' = "idle" /\ plan' \in PlanIds /\ config' \in [size : Nat, limit : 0..Items]
        /\ budget' \in [remaining : Nat, max : Nat] /\ cost' \in Nat
        /\ batch' \in [id : BatchIds, attempts : Nat, cost : Nat]
    BY <2>2, ExitTypes
  <2> QED BY <1>3, <2>1, <2>3 DEF Refuse, TypeInv
<1>4. CASE Exhausted
  <2>1. PlanEnds
    BY <1>4 DEF Exhausted
  <2>2. /\ pc' \in {"batch", "idle"} /\ plan' \in PlanIds
        /\ config' \in [size : Nat, limit : 0..Items]
        /\ budget' \in [remaining : Nat, max : Nat] /\ cost' \in Nat
        /\ batch' \in [id : BatchIds, attempts : Nat, cost : Nat]
    BY <2>1, EndTypes
  <2> QED BY <1>4, <2>2 DEF Exhausted, TypeInv
<1>5. CASE Dispatch
  <2> DEFINE b == NextBatch(plan)
  <2>1. b \in BatchIds
    BY <1>5, NextBatchType DEF Dispatch
  <2>2. /\ inFlight' = [inFlight EXCEPT ![plan] = b] /\ batch' = [id |-> b, attempts |-> 0, cost |-> 0]
        /\ pc' = "judging"
        /\ UNCHANGED <<file, synced, torn, plan, config, budget, cost, historyVars, commands, faults>>
    BY <1>5 DEF Dispatch
  <2> HIDE DEF b
  <2> QED BY <2>1, <2>2 DEF TypeInv
<1>6. CASE Retry
  <2>1. PICK charged \in {0, Projected(batch.id)} : Charge(charged)
    BY <1>6 DEF Retry
  <2>2. charged \in Nat
    BY <2>1, ProjectedIsNat DEF TypeInv
  <2>3. /\ spent' \in Nat /\ overrun' \in BOOLEAN
        /\ paid' \in [once : [PlanIds -> SUBSET ItemIds], again : [PlanIds -> SUBSET ItemIds]]
    BY <2>1, <2>2, ChargeTypes
  <2>4. batch' \in [id : BatchIds, attempts : Nat, cost : Nat]
    <3>1. batch \in [id : BatchIds, attempts : Nat, cost : Nat]
      BY DEF TypeInv
    <3>2. batch' = [batch EXCEPT !.attempts = @ + 1]
      BY <1>6 DEF Retry
    <3> QED BY <3>1, <3>2
  <2> QED BY <1>6, <2>3, <2>4 DEF Retry, TypeInv
<1>7. CASE Judged
  <2>0. Projected(batch.id) \in Nat /\ batch.attempts \in Nat
    BY ProjectedIsNat DEF TypeInv
  <2>1. PICK charged \in Nat, c \in Nat :
            Charge(charged) /\ batch' = [batch EXCEPT !.attempts = @ + 1, !.cost = c]
    <3>1. CASE Unanswered
      <4>1. PICK charged \in {0, Projected(batch.id)} : Charge(charged)
        BY <3>1 DEF Unanswered
      <4>2. charged \in Nat
        BY <2>0, <4>1
      <4>3. batch.attempts + 1 \in Nat
        BY <2>0
      <4>4. Projected(batch.id) * (batch.attempts + 1) \in Nat
        BY <2>0, <4>3, Product
      <4> QED BY <3>1, <4>1, <4>2, <4>4 DEF Unanswered
    <3>2. CASE ~Unanswered
      <4>1. PICK charged \in {0} \cup {Projected(batch.id) + k : k \in 0..1} : Answered(charged)
        BY <1>7, <3>2 DEF Judged
      <4>2. charged \in Nat
        BY <2>0, <4>1
      <4>3. Projected(batch.id) * batch.attempts \in Nat
        BY <2>0, Product
      <4>4. charged + Projected(batch.id) * batch.attempts \in Nat
        BY <4>2, <4>3
      <4> QED BY <4>1, <4>2, <4>4 DEF Answered
    <3> QED BY <3>1, <3>2
  <2>3. /\ spent' \in Nat /\ overrun' \in BOOLEAN
        /\ paid' \in [once : [PlanIds -> SUBSET ItemIds], again : [PlanIds -> SUBSET ItemIds]]
    BY <2>1, ChargeTypes
  <2>4. batch' \in [id : BatchIds, attempts : Nat, cost : Nat]
    <3>1. batch \in [id : BatchIds, attempts : Nat, cost : Nat]
      BY DEF TypeInv
    <3>2. batch' = [batch EXCEPT !.attempts = @ + 1, !.cost = c]
      BY <2>1
    <3>3. batch' = [id |-> batch.id, attempts |-> batch.attempts + 1, cost |-> c]
      BY <3>1, <3>2
    <3> QED BY <3>1, <3>3
  <2>5. /\ pc' = "recording"
        /\ UNCHANGED <<diskVars, plan, config, budget, cost, trusted, commands, faults>>
    BY <1>7 DEF Judged, Answered, Unanswered
  <2> QED BY <2>3, <2>4, <2>5 DEF TypeInv
<1>8. CASE Record
  <2> DEFINE row == [item |-> Min(Unwritten), batch |-> batch.id, cost |-> batch.cost]
  <2>1. Unwritten \in SUBSET ItemIds /\ Unwritten # {}
    BY <1>8 DEF Record, Unwritten, TypeInv, BatchIds
  <2>2. row \in Entry
    <3>1. Min(Unwritten) \in ItemIds
      BY <2>1, MinIsMember
    <3> QED BY <3>1 DEF TypeInv, Entry
  <2>3. file' = [file EXCEPT ![plan] = Append(@, row)]
    BY <1>8 DEF Record
  <2> HIDE DEF row
  <2>4. /\ file' \in [PlanIds -> Seq(Entry)]
        /\ \A m \in PlanIds : synced[m] <= Len(file'[m])
    BY <2>2, <2>3 DEF TypeInv
  <2> QED BY <1>8, <2>4 DEF Record, TypeInv
<1>9. CASE Sync
  <2>1. /\ synced' \in [PlanIds -> Nat]
        /\ \A m \in PlanIds : synced'[m] <= Len(file[m])
    BY <1>9 DEF Sync, TypeInv
  <2>2. cost' \in Nat
    BY <1>9 DEF Sync, TypeInv
  <2> QED BY <1>9, <2>1, <2>2 DEF Sync, TypeInv
<1>10. CASE Progress
  <2>1. inFlight' \in [PlanIds -> BatchIds]
    BY <1>0, <1>10 DEF Progress, TypeInv
  <2>2. CASE cost > budget.max
    <3>1. PlanEnds
      BY <1>10, <2>2 DEF Progress
    <3>2. /\ pc' \in {"batch", "idle"} /\ plan' \in PlanIds
          /\ config' \in [size : Nat, limit : 0..Items]
          /\ budget' \in [remaining : Nat, max : Nat] /\ cost' \in Nat
          /\ batch' \in [id : BatchIds, attempts : Nat, cost : Nat]
      BY <3>1, EndTypes
    <3> QED BY <1>10, <2>1, <3>2 DEF Progress, TypeInv
  <2>3. CASE ~(cost > budget.max)
    BY <1>0, <1>10, <2>1, <2>3 DEF Progress, TypeInv, NoWork
  <2> QED BY <2>2, <2>3
<1>11. CASE Kill
  <2>1. Exit /\ faults' \in Nat
    BY <1>11 DEF Kill, Fault, TypeInv
  <2>2. /\ pc' = "idle" /\ plan' \in PlanIds /\ config' \in [size : Nat, limit : 0..Items]
        /\ budget' \in [remaining : Nat, max : Nat] /\ cost' \in Nat
        /\ batch' \in [id : BatchIds, attempts : Nat, cost : Nat]
    BY <2>1, ExitTypes
  <2>3. torn' \in [PlanIds -> BOOLEAN]
    BY <1>11 DEF Kill, TypeInv
  <2> QED BY <1>11, <2>1, <2>2, <2>3 DEF Kill, TypeInv
<1>12. CASE PowerLoss
  <2>1. Exit /\ faults' \in Nat
    BY <1>12 DEF PowerLoss, Fault, TypeInv
  <2>2. /\ pc' = "idle" /\ plan' \in PlanIds /\ config' \in [size : Nat, limit : 0..Items]
        /\ budget' \in [remaining : Nat, max : Nat] /\ cost' \in Nat
        /\ batch' \in [id : BatchIds, attempts : Nat, cost : Nat]
    BY <2>1, ExitTypes
  <2>3. PICK kept \in [PlanIds -> 0..Items] :
          /\ \A m \in PlanIds : kept[m] \in synced[m]..Len(file[m])
          /\ file' = [m \in PlanIds |-> SubSeq(file[m], 1, kept[m])]
          /\ synced' = kept
          /\ \E cut \in SUBSET {m \in PlanIds : kept[m] < Len(file[m])} :
                torn' = [m \in PlanIds |-> torn[m] \/ m \in cut]
    BY <1>12 DEF PowerLoss
  <2>4. torn' \in [PlanIds -> BOOLEAN]
    BY <2>3 DEF TypeInv
  <2>5. ASSUME NEW m \in PlanIds
        PROVE  SubSeq(file[m], 1, kept[m]) \in Seq(Entry) /\ kept[m] \in Nat
               /\ kept[m] <= Len(SubSeq(file[m], 1, kept[m]))
    <3>1. file[m] \in Seq(Entry) /\ kept[m] \in Nat /\ kept[m] <= Len(file[m])
      BY <2>3 DEF TypeInv
    <3> QED BY <3>1, SubSeqProperties
  <2>6. /\ file' \in [PlanIds -> Seq(Entry)] /\ synced' \in [PlanIds -> Nat]
        /\ \A m \in PlanIds : synced'[m] <= Len(file'[m])
    BY <2>3, <2>5
  <2> QED BY <1>12, <2>1, <2>2, <2>4, <2>6 DEF PowerLoss, TypeInv
<1>13. CASE UNCHANGED vars
  BY <1>13 DEF vars, TypeInv
<1> QED
  BY <1>1, <1>2, <1>3, <1>4, <1>5, <1>6, <1>7, <1>8, <1>9, <1>10, <1>11, <1>12,
     <1>13
  DEF Next, Step

-----------------------------------------------------------------------------
(* All plans together                                                       *)

TotalCost(f)    == SumOf([m \in PlanIds |-> CostOf(f[m])], Plans)
TotalFull(f, h) == SumOf([m \in PlanIds |-> Without(f[m], h[m]) + Reserved(h[m])], Plans)

LEMMA Totals ==
    /\ Existing = TotalCost(file) /\ Committed = TotalFull(file, inFlight)
    /\ Existing' = TotalCost(file') /\ Committed' = TotalFull(file', inFlight')
BY DEF Existing, Committed, TotalCost, TotalFull, Cost, Full

LEMMA PlanCosts ==
    ASSUME NEW f \in [PlanIds -> Seq(Entry)], NEW h \in [PlanIds -> BatchIds], NEW m \in PlanIds
    PROVE  /\ CostOf(f[m]) \in Nat /\ Without(f[m], h[m]) \in Nat /\ Reserved(h[m]) \in Nat
           /\ Without(f[m], h[m]) <= CostOf(f[m])
BY CostIsNat, ProjectedIsNat

LEMMA TotalsAreNat ==
    ASSUME NEW f \in [PlanIds -> Seq(Entry)], NEW h \in [PlanIds -> BatchIds]
    PROVE  TotalCost(f) \in Nat /\ TotalFull(f, h) \in Nat
<1> DEFINE c == [m \in PlanIds |-> CostOf(f[m])]
           d == [m \in PlanIds |-> Without(f[m], h[m]) + Reserved(h[m])]
<1>0. \A m \in PlanIds :
        /\ CostOf(f[m]) \in Nat /\ Without(f[m], h[m]) \in Nat /\ Reserved(h[m]) \in Nat
        /\ Without(f[m], h[m]) <= CostOf(f[m])
  BY PlanCosts
<1>1. \A m \in 1..Plans : c[m] \in Nat /\ d[m] \in Nat
  BY <1>0 DEF PlanIds
<1>2. TotalCost(f) = SumOf(c, Plans) /\ TotalFull(f, h) = SumOf(d, Plans)
  BY DEF TotalCost, TotalFull
<1> HIDE DEF c, d
<1> QED BY <1>1, <1>2, SumIsNat, Constants

\* The records of one plan change.
LEMMA OneCost ==
    ASSUME NEW f \in [PlanIds -> Seq(Entry)], NEW g \in [PlanIds -> Seq(Entry)], NEW m \in PlanIds,
           \A n \in PlanIds : n # m => f[n] = g[n]
    PROVE  TotalCost(f) + CostOf(g[m]) = TotalCost(g) + CostOf(f[m])
<1> DEFINE c == [n \in PlanIds |-> CostOf(f[n])]
           d == [n \in PlanIds |-> CostOf(g[n])]
<1>1. \A n \in 1..Plans : c[n] \in Nat /\ d[n] \in Nat
  BY CostIsNat DEF PlanIds
<1>2. \A n \in 1..Plans : n # m => c[n] = d[n]
  BY DEF PlanIds
<1>3. /\ TotalCost(f) = SumOf(c, Plans) /\ TotalCost(g) = SumOf(d, Plans)
      /\ c[m] = CostOf(f[m]) /\ d[m] = CostOf(g[m]) /\ m \in 1..Plans
  BY DEF TotalCost, PlanIds
<1> HIDE DEF c, d
<1> QED BY <1>1, <1>2, <1>3, SumChanges, Constants

\* The records, or the batch in flight, of one plan change.
LEMMA OneFull ==
    ASSUME NEW f \in [PlanIds -> Seq(Entry)], NEW h \in [PlanIds -> BatchIds],
           NEW g \in [PlanIds -> Seq(Entry)], NEW j \in [PlanIds -> BatchIds], NEW m \in PlanIds,
           \A n \in PlanIds : n # m => f[n] = g[n] /\ h[n] = j[n]
    PROVE  TotalFull(f, h) + (Without(g[m], j[m]) + Reserved(j[m]))
             = TotalFull(g, j) + (Without(f[m], h[m]) + Reserved(h[m]))
<1> DEFINE c == [n \in PlanIds |-> Without(f[n], h[n]) + Reserved(h[n])]
           d == [n \in PlanIds |-> Without(g[n], j[n]) + Reserved(j[n])]
<1>0. \A i \in PlanIds :
        /\ CostOf(f[i]) \in Nat /\ Without(f[i], h[i]) \in Nat /\ Reserved(h[i]) \in Nat
        /\ Without(f[i], h[i]) <= CostOf(f[i])
        /\ CostOf(g[i]) \in Nat /\ Without(g[i], j[i]) \in Nat /\ Reserved(j[i]) \in Nat
        /\ Without(g[i], j[i]) <= CostOf(g[i])
  BY PlanCosts
<1>1. \A n \in 1..Plans : c[n] \in Nat /\ d[n] \in Nat
  <2>1. \A u, v \in Nat : u + v \in Nat
    OBVIOUS
  <2> QED BY <1>0, <2>1 DEF PlanIds
<1>2. \A n \in 1..Plans : n # m => c[n] = d[n]
  BY DEF PlanIds
<1>3. /\ TotalFull(f, h) = SumOf(c, Plans) /\ TotalFull(g, j) = SumOf(d, Plans)
      /\ c[m] = Without(f[m], h[m]) + Reserved(h[m]) /\ d[m] = Without(g[m], j[m]) + Reserved(j[m])
      /\ m \in 1..Plans
  BY DEF TotalFull, PlanIds
<1> HIDE DEF c, d
<1> QED BY <1>1, <1>2, <1>3, SumChanges, Constants

\* No plan but m has a batch in flight.
LEMMA OthersSettled ==
    ASSUME NEW f \in [PlanIds -> Seq(Entry)], NEW h \in [PlanIds -> BatchIds], NEW m \in PlanIds,
           \A n \in PlanIds : \A k \in 1..Len(f[n]) : f[n][k].batch # NoBatch,
           \A n \in PlanIds : n # m => h[n] = NoBatch
    PROVE  /\ TotalFull(f, h) + CostOf(f[m]) = TotalCost(f) + (Without(f[m], h[m]) + Reserved(h[m]))
           /\ h[m] = NoBatch => TotalFull(f, h) = TotalCost(f)
<1> DEFINE c == [n \in PlanIds |-> CostOf(f[n])]
           d == [n \in PlanIds |-> Without(f[n], h[n]) + Reserved(h[n])]
<1>0. \A i \in PlanIds :
        /\ CostOf(f[i]) \in Nat /\ Without(f[i], h[i]) \in Nat /\ Reserved(h[i]) \in Nat
        /\ Without(f[i], h[i]) <= CostOf(f[i])
  BY PlanCosts
<1>1. \A n \in 1..Plans : c[n] \in Nat /\ d[n] \in Nat
  BY <1>0 DEF PlanIds
<1>2. ASSUME NEW n \in PlanIds, h[n] = NoBatch PROVE c[n] = d[n]
  <2>1. Without(f[n], NoBatch) = CostOf(f[n])
    BY CostWithoutAbsent
  <2>2. Reserved(NoBatch) = 0
    BY DEF Reserved
  <2>3. CostOf(f[n]) \in Nat
    BY CostIsNat
  <2> QED BY <1>2, <2>1, <2>2, <2>3
<1>3. /\ TotalFull(f, h) = SumOf(d, Plans) /\ TotalCost(f) = SumOf(c, Plans)
      /\ c[m] = CostOf(f[m]) /\ d[m] = Without(f[m], h[m]) + Reserved(h[m])
      /\ m \in 1..Plans
  BY DEF TotalFull, TotalCost, PlanIds
<1> HIDE DEF c, d
<1>4. \A n \in 1..Plans : n # m => d[n] = c[n]
  BY <1>2 DEF PlanIds
<1>5. SumOf(d, Plans) + c[m] = SumOf(c, Plans) + d[m]
  BY <1>1, <1>3, <1>4, SumChanges, Constants
<1>6. ASSUME h[m] = NoBatch PROVE SumOf(d, Plans) = SumOf(c, Plans)
  <2>1. \A n \in 1..Plans : d[n] = c[n]
    BY <1>2, <1>4, <1>6 DEF PlanIds
  <2> QED BY <2>1, SumSame, Constants
<1> QED BY <1>3, <1>5, <1>6

LEMMA FullAtMost ==
    ASSUME NEW f \in [PlanIds -> Seq(Entry)], NEW h \in [PlanIds -> BatchIds]
    PROVE  TotalFull(f, h) <= TotalCost(f) + SumOf([m \in PlanIds |-> Reserved(h[m])], Plans)
<1> DEFINE c == [m \in PlanIds |-> CostOf(f[m])]
           d == [m \in PlanIds |-> Without(f[m], h[m]) + Reserved(h[m])]
           e == [m \in PlanIds |-> Reserved(h[m])]
<1>0. \A m \in PlanIds :
        /\ CostOf(f[m]) \in Nat /\ Without(f[m], h[m]) \in Nat /\ Reserved(h[m]) \in Nat
        /\ Without(f[m], h[m]) <= CostOf(f[m])
  BY PlanCosts
<1>1. \A m \in 1..Plans : c[m] \in Nat /\ d[m] \in Nat /\ e[m] \in Nat /\ d[m] <= c[m] + e[m]
  BY <1>0 DEF PlanIds
<1>2. /\ TotalCost(f) = SumOf(c, Plans) /\ TotalFull(f, h) = SumOf(d, Plans)
      /\ SumOf([m \in PlanIds |-> Reserved(h[m])], Plans) = SumOf(e, Plans)
  BY DEF TotalCost, TotalFull
<1> HIDE DEF c, d, e
<1> QED BY <1>1, <1>2, SumAtMost, Constants

LEMMA ItemsOfRows ==
    ASSUME NEW m \in PlanIds, NEW f \in [PlanIds -> Seq(Entry)]
    PROVE  /\ {r.item : r \in {f[m][k] : k \in DOMAIN f[m]}} = {f[m][k].item : k \in 1..Len(f[m])}
           /\ f[m] \in Seq(Entry) /\ Len(f[m]) \in Nat
<1>1. f[m] \in Seq(Entry)
  OBVIOUS
<1>2. DOMAIN f[m] = 1..Len(f[m]) /\ Len(f[m]) \in Nat
  BY <1>1, EntryFields
<1> QED BY <1>1, <1>2
-----------------------------------------------------------------------------
(* What the invariant says of any state                                     *)

LEMMA TypedFiles ==
    ASSUME TypeInv
    PROVE  /\ file \in [PlanIds -> Seq(Entry)] /\ inFlight \in [PlanIds -> BatchIds]
           /\ plan \in PlanIds /\ batch.id \in BatchIds /\ batch.attempts \in Nat /\ batch.cost \in Nat
           /\ spent \in Nat /\ cost \in Nat /\ Existing \in Nat /\ Committed \in Nat
           /\ \A m \in PlanIds : /\ file[m] \in Seq(Entry) /\ Len(file[m]) \in Nat
                                 /\ inFlight[m] \in BatchIds /\ Cost(m) \in Nat
                                 /\ synced[m] \in Nat /\ synced[m] <= Len(file[m])
<1>1. \A m \in PlanIds : file[m] \in Seq(Entry) /\ Len(file[m]) \in Nat /\ inFlight[m] \in BatchIds
  BY EntryFields DEF TypeInv
<1> QED BY <1>1, CostsAreNat DEF TypeInv

LEMMA NoRowOfNone ==
    ASSUME FilesInv
    PROVE  \A m \in PlanIds : \A k \in 1..Len(file[m]) : file[m][k].batch # NoBatch
BY DEF FilesInv, NoBatch

LEMMA RecordedCost ==
    ASSUME TypeInv, FilesInv, NEW m \in PlanIds, NEW k \in 1..Len(file[m]), file[m][k].batch = inFlight[m]
    PROVE  /\ Cost(m) = Without(file[m], inFlight[m]) + file[m][k].cost
           /\ overrun \/ Cost(m) <= Full(m)
<1>1. file[m] \in Seq(Entry) /\ inFlight[m] \in BatchIds
  BY TypedFiles
<1>2. file[m][k].cost \in Nat
  BY <1>1, EntryFields
<1>3. \A j \in 1..Len(file[m]) : file[m][j].batch = inFlight[m] => file[m][j].cost = file[m][k].cost
  BY DEF FilesInv
<1>4. CostOf(file[m]) = Without(file[m], inFlight[m]) + file[m][k].cost
  BY <1>1, <1>2, <1>3, CostWithRecorded
<1>5. overrun \/ file[m][k].cost <= Reserved(inFlight[m])
  BY DEF FilesInv
<1>6. Without(file[m], inFlight[m]) \in Nat /\ Reserved(inFlight[m]) \in Nat
  BY <1>1, CostIsNat, ProjectedIsNat
<1> QED BY <1>2, <1>4, <1>5, <1>6 DEF Cost, Full

\* Where every batch in flight has its records, they say what was spent.
LEMMA CompleteIsPaid ==
    ASSUME TypeInv, FilesInv, FlightInv, WorkInv, MoneyInv, SpendInv, \A m \in PlanIds : Complete(m)
    PROVE  spent <= Existing
<1>0. Cost(plan) \in Nat /\ Existing \in Nat /\ spent \in Nat /\ cost \in Nat /\ plan \in PlanIds
      /\ batch.cost \in Nat
  BY TypedFiles
<1>1. CASE ~Running
  BY <1>1 DEF SpendInv, Settled
<1>2. CASE pc \in {"batch", "progress"}
  <2>1. cost = Cost(plan) /\ spent + Cost(plan) <= Existing + cost + Open /\ Open = 0
    BY <1>2 DEF MoneyInv, SpendInv, PaidUp, Running, Open
  <2> QED BY <1>0, <2>1
<1>3. CASE pc \in {"judging", "recording"}
  <2>1. inFlight[plan] = batch.id /\ batch.id.items # {}
    BY <1>3 DEF FlightInv, AtJudge
  <2>2. PICK k \in 1..Len(file[plan]) : file[plan][k].batch = inFlight[plan]
                                       /\ file[plan][k].item \in batch.id.items
    BY <1>0, <2>1 DEF Complete
  <2>3. pc = "recording"
    BY <1>3, <2>2 DEF WorkInv
  <2>4. file[plan][k].cost = batch.cost
    BY <2>1, <2>2, <2>3 DEF WorkInv
  <2>5. Cost(plan) = Without(file[plan], inFlight[plan]) + batch.cost
    BY <1>0, <2>2, <2>4, RecordedCost
  <2>6. cost = Without(file[plan], batch.id) /\ spent + Cost(plan) <= Existing + cost + batch.cost
    BY <2>3 DEF MoneyInv, SpendInv, PaidUp, Running, Open
  <2> QED BY <1>0, <2>1, <2>5, <2>6
<1> QED BY <1>1, <1>2, <1>3 DEF Running

LEMMA NothingInFlight ==
    ASSUME TypeInv, FilesInv, NEW m \in PlanIds, \A n \in PlanIds : inFlight[n] = NoBatch
    PROVE  Committed = Existing /\ Complete(m)
<1>1. TotalFull(file, inFlight) = TotalCost(file)
  BY TypedFiles, NoRowOfNone, OthersSettled
<1> QED BY <1>1, Totals DEF Complete, NoBatch

\* A plan starts with nothing in flight and what is left of the cap.
LEMMA Starts ==
    ASSUME TypeInv, TypeInv', NEW m \in PlanIds, NEW remaining \in Nat, StartPlan(m, remaining),
           file' = file, \A n \in PlanIds : inFlight'[n] = NoBatch, spent' = spent, spent <= Existing,
           remaining > 0 => remaining + Existing <= Cap
    PROVE  FlightInv' /\ WorkInv' /\ MoneyInv' /\ PaidUp' /\ Settled' /\ pc' = "batch"
<1>1. Cost(m) \in Nat /\ Existing \in Nat /\ spent \in Nat /\ Cap \in Nat
  BY TypedFiles, Constants
<1>2. /\ pc' = "batch" /\ plan' = m /\ cost' = Cost(m)
      /\ budget'.remaining = remaining /\ budget'.max = Cost(m) + remaining
  BY DEF StartPlan
<1>3. Existing' = Existing /\ Cost(plan)' = Cost(m)
  BY <1>2 DEF Existing, Cost
<1>4. FlightInv'
  BY <1>2 DEF FlightInv, AtMostOne, Running, AtJudge
<1>5. WorkInv'
  BY <1>2 DEF WorkInv
<1>6. MoneyInv'
  <2>1. cost' = Cost(plan)'
    BY <1>2, <1>3
  <2>2. budget'.remaining <= budget'.max /\ budget'.max <= cost' + budget'.remaining
    BY <1>1, <1>2
  <2>3. budget'.remaining > 0 => budget'.max + Existing' <= Cap + Cost(plan)'
    BY <1>1, <1>2, <1>3
  <2> QED BY <1>2, <2>1, <2>2, <2>3 DEF MoneyInv
<1>7. PaidUp'
  <2>1. Open' = 0
    BY <1>2 DEF Open
  <2>2. spent' + Cost(plan)' <= Existing' + cost' + Open'
    BY <1>1, <1>2, <1>3, <2>1
  <2> QED BY <2>2 DEF PaidUp
<1>8. Settled'
  BY <1>2 DEF Settled, Running
<1> QED BY <1>2, <1>4, <1>5, <1>6, <1>7, <1>8

\* A command that ends leaves a batch in flight at most.
LEMMA Ends ==
    ASSUME pc' = "idle", AtMostOne(inFlight')
    PROVE  FlightInv' /\ WorkInv' /\ MoneyInv' /\ PaidUp'
BY DEF FlightInv, WorkInv, MoneyInv, PaidUp, Running, AtJudge

\* The next plan, with what this one has left, or the end of the command.
LEMMA PlanEndsSoundly ==
    ASSUME TypeInv, TypeInv', pc \in {"batch", "progress"}, MoneyInv, PaidUp, PlanEnds,
           file' = file, \A n \in PlanIds : inFlight'[n] = NoBatch, spent' = spent
    PROVE  FlightInv' /\ WorkInv' /\ MoneyInv' /\ PaidUp' /\ Settled' /\ pc' \in {"batch", "idle"}
<1>0. Cost(plan) \in Nat /\ Existing \in Nat /\ spent \in Nat /\ cost \in Nat /\ plan \in PlanIds
      /\ Cap \in Nat /\ Plans \in Nat
  BY TypedFiles, Constants
<1>1. budget.remaining \in Nat /\ budget.max \in Nat
  BY DEF TypeInv
<1>2. /\ cost = Cost(plan) /\ budget.remaining <= budget.max /\ budget.max <= cost + budget.remaining
      /\ budget.remaining > 0 => budget.max + Existing <= Cap + Cost(plan)
      /\ spent + Cost(plan) <= Existing + cost + Open /\ Open = 0
  BY DEF MoneyInv, PaidUp, Running, Open
<1>3. spent <= Existing
  BY <1>0, <1>2
<1>4. CASE plan < Plans
  <2> DEFINE new  == cost - (budget.max - budget.remaining)
             left == IF new < budget.remaining THEN budget.remaining - new ELSE 0
  <2>1. StartPlan(plan + 1, left)
    BY <1>4 DEF PlanEnds
  <2>2. new \in Nat
    BY <1>0, <1>1, <1>2
  <2>3. left \in Nat
    BY <1>1, <2>2
  <2>4. ASSUME left > 0 PROVE left + Existing <= Cap
    <3>1. new < budget.remaining /\ left = budget.max - cost
      BY <1>0, <1>1, <2>4
    <3>2. budget.remaining > 0
      BY <1>1, <2>2, <3>1
    <3>3. budget.max + Existing <= Cap + cost
      BY <1>2, <3>2
    <3> HIDE DEF left, new
    <3> QED BY <1>0, <1>1, <3>1, <3>3
  <2>5. plan + 1 \in PlanIds
    BY <1>0, <1>4 DEF PlanIds
  <2> HIDE DEF left, new
  <2>6. FlightInv' /\ WorkInv' /\ MoneyInv' /\ PaidUp' /\ Settled' /\ pc' = "batch"
    BY <1>3, <2>1, <2>3, <2>4, <2>5, Starts
  <2> QED BY <2>6
<1>5. CASE ~(plan < Plans)
  <2>1. pc' = "idle"
    BY <1>5 DEF PlanEnds, Exit
  <2>2. AtMostOne(inFlight')
    BY DEF AtMostOne
  <2>3. Existing' = Existing
    BY DEF Existing, Cost
  <2>4. Settled'
    BY <1>3, <2>3 DEF Settled
  <2> QED BY <2>1, <2>2, <2>4, Ends
<1> QED BY <1>4, <1>5

\* The batch of a plan is let go once its records are in the file.
LEMMA Releases ==
    ASSUME TypeInv, TypeInv', FilesInv, FlightInv, SpendInv, Remembered,
           NEW m \in PlanIds, Complete(m), inFlight' = [inFlight EXCEPT ![m] = NoBatch],
           file' = file, synced' = synced, spent' = spent, overrun' = overrun, paid' = paid,
           inFlight[m] # NoBatch => synced[m] = Len(file[m]) /\ spent <= Existing
    PROVE  FilesInv' /\ Covered' /\ Remembered' /\ AtMostOne(inFlight')
<1>0. /\ file \in [PlanIds -> Seq(Entry)] /\ inFlight \in [PlanIds -> BatchIds]
      /\ inFlight' \in [PlanIds -> BatchIds]
      /\ spent \in Nat /\ Existing \in Nat /\ Committed \in Nat
  BY TypedFiles DEF TypeInv
<1>1. inFlight'[m] = NoBatch /\ \A n \in PlanIds : n # m => inFlight'[n] = inFlight[n]
  BY <1>0
<1>2. AtMostOne(inFlight')
  BY <1>1 DEF AtMostOne, FlightInv
<1>3. Remembered'
  <2> SUFFICES ASSUME NEW n \in PlanIds
               PROVE  paid.once[n] \subseteq Completed(n)' \cup inFlight'[n].items
    BY DEF Remembered
  <2>1. Completed(n)' = Completed(n)
    BY DEF Completed, Records
  <2>2. paid.once[n] \subseteq Completed(n) \cup inFlight[n].items
    BY DEF Remembered
  <2>3. ASSUME n = m PROVE inFlight[n].items \subseteq Completed(n)
    <3>1. Completed(m) = {file[m][k].item : k \in 1..Len(file[m])}
      BY <1>0, ItemsOfRows DEF Completed, Records
    <3> QED BY <2>3, <3>1 DEF Complete
  <2> QED BY <1>1, <2>1, <2>2, <2>3
<1>4. CASE inFlight[m] = NoBatch
  <2>1. inFlight' = inFlight
    BY <1>0, <1>4
  <2>2. Committed' = Committed
    BY <2>1 DEF Committed, Full
  <2>3. FilesInv'
    BY <2>1 DEF FilesInv
  <2> QED BY <1>2, <1>3, <2>2, <2>3 DEF Covered, SpendInv
<1>5. CASE inFlight[m] # NoBatch
  <2>1. synced[m] = Len(file[m]) /\ spent <= Existing /\ inFlight[m].items # {}
    BY <1>5 DEF FlightInv, AtMostOne
  <2>2. \A n \in PlanIds : inFlight'[n] = NoBatch
    BY <1>1, <1>5 DEF FlightInv, AtMostOne
  <2>3. FilesInv'
    <3> SUFFICES ASSUME NEW n \in PlanIds, NEW k \in 1..Len(file[n])
                 PROVE  /\ file[n][k].item \in file[n][k].batch.items
                        /\ \A j \in 1..Len(file[n]) :
                              file[n][j].batch = file[n][k].batch => file[n][j].cost = file[n][k].cost
                        /\ overrun \/ file[n][k].cost <= Reserved(file[n][k].batch)
                        /\ k <= synced[n] \/ file[n][k].batch = inFlight'[n]
      BY DEF FilesInv
    <3>1. k <= synced[n] \/ file[n][k].batch = inFlight[n]
      BY DEF FilesInv
    <3>2. n = m => k <= synced[n]
      BY <1>0, <2>1
    <3> QED BY <1>1, <3>1, <3>2 DEF FilesInv
  <2>4. PICK k \in 1..Len(file[m]) : file[m][k].batch = inFlight[m]
    BY <2>1 DEF Complete
  <2>5. overrun \/ Cost(m) <= Full(m)
    BY <2>4, RecordedCost
  <2>6. Committed' = Existing
    <3>1. TotalFull(file, inFlight') = TotalCost(file)
      BY <1>0, <2>2, NoRowOfNone, OthersSettled
    <3> QED BY <3>1, Totals
  <2>7. Committed + Cost(m) = Existing + Full(m)
    <3>1. \A n \in PlanIds : n # m => inFlight[n] = NoBatch
      BY <1>1, <2>2
    <3>2. \A n \in PlanIds : \A i \in 1..Len(file[n]) : file[n][i].batch # NoBatch
      BY <1>0, NoRowOfNone
    <3>3. TotalFull(file, inFlight) + CostOf(file[m])
            = TotalCost(file) + (Without(file[m], inFlight[m]) + Reserved(inFlight[m]))
      <4>1. file \in [PlanIds -> Seq(Entry)] /\ inFlight \in [PlanIds -> BatchIds]
        BY <1>0
      <4> QED BY ONLY <3>1, <3>2, <4>1, m \in PlanIds, OthersSettled
    <3> QED BY <3>3, Totals DEF Cost, Full
  <2>8. Cost(m) \in Nat /\ Full(m) \in Nat /\ Cap \in Nat
    BY CostsAreNat, Constants
  <2>9. Covered'
    <3> SUFFICES ASSUME ~overrun PROVE spent <= Committed' /\ Committed' <= Cap
      BY DEF Covered
    <3>1. Committed <= Cap
      BY DEF SpendInv, Covered
    <3>2. Existing <= Committed
      BY <1>0, <2>5, <2>7, <2>8
    <3>3. Existing <= Cap
      BY <1>0, <2>8, <3>1, <3>2
    <3> QED BY <2>1, <2>6, <3>3
  <2> QED BY <1>2, <1>3, <2>3, <2>9
<1> QED BY <1>4, <1>5
-----------------------------------------------------------------------------
(* The steps                                                                *)

\* The files and the batches in flight are as before.
LEMMA SameDisk ==
    ASSUME TypeInv, FilesInv, FlightInv, file' = file, synced' = synced, inFlight' = inFlight,
           overrun => overrun'
    PROVE  /\ FilesInv' /\ Existing' = Existing /\ Committed' = Committed /\ AtMostOne(inFlight')
           /\ \A m \in PlanIds : Cost(m)' = Cost(m) /\ Completed(m)' = Completed(m)
           /\ \A m \in PlanIds : Complete(m)' <=> Complete(m)
<1>1. Existing' = Existing /\ Committed' = Committed
  BY DEF Existing, Committed, Cost, Full
<1>2. \A m \in PlanIds : Cost(m)' = Cost(m) /\ Completed(m)' = Completed(m)
  BY DEF Cost, Completed, Records
<1>4. \A m \in PlanIds : Complete(m)' <=> Complete(m)
  BY DEF Complete
<1>3. FilesInv'
  <2> SUFFICES ASSUME NEW n \in PlanIds, NEW k \in 1..Len(file[n])
               PROVE  /\ file[n][k].item \in file[n][k].batch.items
                      /\ \A j \in 1..Len(file[n]) :
                            file[n][j].batch = file[n][k].batch => file[n][j].cost = file[n][k].cost
                      /\ overrun' \/ file[n][k].cost <= Reserved(file[n][k].batch)
                      /\ k <= synced[n] \/ file[n][k].batch = inFlight[n]
    BY DEF FilesInv
  <2>1. overrun \/ file[n][k].cost <= Reserved(file[n][k].batch)
    BY DEF FilesInv
  <2>2. overrun' \/ file[n][k].cost <= Reserved(file[n][k].batch)
    BY <2>1
  <2>3. /\ file[n][k].item \in file[n][k].batch.items
        /\ \A j \in 1..Len(file[n]) :
              file[n][j].batch = file[n][k].batch => file[n][j].cost = file[n][k].cost
        /\ k <= synced[n] \/ file[n][k].batch = inFlight[n]
    BY DEF FilesInv
  <2> QED BY <2>2, <2>3
<1>5. AtMostOne(inFlight')
  BY DEF FlightInv
<1> QED BY <1>1, <1>2, <1>3, <1>4, <1>5, Zenon

\* A command ends, however it ends, with its files as they are.
LEMMA Stops ==
    ASSUME TypeInv, FilesInv, FlightInv, WorkInv, MoneyInv, SpendInv, Remembered, pc' = "idle",
           file' = file, synced' = synced, inFlight' = inFlight,
           spent' = spent, overrun' = overrun, paid' = paid, \A m \in PlanIds : paid.again[m] = {}
    PROVE  Sound'
<1>1. /\ FilesInv' /\ Existing' = Existing /\ Committed' = Committed /\ AtMostOne(inFlight')
      /\ \A m \in PlanIds : Cost(m)' = Cost(m) /\ Completed(m)' = Completed(m)
      /\ \A m \in PlanIds : Complete(m)' <=> Complete(m)
  BY SameDisk
<1>2. FlightInv' /\ WorkInv' /\ MoneyInv' /\ PaidUp'
  BY <1>1, Ends
<1>3. Settled'
  BY <1>1, CompleteIsPaid DEF Settled
<1>4. Covered'
  BY <1>1 DEF SpendInv, Covered
<1>5. PaidInv'
  BY <1>1 DEF PaidInv, Remembered
<1> QED BY <1>1, <1>2, <1>3, <1>4, <1>5 DEF Sound, SpendInv

LEMMA CommandStep ==
    ASSUME TypeInv, TypeInv', Sound, NEW size, NEW limit, Command(size, limit)
    PROVE  Sound'
<1> USE DEF diskVars, historyVars
<1>0. FilesInv /\ FlightInv /\ SpendInv /\ PaidInv /\ pc = "idle"
  BY DEF Sound, Command
<1>1. /\ FilesInv' /\ Existing' = Existing /\ Committed' = Committed /\ AtMostOne(inFlight')
      /\ \A m \in PlanIds : Cost(m)' = Cost(m) /\ Completed(m)' = Completed(m)
      /\ \A m \in PlanIds : Complete(m)' <=> Complete(m)
  BY <1>0, SameDisk DEF Command
<1>2. pc' = "loading" /\ plan' = 1 /\ \A m \in PlanIds : ~(m < 1)
  BY DEF Command, PlanIds
<1>3. FlightInv' /\ WorkInv' /\ MoneyInv' /\ PaidUp'
  BY <1>1, <1>2 DEF FlightInv, WorkInv, MoneyInv, PaidUp, Running, AtJudge
<1>4. Settled' /\ Covered'
  BY <1>0, <1>1 DEF Command, SpendInv, Settled, Covered, Running
<1>5. PaidInv'
  BY <1>0, <1>1, <1>2 DEF Command, PaidInv, Remembered
<1> QED BY <1>1, <1>3, <1>4, <1>5 DEF Sound, SpendInv

LEMMA ResolvedIsComplete ==
    ASSUME TypeInv, NEW m \in PlanIds, Resolved(m)
    PROVE  Complete(m)
<1>1. file[m] \in Seq(Entry) /\ DOMAIN file[m] = 1..Len(file[m])
  BY TypedFiles
<1> QED BY <1>1 DEF Resolved, Complete, Records

\* _validate_metadata() lets go of the batch of a plan.
LEMMA Reconciles ==
    ASSUME TypeInv, TypeInv', Sound, ~trusted', pc = "loading", Resolved(plan), Reconcile(plan),
           file' = file, synced' = synced, spent' = spent, overrun' = overrun, paid' = paid
    PROVE  /\ FilesInv' /\ Covered' /\ Remembered' /\ AtMostOne(inFlight')
           /\ \A m \in PlanIds : m <= plan => inFlight'[m] = NoBatch
           /\ (\A m \in PlanIds : Complete(m)') => spent <= Existing
<1> USE DEF Sound
<1>0. plan \in PlanIds /\ PlanIds \subseteq Nat /\ \A m \in PlanIds : synced[m] \in Nat /\ Len(file[m]) \in Nat
                           /\ synced[m] <= Len(file[m])
  BY TypedFiles DEF PlanIds
<1>1. Complete(plan)
  BY <1>0, ResolvedIsComplete
<1>2. inFlight' = [inFlight EXCEPT ![plan] = NoBatch]
  BY DEF Reconcile
<1>3. inFlight'[plan] = NoBatch /\ \A m \in PlanIds : m # plan => inFlight'[m] = inFlight[m]
  BY <1>0, <1>2, TypedFiles
<1>4. \A m \in PlanIds : m <= plan => inFlight'[m] = NoBatch
  BY <1>0, <1>3 DEF FlightInv
<1>5. ASSUME inFlight[plan] # NoBatch PROVE synced[plan] = Len(file[plan]) /\ spent <= Existing
  <2>1. ~(synced[plan] < Len(file[plan]))
    BY <1>5 DEF Reconcile
  <2>2. \A m \in PlanIds : Complete(m)
    <3>1. \A m \in PlanIds : m # plan => inFlight[m] = NoBatch
      BY <1>0, <1>5 DEF FlightInv, AtMostOne
    <3>2. NoBatch.items = {}
      BY DEF NoBatch
    <3> QED BY <1>1, <3>1, <3>2 DEF Complete
  <2> QED BY <1>0, <2>1, <2>2, CompleteIsPaid
<1>6. FilesInv' /\ Covered' /\ Remembered' /\ AtMostOne(inFlight')
  BY <1>0, <1>1, <1>2, <1>5, Releases DEF PaidInv
<1>7. ASSUME \A m \in PlanIds : Complete(m)' PROVE spent <= Existing
  <2>1. \A m \in PlanIds : Complete(m)
    BY <1>1, <1>3, <1>7 DEF Complete
  <2> QED BY <2>1, CompleteIsPaid
<1> QED BY <1>4, <1>6, <1>7

LEMMA LoadStep ==
    ASSUME TypeInv, TypeInv', Sound, ~trusted', Load
    PROVE  Sound'
<1>0. /\ pc = "loading" /\ Resolved(plan) /\ Reconcile(plan)
      /\ file' = file /\ synced' = synced /\ spent' = spent /\ overrun' = overrun /\ paid' = paid
      /\ plan \in PlanIds /\ Plans \in Nat
  BY TypedFiles, Constants DEF Load
<1>1. /\ FilesInv' /\ Covered' /\ Remembered' /\ AtMostOne(inFlight')
      /\ \A m \in PlanIds : m <= plan => inFlight'[m] = NoBatch
      /\ (\A m \in PlanIds : Complete(m)') => spent <= Existing
  BY <1>0, Reconciles
<1>2. Existing' = Existing
  BY <1>0 DEF Existing, Cost
<1>3. FlightInv' /\ WorkInv' /\ MoneyInv' /\ PaidUp' /\ Settled' /\ pc' # "judging"
  <2>1. CASE plan < Plans
    <3>1. pc' = "loading" /\ plan' = plan + 1
      BY <1>0, <2>1 DEF Load
    <3>2. \A m \in PlanIds : m < plan + 1 => m <= plan
      BY <1>0 DEF PlanIds
    <3> QED
      BY <1>0, <1>1, <1>2, <3>1, <3>2
      DEF FlightInv, WorkInv, MoneyInv, PaidUp, Settled, Running, AtJudge
  <2>2. CASE ~(plan < Plans)
    <3>1. \A m \in PlanIds : inFlight'[m] = NoBatch
      BY <1>0, <1>1, <2>2 DEF PlanIds
    <3>2. Existing <= Cap /\ StartPlan(1, Cap - Existing)
      BY <2>2 DEF Load
    <3>3. \A m \in PlanIds : Complete(m)'
      BY <3>1 DEF Complete, NoBatch
    <3>4. Existing \in Nat /\ Cap \in Nat
      BY TypedFiles, Constants
    <3>5. Cap - Existing \in Nat /\ (Cap - Existing) + Existing <= Cap /\ 1 \in PlanIds
      BY <3>2, <3>4, Constants DEF PlanIds
    <3>6. FlightInv' /\ WorkInv' /\ MoneyInv' /\ PaidUp' /\ Settled' /\ pc' = "batch"
      BY <1>0, <1>1, <3>1, <3>2, <3>3, <3>5, Starts
    <3> QED BY <3>6
  <2> QED BY <2>1, <2>2
<1>4. PaidInv'
  BY <1>0, <1>1, <1>3 DEF PaidInv, Sound
<1> QED BY <1>1, <1>3, <1>4 DEF Sound, SpendInv

LEMMA RefuseStep ==
    ASSUME TypeInv, TypeInv', Sound, ~trusted', Refuse
    PROVE  Sound'
<1>0. /\ pc = "loading" /\ pc' = "idle" /\ file' = file /\ synced' = synced
      /\ spent' = spent /\ overrun' = overrun /\ paid' = paid
  BY DEF Refuse, Exit
<1>1. CASE inFlight' = inFlight
  BY <1>0, <1>1, Stops DEF Sound, PaidInv
<1>2. CASE Resolved(plan) /\ Reconcile(plan)
  <2>1. /\ FilesInv' /\ Covered' /\ Remembered' /\ AtMostOne(inFlight')
        /\ (\A m \in PlanIds : Complete(m)') => spent <= Existing
    BY <1>0, <1>2, Reconciles
  <2>2. Existing' = Existing
    BY <1>0 DEF Existing, Cost
  <2>3. FlightInv' /\ WorkInv' /\ MoneyInv' /\ PaidUp'
    BY <1>0, <2>1, Ends
  <2>4. Settled'
    BY <1>0, <2>1, <2>2 DEF Settled
  <2>5. PaidInv'
    BY <1>0, <2>1 DEF PaidInv, Sound
  <2> QED BY <2>1, <2>3, <2>4, <2>5 DEF Sound, SpendInv
<1> QED BY <1>1, <1>2 DEF Refuse

LEMMA ExhaustedStep ==
    ASSUME TypeInv, TypeInv', Sound, Exhausted
    PROVE  Sound'
<1> USE DEF diskVars, historyVars
<1>0. /\ pc = "batch" /\ PlanEnds /\ file' = file /\ synced' = synced /\ inFlight' = inFlight
      /\ spent' = spent /\ overrun' = overrun /\ paid' = paid
  BY DEF Exhausted
<1>1. /\ FilesInv' /\ Existing' = Existing /\ Committed' = Committed /\ AtMostOne(inFlight')
      /\ \A m \in PlanIds : Cost(m)' = Cost(m) /\ Completed(m)' = Completed(m)
      /\ \A m \in PlanIds : Complete(m)' <=> Complete(m)
  BY <1>0, SameDisk DEF Sound
<1>2. \A n \in PlanIds : inFlight'[n] = NoBatch
  BY <1>0 DEF Sound, FlightInv, Running
<1>3. FlightInv' /\ WorkInv' /\ MoneyInv' /\ PaidUp' /\ Settled' /\ pc' \in {"batch", "idle"}
  BY <1>0, <1>2, PlanEndsSoundly DEF Sound, SpendInv
<1>4. Covered'
  BY <1>0, <1>1 DEF Sound, SpendInv, Covered
<1>5. PaidInv'
  BY <1>0, <1>1, <1>3 DEF Sound, PaidInv, Remembered
<1> QED BY <1>1, <1>3, <1>4, <1>5 DEF Sound, SpendInv

LEMMA DispatchStep ==
    ASSUME TypeInv, TypeInv', ConfigInv, Sound, Dispatch
    PROVE  Sound'
<1> USE DEF historyVars
<1>0. FilesInv /\ FlightInv /\ MoneyInv /\ SpendInv /\ PaidInv /\ pc = "batch"
  BY DEF Sound, Dispatch
<1>1. PICK b : /\ b = NextBatch(plan) /\ Fits(b)
               /\ inFlight' = [inFlight EXCEPT ![plan] = b]
               /\ batch' = [id |-> b, attempts |-> 0, cost |-> 0]
  BY DEF Dispatch
<1>2. /\ pc' = "judging" /\ file' = file /\ synced' = synced /\ plan' = plan /\ budget' = budget
      /\ cost' = cost /\ spent' = spent /\ overrun' = overrun /\ paid' = paid
  BY DEF Dispatch
<1>3. b \in BatchIds /\ b.items \cap Completed(plan) = {} /\ b.items # {}
  <2>1. Pending(plan) # {}
    BY DEF Dispatch
  <2>2. b \in BatchIds /\ b.items \cap Completed(plan) = {} /\ Pending(plan) \in SUBSET Nat
    BY <1>1, <2>1, NextBatchType DEF ItemIds
  <2>3. PICK i \in Pending(plan) : \A j \in Pending(plan) : i <= j
    BY <2>1, <2>2, SmallestOf
  <2>4. {j \in Pending(plan) : j < i} = {}
    BY <2>2, <2>3
  <2>5. config.size # 0 /\ config.size \in Nat
    BY <1>0 DEF TypeInv, ConfigInv
  <2>6. Cardinality({j \in Pending(plan) : j < i}) = 0
    BY <2>4, FS_EmptySet
  <2>7. i \in b.items
    BY <1>1, <2>3, <2>5, <2>6 DEF NextBatch
  <2> QED BY <2>2, <2>7
<1>4. Projected(b) \in Nat /\ Reserved(b) \in Nat /\ Reserved(b) # 0 /\ b # NoBatch
  BY <1>3, ProjectedIsNat DEF NoBatch
<1>5. /\ inFlight[plan] = NoBatch /\ \A m \in PlanIds : inFlight[m] = NoBatch
      /\ inFlight'[plan] = b /\ \A m \in PlanIds \ {plan} : inFlight'[m] = NoBatch
  BY <1>0, <1>1, TypedFiles DEF FlightInv, Running
<1>6. plan \in PlanIds /\ file \in [PlanIds -> Seq(Entry)] /\ inFlight' \in [PlanIds -> BatchIds]
      /\ inFlight \in [PlanIds -> BatchIds]
      /\ Existing \in Nat /\ Cost(plan) \in Nat /\ spent \in Nat /\ cost \in Nat /\ Cap \in Nat
      /\ budget.max \in Nat /\ budget.remaining \in Nat
  BY TypedFiles, Constants DEF TypeInv
<1>7. /\ batch'.id = b /\ batch'.attempts = 0 /\ Existing' = Existing
      /\ \A m \in PlanIds : Cost(m)' = Cost(m) /\ Completed(m)' = Completed(m)
  BY <1>1, <1>2 DEF Existing, Cost, Completed, Records
<1>8. /\ cost = Cost(plan) /\ budget.remaining <= budget.max /\ budget.max <= cost + budget.remaining
      /\ budget.remaining > 0 => budget.max + Existing <= Cap + Cost(plan)
      /\ spent + Cost(plan) <= Existing + cost + Open /\ Open = 0
      /\ cost + Reserved(b) <= budget.max
  BY <1>0, <1>1 DEF MoneyInv, SpendInv, PaidUp, Running, Open, Fits
<1>9. /\ spent <= Existing /\ Existing + Reserved(b) <= Cap
  <2>1. spent <= Existing
    BY <1>6, <1>8
  <2>2. budget.remaining > 0
    <3>1. PICK r \in Nat : r = Reserved(b) /\ r # 0
      BY <1>4
    <3>2. cost + r <= budget.max /\ budget.max <= cost + budget.remaining
      BY <1>8, <3>1
    <3> QED BY <1>6, <3>1, <3>2
  <2>3. budget.max + Existing <= Cap + cost /\ cost + Reserved(b) <= budget.max
    BY <1>8, <2>2
  <2>4. Existing + Reserved(b) <= Cap
    BY <1>4, <1>6, <2>3
  <2> QED BY <2>1, <2>4
<1>10. \A k \in 1..Len(file[plan]) : file[plan][k].item \notin b.items
  <2>1. Completed(plan) = {file[plan][k].item : k \in 1..Len(file[plan])}
    BY <1>6, ItemsOfRows DEF Completed, Records
  <2> QED BY <1>3, <2>1
<1>11. \A k \in 1..Len(file[plan]) : file[plan][k].batch # b
  BY <1>0, <1>6, <1>10 DEF FilesInv
<1>12. Without(file[plan], b) = Cost(plan)
  BY <1>6, <1>11, CostWithoutAbsent DEF Cost
<1>13. FilesInv'
  <2> SUFFICES ASSUME NEW n \in PlanIds, NEW k \in 1..Len(file[n])
               PROVE  /\ file[n][k].item \in file[n][k].batch.items
                      /\ \A j \in 1..Len(file[n]) :
                            file[n][j].batch = file[n][k].batch => file[n][j].cost = file[n][k].cost
                      /\ overrun \/ file[n][k].cost <= Reserved(file[n][k].batch)
                      /\ k <= synced[n] \/ file[n][k].batch = inFlight'[n]
    BY <1>2 DEF FilesInv
  <2>1. file[n][k].batch # NoBatch
    BY <1>0, NoRowOfNone
  <2> QED BY <1>0, <1>5, <2>1 DEF FilesInv
<1>14. FlightInv'
  <2>1. AtMostOne(inFlight')
    BY <1>3, <1>5 DEF AtMostOne
  <2> QED BY <1>2, <1>3, <1>5, <1>7, <2>1 DEF FlightInv, AtJudge
<1>15. WorkInv'
  BY <1>2, <1>7, <1>10, Constants DEF WorkInv
<1>16. MoneyInv'
  BY <1>2, <1>6, <1>7, <1>8, <1>12 DEF MoneyInv
<1>17. PaidUp'
  <2>1. Open' = Projected(b) * 0
    BY <1>2, <1>7 DEF Open
  <2>2. Open' = 0
    BY <1>4, <2>1
  <2> QED BY <1>2, <1>6, <1>7, <1>8, <2>2 DEF PaidUp
<1>18. Settled'
  BY <1>2 DEF Settled, Running
<1>19. Covered'
  <2>1. TotalFull(file, inFlight') + CostOf(file[plan])
          = TotalCost(file) + (Without(file[plan], inFlight'[plan]) + Reserved(inFlight'[plan]))
    BY <1>0, <1>5, <1>6, NoRowOfNone, OthersSettled
  <2>2. Committed' = TotalFull(file, inFlight') /\ Existing = TotalCost(file)
    BY <1>2, Totals
  <2>3. TotalFull(file, inFlight') \in Nat
    BY <1>6, TotalsAreNat
  <2>4. TotalFull(file, inFlight') = Existing + Reserved(b)
    <3>1. /\ Without(file[plan], inFlight'[plan]) = Cost(plan) /\ CostOf(file[plan]) = Cost(plan)
          /\ inFlight'[plan] = b
      BY <1>5, <1>12 DEF Cost
    <3>2. TotalFull(file, inFlight') + Cost(plan) = Existing + (Cost(plan) + Reserved(b))
      BY <2>1, <2>2, <3>1
    <3> QED BY <1>4, <1>6, <2>3, <3>2
  <2>5. spent <= TotalFull(file, inFlight') /\ TotalFull(file, inFlight') <= Cap
    BY <1>4, <1>6, <1>9, <2>4
  <2> QED BY <1>2, <2>2, <2>5 DEF Covered
<1>20. PaidInv'
  <2>1. Remembered'
    BY <1>0, <1>2, <1>5, <1>7 DEF PaidInv, Remembered, NoBatch
  <2>2. paid.once[plan] \cap b.items = {}
    BY <1>0, <1>3, <1>5, <1>6 DEF PaidInv, Remembered, NoBatch
  <2> QED BY <1>0, <1>2, <1>7, <2>1, <2>2 DEF PaidInv
<1> QED BY <1>13, <1>14, <1>15, <1>16, <1>17, <1>18, <1>19, <1>20 DEF Sound, SpendInv
\* Before an attempt there is money left for it and for every retry.
LEMMA BeforeAnAttempt ==
    ASSUME TypeInv, Sound, pc = "judging"
    PROVE  /\ Projected(batch.id) \in Nat /\ batch.attempts < MaxAttempts
           /\ cost = Cost(plan) /\ inFlight[plan] = batch.id
           /\ \A k \in 1..Len(file[plan]) : file[plan][k].batch # batch.id
           /\ Reserved(batch.id) = Projected(batch.id) * MaxAttempts
           /\ spent <= Existing + Projected(batch.id) * batch.attempts
           /\ Committed = Existing + Reserved(batch.id) /\ Committed <= Cap
<1> USE DEF Sound
<1>0. /\ plan \in PlanIds /\ Existing \in Nat /\ Committed \in Nat /\ spent \in Nat /\ cost \in Nat
      /\ Cost(plan) \in Nat /\ batch.id \in BatchIds /\ batch.attempts \in Nat
      /\ file \in [PlanIds -> Seq(Entry)] /\ inFlight \in [PlanIds -> BatchIds]
      /\ Cap \in Nat /\ MaxAttempts \in Nat
  BY TypedFiles, Constants
<1>1. /\ inFlight[plan] = batch.id /\ batch.id.items # {}
      /\ \A m \in PlanIds : m # plan => inFlight[m] = NoBatch
  BY DEF FlightInv, AtJudge, Running
<1>2. /\ Projected(batch.id) \in Nat /\ Reserved(batch.id) \in Nat /\ Reserved(batch.id) # 0
  BY <1>0, <1>1, ProjectedIsNat DEF NoBatch
<1>11. Reserved(batch.id) = Projected(batch.id) * MaxAttempts
  BY <1>0, <1>1, ProjectedIsNat DEF NoBatch
<1>3. /\ batch.attempts < MaxAttempts
      /\ \A k \in 1..Len(file[plan]) : file[plan][k].item \notin batch.id.items
  BY DEF WorkInv
<1>4. \A k \in 1..Len(file[plan]) : file[plan][k].batch # batch.id
  BY <1>0, <1>3 DEF FilesInv
<1>5. Without(file[plan], batch.id) = Cost(plan)
  BY <1>0, <1>4, CostWithoutAbsent DEF Cost
<1>6. budget.remaining \in Nat /\ budget.max \in Nat
  BY DEF TypeInv
<1>7. /\ cost = Cost(plan) /\ budget.max <= cost + budget.remaining
      /\ budget.remaining > 0 => budget.max + Existing <= Cap + Cost(plan)
      /\ cost + Reserved(batch.id) <= budget.max
  BY <1>5 DEF MoneyInv, Running
<1>8. Existing + Reserved(batch.id) <= Cap
  <2>1. budget.remaining > 0
    BY <1>0, <1>2, <1>6, <1>7
  <2>2. budget.max + Existing <= Cap + cost /\ cost + Reserved(batch.id) <= budget.max
    BY <1>7, <2>1
  <2> QED BY <1>0, <1>2, <1>6, <2>2
<1>9. Committed = Existing + Reserved(batch.id)
  <2>1. TotalFull(file, inFlight) + CostOf(file[plan])
          = TotalCost(file) + (Without(file[plan], inFlight[plan]) + Reserved(inFlight[plan]))
    BY <1>0, <1>1, NoRowOfNone, OthersSettled
  <2>2. Committed + Cost(plan) = Existing + (Cost(plan) + Reserved(batch.id))
    BY <1>1, <1>5, <2>1, Totals DEF Cost
  <2>3. Reserved(batch.id) \in Nat /\ Cost(plan) \in Nat /\ Existing \in Nat /\ Committed \in Nat
    BY <1>0, <1>2
  <2> QED BY <2>2, <2>3
<1>10. spent <= Existing + Projected(batch.id) * batch.attempts
  <2>1. spent + Cost(plan) <= Existing + cost + Projected(batch.id) * batch.attempts
    BY DEF SpendInv, PaidUp, Running, Open
  <2>2. Projected(batch.id) * batch.attempts \in Nat
    BY <1>0, <1>2, Product
  <2> QED BY <1>0, <1>7, <2>1, <2>2
<1> QED BY <1>0, <1>1, <1>2, <1>3, <1>4, <1>7, <1>8, <1>9, <1>10, <1>11

\* An attempt is charged, and answered or not.
LEMMA AttemptStep ==
    ASSUME TypeInv, TypeInv', Sound, pc = "judging", NEW charged \in Nat, Charge(charged),
           NEW c \in Nat, UNCHANGED <<diskVars, plan, budget, cost>>,
           batch'.id = batch.id, batch'.attempts = batch.attempts + 1, batch'.cost = c,
           \/ /\ pc' = "judging" /\ batch.attempts + 1 < MaxAttempts
              /\ charged <= Projected(batch.id)
           \/ /\ pc' = "recording" /\ charged + Projected(batch.id) * batch.attempts <= c
              /\ \/ c = charged + Projected(batch.id) * batch.attempts
                 \/ c = Projected(batch.id) * (batch.attempts + 1)
    PROVE  Sound'
<1> USE DEF diskVars
<1> DEFINE p == Projected(batch.id)
           a == batch.attempts
<1>0. /\ p \in Nat /\ a \in Nat /\ a < MaxAttempts /\ cost = Cost(plan) /\ inFlight[plan] = batch.id
      /\ \A k \in 1..Len(file[plan]) : file[plan][k].batch # batch.id
      /\ Reserved(batch.id) = p * MaxAttempts
      /\ spent <= Existing + p * a /\ Committed = Existing + Reserved(batch.id) /\ Committed <= Cap
  BY BeforeAnAttempt, TypedFiles
<1>1. /\ plan \in PlanIds /\ Existing \in Nat /\ Committed \in Nat /\ spent \in Nat /\ cost \in Nat
      /\ Cap \in Nat /\ MaxAttempts \in Nat
  BY TypedFiles, Constants
<1>2. /\ FilesInv /\ FlightInv /\ WorkInv /\ MoneyInv /\ SpendInv /\ PaidInv
  BY DEF Sound
<1>3. /\ spent' = spent + charged /\ (charged > p \/ overrun => overrun')
      /\ paid' = [paid EXCEPT
            !.once[plan]  = @ \cup batch.id.items,
            !.again[plan] = IF a = 0 THEN @ \cup (paid.once[plan] \cap batch.id.items) ELSE @]
  BY DEF Charge
<1> HIDE DEF p, a
<1>4. /\ p * a \in Nat /\ p * (a + 1) = p * a + p /\ p * (a + 1) \in Nat
      /\ p * (a + 1) <= p * MaxAttempts /\ p * MaxAttempts \in Nat
  <2>1. a + 1 \in Nat /\ a + 1 <= MaxAttempts
    BY <1>0, <1>1
  <2> QED BY <1>0, <1>1, <2>1, Product
<1>5. /\ FilesInv' /\ Existing' = Existing /\ Committed' = Committed /\ AtMostOne(inFlight')
      /\ \A m \in PlanIds : Cost(m)' = Cost(m) /\ Completed(m)' = Completed(m)
  BY <1>2, <1>3, SameDisk
<1>6. \/ pc' = "judging" /\ a + 1 < MaxAttempts /\ charged <= p
      \/ pc' = "recording" /\ charged + p * a <= c /\ (c = charged + p * a \/ c = p * (a + 1))
  BY DEF p, a
<1>7. FlightInv'
  BY <1>2, <1>5, <1>6 DEF FlightInv, Running, AtJudge
<1>8. WorkInv'
  <2>1. CASE pc' = "judging"
    BY <1>2, <1>6, <2>1 DEF WorkInv, a
  <2>2. CASE pc' = "recording"
    <3>1. overrun' \/ c <= Reserved(batch.id)
      BY <1>0, <1>3, <1>4, <1>6, <2>2
    <3>2. \A k \in 1..Len(file[plan]) : file[plan][k].item \notin batch.id.items
      BY <1>2 DEF WorkInv
    <3> QED BY <1>0, <2>2, <3>1, <3>2 DEF WorkInv
  <2> QED BY <1>6, <2>1, <2>2
<1>9. MoneyInv'
  <2>1. Cost(plan)' = Cost(plan)
    BY <1>1, <1>5
  <2> QED BY <1>2, <1>5, <1>6, <2>1 DEF MoneyInv, Running
<1>10. PaidUp'
  <2>1. Cost(plan)' = cost
    BY <1>0, <1>1, <1>5
  <2>2. CASE pc' = "judging"
    <3>1. Open' = p * (a + 1)
      BY <2>2 DEF Open, p, a
    <3>2. spent + charged + cost <= Existing + cost + p * (a + 1)
      BY <1>0, <1>1, <1>4, <1>6, <2>2
    <3> QED BY <1>3, <1>5, <2>1, <3>1, <3>2 DEF PaidUp
  <2>3. CASE pc' = "recording"
    <3>1. Open' = c
      BY <2>3 DEF Open
    <3>2. spent + charged + cost <= Existing + cost + c
      BY <1>0, <1>1, <1>4, <1>6, <2>3
    <3> QED BY <1>3, <1>5, <2>1, <3>1, <3>2 DEF PaidUp
  <2> QED BY <1>6, <2>2, <2>3
<1>11. Settled'
  BY <1>6 DEF Settled, Running
<1>12. Covered'
  <2>1. ASSUME ~overrun' PROVE spent + charged <= Committed
    <3>1. charged <= p
      BY <1>0, <1>3, <2>1
    <3>2. PICK r \in Nat : r = p * MaxAttempts
      BY <1>4
    <3>3. PICK u \in Nat : u = p * a
      BY <1>4
    <3>4. spent <= Existing + u /\ Committed = Existing + r /\ u + p <= r
      BY <1>0, <1>4, <3>2, <3>3
    <3>5. p \in Nat
      BY <1>0
    <3> QED BY <1>1, <3>1, <3>4, <3>5
  <2> QED BY <1>0, <1>3, <1>5, <2>1 DEF Covered
<1>13. PaidInv'
  <2>0. paid \in [once : [PlanIds -> SUBSET ItemIds], again : [PlanIds -> SUBSET ItemIds]]
    BY DEF TypeInv
  <2>1. /\ paid'.once = [paid.once EXCEPT ![plan] = @ \cup batch.id.items]
        /\ paid'.again = [paid.again EXCEPT
              ![plan] = IF a = 0 THEN @ \cup (paid.once[plan] \cap batch.id.items) ELSE @]
    BY <1>1, <1>3, <2>0
  <2>2. a = 0 => paid.once[plan] \cap batch.id.items = {}
    BY <1>2 DEF PaidInv, a
  <2>3. \A m \in PlanIds : paid'.again[m] = {}
    BY <1>1, <1>2, <2>0, <2>1, <2>2 DEF PaidInv
  <2>4. Remembered'
    BY <1>0, <1>1, <1>2, <1>5, <2>0, <2>1 DEF PaidInv, Remembered
  <2>5. ~(pc' = "judging" /\ batch'.attempts = 0)
    BY <1>0 DEF a
  <2> QED BY <2>3, <2>4, <2>5 DEF PaidInv
<1> QED BY <1>5, <1>7, <1>8, <1>9, <1>10, <1>11, <1>12, <1>13 DEF Sound, SpendInv

LEMMA RetryStep ==
    ASSUME TypeInv, TypeInv', Sound, Retry
    PROVE  Sound'
<1>1. PICK charged \in {0, Projected(batch.id)} : Charge(charged)
  BY DEF Retry
<1>2. charged \in Nat /\ charged <= Projected(batch.id)
  BY <1>1, ProjectedIsNat, TypedFiles
<1>3. batch \in [id : BatchIds, attempts : Nat, cost : Nat]
  BY DEF TypeInv
<1>4. batch'.id = batch.id /\ batch'.attempts = batch.attempts + 1 /\ batch'.cost = batch.cost
  BY <1>3 DEF Retry
<1> QED BY <1>1, <1>2, <1>3, <1>4, AttemptStep DEF Retry

LEMMA JudgedStep ==
    ASSUME TypeInv, TypeInv', Sound, Judged
    PROVE  Sound'
<1> DEFINE p == Projected(batch.id)
           a == batch.attempts
<1>1. batch \in [id : BatchIds, attempts : Nat, cost : Nat] /\ p \in Nat /\ a \in Nat
  BY ProjectedIsNat, TypedFiles DEF TypeInv
<1>2. p * a \in Nat /\ p * (a + 1) = p * a + p
  BY <1>1, Product
<1>3. pc = "judging" /\ pc' = "recording" /\ UNCHANGED <<diskVars, plan, budget, cost>>
  BY DEF Judged, Answered, Unanswered
<1>4. PICK charged \in Nat, c \in Nat :
          /\ Charge(charged) /\ charged + p * a <= c /\ (c = charged + p * a \/ c = p * (a + 1))
          /\ batch' = [batch EXCEPT !.attempts = @ + 1, !.cost = c]
  <2>1. CASE Unanswered
    <3>1. PICK charged \in {0, p} : Charge(charged)
      BY <2>1 DEF Unanswered
    <3>2. batch' = [batch EXCEPT !.attempts = @ + 1, !.cost = p * (a + 1)]
      BY <2>1 DEF Unanswered
    <3> HIDE DEF p, a
    <3>3. charged \in Nat /\ charged + p * a <= p * (a + 1) /\ p * (a + 1) \in Nat
      BY <1>1, <1>2, <3>1
    <3> QED BY <3>1, <3>2, <3>3
  <2>2. CASE ~Unanswered
    <3>1. PICK charged \in {0} \cup {p + k : k \in 0..1} : Answered(charged)
      BY <2>2 DEF Judged
    <3>2. Charge(charged) /\ batch' = [batch EXCEPT !.attempts = @ + 1, !.cost = charged + p * a]
      BY <3>1 DEF Answered
    <3> HIDE DEF p, a
    <3>3. charged \in Nat
      BY <1>1, <3>1
    <3>4. charged + p * a \in Nat /\ charged + p * a <= charged + p * a
      BY <1>2, <3>3
    <3> QED BY <3>2, <3>3, <3>4
  <2> QED BY <2>1, <2>2
<1>5. batch'.id = batch.id /\ batch'.attempts = batch.attempts + 1 /\ batch'.cost = c
  BY <1>1, <1>4
<1> QED BY <1>3, <1>4, <1>5, AttemptStep
LEMMA RecordStep ==
    ASSUME TypeInv, TypeInv', Sound, Record
    PROVE  Sound'
<1> USE DEF processVars, historyVars
<1>0. FilesInv /\ FlightInv /\ WorkInv /\ MoneyInv /\ SpendInv /\ PaidInv /\ pc = "recording"
  BY DEF Sound, Record
<1>1. PICK row : row = [item |-> Min(Unwritten), batch |-> batch.id, cost |-> batch.cost]
  OBVIOUS
<1>2. /\ file' = [file EXCEPT ![plan] = Append(@, row)]
      /\ synced' = synced /\ inFlight' = inFlight /\ pc' = pc /\ plan' = plan /\ budget' = budget
      /\ cost' = cost /\ batch' = batch /\ spent' = spent /\ overrun' = overrun /\ paid' = paid
  BY <1>1 DEF Record
<1>3. /\ plan \in PlanIds /\ file \in [PlanIds -> Seq(Entry)] /\ inFlight \in [PlanIds -> BatchIds]
      /\ file' \in [PlanIds -> Seq(Entry)] /\ batch.id \in BatchIds /\ batch.cost \in Nat
      /\ Existing \in Nat /\ spent \in Nat /\ cost \in Nat /\ Cap \in Nat
      /\ \A m \in PlanIds : synced[m] \in Nat /\ synced[m] <= Len(file[m])
  BY TypedFiles, Constants DEF TypeInv
<1>4. row.item \in batch.id.items /\ row.batch = batch.id /\ row.cost = batch.cost /\ row \in Entry
  <2>1. Unwritten \in SUBSET ItemIds /\ Unwritten # {}
    BY <1>3 DEF Record, Unwritten, BatchIds
  <2>2. Min(Unwritten) \in Unwritten
    BY <2>1, MinIsMember
  <2> QED BY <1>1, <1>3, <2>1, <2>2 DEF Unwritten, Entry
<1> DEFINE es == file[plan]
           fs == file'[plan]
           n  == Len(es)
<1>5. fs = Append(es, row) /\ \A m \in PlanIds : m # plan => file'[m] = file[m]
  BY <1>2, <1>3
<1>6. /\ es \in Seq(Entry) /\ fs \in Seq(Entry) /\ n \in Nat /\ Len(fs) = n + 1
      /\ fs[n + 1] = row /\ \A k \in 1..n : fs[k] = es[k]
  BY <1>3, <1>4, <1>5
<1>7. inFlight[plan] = batch.id /\ batch.id.items # {}
  BY <1>0 DEF FlightInv, AtJudge
<1>8. overrun \/ batch.cost <= Reserved(batch.id)
  BY <1>0 DEF WorkInv
<1>19. \A k \in 1..n : es[k].batch = batch.id => es[k].cost = batch.cost
  BY <1>0 DEF WorkInv
<1>20. \A k \in 1..n : es[k].item \in batch.id.items => es[k].batch = batch.id
  BY <1>0 DEF WorkInv
<1> HIDE DEF es, fs, n
<1>9. Without(fs, batch.id) = Without(es, batch.id)
  <2>1. \A k \in 1..Len(fs) : k > n => fs[k].batch = batch.id
    BY <1>4, <1>6
  <2> QED BY <1>6, <2>1, TailOfOne DEF n
<1>10. /\ Existing + CostOf(fs) = Existing' + Cost(plan) /\ Existing' \in Nat /\ CostOf(fs) \in Nat
       /\ Cost(plan)' = CostOf(fs) /\ Cost(plan) \in Nat
  <2>1. TotalCost(file) + CostOf(file'[plan]) = TotalCost(file') + CostOf(file[plan])
    BY <1>3, <1>5, OneCost
  <2>2. Existing' \in Nat /\ CostOf(fs) \in Nat /\ Cost(plan) \in Nat
    BY <1>3, <1>6, Totals, TotalsAreNat, CostIsNat DEF Cost, es
  <2> QED BY <1>2, <2>1, <2>2, Totals DEF Cost, fs
<1>11. Committed' = Committed
  <2>1. TotalFull(file, inFlight) + (Without(fs, inFlight[plan]) + Reserved(inFlight[plan]))
          = TotalFull(file', inFlight) + (Without(es, inFlight[plan]) + Reserved(inFlight[plan]))
    BY <1>3, <1>5, OneFull DEF es, fs
  <2>2. PICK u \in Nat : u = Without(es, batch.id) + Reserved(batch.id)
    BY <1>3, <1>6, CostIsNat, ProjectedIsNat
  <2>3. Without(fs, batch.id) + Reserved(batch.id) = u
    BY <1>9, <2>2
  <2>4. TotalFull(file, inFlight) + u = TotalFull(file', inFlight) + u
    BY <1>7, <2>1, <2>2, <2>3
  <2>5. TotalFull(file, inFlight) \in Nat /\ TotalFull(file', inFlight) \in Nat
    BY <1>3, TotalsAreNat
  <2>6. TotalFull(file, inFlight) = TotalFull(file', inFlight)
    BY <2>4, <2>5
  <2> QED BY <1>2, <2>6, Totals
<1>12. FilesInv'
  <2> SUFFICES ASSUME NEW m \in PlanIds, NEW k \in 1..Len(file'[m])
               PROVE  /\ file'[m][k].item \in file'[m][k].batch.items
                      /\ \A j \in 1..Len(file'[m]) :
                            file'[m][j].batch = file'[m][k].batch => file'[m][j].cost = file'[m][k].cost
                      /\ overrun \/ file'[m][k].cost <= Reserved(file'[m][k].batch)
                      /\ k <= synced[m] \/ file'[m][k].batch = inFlight[m]
    BY <1>2 DEF FilesInv
  <2>1. CASE m # plan
    BY <1>0, <1>5, <2>1 DEF FilesInv
  <2>2. CASE m = plan
    <3>1. \A j \in 1..n : /\ es[j].item \in es[j].batch.items
                          /\ \A i \in 1..n : es[i].batch = es[j].batch => es[i].cost = es[j].cost
                          /\ overrun \/ es[j].cost <= Reserved(es[j].batch)
                          /\ j <= synced[plan] \/ es[j].batch = inFlight[plan]
      BY <1>0, <1>3 DEF FilesInv, es, n
    <3>2. \A j \in 1..(n + 1) : j \in 1..n \/ j = n + 1
      BY <1>6
    <3>3. k \in 1..(n + 1) /\ Len(file'[m]) = n + 1
      BY <1>6, <2>2 DEF fs
    <3>4. CASE k = n + 1
      <4>1. fs[k].batch = batch.id /\ fs[k].cost = batch.cost /\ fs[k].item \in batch.id.items
        BY <1>4, <1>6, <3>4
      <4>2. ASSUME NEW j \in 1..(n + 1), fs[j].batch = batch.id PROVE fs[j].cost = batch.cost
        <5>1. CASE j \in 1..n
          <6>1. fs[j] = es[j] /\ (es[j].batch = batch.id => es[j].cost = batch.cost)
            BY <1>6, <1>19, <5>1
          <6> QED BY <4>2, <6>1
        <5>2. CASE j = n + 1
          BY <1>4, <1>6, <5>2
        <5> QED BY <3>2, <5>1, <5>2
      <4> QED BY <1>7, <1>8, <2>2, <3>3, <4>1, <4>2 DEF fs
    <3>5. CASE k \in 1..n
      <4>1. fs[k] = es[k]
        BY <1>6, <3>5
      <4>2. ASSUME NEW j \in 1..(n + 1), fs[j].batch = fs[k].batch PROVE fs[j].cost = fs[k].cost
        <5>1. CASE j \in 1..n
          BY <1>6, <3>1, <3>5, <4>1, <4>2, <5>1
        <5>2. CASE j = n + 1
          <6>1. fs[j] = row /\ row.batch = batch.id /\ row.cost = batch.cost
            BY <1>4, <1>6, <5>2
          <6>2. es[k].batch = batch.id
            BY <4>1, <4>2, <6>1
          <6>3. es[k].cost = batch.cost
            BY <1>19, <3>5, <6>2
          <6> QED BY <4>1, <6>1, <6>3
        <5> QED BY <3>2, <5>1, <5>2
      <4>3. /\ fs[k].item \in fs[k].batch.items
            /\ overrun \/ fs[k].cost <= Reserved(fs[k].batch)
            /\ k <= synced[plan] \/ fs[k].batch = inFlight[plan]
        BY <3>1, <3>5, <4>1
      <4> QED BY <2>2, <3>3, <4>2, <4>3 DEF fs
    <3> QED BY <3>2, <3>3, <3>4, <3>5
  <2> QED BY <2>1, <2>2
<1>13. FlightInv'
  BY <1>0, <1>2 DEF FlightInv, AtMostOne, Running, AtJudge
<1>14. WorkInv'
  <2>1. ASSUME NEW k \in 1..Len(fs)
        PROVE  /\ fs[k].batch = batch.id => fs[k].cost = batch.cost
               /\ fs[k].item \in batch.id.items => fs[k].batch = batch.id
    <3>1. CASE k \in 1..n
      <4>1. fs[k] = es[k]
        BY <1>6, <3>1
      <4> QED BY <1>19, <1>20, <3>1, <4>1
    <3>2. CASE k = n + 1
      <4>1. fs[k] = row
        BY <1>6, <3>2
      <4> QED BY <1>4, <4>1
    <3> QED BY <1>6, <3>1, <3>2
  <2> QED BY <1>0, <1>2, <1>8, <2>1 DEF WorkInv, fs
<1>15. MoneyInv'
  <2>1. /\ cost = Without(es, batch.id) /\ budget.remaining <= budget.max
        /\ budget.max <= cost + budget.remaining /\ cost + Reserved(batch.id) <= budget.max
        /\ budget.remaining > 0 => budget.max + Existing <= Cap + Cost(plan)
    BY <1>0 DEF MoneyInv, Running, es
  <2>2. budget.max \in Nat
    BY DEF TypeInv
  <2>3. budget.remaining > 0 => budget.max + Existing' <= Cap + CostOf(fs)
    <3>1. PICK was \in Nat, is \in Nat, old \in Nat, new \in Nat :
            was = Existing /\ is = Existing' /\ old = Cost(plan) /\ new = CostOf(fs)
      BY <1>3, <1>10
    <3>2. was + new = is + old
      BY <1>10, <3>1
    <3>3. Cap \in Nat /\ (budget.remaining > 0 => budget.max + was <= Cap + old)
      BY <2>1, <3>1, Constants
    <3>4. budget.remaining > 0 => budget.max + is <= Cap + new
      BY <2>2, <3>2, <3>3
    <3> QED BY <3>1, <3>4
  <2> QED BY <1>0, <1>2, <1>9, <1>10, <2>1, <2>3 DEF MoneyInv, fs
<1>16. PaidUp'
  <2>1. spent + Cost(plan) <= Existing + cost + batch.cost
    BY <1>0 DEF SpendInv, PaidUp, Running, Open
  <2>2. spent + CostOf(fs) <= Existing' + cost + batch.cost
    <3>1. PICK e \in Nat : e = Existing'
      BY <1>10
    <3>2. PICK c \in Nat : c = CostOf(fs)
      BY <1>10
    <3>3. Existing + c = e + Cost(plan) /\ Cost(plan) \in Nat
      BY <1>10, <3>1, <3>2
    <3>4. spent + c <= e + cost + batch.cost
      BY <1>3, <2>1, <3>3
    <3> QED BY <3>1, <3>2, <3>4
  <2>3. Open' = batch.cost
    BY <1>0, <1>2 DEF Open
  <2> QED BY <1>2, <1>10, <2>2, <2>3 DEF PaidUp
<1>17. Settled' /\ Covered'
  BY <1>0, <1>2, <1>11 DEF Settled, Running, SpendInv, Covered
<1>18. PaidInv'
  <2>1. ASSUME NEW m \in PlanIds PROVE Completed(m) \subseteq Completed(m)'
    <3>1. /\ Completed(m) = {file[m][k].item : k \in 1..Len(file[m])}
          /\ Completed(m)' = {file'[m][k].item : k \in 1..Len(file'[m])}
      BY <1>3, ItemsOfRows DEF Completed, Records
    <3>2. CASE m # plan
      BY <1>5, <3>1, <3>2
    <3>3. CASE m = plan
      <4>1. \A k \in 1..n : k \in 1..Len(fs) /\ fs[k].item = es[k].item
        BY <1>6
      <4> QED BY <3>1, <3>3, <4>1 DEF es, fs, n
    <3> QED BY <3>2, <3>3
  <2>2. Remembered'
    BY <1>0, <1>2, <2>1 DEF PaidInv, Remembered
  <2> QED BY <1>0, <1>2, <2>2 DEF PaidInv
<1> QED BY <1>12, <1>13, <1>14, <1>15, <1>16, <1>17, <1>18 DEF Sound, SpendInv

LEMMA SyncStep ==
    ASSUME TypeInv, TypeInv', Sound, Sync
    PROVE  Sound'
<1> USE DEF historyVars
<1>0. FilesInv /\ FlightInv /\ WorkInv /\ MoneyInv /\ SpendInv /\ PaidInv /\ pc = "recording"
  BY DEF Sound, Sync
<1>1. /\ synced' = [synced EXCEPT ![plan] = Len(file[plan])] /\ cost' = cost + batch.cost
      /\ pc' = "progress" /\ file' = file /\ inFlight' = inFlight /\ plan' = plan /\ budget' = budget
      /\ batch' = batch /\ spent' = spent /\ overrun' = overrun /\ paid' = paid
      /\ batch.id.items \subseteq Completed(plan)
  BY DEF Sync, Unwritten
<1>2. /\ plan \in PlanIds /\ file \in [PlanIds -> Seq(Entry)] /\ batch.cost \in Nat
      /\ Existing \in Nat /\ spent \in Nat /\ cost \in Nat /\ Cost(plan) \in Nat
      /\ budget.max \in Nat /\ budget.remaining \in Nat /\ synced \in [PlanIds -> Nat]
  BY TypedFiles DEF TypeInv
<1>3. synced'[plan] = Len(file[plan]) /\ \A m \in PlanIds : m # plan => synced'[m] = synced[m]
  BY <1>1, <1>2
<1>4. /\ Existing' = Existing /\ Committed' = Committed /\ Cost(plan)' = Cost(plan)
      /\ \A m \in PlanIds : Completed(m)' = Completed(m)
  BY <1>1 DEF Existing, Committed, Cost, Full, Completed, Records
<1>5. inFlight[plan] = batch.id /\ batch.id.items # {}
  BY <1>0 DEF FlightInv, AtJudge
<1>6. Cost(plan) = cost + batch.cost
  <2>1. Completed(plan) = {file[plan][k].item : k \in 1..Len(file[plan])}
    BY <1>2, ItemsOfRows DEF Completed, Records
  <2>2. PICK k \in 1..Len(file[plan]) : file[plan][k].item \in batch.id.items
    BY <1>1, <1>5, <2>1
  <2>3. file[plan][k].batch = batch.id /\ file[plan][k].cost = batch.cost
    BY <1>0, <2>2 DEF WorkInv
  <2>4. Cost(plan) = Without(file[plan], inFlight[plan]) + batch.cost
    BY <1>0, <1>2, <1>5, <2>3, RecordedCost
  <2> QED BY <1>0, <1>5, <2>4 DEF MoneyInv, Running
<1>7. FilesInv'
  <2> SUFFICES ASSUME NEW m \in PlanIds, NEW k \in 1..Len(file[m])
               PROVE  /\ file[m][k].item \in file[m][k].batch.items
                      /\ \A j \in 1..Len(file[m]) :
                            file[m][j].batch = file[m][k].batch => file[m][j].cost = file[m][k].cost
                      /\ overrun \/ file[m][k].cost <= Reserved(file[m][k].batch)
                      /\ k <= synced'[m] \/ file[m][k].batch = inFlight[m]
    BY <1>1 DEF FilesInv
  <2>1. m = plan => k <= synced'[m]
    BY <1>2, <1>3
  <2> QED BY <1>0, <1>3, <2>1 DEF FilesInv
<1>8. FlightInv'
  BY <1>0, <1>1 DEF FlightInv, AtMostOne, Running, AtJudge
<1>9. WorkInv'
  BY <1>0, <1>1, <1>3, <1>4, <1>2 DEF WorkInv
<1>10. MoneyInv'
  <2>1. /\ budget.remaining <= budget.max /\ budget.max <= cost + budget.remaining
        /\ budget.remaining > 0 => budget.max + Existing <= Cap + Cost(plan)
    BY <1>0 DEF MoneyInv, Running
  <2>2. budget.max <= (cost + batch.cost) + budget.remaining
    BY <1>2, <2>1
  <2> QED BY <1>1, <1>4, <1>6, <2>1, <2>2 DEF MoneyInv
<1>11. PaidUp'
  <2>1. spent + Cost(plan) <= Existing + cost + batch.cost
    BY <1>0 DEF SpendInv, PaidUp, Running, Open
  <2>2. spent + Cost(plan) <= Existing + (cost + batch.cost) + 0
    BY <1>2, <2>1
  <2>3. Open' = 0
    BY <1>1 DEF Open
  <2> QED BY <1>1, <1>4, <2>2, <2>3 DEF PaidUp
<1>12. Settled' /\ Covered'
  BY <1>0, <1>1, <1>4 DEF Settled, Running, SpendInv, Covered
<1>13. PaidInv'
  BY <1>0, <1>1, <1>4 DEF PaidInv, Remembered
<1> QED BY <1>7, <1>8, <1>9, <1>10, <1>11, <1>12, <1>13 DEF Sound, SpendInv

LEMMA ProgressStep ==
    ASSUME TypeInv, TypeInv', Sound, Progress
    PROVE  Sound'
<1> USE DEF historyVars
<1>0. FilesInv /\ FlightInv /\ WorkInv /\ MoneyInv /\ SpendInv /\ PaidInv /\ pc = "progress"
  BY DEF Sound, Progress
<1>1. /\ inFlight' = [inFlight EXCEPT ![plan] = NoBatch] /\ file' = file /\ synced' = synced
      /\ spent' = spent /\ overrun' = overrun /\ paid' = paid
  BY DEF Progress
<1>2. /\ plan \in PlanIds /\ file \in [PlanIds -> Seq(Entry)] /\ inFlight \in [PlanIds -> BatchIds]
      /\ Existing \in Nat /\ spent \in Nat /\ cost \in Nat /\ Cost(plan) \in Nat
  BY TypedFiles
<1>3. inFlight[plan] = batch.id /\ \A m \in PlanIds : m # plan => inFlight[m] = NoBatch
  BY <1>0 DEF FlightInv, AtJudge, Running
<1>4. Complete(plan)
  <2>1. Completed(plan) = {file[plan][k].item : k \in 1..Len(file[plan])}
    BY <1>2, ItemsOfRows DEF Completed, Records
  <2> QED BY <1>0, <1>3, <2>1 DEF WorkInv, Complete
<1>5. /\ spent + Cost(plan) <= Existing + cost + Open /\ Open = 0 /\ cost = Cost(plan)
      /\ synced[plan] = Len(file[plan])
  BY <1>0 DEF SpendInv, PaidUp, MoneyInv, WorkInv, Running, Open
<1>6. spent <= Existing
  BY <1>2, <1>5
<1>7. FilesInv' /\ Covered' /\ Remembered' /\ AtMostOne(inFlight')
  BY <1>0, <1>1, <1>2, <1>4, <1>5, <1>6, Releases DEF PaidInv
<1>8. \A m \in PlanIds : inFlight'[m] = NoBatch
  BY <1>1, <1>2, <1>3
<1>9. FlightInv' /\ WorkInv' /\ MoneyInv' /\ PaidUp' /\ Settled' /\ pc' \in {"batch", "idle"}
  <2>1. CASE cost > budget.max
    <3>1. PlanEnds
      BY <2>1 DEF Progress
    <3> QED BY <1>0, <1>1, <1>8, <3>1, PlanEndsSoundly DEF SpendInv
  <2>2. CASE ~(cost > budget.max)
    <3>1. pc' = "batch" /\ batch' = NoWork /\ UNCHANGED <<plan, config, cost, budget>>
      BY <2>2 DEF Progress
    <3>2. Existing' = Existing /\ Cost(plan)' = Cost(plan) /\ Open' = 0
      BY <1>1, <3>1 DEF Existing, Cost, Open
    <3>3. FlightInv'
      <4>1. ~AtJudge' /\ inFlight'[plan'] = NoBatch
        BY <1>2, <1>8, <3>1 DEF AtJudge
      <4> QED BY <1>7, <1>8, <3>1, <4>1 DEF FlightInv
    <3>4. WorkInv' /\ Settled'
      BY <3>1 DEF WorkInv, Settled, Running
    <3>5. MoneyInv'
      BY <1>0, <3>1, <3>2 DEF MoneyInv, Running
    <3>6. PaidUp'
      BY <1>1, <1>5, <3>1, <3>2 DEF PaidUp
    <3> QED BY <3>1, <3>3, <3>4, <3>5, <3>6
  <2> QED BY <2>1, <2>2
<1>10. PaidInv'
  BY <1>0, <1>1, <1>7, <1>9 DEF PaidInv
<1> QED BY <1>7, <1>9, <1>10 DEF Sound, SpendInv

LEMMA KillStep ==
    ASSUME TypeInv, TypeInv', Sound, Kill
    PROVE  Sound'
<1>1. /\ pc' = "idle" /\ file' = file /\ synced' = synced /\ inFlight' = inFlight
      /\ spent' = spent /\ overrun' = overrun /\ paid' = paid
  BY DEF Kill, Exit, historyVars
<1> QED BY <1>1, Stops DEF Sound, PaidInv
\* What a power loss takes are records of the batch in flight.
LEMMA PowerLossStep ==
    ASSUME TypeInv, TypeInv', Sound, PowerLoss
    PROVE  Sound'
<1> USE DEF historyVars
<1>0. FilesInv /\ FlightInv /\ WorkInv /\ MoneyInv /\ SpendInv /\ PaidInv
  BY DEF Sound
<1>1. /\ pc' = "idle" /\ inFlight' = inFlight /\ spent' = spent /\ overrun' = overrun /\ paid' = paid
  BY DEF PowerLoss, Exit
<1>2. PICK kept \in [PlanIds -> 0..Items] :
          /\ \A m \in PlanIds : kept[m] \in synced[m]..Len(file[m])
          /\ file' = [m \in PlanIds |-> SubSeq(file[m], 1, kept[m])]
          /\ synced' = kept
  BY DEF PowerLoss
<1>3. /\ file \in [PlanIds -> Seq(Entry)] /\ file' \in [PlanIds -> Seq(Entry)]
      /\ inFlight \in [PlanIds -> BatchIds] /\ \A m \in PlanIds : synced[m] \in Nat
  BY TypedFiles DEF TypeInv
<1>4. ASSUME NEW m \in PlanIds
      PROVE  /\ file[m] \in Seq(Entry) /\ file'[m] \in Seq(Entry)
             /\ Len(file'[m]) \in Nat /\ Len(file[m]) \in Nat /\ Len(file'[m]) <= Len(file[m])
             /\ synced'[m] = Len(file'[m])
             /\ \A k \in 1..Len(file'[m]) : k \in 1..Len(file[m]) /\ file'[m][k] = file[m][k]
             /\ \A k \in 1..Len(file[m]) : k > Len(file'[m]) => file[m][k].batch = inFlight[m]
  <2>1. file[m] \in Seq(Entry) /\ Len(file[m]) \in Nat /\ kept[m] \in Nat /\ synced[m] \in Nat
        /\ synced[m] <= kept[m] /\ kept[m] <= Len(file[m])
    BY <1>2, <1>3, EntryFields
  <2>2. file'[m] = SubSeq(file[m], 1, kept[m]) /\ synced'[m] = kept[m]
    BY <1>2
  <2>3. Len(file'[m]) = kept[m] /\ \A k \in 1..kept[m] : file'[m][k] = file[m][k]
    BY <2>1, <2>2, SubSeqProperties
  <2>4. \A k \in 1..kept[m] : k \in 1..Len(file[m])
    BY <2>1
  <2>5. \A k \in 1..Len(file[m]) : k > kept[m] => file[m][k].batch = inFlight[m]
    BY <1>0, <2>1 DEF FilesInv
  <2> QED BY <1>3, <2>1, <2>2, <2>3, <2>4, <2>5
<1>5. ASSUME NEW m \in PlanIds
      PROVE  Without(file'[m], inFlight[m]) = Without(file[m], inFlight[m])
  <2>1. \A k \in 1..Len(file'[m]) : file[m][k] = file'[m][k]
    BY <1>4
  <2> QED BY <1>4, <2>1, TailOfOne
<1>6. Committed' = Committed
  <2> DEFINE c == [m \in PlanIds |-> Without(file[m], inFlight[m]) + Reserved(inFlight[m])]
             d == [m \in PlanIds |-> Without(file'[m], inFlight[m]) + Reserved(inFlight[m])]
  <2>1. \A m \in 1..Plans : d[m] = c[m]
    BY <1>5 DEF PlanIds
  <2>2. TotalFull(file, inFlight) = SumOf(c, Plans) /\ TotalFull(file', inFlight) = SumOf(d, Plans)
    BY DEF TotalFull
  <2> HIDE DEF c, d
  <2>3. SumOf(d, Plans) = SumOf(c, Plans)
    BY <2>1, SumSame, Constants
  <2> QED BY <1>1, <2>2, <2>3, Totals
<1>7. FilesInv'
  <2> SUFFICES ASSUME NEW m \in PlanIds, NEW k \in 1..Len(file'[m])
               PROVE  /\ file'[m][k].item \in file'[m][k].batch.items
                      /\ \A j \in 1..Len(file'[m]) :
                            file'[m][j].batch = file'[m][k].batch => file'[m][j].cost = file'[m][k].cost
                      /\ overrun \/ file'[m][k].cost <= Reserved(file'[m][k].batch)
                      /\ k <= synced'[m] \/ file'[m][k].batch = inFlight[m]
    BY <1>1 DEF FilesInv
  <2>1. k \in 1..Len(file[m]) /\ file'[m][k] = file[m][k] /\ k <= synced'[m]
    BY <1>4
  <2>2. \A j \in 1..Len(file'[m]) : j \in 1..Len(file[m]) /\ file'[m][j] = file[m][j]
    BY <1>4
  <2>3. /\ file[m][k].item \in file[m][k].batch.items
        /\ \A j \in 1..Len(file[m]) :
              file[m][j].batch = file[m][k].batch => file[m][j].cost = file[m][k].cost
        /\ overrun \/ file[m][k].cost <= Reserved(file[m][k].batch)
    BY <1>0, <2>1 DEF FilesInv
  <2> QED BY <2>1, <2>2, <2>3
<1>8. FlightInv' /\ WorkInv' /\ MoneyInv' /\ PaidUp'
  BY <1>0, <1>1, Ends DEF FlightInv
<1>9. Settled'
  <2> SUFFICES ASSUME \A m \in PlanIds : Complete(m)' PROVE spent <= Existing'
    BY <1>1 DEF Settled
  <2>1. ASSUME NEW m \in PlanIds PROVE Complete(m)
    <3> SUFFICES ASSUME NEW i \in inFlight[m].items
                 PROVE  \E k \in 1..Len(file[m]) : file[m][k].batch = inFlight[m] /\ file[m][k].item = i
      BY DEF Complete
    <3>1. PICK k \in 1..Len(file'[m]) : file'[m][k].batch = inFlight[m] /\ file'[m][k].item = i
      BY <1>1 DEF Complete
    <3>2. k \in 1..Len(file[m]) /\ file[m][k] = file'[m][k]
      BY <1>4
    <3> QED BY <3>1, <3>2
  <2>2. spent <= Existing
    BY <1>0, <2>1, CompleteIsPaid
  <2>3. ASSUME NEW m \in PlanIds PROVE CostOf(file'[m]) = CostOf(file[m])
    <3>1. CASE inFlight[m] = NoBatch
      <4>1. \A k \in 1..Len(file[m]) : file[m][k].batch # NoBatch
        BY <1>0, NoRowOfNone
      <4>2. \A k \in 1..Len(file'[m]) : file'[m][k].batch # NoBatch
        BY <1>4, <4>1
      <4>3. Without(file[m], NoBatch) = CostOf(file[m]) /\ Without(file'[m], NoBatch) = CostOf(file'[m])
        BY <1>4, <4>1, <4>2, CostWithoutAbsent
      <4> QED BY <1>5, <3>1, <4>3
    <3>2. CASE inFlight[m] # NoBatch
      <4>1. PICK k \in 1..Len(file'[m]) : file'[m][k].batch = inFlight[m]
        BY <1>0, <1>1, <3>2 DEF FlightInv, AtMostOne, Complete
      <4>2. k \in 1..Len(file[m]) /\ file[m][k].batch = inFlight[m]
        BY <1>4, <4>1
      <4>3. PICK c \in Nat : c = file[m][k].cost
        BY <1>4, <4>2, EntryFields
      <4>4. \A j \in 1..Len(file[m]) : file[m][j].batch = inFlight[m] => file[m][j].cost = c
        BY <1>0, <4>2, <4>3 DEF FilesInv
      <4>5. \A j \in 1..Len(file'[m]) : file'[m][j].batch = inFlight[m] => file'[m][j].cost = c
        BY <1>4, <4>4
      <4>6. CostOf(file[m]) = Without(file[m], inFlight[m]) + c
        <5>1. file[m] \in Seq(Entry)
          BY <1>4
        <5> QED BY ONLY <4>2, <4>3, <4>4, <5>1, CostWithRecorded
      <4>7. CostOf(file'[m]) = Without(file'[m], inFlight[m]) + c
        <5>1. file'[m] \in Seq(Entry)
          BY <1>4
        <5> QED BY ONLY <4>1, <4>3, <4>5, <5>1, CostWithRecorded
      <4> QED BY <1>5, <4>6, <4>7
    <3> QED BY <3>1, <3>2
  <2>4. Existing' = Existing
    <3> DEFINE c == [m \in PlanIds |-> CostOf(file[m])]
               d == [m \in PlanIds |-> CostOf(file'[m])]
    <3>1. \A m \in 1..Plans : d[m] = c[m]
      BY <2>3 DEF PlanIds
    <3>2. TotalCost(file) = SumOf(c, Plans) /\ TotalCost(file') = SumOf(d, Plans)
      BY DEF TotalCost
    <3> HIDE DEF c, d
    <3>3. SumOf(d, Plans) = SumOf(c, Plans)
      BY <3>1, SumSame, Constants
    <3> QED BY <3>2, <3>3, Totals
  <2> QED BY <2>2, <2>4
<1>10. Covered'
  BY <1>0, <1>1, <1>6 DEF SpendInv, Covered
<1>11. Remembered'
  <2> SUFFICES ASSUME NEW m \in PlanIds, NEW i \in paid.once[m]
               PROVE  i \in Completed(m)' \/ i \in inFlight[m].items
    BY <1>1 DEF Remembered
  <2>1. /\ Completed(m) = {file[m][k].item : k \in 1..Len(file[m])}
        /\ Completed(m)' = {file'[m][k].item : k \in 1..Len(file'[m])}
    BY <1>3, ItemsOfRows DEF Completed, Records
  <2>2. CASE i \in inFlight[m].items
    BY <2>2
  <2>3. CASE i \in Completed(m)
    <3>1. PICK k \in 1..Len(file[m]) : file[m][k].item = i
      BY <2>1, <2>3
    <3>2. CASE k > Len(file'[m])
      <4>1. file[m][k].batch = inFlight[m] /\ file[m][k].item \in file[m][k].batch.items
        BY <1>0, <1>4, <3>2 DEF FilesInv
      <4> QED BY <3>1, <4>1
    <3>3. CASE ~(k > Len(file'[m]))
      <4>1. k \in 1..Len(file'[m])
        BY <1>4, <3>3
      <4> QED BY <1>4, <2>1, <3>1, <4>1
    <3> QED BY <3>2, <3>3
  <2> QED BY <1>0, <2>2, <2>3 DEF PaidInv, Remembered
<1>12. PaidInv'
  BY <1>0, <1>1, <1>11 DEF PaidInv
<1> QED BY <1>7, <1>8, <1>9, <1>10, <1>12 DEF Sound, SpendInv

LEMMA ConfigStep == ConfigInv /\ [Next]_vars => ConfigInv'
<1> SUFFICES ASSUME ConfigInv, [Next]_vars PROVE ConfigInv'
  OBVIOUS
<1> USE DEF processVars, ConfigInv
<1>1. ASSUME PlanEnds, pc # "idle" PROVE ConfigInv'
  BY <1>1 DEF PlanEnds, StartPlan, Exit
<1>2. ASSUME NEW size \in Sizes, NEW limit \in 1..Items, Command(size, limit) PROVE ConfigInv'
  BY <1>2, JudgeAssumption DEF Command
<1>3. CASE Load
  BY <1>3 DEF Load, StartPlan
<1>4. CASE Refuse \/ Kill \/ PowerLoss
  BY <1>4 DEF Refuse, Kill, PowerLoss, Exit
<1>5. CASE Exhausted
  BY <1>1, <1>5 DEF Exhausted
<1>6. CASE Dispatch \/ Retry \/ Judged \/ Record \/ Sync
  BY <1>6 DEF Dispatch, Retry, Judged, Answered, Unanswered, Record, Sync
<1>7. CASE Progress
  BY <1>1, <1>7 DEF Progress
<1>8. CASE UNCHANGED vars
  BY <1>8 DEF vars
<1> QED BY <1>2, <1>3, <1>4, <1>5, <1>6, <1>7, <1>8 DEF Next, Step

LEMMA TrustStays == [Next]_vars /\ TypeInv => (trusted => trusted')
<1> SUFFICES ASSUME [Next]_vars, TypeInv, trusted PROVE trusted'
  OBVIOUS
<1> USE DEF historyVars
<1>1. CASE Load \/ Refuse
  BY <1>1 DEF Load, Refuse, Reconcile
<1>2. CASE Exhausted \/ Dispatch \/ Retry \/ Judged \/ Record \/ Sync \/ Progress \/ Kill \/ PowerLoss
  BY <1>2
  DEF Exhausted, Dispatch, Retry, Judged, Answered, Unanswered, Record, Sync,
      Progress, Kill, PowerLoss
<1>3. CASE UNCHANGED vars
  BY <1>3 DEF vars
<1>4. CASE \E size \in Sizes, limit \in 1..Items : Command(size, limit)
  BY <1>4 DEF Command
<1> QED BY <1>1, <1>2, <1>3, <1>4 DEF Next, Step

LEMMA InitSound == Init => Sound /\ ConfigInv
<1> SUFFICES ASSUME Init PROVE Sound /\ ConfigInv
  OBVIOUS
<1>0. TypeInv
  BY InitTypes
<1>1. /\ \A m \in PlanIds : file[m] = <<>> /\ inFlight[m] = NoBatch /\ paid.once[m] = {} /\ paid.again[m] = {}
      /\ pc = "idle" /\ spent = 0
  BY DEF Init
<1>2. FilesInv
  BY <1>1 DEF FilesInv
<1>3. Existing \in Nat /\ Cap \in Nat /\ plan \in PlanIds
  BY <1>0, TypedFiles, Constants
<1>4. Committed = Existing
  BY <1>0, <1>1, <1>2, <1>3, NothingInFlight
<1>5. Existing = 0
  <2> DEFINE c == [m \in PlanIds |-> Cost(m)]
  <2>1. ASSUME NEW m \in PlanIds PROVE Cost(m) = 0
    BY <1>1, SumStep DEF Cost, CostOf
  <2>2. \A k \in 1..Plans : c[k] \in Nat /\ c[k] = 0
    BY <2>1 DEF PlanIds
  <2>3. Existing = SumOf(c, Plans)
    BY DEF Existing
  <2> HIDE DEF c
  <2>4. SumOf(c, Plans) = SumOf(c, 0) /\ SumOf(c, 0) = 0
    BY <2>2, SumOfZeros, SumStep, Constants
  <2> QED BY <2>3, <2>4
<1>6. FlightInv /\ WorkInv /\ MoneyInv /\ PaidUp
  BY <1>1 DEF FlightInv, AtMostOne, WorkInv, MoneyInv, PaidUp, Running, AtJudge
<1>7. Settled /\ Covered
  BY <1>1, <1>3, <1>4, <1>5 DEF Settled, Covered
<1>8. PaidInv
  BY <1>1 DEF PaidInv, Remembered
<1> QED BY <1>1, <1>2, <1>6, <1>7, <1>8 DEF Sound, SpendInv, ConfigInv

LEMMA NextSound == TypeInv /\ ConfigInv /\ Sound /\ [Next]_vars /\ TypeInv' /\ ~trusted' => Sound'
<1> SUFFICES ASSUME TypeInv, ConfigInv, Sound, [Next]_vars, TypeInv', ~trusted' PROVE Sound'
  OBVIOUS
<1>1. ASSUME NEW size, NEW limit, Command(size, limit) PROVE Sound'
  BY <1>1, CommandStep
<1>2. CASE Load
  BY <1>2, LoadStep
<1>3. CASE Refuse
  BY <1>3, RefuseStep
<1>4. CASE Exhausted
  BY <1>4, ExhaustedStep
<1>5. CASE Dispatch
  BY <1>5, DispatchStep
<1>6. CASE Retry
  BY <1>6, RetryStep
<1>7. CASE Judged
  BY <1>7, JudgedStep
<1>8. CASE Record
  BY <1>8, RecordStep
<1>9. CASE Sync
  BY <1>9, SyncStep
<1>10. CASE Progress
  BY <1>10, ProgressStep
<1>11. CASE Kill
  BY <1>11, KillStep
<1>12. CASE PowerLoss
  BY <1>12, PowerLossStep
<1>13. CASE UNCHANGED vars
  <2>1. /\ FilesInv' <=> FilesInv
        /\ FlightInv' <=> FlightInv
        /\ WorkInv' <=> WorkInv
    BY <1>13
    DEF vars, diskVars, processVars, historyVars, FilesInv, FlightInv, AtMostOne,
        Running, AtJudge, WorkInv, Completed, Records
  <2>2. Existing' = Existing /\ Committed' = Committed /\ Open' = Open
        /\ \A m \in PlanIds : Cost(m)' = Cost(m) /\ Completed(m)' = Completed(m)
        /\ Cost(plan)' = Cost(plan)
    BY <1>13
    DEF vars, diskVars, processVars, historyVars, Existing, Committed, Cost, Full,
        Completed, Records, Open
  <2>3. \A m \in PlanIds : Complete(m)' <=> Complete(m)
    BY <1>13 DEF vars, diskVars, Complete
  <2>0. /\ file' = file /\ pc' = pc /\ plan' = plan /\ budget' = budget /\ cost' = cost /\ batch' = batch
        /\ spent' = spent /\ overrun' = overrun
    BY <1>13 DEF vars, diskVars, processVars, historyVars
  <2>7. MoneyInv'
    BY <2>0 DEF Sound, MoneyInv, Running, Cost, Existing
  <2>8. PaidUp'
    BY <2>0 DEF Sound, SpendInv, PaidUp, Running, Cost, Existing, Open
  <2>9. Covered'
    BY <2>0, <2>2 DEF Sound, SpendInv, Covered
  <2>4. MoneyInv' /\ PaidUp' /\ Covered'
    BY <2>7, <2>8, <2>9
  <2>5. Settled'
    BY <1>13, <2>2, <2>3 DEF vars, historyVars, Sound, SpendInv, Settled, Running
  <2>6. PaidInv'
    BY <1>13, <2>2
    DEF vars, diskVars, processVars, historyVars, Sound, PaidInv, Remembered
  <2> QED BY <2>1, <2>4, <2>5, <2>6 DEF Sound, SpendInv
<1> QED
  BY <1>1, <1>2, <1>3, <1>4, <1>5, <1>6, <1>7, <1>8, <1>9, <1>10, <1>11, <1>12,
     <1>13
  DEF Next, Step

-----------------------------------------------------------------------------
(* What the audit promises                                                  *)

\* What was spent and sent is accounted for in the two files of every plan,
\* through retries, kills and power losses, unless a batch was reconciled from
\* records that no fsync had covered.
THEOREM AuditInvariant == Spec => []RunInv
<1>1. Init => RunInv
  BY InitTypes, InitSound DEF RunInv, AuditInv
<1>2. RunInv /\ [Next]_vars => RunInv'
  <2> SUFFICES ASSUME RunInv, [Next]_vars PROVE RunInv'
    OBVIOUS
  <2>1. TypeInv' /\ ConfigInv'
    BY NextTypes, ConfigStep DEF RunInv
  <2>2. ASSUME ~trusted' PROVE Sound'
    <3>1. ~trusted
      BY <2>2, TrustStays DEF RunInv
    <3> QED BY <2>1, <2>2, <3>1, NextSound DEF RunInv, AuditInv
  <2> QED BY <2>1, <2>2 DEF RunInv, AuditInv
<1> QED BY <1>1, <1>2, PTL DEF Spec

\* Every unit that was charged is in the records of a finished batch or in a
\* reservation on disk (_validate_metadata, run_judgments).
THEOREM NothingIsForgotten == Spec => []ChargesAreOnDisk
<1>1. RunInv => ChargesAreOnDisk
  <2> SUFFICES ASSUME RunInv, ~overrun, ~trusted
               PROVE  spent <= Existing + SumOf([m \in PlanIds |-> Reserved(inFlight[m])], Plans)
    BY DEF ChargesAreOnDisk
  <2>1. TypeInv /\ spent <= Committed
    BY DEF RunInv, AuditInv, Sound, SpendInv, Covered
  <2>2. /\ file \in [PlanIds -> Seq(Entry)] /\ inFlight \in [PlanIds -> BatchIds]
        /\ Committed \in Nat /\ Existing \in Nat /\ spent \in Nat
    BY <2>1, TypedFiles
  <2> DEFINE r == [m \in PlanIds |-> Reserved(inFlight[m])]
  <2>3. \A k \in 1..Plans : r[k] \in Nat
    BY <2>2, ProjectedIsNat DEF PlanIds
  <2>4. Committed <= Existing + SumOf(r, Plans)
    BY <2>2, FullAtMost, Totals
  <2> HIDE DEF r
  <2>5. SumOf(r, Plans) \in Nat
    BY <2>3, SumIsNat, Constants
  <2>6. spent <= Existing + SumOf(r, Plans)
    BY <2>1, <2>2, <2>4, <2>5
  <2> QED BY <2>6 DEF r
<1> QED BY <1>1, AuditInvariant, PTL

\* All plans and commands together stay under --max-cost-usd as long as no
\* attempt is charged more than projected.
THEOREM CapIsKept == Spec => []SpendStaysUnderCap
<1>1. RunInv => SpendStaysUnderCap
  <2> SUFFICES ASSUME RunInv, ~overrun, ~trusted PROVE spent <= Cap
    BY DEF SpendStaysUnderCap
  <2>1. TypeInv /\ spent <= Committed /\ Committed <= Cap
    BY DEF RunInv, AuditInv, Sound, SpendInv, Covered
  <2>2. Committed \in Nat /\ spent \in Nat /\ Cap \in Nat
    BY <2>1, TypedFiles, Constants
  <2> QED BY <2>1, <2>2
<1> QED BY <1>1, AuditInvariant, PTL

\* No row goes to the same judge again in a later batch or command.
THEOREM NoRowTwice == Spec => []RowsArePaidOnce
<1>1. RunInv => RowsArePaidOnce
  BY DEF RunInv, AuditInv, Sound, PaidInv, RowsArePaidOnce
<1> QED BY <1>1, AuditInvariant, PTL

\* Once an attempt has cost more than projected and the cap is crossed, nothing
\* more is spent, by a retry, the next plan or the next command.
THEOREM SpendingStopsAtCap == Spec => NothingMoreAboveCap
<1>1. RunInv /\ [Next]_vars => [spent > Cap => trusted \/ spent' = spent]_vars
  <2> SUFFICES ASSUME RunInv, [Next]_vars, spent > Cap, ~trusted PROVE spent' = spent
    OBVIOUS
  <2>0. TypeInv /\ Sound
    BY DEF RunInv, AuditInv
  <2>1. pc # "judging"
    <3> SUFFICES ASSUME pc = "judging" PROVE FALSE
      OBVIOUS
    <3>1. /\ batch.attempts < MaxAttempts /\ Projected(batch.id) \in Nat
          /\ Reserved(batch.id) = Projected(batch.id) * MaxAttempts
          /\ spent <= Existing + Projected(batch.id) * batch.attempts
          /\ Committed = Existing + Reserved(batch.id) /\ Committed <= Cap
      BY <2>0, BeforeAnAttempt
    <3>2. /\ Existing \in Nat /\ spent \in Nat /\ Cap \in Nat /\ batch.attempts \in Nat
          /\ MaxAttempts \in Nat
      BY <2>0, TypedFiles, Constants
    <3>3. PICK r \in Nat : r = Projected(batch.id) * MaxAttempts
      BY <3>1, <3>2, Product
    <3>4. PICK u \in Nat : u = Projected(batch.id) * batch.attempts
      BY <3>1, <3>2, Product
    <3>5. u <= r
      BY <3>1, <3>2, <3>3, <3>4, Product
    <3>6. spent <= Existing + u /\ Existing + r <= Cap
      BY <3>1, <3>3, <3>4
    <3> QED BY <3>2, <3>5, <3>6
  <2> USE DEF historyVars
  <2>2. CASE Load \/ Refuse
    BY <2>2 DEF Load, Refuse
  <2>3. CASE Exhausted \/ Dispatch \/ Record \/ Sync \/ Progress \/ Kill \/ PowerLoss
    BY <2>3 DEF Exhausted, Dispatch, Record, Sync, Progress, Kill, PowerLoss
  <2>4. CASE Retry \/ Judged
    BY <2>1, <2>4 DEF Retry, Judged, Answered, Unanswered
  <2>5. CASE \E size \in Sizes, limit \in 1..Items : Command(size, limit)
    BY <2>5 DEF Command
  <2>6. CASE UNCHANGED vars
    BY <2>6 DEF vars
  <2> QED BY <2>2, <2>3, <2>4, <2>5, <2>6 DEF Next, Step
<1> QED BY <1>1, AuditInvariant, PTL DEF Spec, NothingMoreAboveCap
=============================================================================
