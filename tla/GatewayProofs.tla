----------------------------- MODULE GatewayProofs -----------------------------
(***************************************************************************)
(* Proofs about answers: those the gateway gave before (Gateway), for any  *)
(* number of requests, sessions and prompts and any capacities; what it    *)
(* retrieves to answer from (Retrieval), for every corpus and whatever the *)
(* two arms find; and how the text of an answer is separated and cut as it *)
(* comes (Segmenter), for every text and however its chunks are cut.       *)
(*                                                                         *)
(* Earlier answers: both maps the handlers share are ordered dictionaries  *)
(* (one entry per key), the cache holds verified answers only (CacheInv),  *)
(* and a session that is still in the session map names the request that   *)
(* answered last in it (TurnsInv); so what a handler read when its request *)
(* came is either nothing, because the session was evicted, or the latest  *)
(* turn of that moment, and it keeps it across its awaits (HandlersInv).   *)
(*                                                                         *)
(* The index: a build has read a whole corpus before it unlinks the file,  *)
(* a file has rows only once they are committed, and the name and the      *)
(* width recorded in it fix the embedder (IndexInv).                       *)
(*                                                                         *)
(* The passages: merging and splitting a document's paragraphs are runs    *)
(* over sequences, and every step of them keeps the sentences taken so far *)
(* (MergedWhole, SplitWhole).                                              *)
(*                                                                         *)
(* The order: scores are sums of fractions, compared by cross products;    *)
(* that is a strict order (BeforeIsOrder), which puts first what an arm    *)
(* prefers and none holds back (DominatesIsBefore), and a reply is sorted  *)
(* by it (AnswerInv).                                                      *)
(*                                                                         *)
(* The text: recursion over the rest of a text has a solution              *)
(* (SolutionExists), so the two functions of the segmenter satisfy their   *)
(* equations (SeparateIs, CutLongIs). A text cut in two separates as in    *)
(* one piece as long as its tags fit what is held back (Resumed), so what  *)
(* may follow separates as if it followed all that was pushed (TagInv).    *)
(* Every operation on sentences keeps what is not blank (SplitKeeps,       *)
(* CutKeeps), and what was held back is put in once, at the end (TextInv). *)
(* In plain prose what closes after a sentence is what would close in a    *)
(* text of its own (PlainGoesOn), so the sentences handed over are those   *)
(* of the text pushed so far (ProseInv).                                   *)
(***************************************************************************)
EXTENDS Gateway, Retrieval, Segmenter, TLAPS, FiniteSetTheorems, SequenceTheorems, WellFoundedInduction

-----------------------------------------------------------------------------
(* Numbers                                                                  *)

\* A set of naturals that is not empty has a smallest member.
LEMMA Least ==
    ASSUME NEW I \in SUBSET Nat, I # {}
    PROVE  \E x \in I : \A y \in I : x <= y
<1> DEFINE R == {p \in Nat \X Nat : p[1] < p[2]}
<1>1. R = OpToRel(<, Nat)
  BY DEF OpToRel
<1>2. IsWellFoundedOn(R, Nat)
  BY <1>1, NatLessThanWellFounded
<1> HIDE DEF R
<1>3. PICK x \in I : \A y \in I : <<y, x>> \notin R
  BY <1>2, WFMin
<1>4. \A y \in I : x <= y
  <2> TAKE y \in I
  <2>1. <<y, x>> \notin R /\ x \in Nat /\ y \in Nat
    BY <1>3
  <2>2. ~(y < x)
    BY <2>1 DEF R
  <2> QED BY <2>1, <2>2
<1> QED BY <1>4

\* Induction, for a set of numbers.
LEMMA Counting ==
    ASSUME NEW S, 0 \in S, \A n \in Nat : n \in S => n + 1 \in S
    PROVE  Nat \subseteq S
<1> SUFFICES ASSUME Nat \ S # {} PROVE FALSE
  OBVIOUS
<1>1. PICK n \in Nat \ S : \A m \in Nat \ S : n <= m
  BY Least
<1>2. n # 0 /\ n - 1 \in Nat /\ (n - 1) + 1 = n
  BY <1>1
<1>3. n - 1 \in S
  BY <1>1, <1>2
<1> QED BY <1>1, <1>2, <1>3

-----------------------------------------------------------------------------
(* Earlier answers: the inductive invariant                                 *)

Tiers    == {"strong", "cheap"}
Models   == {"auto", "cheap", "strong", "other"}
Contexts == {"caller", "index", "none"}
Turns    == [session : Sessions, request : Requests]

Lanes == [rules : BOOLEAN, degraded : BOOLEAN, context : Contexts, buffered : BOOLEAN, tier : Tiers]

Kept == [prompt : Prompts, session : Sessions \cup {NoSession},
         previous : Requests \cup {NoRequest}, latest : Requests \cup {NoRequest},
         lane : Lanes \cup {NoLane}, model : Models \cup {NoModel}]

Sources == [answer : Answers, tier : Tiers, degraded : BOOLEAN]
Entries == [scope : Prompts, context : Contexts, policy : Nat, model : Models, source : Sources]

\* The entries _store_cache may make: the answer has text, every sentence of it
\* passed, no detector was lost, and the model asked for gave it.
Verified == {e \in Entries :
                /\ e.source.answer.text /\ e.source.answer.verdicts = "passed"
                /\ ~e.source.degraded
                /\ e.model = SelectedModel(e.scope, e.source.tier)}

InHandler == {"preflight", "calling", "streaming", "replaying"}

\* What a handler keeps while it awaits.
HandlersInv ==
    /\ phase \in [Requests -> Phases]
    /\ local \in [Requests -> Kept \cup {<<>>}]
    /\ \A r \in Requests : phase[r] \in InHandler =>
          /\ local[r] \in Kept
          /\ local[r].previous \in {NoRequest, local[r].latest}
    /\ \A r \in Requests : phase[r] \in {"calling", "streaming"} =>
          /\ local[r].lane \in Lanes
          /\ local[r].model = SelectedModel(local[r].prompt, local[r].lane.tier)

\* The cache is a bounded map of verified answers.
CacheInv ==
    /\ policy \in Nat
    /\ cache \in Seq(Verified)
    /\ Len(cache) <= Capacity
    /\ \A i, j \in 1..Len(cache) : SameKey(cache[i], cache[j]) => i = j

\* The session map is bounded, and names the latest turn of each session in it.
TurnsInv ==
    /\ last \in [Sessions -> Requests \cup {NoRequest}]
    /\ turns \in Seq(Turns)
    /\ Len(turns) <= MaxSessions
    /\ \A i, j \in 1..Len(turns) : turns[i].session = turns[j].session => i = j
    /\ \A i \in 1..Len(turns) : turns[i].request = last[turns[i].session]

Inv == HandlersInv /\ CacheInv /\ TurnsInv /\ ReplaysAreValid /\ ReworkNamesLatestTurn

-----------------------------------------------------------------------------
(* Sequences used as ordered dictionaries                                   *)

\* The smallest of some naturals is one of them.
LEMMA SmallestOf ==
    ASSUME NEW I \in SUBSET Nat, I # {}
    PROVE  Min(I) \in I
BY Least DEF Min

\* What SelectInSeq returns, given the places that pass its test.
LEMMA FirstPlace ==
    ASSUME NEW S, NEW s \in Seq(S), NEW I \in SUBSET (1..Len(s)),
           NEW i, i = IF I # {} THEN Min(I) ELSE 0
    PROVE  /\ i \in 0..Len(s)
           /\ i = 0 <=> I = {}
           /\ i # 0 => i \in I
<1>1. Len(s) \in Nat
  BY LenProperties
<1>2. I # {} => Min(I) \in I
  BY <1>1, SmallestOf
<1>3. CASE I # {}
  <2>1. i = Min(I) /\ i \in I
    BY <1>2, <1>3
  <2>2. i \in 1..Len(s)
    BY <2>1
  <2> QED BY <1>1, <1>3, <2>1, <2>2
<1>4. CASE I = {}
  BY <1>1, <1>4
<1> QED BY <1>3, <1>4

\* RemoveAt closes the gap and keeps the order of the others.
LEMMA Removed ==
    ASSUME NEW S, NEW s \in Seq(S), NEW i \in 1..Len(s)
    PROVE  /\ RemoveAt(s, i) \in Seq(S)
           /\ Len(RemoveAt(s, i)) = Len(s) - 1
           /\ \A j \in 1..Len(RemoveAt(s, i)) :
                 RemoveAt(s, i)[j] = s[IF j < i THEN j ELSE j + 1]
<1> DEFINE n == Len(s)
           a == SubSeq(s, 1, i - 1)
           b == SubSeq(s, i + 1, n)
<1>1. n \in Nat /\ i \in Nat /\ 1 <= i /\ i <= n
  BY LenProperties
<1>2. /\ a \in Seq(S) /\ Len(a) = i - 1
      /\ \A j \in 1..(i - 1) : a[j] = s[j]
  BY <1>1, SubSeqProperties
<1>3. /\ b \in Seq(S) /\ Len(b) = n - i
      /\ \A j \in 1..(n - i) : b[j] = s[i + j]
  BY <1>1, SubSeqProperties
<1> HIDE DEF a, b
<1>4. /\ a \o b \in Seq(S) /\ Len(a \o b) = Len(a) + Len(b)
      /\ \A j \in 1..(Len(a) + Len(b)) : (a \o b)[j] = IF j <= Len(a) THEN a[j] ELSE b[j - Len(a)]
  BY <1>2, <1>3, ConcatProperties
<1>5. RemoveAt(s, i) = a \o b
  BY DEF RemoveAt, a, b
<1>6. Len(a \o b) = n - 1
  BY <1>1, <1>2, <1>3, <1>4
<1>7. \A j \in 1..(n - 1) : (a \o b)[j] = s[IF j < i THEN j ELSE j + 1]
  <2> TAKE j \in 1..(n - 1)
  <2>1. CASE j < i
    <3>1. (a \o b)[j] = a[j] /\ j \in 1..(i - 1)
      BY <1>1, <1>2, <1>3, <1>4, <2>1
    <3> QED BY <1>2, <2>1, <3>1
  <2>2. CASE ~(j < i)
    <3>1. (a \o b)[j] = b[j - (i - 1)] /\ j - (i - 1) \in 1..(n - i)
      BY <1>1, <1>2, <1>3, <1>4, <2>2
    <3>2. i + (j - (i - 1)) = j + 1
      BY <1>1
    <3> QED BY <1>3, <2>2, <3>1, <3>2
  <2> QED BY <2>1, <2>2
<1> QED BY <1>4, <1>5, <1>6, <1>7

\* Append, index by index.
LEMMA Appended ==
    ASSUME NEW S, NEW s \in Seq(S), NEW e \in S
    PROVE  /\ Append(s, e) \in Seq(S)
           /\ Len(Append(s, e)) = Len(s) + 1
           /\ \A k \in 1..Len(s) : Append(s, e)[k] = s[k]
           /\ Append(s, e)[Len(s) + 1] = e
           /\ Len(s) \in Nat
BY AppendProperties, LenProperties

\* Tail, index by index.
LEMMA Tailed ==
    ASSUME NEW S, NEW s \in Seq(S), Len(s) > 0
    PROVE  /\ Tail(s) \in Seq(S)
           /\ Len(Tail(s)) = Len(s) - 1
           /\ \A k \in 1..Len(Tail(s)) : Tail(s)[k] = s[k + 1]
           /\ Len(s) \in Nat
<1>1. s # <<>> /\ Len(s) \in Nat
  BY EmptySeq, LenProperties
<1> QED BY <1>1, HeadTailProperties

-----------------------------------------------------------------------------
(* The cache                                                                *)

\* A hit is an entry of the cache for this prompt and context, of this policy.
LEMMA LookupFinds ==
    ASSUME CacheInv, NEW prompt \in Prompts, NEW context, NEW i, i = Lookup(prompt, context), i # 0
    PROVE  /\ i \in 1..Len(cache)
           /\ Valid(cache[i], prompt, context)
           /\ prompt.impact <= Ceiling
<1> DEFINE I == {k \in 1..Len(cache) : cache[k].scope.question = prompt.question
                                        /\ Valid(cache[k], prompt, context)}
<1>1. prompt.impact <= Ceiling
  BY GatewayAssumption DEF Lookup
<1>2. i = IF I # {} THEN Min(I) ELSE 0
  BY <1>1, GatewayAssumption DEF Lookup, SelectInSeq
<1>3. i \in I
  <2> HIDE DEF I
  <2>1. I \in SUBSET (1..Len(cache))
    BY DEF I
  <2> QED BY <1>2, <2>1, FirstPlace DEF CacheInv
<1> QED BY <1>1, <1>3

\* Moving an entry to the end (move_to_end) keeps the map.
LEMMA TouchedKeeps ==
    ASSUME CacheInv, NEW i \in 1..Len(cache)
    PROVE  /\ Touched(i) \in Seq(Verified)
           /\ Len(Touched(i)) = Len(cache)
           /\ \A j, k \in 1..Len(Touched(i)) : SameKey(Touched(i)[j], Touched(i)[k]) => j = k
<1> DEFINE rest == RemoveAt(cache, i)
           e    == cache[i]
           n    == Len(cache)
           at(j) == IF j < i THEN j ELSE j + 1
<1>1. n \in Nat /\ i \in 1..n /\ e \in Verified /\ cache \in Seq(Verified)
  BY LenProperties, ElementOfSeq DEF CacheInv
<1>2. /\ rest \in Seq(Verified) /\ Len(rest) = n - 1
      /\ \A j \in 1..Len(rest) : rest[j] = cache[at(j)]
  BY <1>1, Removed
<1>3. /\ Append(rest, e) \in Seq(Verified) /\ Len(Append(rest, e)) = n
      /\ \A j \in 1..(n - 1) : Append(rest, e)[j] = rest[j]
      /\ Append(rest, e)[n] = e
  <2> HIDE DEF rest, e
  <2> QED BY <1>1, <1>2, Appended
<1>4. Touched(i) = Append(rest, e)
  BY DEF Touched
<1> DEFINE from(j) == IF j = n THEN i ELSE at(j)
<1>5. \A j \in 1..n : from(j) \in 1..n /\ Append(rest, e)[j] = cache[from(j)]
  <2> TAKE j \in 1..n
  <2>1. CASE j = n
    BY <1>1, <1>3, <2>1
  <2>2. CASE j # n
    BY <1>1, <1>2, <1>3, <2>2
  <2> QED BY <2>1, <2>2
<1>6. \A j, k \in 1..n : from(j) = from(k) => j = k
  BY <1>1
<1>7. \A j, k \in 1..n : SameKey(cache[j], cache[k]) => j = k
  BY DEF CacheInv
<1>8. \A j, k \in 1..n : SameKey(Append(rest, e)[j], Append(rest, e)[k]) => j = k
  <2> TAKE j, k \in 1..n
  <2> HIDE DEF from, rest, e, n
  <2> QED BY <1>5, <1>6, <1>7
<1> QED BY <1>3, <1>4, <1>8

\* Storing a verified answer replaces its key, and evicts one entry if it must.
LEMMA StoredKeeps ==
    ASSUME CacheInv, NEW e \in Verified
    PROVE  /\ Stored(e) \in Seq(Verified)
           /\ Len(Stored(e)) <= Capacity
           /\ \A j, k \in 1..Len(Stored(e)) : SameKey(Stored(e)[j], Stored(e)[k]) => j = k
<1> DEFINE I == {k \in 1..Len(cache) : SameKey(cache[k], e)}
           i == IF I # {} THEN Min(I) ELSE 0
           rest == IF i = 0 THEN cache ELSE RemoveAt(cache, i)
           kept == Append(rest, e)
           n == Len(cache)
           at(j) == IF i = 0 \/ j < i THEN j ELSE j + 1
<1>1. /\ n \in Nat /\ cache \in Seq(Verified) /\ n <= Capacity /\ Capacity \in Nat /\ Capacity >= 1
      /\ \A j, k \in 1..n : SameKey(cache[j], cache[k]) => j = k
  BY LenProperties, GatewayAssumption DEF CacheInv
<1>2. Stored(e) = IF Len(kept) > Capacity THEN Tail(kept) ELSE kept
  BY DEF Stored, SelectInSeq
<1>3. i \in 0..n /\ (i = 0 <=> I = {}) /\ (i # 0 => i \in I)
  <2>1. I \in SUBSET (1..n)
    OBVIOUS
  <2> HIDE DEF I
  <2> QED BY <1>1, <2>1, FirstPlace
<1>4. I \subseteq {i}
  <2> SUFFICES ASSUME NEW k \in I PROVE k = i
    OBVIOUS
  <2>1. i \in I
    BY <1>3
  <2>2. SameKey(cache[k], cache[i])
    BY <2>1 DEF SameKey
  <2> QED BY <1>1, <2>1, <2>2
<1> HIDE DEF i
<1>5. /\ rest \in Seq(Verified) /\ Len(rest) = IF i = 0 THEN n ELSE n - 1
      /\ \A j \in 1..Len(rest) : rest[j] = cache[at(j)] /\ at(j) \in 1..n /\ at(j) # i
  <2>1. CASE i = 0
    BY <1>1, <2>1
  <2>2. CASE i # 0
    <3>1. /\ rest \in Seq(Verified) /\ Len(rest) = n - 1
          /\ \A j \in 1..Len(rest) : rest[j] = cache[at(j)]
      BY <1>1, <1>3, <2>2, Removed
    <3>2. \A j \in 1..Len(rest) : at(j) \in 1..n /\ at(j) # i
      BY <1>1, <1>3, <2>2, <3>1
    <3> QED BY <2>2, <3>1, <3>2
  <2> QED BY <2>1, <2>2
<1>6. \A j \in 1..Len(rest) : ~SameKey(rest[j], e)
  <2> TAKE j \in 1..Len(rest)
  <2>1. at(j) \notin I /\ at(j) \in 1..n /\ rest[j] = cache[at(j)]
    BY <1>4, <1>5
  <2> HIDE DEF at, rest
  <2> QED BY <2>1
<1>7. \A j, k \in 1..Len(rest) : SameKey(rest[j], rest[k]) => j = k
  <2> TAKE j, k \in 1..Len(rest)
  <2>1. SameKey(rest[j], rest[k]) => at(j) = at(k)
    BY <1>1, <1>5
  <2>2. Len(rest) \in Nat /\ (at(j) = at(k) => j = k)
    BY <1>1, <1>3, <1>5
  <2> HIDE DEF at, rest
  <2> QED BY <2>1, <2>2
<1> HIDE DEF rest
<1>8. /\ kept \in Seq(Verified) /\ Len(kept) = Len(rest) + 1 /\ Len(rest) \in Nat
      /\ \A j \in 1..Len(rest) : kept[j] = rest[j]
      /\ kept[Len(rest) + 1] = e
  BY <1>5, Appended
<1> HIDE DEF kept
<1>9. \A j, k \in 1..Len(kept) : SameKey(kept[j], kept[k]) => j = k
  <2> TAKE j, k \in 1..Len(kept)
  <2>1. CASE j \in 1..Len(rest) /\ k \in 1..Len(rest)
    BY <1>7, <1>8, <2>1
  <2>2. CASE j \in 1..Len(rest) /\ k = Len(rest) + 1
    BY <1>6, <1>8, <2>2
  <2>3. CASE j = Len(rest) + 1 /\ k \in 1..Len(rest)
    BY <1>6, <1>8, <2>3 DEF SameKey
  <2> QED BY <1>8, <2>1, <2>2, <2>3
<1>10. CASE Len(kept) <= Capacity
  BY <1>1, <1>2, <1>8, <1>9, <1>10
<1>11. CASE Len(kept) > Capacity
  <2>1. /\ Tail(kept) \in Seq(Verified) /\ Len(Tail(kept)) = Len(kept) - 1
        /\ \A k \in 1..Len(Tail(kept)) : Tail(kept)[k] = kept[k + 1]
    BY <1>1, <1>8, <1>11, Tailed
  <2>2. \A j, k \in 1..Len(Tail(kept)) : SameKey(Tail(kept)[j], Tail(kept)[k]) => j = k
    <3> TAKE j, k \in 1..Len(Tail(kept))
    <3>1. j + 1 \in 1..Len(kept) /\ k + 1 \in 1..Len(kept)
      BY <1>8, <2>1
    <3> QED BY <1>8, <1>9, <2>1, <3>1
  <2>3. Len(Tail(kept)) <= Capacity
    BY <1>1, <1>5, <1>8, <2>1
  <2>4. Stored(e) = Tail(kept)
    BY <1>1, <1>2, <1>8, <1>11
  <2> QED BY <2>1, <2>2, <2>3, <2>4
<1> QED BY <1>1, <1>8, <1>10, <1>11

-----------------------------------------------------------------------------
(* The session map                                                          *)

\* The turn found for a session is its latest; none is found after an eviction.
LEMMA PreviousIsLatest ==
    ASSUME TurnsInv, NEW s \in Sessions
    PROVE  /\ PreviousTurn(s) \in Requests \cup {NoRequest}
           /\ PreviousTurn(s) \in {NoRequest, last[s]}
<1> DEFINE I == {k \in 1..Len(turns) : turns[k].session = s}
           i == IF I # {} THEN Min(I) ELSE 0
<1>1. PreviousTurn(s) = IF i = 0 THEN NoRequest ELSE turns[i].request
  BY DEF PreviousTurn, SelectInSeq
<1>2. i = 0 \/ i \in I
  <2>1. I \in SUBSET (1..Len(turns)) /\ turns \in Seq(Turns)
    BY DEF TurnsInv
  <2> HIDE DEF I
  <2> QED BY <2>1, FirstPlace
<1>3. i # 0 => turns[i] \in Turns /\ turns[i].session = s /\ turns[i].request = last[turns[i].session]
  BY <1>2, ElementOfSeq DEF TurnsInv
<1> HIDE DEF i
<1> QED BY <1>1, <1>3 DEF Turns

\* A session that answers again keeps its one place, with the new request.
LEMMA RememberedKeeps ==
    ASSUME TurnsInv, NEW s \in Sessions, NEW r \in Requests,
           NEW latest, latest = [last EXCEPT ![s] = r]
    PROVE  /\ Remembered(s, r) \in Seq(Turns)
           /\ Len(Remembered(s, r)) <= MaxSessions
           /\ \A j, k \in 1..Len(Remembered(s, r)) :
                 Remembered(s, r)[j].session = Remembered(s, r)[k].session => j = k
           /\ \A j \in 1..Len(Remembered(s, r)) :
                 Remembered(s, r)[j].request = latest[Remembered(s, r)[j].session]
<1> DEFINE I == {k \in 1..Len(turns) : turns[k].session = s}
           i == IF I # {} THEN Min(I) ELSE 0
           turn == [session |-> s, request |-> r]
           all == IF i = 0 THEN Append(turns, turn) ELSE [turns EXCEPT ![i].request = r]
           n == Len(turns)
           Good(q) == /\ q \in Seq(Turns)
                      /\ \A j, k \in 1..Len(q) : q[j].session = q[k].session => j = k
                      /\ \A j \in 1..Len(q) : q[j].request = latest[q[j].session]
<1>1. /\ n \in Nat /\ turns \in Seq(Turns) /\ n <= MaxSessions
      /\ MaxSessions \in Nat /\ MaxSessions >= 1
      /\ turn \in Turns /\ turn.session = s /\ turn.request = r
  BY LenProperties, GatewayAssumption DEF TurnsInv, Turns
<1>2. Remembered(s, r) = IF Len(all) > MaxSessions THEN Tail(all) ELSE all
  BY DEF Remembered, SelectInSeq
<1>3. (i = 0 <=> I = {}) /\ (i # 0 => i \in I)
  <2>1. I \in SUBSET (1..Len(turns))
    OBVIOUS
  <2> HIDE DEF I
  <2> QED BY <1>1, <2>1, FirstPlace
<1>4. \A j \in 1..n : /\ turns[j] \in Turns
                      /\ turns[j].session # s => turns[j].request = latest[turns[j].session]
  <2> TAKE j \in 1..n
  <2>1. turns[j] \in Turns
    BY <1>1, ElementOfSeq
  <2>2. turns[j].session \in Sessions
    BY <2>1 DEF Turns
  <2> QED BY <2>1, <2>2 DEF TurnsInv
<1>5. latest[s] = r
  BY DEF TurnsInv
<1>6. Good(all) /\ Len(all) <= n + 1
  <2>1. CASE i = 0
    <3>1. \A j \in 1..n : turns[j].session # s
      BY <1>3, <2>1
    <3> DEFINE q == Append(turns, turn)
    <3>2. /\ q \in Seq(Turns) /\ Len(q) = n + 1
          /\ \A j \in 1..n : q[j] = turns[j]
          /\ q[n + 1] = turn
      <4> HIDE DEF turn
      <4> QED BY <1>1, Appended
    <3> HIDE DEF q, turn
    <3>3. \A j, k \in 1..(n + 1) : q[j].session = q[k].session => j = k
      <4> TAKE j, k \in 1..(n + 1)
      <4>1. CASE j \in 1..n /\ k \in 1..n
        BY <3>2, <4>1 DEF TurnsInv
      <4>2. CASE j \in 1..n /\ k = n + 1
        BY <1>1, <3>1, <3>2, <4>2
      <4>3. CASE j = n + 1 /\ k \in 1..n
        BY <1>1, <3>1, <3>2, <4>3
      <4> QED BY <1>1, <4>1, <4>2, <4>3
    <3>4. \A j \in 1..(n + 1) : q[j].request = latest[q[j].session]
      <4> TAKE j \in 1..(n + 1)
      <4>1. CASE j \in 1..n
        BY <1>4, <3>1, <3>2, <4>1
      <4>2. CASE j = n + 1
        BY <1>1, <1>5, <3>2, <4>2
      <4> QED BY <1>1, <4>1, <4>2
    <3>5. all = q
      BY <2>1 DEF q, turn
    <3> HIDE DEF all
    <3> QED BY <3>2, <3>3, <3>4, <3>5
  <2>2. CASE i # 0
    <3>1. i \in 1..n /\ turns[i].session = s /\ turns[i] \in Turns
      BY <1>3, <1>4, <2>2
    <3> DEFINE q == [turns EXCEPT ![i] = turn]
    <3>2. all = q
      <4>1. [turns[i] EXCEPT !.request = r] = turn
        BY <3>1 DEF Turns
      <4>2. all = [turns EXCEPT ![i] = [turns[i] EXCEPT !.request = r]]
        BY <2>2
      <4> HIDE DEF turn, all, i
      <4> QED BY <4>1, <4>2
    <3>3. /\ q \in Seq(Turns) /\ Len(q) = n
          /\ \A j \in 1..n : q[j] = IF j = i THEN turn ELSE turns[j]
      <4> HIDE DEF turn, i
      <4> QED BY <1>1, <3>1, ExceptSeq
    <3> HIDE DEF q, turn, i, all
    <3>4. \A j \in 1..n : q[j].session = turns[j].session
      BY <1>1, <3>1, <3>3
    <3>5. \A j, k \in 1..n : q[j].session = q[k].session => j = k
      BY <3>4 DEF TurnsInv
    <3>6. \A j \in 1..n : q[j].request = latest[q[j].session]
      <4> TAKE j \in 1..n
      <4>1. CASE j = i
        BY <1>1, <1>5, <3>3, <4>1
      <4>2. CASE j # i
        <5>1. turns[j].session # s
          BY <3>1, <4>2 DEF TurnsInv
        <5> QED BY <1>4, <3>3, <4>2, <5>1
      <4> QED BY <4>1, <4>2
    <3> QED BY <3>2, <3>3, <3>5, <3>6
  <2> QED BY <2>1, <2>2
<1>7. ASSUME NEW q \in Seq(Turns), Good(q), Len(q) <= n + 1, Len(q) > MaxSessions
      PROVE  Good(Tail(q)) /\ Len(Tail(q)) <= MaxSessions
  <2>0. Len(q) \in Nat /\ Len(q) > 0
    BY <1>1, <1>7, LenProperties
  <2>1. /\ Tail(q) \in Seq(Turns) /\ Len(Tail(q)) = Len(q) - 1
        /\ \A k \in 1..Len(Tail(q)) : Tail(q)[k] = q[k + 1]
    BY <2>0, Tailed
  <2>2. Len(q) \in Nat /\ \A k \in 1..Len(Tail(q)) : k + 1 \in 1..Len(q)
    BY <2>0, <2>1
  <2>3. \A j, k \in 1..Len(Tail(q)) : Tail(q)[j].session = Tail(q)[k].session => j = k
    <3> TAKE j, k \in 1..Len(Tail(q))
    <3>1. Tail(q)[j].session = Tail(q)[k].session => j + 1 = k + 1
      BY <1>7, <2>1, <2>2
    <3> QED BY <2>2, <2>1, <3>1
  <2>4. \A j \in 1..Len(Tail(q)) : Tail(q)[j].request = latest[Tail(q)[j].session]
    BY <1>7, <2>1, <2>2
  <2>5. Len(Tail(q)) <= MaxSessions
    BY <1>1, <1>7, <2>1
  <2> QED BY <2>1, <2>3, <2>4, <2>5
<1>8. Len(all) \in Nat
  <2> HIDE DEF all
  <2> QED BY <1>6, LenProperties
<1>9. CASE ~(Len(all) > MaxSessions)
  <2>1. Remembered(s, r) = all
    BY <1>2, <1>9
  <2>2. Len(all) <= MaxSessions
    BY <1>1, <1>9, <1>8
  <2> HIDE DEF all
  <2> QED BY <1>6, <2>1, <2>2
<1>10. CASE Len(all) > MaxSessions
  <2>1. Remembered(s, r) = Tail(all)
    BY <1>2, <1>10
  <2>2. Good(Tail(all)) /\ Len(Tail(all)) <= MaxSessions
    <3> HIDE DEF all
    <3> QED BY <1>6, <1>7, <1>10
  <2> HIDE DEF all
  <2> QED BY <2>1, <2>2
<1> QED BY <1>9, <1>10

-----------------------------------------------------------------------------
(* The steps                                                                *)

\* What the preflight finds is a lane, and the model follows from its tier.
LEMMA PreflightTypes ==
    ASSUME NEW prompt \in Prompts, NEW outcome, NEW found \in {"index", "none"}
    PROVE  /\ Preflight(prompt, outcome, found) \in Lanes
           /\ \A tier \in Tiers : SelectedModel(prompt, tier) \in Models
<1> DEFINE result == Preflight(prompt, outcome, found)
<1>1. \A flagged, context : Tier(prompt, flagged, context) \in Tiers
  BY DEF Tier, Routed, Tiers
<1>2. result.context \in Contexts /\ result.tier \in Tiers
      /\ result.rules \in BOOLEAN /\ result.degraded \in BOOLEAN /\ result.buffered \in BOOLEAN
  BY <1>1 DEF Preflight, Contexts
<1>3. result = [rules |-> result.rules, degraded |-> result.degraded, context |-> result.context,
                buffered |-> result.buffered, tier |-> result.tier]
  BY DEF Preflight
<1>4. result \in Lanes
  <2> HIDE DEF result
  <2> QED BY <1>2, <1>3 DEF Lanes
<1>5. \A tier \in Tiers : SelectedModel(prompt, tier) \in Models
  BY GatewayAssumption DEF SelectedModel, Tiers, Models
<1> QED BY <1>4, <1>5

\* A handler that moves on leaves the others as they are.
LEMMA MoveKeeps ==
    ASSUME HandlersInv, NEW r \in Requests, NEW p \in Phases, NEW kept \in Kept \cup {<<>>},
           Move(r, p, kept),
           p \in InHandler => kept \in Kept /\ kept.previous \in {NoRequest, kept.latest},
           p \in {"calling", "streaming"} =>
              kept.lane \in Lanes /\ kept.model = SelectedModel(kept.prompt, kept.lane.tier)
    PROVE  HandlersInv'
<1>1. /\ phase' = [phase EXCEPT ![r] = p] /\ local' = [local EXCEPT ![r] = kept]
      /\ phase \in [Requests -> Phases] /\ local \in [Requests -> Kept \cup {<<>>}]
  BY DEF Move, HandlersInv
<1>2. /\ phase' \in [Requests -> Phases] /\ local' \in [Requests -> Kept \cup {<<>>}]
      /\ phase'[r] = p /\ local'[r] = kept
      /\ \A o \in Requests : o # r => phase'[o] = phase[o] /\ local'[o] = local[o]
  BY <1>1
<1>3. \A o \in Requests : phase'[o] \in InHandler =>
         local'[o] \in Kept /\ local'[o].previous \in {NoRequest, local'[o].latest}
  BY <1>2 DEF HandlersInv
<1>4. \A o \in Requests : phase'[o] \in {"calling", "streaming"} =>
         /\ local'[o].lane \in Lanes
         /\ local'[o].model = SelectedModel(local'[o].prompt, local'[o].lane.tier)
  BY <1>2 DEF HandlersInv
<1> QED BY <1>2, <1>3, <1>4 DEF HandlersInv

\* A handler that leaves keeps nothing.
LEMMA LeaveKeeps ==
    ASSUME HandlersInv, NEW r \in Requests, NEW p \in Phases \ InHandler, Leave(r, p)
    PROVE  HandlersInv'
<1>1. p \notin {"calling", "streaming"} /\ p \in Phases /\ Move(r, p, <<>>)
  BY DEF InHandler, Leave
<1> QED BY <1>1, MoveKeeps

\* A handler that ends attributes and remembers its turn.
LEMMA TurnEnds ==
    ASSUME Inv, NEW r \in Requests, phase[r] \in InHandler, Attribute(r), RememberTurn(r)
    PROVE  TurnsInv' /\ ReworkNamesLatestTurn'
<1>1. local[r] \in Kept /\ local[r].previous \in {NoRequest, local[r].latest}
  BY DEF Inv, HandlersInv
<1>2. ReworkNamesLatestTurn'
  BY <1>1 DEF Attribute, ReworkNamesLatestTurn, Inv
<1>3. CASE local[r].session = NoSession
  BY <1>2, <1>3 DEF RememberTurn, Inv, TurnsInv
<1>4. CASE local[r].session # NoSession
  <2> DEFINE s == local[r].session
  <2>1. s \in Sessions
    BY <1>1, <1>4 DEF Kept
  <2> DEFINE after  == Remembered(s, r)
             latest == [last EXCEPT ![s] = r]
  <2>2. turns' = after /\ last' = latest
    BY <1>4 DEF RememberTurn
  <2>3. latest \in [Sessions -> Requests \cup {NoRequest}]
    BY DEF Inv, TurnsInv
  <2> HIDE DEF s
  <2>4. /\ after \in Seq(Turns) /\ Len(after) <= MaxSessions
        /\ \A j, k \in 1..Len(after) : after[j].session = after[k].session => j = k
        /\ \A j \in 1..Len(after) : after[j].request = latest[after[j].session]
    BY <2>1, RememberedKeeps DEF Inv
  <2> HIDE DEF after, latest
  <2>5. TurnsInv'
    BY <2>2, <2>3, <2>4 DEF TurnsInv
  <2> QED BY <1>2, <2>5
<1> QED BY <1>3, <1>4

LEMMA ArriveStep == ASSUME Inv, NEW r \in Requests, Arrive(r) PROVE Inv'
<1>1. PICK p \in Prompts, s \in Sessions \cup {NoSession} :
         Move(r, "preflight",
               [prompt |-> p, session |-> s,
                previous |-> IF s = NoSession THEN NoRequest ELSE PreviousTurn(s),
                latest   |-> IF s = NoSession THEN NoRequest ELSE last[s],
                lane     |-> NoLane, model |-> NoModel])
  BY DEF Arrive
<1> DEFINE previous == IF s = NoSession THEN NoRequest ELSE PreviousTurn(s)
           latest   == IF s = NoSession THEN NoRequest ELSE last[s]
           kept     == [prompt |-> p, session |-> s, previous |-> previous, latest |-> latest,
                        lane |-> NoLane, model |-> NoModel]
<1>2. previous \in Requests \cup {NoRequest} /\ latest \in Requests \cup {NoRequest}
      /\ previous \in {NoRequest, latest}
  <2>1. CASE s = NoSession
    BY <2>1
  <2>2. CASE s # NoSession
    BY <2>2, PreviousIsLatest DEF Inv, TurnsInv
  <2> QED BY <2>1, <2>2
<1>3. kept \in Kept /\ kept.previous \in {NoRequest, kept.latest}
  <2> HIDE DEF previous, latest
  <2> QED BY <1>2 DEF Kept
<1>4. Move(r, "preflight", kept)
  BY <1>1
<1> HIDE DEF kept
<1>5. HandlersInv'
  <2>1. "preflight" \in Phases /\ "preflight" \notin {"calling", "streaming"}
    BY DEF Phases
  <2> QED BY <1>3, <1>4, <2>1, MoveKeeps DEF Inv
<1>6. UNCHANGED <<cache, policy, turns, edge, hit, last>>
  BY DEF Arrive
<1> QED BY <1>5, <1>6 DEF Inv, CacheInv, TurnsInv, ReplaysAreValid, ReworkNamesLatestTurn, SameKey

LEMMA PreflightStep == ASSUME Inv, NEW r \in Requests, PreflightEnds(r) PROVE Inv'
<1>1. /\ phase[r] = "preflight" /\ UNCHANGED <<policy, turns, edge, last>>
      /\ local[r] \in Kept /\ local[r].previous \in {NoRequest, local[r].latest}
  BY DEF PreflightEnds, Inv, HandlersInv, InHandler
<1>2. PICK outcome \in [Detectors -> Outcomes], found \in {"index", "none"} :
         LET result == Preflight(local[r].prompt, outcome, found)
             kept   == [local[r] EXCEPT !.lane = result]
         IN  \/ result.rules /\ Block(r)
             \/ ~result.rules /\ CallProvider(r, "calling", kept)
             \/ /\ ~result.rules
                /\ \E i \in CacheLookup(kept.prompt, kept.lane.context) :
                      \/ i = 0 /\ CallProvider(r, "streaming", kept)
                      \/ i # 0 /\ Hit(r, i, kept)
  BY DEF PreflightEnds
<1> DEFINE result == Preflight(local[r].prompt, outcome, found)
           kept   == [local[r] EXCEPT !.lane = result]
<1>3. /\ result \in Lanes /\ local[r].prompt \in Prompts
      /\ \A tier \in Tiers : SelectedModel(local[r].prompt, tier) \in Models
  BY <1>1, PreflightTypes DEF Kept
<1>4. /\ kept \in Kept /\ kept.lane = result /\ kept.prompt = local[r].prompt
      /\ kept.previous = local[r].previous /\ kept.latest = local[r].latest
  <2> HIDE DEF result
  <2> QED BY <1>1, <1>3 DEF Kept
<1>5. TurnsInv' /\ ReworkNamesLatestTurn'
  BY <1>1 DEF Inv, TurnsInv, ReworkNamesLatestTurn
<1>6. CASE Block(r)
  <2>1. HandlersInv'
    <3>1. "blocked" \in Phases \ InHandler /\ Leave(r, "blocked")
      BY <1>6 DEF Phases, InHandler, Block
    <3> QED BY <3>1, LeaveKeeps DEF Inv
  <2>2. UNCHANGED <<cache, hit>>
    BY <1>6 DEF Block
  <2> QED BY <1>1, <1>5, <2>1, <2>2 DEF Inv, CacheInv, ReplaysAreValid, SameKey
<1>7. ASSUME NEW p \in {"calling", "streaming"}, CallProvider(r, p, kept)
      PROVE  Inv'
  <2> DEFINE served == [kept EXCEPT !.model = SelectedModel(kept.prompt, kept.lane.tier)]
  <2>1. Move(r, p, served) /\ UNCHANGED <<cache, hit>>
    BY <1>7 DEF CallProvider
  <2>2. /\ served \in Kept /\ served.previous \in {NoRequest, served.latest}
        /\ served.lane \in Lanes
        /\ served.model = SelectedModel(served.prompt, served.lane.tier)
    <3>1. result.tier \in Tiers
      <4> HIDE DEF result
      <4> QED BY <1>3 DEF Lanes
    <3>2. SelectedModel(kept.prompt, kept.lane.tier) \in Models
      BY <1>3, <1>4, <3>1
    <3> HIDE DEF kept, result
    <3> QED BY <1>1, <1>3, <1>4, <3>2 DEF Kept
  <2> HIDE DEF served
  <2>3. HandlersInv'
    <3>1. p \in Phases
      BY DEF Phases
    <3> QED BY <2>1, <2>2, <3>1, MoveKeeps DEF Inv
  <2> QED BY <1>1, <1>5, <2>1, <2>3 DEF Inv, CacheInv, ReplaysAreValid, SameKey
<1>8. ASSUME NEW i, i = Lookup(kept.prompt, kept.lane.context), i # 0, Hit(r, i, kept)
      PROVE  Inv'
  <2>1. /\ i \in 1..Len(cache) /\ Valid(cache[i], kept.prompt, kept.lane.context)
        /\ kept.prompt.impact <= Ceiling
    <3>1. kept.prompt \in Prompts /\ CacheInv
      BY <1>3, <1>4 DEF Inv
    <3> HIDE DEF kept
    <3> QED BY <1>8, <3>1, LookupFinds
  <2>2. /\ Move(r, "replaying", kept) /\ cache' = Touched(i)
        /\ hit' = [entry |-> cache[i], prompt |-> kept.prompt, context |-> kept.lane.context,
                   policy |-> policy]
    BY <1>8 DEF Hit
  <2>3. HandlersInv'
    <3>1. "replaying" \in Phases /\ "replaying" \notin {"calling", "streaming"}
      BY DEF Phases
    <3> HIDE DEF kept
    <3> QED BY <1>1, <1>4, <2>2, <3>1, MoveKeeps DEF Inv
  <2>4. CacheInv'
    <3>1. /\ Touched(i) \in Seq(Verified) /\ Len(Touched(i)) = Len(cache)
          /\ \A j, k \in 1..Len(Touched(i)) : SameKey(Touched(i)[j], Touched(i)[k]) => j = k
      BY <2>1, TouchedKeeps DEF Inv
    <3> QED BY <1>1, <2>2, <3>1 DEF Inv, CacheInv
  <2>5. ReplaysAreValid'
    <3>1. cache[i] \in Verified
      BY <2>1, ElementOfSeq DEF Inv, CacheInv
    <3> HIDE DEF kept
    <3> QED BY <2>1, <2>2, <3>1 DEF Valid, ReplaysAreValid, Verified
  <2> QED BY <1>5, <2>3, <2>4, <2>5 DEF Inv
<1>9. CacheLookup(kept.prompt, kept.lane.context) = {0, Lookup(kept.prompt, kept.lane.context)}
  BY DEF CacheLookup
<1> HIDE DEF kept
<1> QED BY <1>2, <1>6, <1>7, <1>8, <1>9 DEF kept

LEMMA StreamEndsStep == ASSUME Inv, NEW r \in Requests, StreamEnds(r) PROVE Inv'
<1>1. /\ phase[r] = "streaming" /\ Leave(r, "ended") /\ UNCHANGED <<policy, hit>>
      /\ local[r] \in Kept /\ local[r].lane \in Lanes
      /\ local[r].model = SelectedModel(local[r].prompt, local[r].lane.tier)
  BY DEF StreamEnds, Inv, HandlersInv, InHandler
<1>2. PICK given \in Answers, fell \in {FALSE, MayFallBack(r)} :
         StoreAnswer(r, given, IF fell THEN "cheap" ELSE local[r].model,
                     local[r].lane.degraded \/ fell)
  BY DEF StreamEnds
<1>3. HandlersInv'
  <2>1. "ended" \in Phases \ InHandler
    BY DEF Phases, InHandler
  <2> QED BY <1>1, <2>1, LeaveKeeps DEF Inv
<1>4. TurnsInv' /\ ReworkNamesLatestTurn'
  BY <1>1, TurnEnds DEF StreamEnds, InHandler
<1>5. CacheInv'
  <2>1. CASE cache' = cache
    BY <1>1, <2>1 DEF Inv, CacheInv, SameKey
  <2>2. CASE cache' # cache
    <3> DEFINE source == [answer |-> given, tier |-> local[r].lane.tier,
                          degraded |-> local[r].lane.degraded]
               e == [scope |-> local[r].prompt, context |-> local[r].lane.context,
                     policy |-> policy, model |-> local[r].model, source |-> source]
    <3>1. /\ given.text /\ given.verdicts = "passed" /\ ~local[r].lane.degraded /\ ~fell
          /\ cache' = Stored(e)
      BY <1>2, <2>2 DEF StoreAnswer
    <3>2. /\ local[r].prompt \in Prompts /\ local[r].lane.context \in Contexts
          /\ local[r].lane.tier \in Tiers /\ local[r].lane.degraded \in BOOLEAN
      BY <1>1 DEF Kept, Lanes
    <3>3. local[r].model \in Models
      BY <1>1, <3>2, GatewayAssumption DEF SelectedModel, Models, Tiers
    <3>4. source \in Sources /\ source.answer = given /\ source.tier = local[r].lane.tier
          /\ source.degraded = local[r].lane.degraded
      BY <3>2 DEF Sources
    <3> HIDE DEF source
    <3>5. policy \in Nat
      BY DEF Inv, CacheInv
    <3>6. e \in Entries /\ e.source = source /\ e.model = local[r].model /\ e.scope = local[r].prompt
      BY <3>2, <3>3, <3>4, <3>5 DEF Entries
    <3> HIDE DEF e
    <3>7. e \in Verified
      BY <1>1, <3>1, <3>4, <3>6 DEF Verified
    <3>8. /\ Stored(e) \in Seq(Verified) /\ Len(Stored(e)) <= Capacity
          /\ \A j, k \in 1..Len(Stored(e)) : SameKey(Stored(e)[j], Stored(e)[k]) => j = k
      BY <3>7, StoredKeeps DEF Inv
    <3> QED BY <1>1, <3>1, <3>5, <3>8 DEF CacheInv
  <2> QED BY <2>1, <2>2
<1>6. ReplaysAreValid'
  BY <1>1 DEF Inv, ReplaysAreValid
<1> QED BY <1>3, <1>4, <1>5, <1>6 DEF Inv

LEMMA OtherSteps ==
    ASSUME Inv, NEW r \in Requests,
           \/ CompletionEnds(r) \/ CompletionFails(r) \/ FallbackFails(r)
           \/ ReplayEnds(r) \/ GoesAway(r)
    PROVE  Inv'
<1>1. UNCHANGED <<cache, policy, hit>>
  BY DEF CompletionEnds, CompletionFails, FallbackFails, ReplayEnds, GoesAway
<1>2. HandlersInv'
  <2>1. {"ended", "refused", "gone"} \subseteq Phases \ InHandler
    BY DEF Phases, InHandler
  <2>2. \E p \in {"ended", "refused", "gone"} : Leave(r, p)
    BY DEF CompletionEnds, CompletionFails, FallbackFails, ReplayEnds, GoesAway
  <2> QED BY <2>1, <2>2, LeaveKeeps DEF Inv
<1>3. TurnsInv' /\ ReworkNamesLatestTurn'
  <2>1. CASE CompletionEnds(r) \/ ReplayEnds(r)
    BY <2>1, TurnEnds DEF CompletionEnds, ReplayEnds, InHandler
  <2>2. CASE UNCHANGED <<turns, last, edge>>
    BY <2>2 DEF Inv, TurnsInv, ReworkNamesLatestTurn
  <2> QED BY <2>1, <2>2 DEF CompletionFails, FallbackFails, GoesAway
<1> QED BY <1>1, <1>2, <1>3 DEF Inv, CacheInv, ReplaysAreValid, SameKey

-----------------------------------------------------------------------------
(* The theorems                                                             *)

LEMMA InitInvariant == Init => Inv
<1> SUFFICES ASSUME Init PROVE Inv
  OBVIOUS
<1>1. /\ \A r \in Requests : phase[r] = "new"
      /\ phase \in [Requests -> Phases] /\ local \in [Requests -> Kept \cup {<<>>}]
  BY DEF Init, Phases
<1>2. HandlersInv
  BY <1>1 DEF HandlersInv, InHandler
<1>3. CacheInv
  BY GatewayAssumption, EmptySeq DEF Init, CacheInv
<1>4. TurnsInv
  BY GatewayAssumption, EmptySeq DEF Init, TurnsInv
<1> QED BY <1>2, <1>3, <1>4 DEF Init, Inv, ReplaysAreValid, ReworkNamesLatestTurn

LEMMA NextInvariant == Inv /\ [Next]_vars => Inv'
<1> SUFFICES ASSUME Inv, [Next]_vars PROVE Inv'
  OBVIOUS
<1>1. CASE PolicyChanges
  <2>1. policy' \in Nat
    BY <1>1 DEF PolicyChanges, Inv, CacheInv
  <2>2. UNCHANGED <<phase, local, cache, turns, edge, hit, last>>
    BY <1>1 DEF PolicyChanges
  <2> QED BY <2>1, <2>2 DEF Inv, HandlersInv, CacheInv, TurnsInv, ReplaysAreValid,
                            ReworkNamesLatestTurn, SameKey
<1>2. ASSUME NEW r \in Requests, Arrive(r) \/ Handle(r) \/ GoesAway(r)
      PROVE  Inv'
  BY <1>2, ArriveStep, PreflightStep, StreamEndsStep, OtherSteps DEF Handle
<1>3. CASE UNCHANGED <<phase, local, cache, policy, turns, edge, hit, last>>
  BY <1>3 DEF Inv, HandlersInv, CacheInv, TurnsInv, ReplaysAreValid, ReworkNamesLatestTurn, SameKey
<1> QED BY <1>1, <1>2, <1>3 DEF Next, ShadowEnds, vars

\* Handlers, cache and session map keep their invariant however requests overlap:
\* the cache holds verified answers only, within its capacity and one per key.
THEOREM GatewayInvariant == Spec => []Inv
BY InitInvariant, NextInvariant, PTL DEF Spec

\* A replayed answer is a verified one for the same prompt, context and policy.
THEOREM ReplaysValid == Spec => []ReplaysAreValid
<1>1. Inv => ReplaysAreValid
  BY DEF Inv
<1> QED BY <1>1, GatewayInvariant, PTL

\* Rework is charged to the latest turn of when the request came, whatever other
\* requests of the session did while it was served, and despite evictions.
THEOREM ReworkLatest == Spec => []ReworkNamesLatestTurn
<1>1. Inv => ReworkNamesLatestTurn
  BY DEF Inv
<1> QED BY <1>1, GatewayInvariant, PTL

-----------------------------------------------------------------------------
(* Retrieved passages: ranking                                              *)

\* What a strict order puts earlier has fewer before it.
LEMMA FewerBefore ==
    ASSUME NEW S, IsFiniteSet(S), NEW R,
           \A x \in S : <<x, x>> \notin R,
           \A x, y, z \in S : <<x, y>> \in R /\ <<y, z>> \in R => <<x, z>> \in R,
           NEW r \in S, NEW s \in S, <<r, s>> \in R
    PROVE  /\ Cardinality({x \in S : <<x, r>> \in R}) \in Nat
           /\ Cardinality({x \in S : <<x, s>> \in R}) \in Nat
           /\ Cardinality({x \in S : <<x, r>> \in R}) < Cardinality({x \in S : <<x, s>> \in R})
<1> DEFINE A == {x \in S : <<x, r>> \in R}
           B == {x \in S : <<x, s>> \in R}
<1>1. A \in SUBSET B /\ r \in B /\ r \notin A /\ B \in SUBSET S
  OBVIOUS
<1>2. A # B
  BY <1>1
<1> HIDE DEF A, B
<1>3. IsFiniteSet(B)
  BY <1>1, FS_Subset
<1>4. IsFiniteSet(A) /\ Cardinality(A) <= Cardinality(B) /\ Cardinality(A) # Cardinality(B)
  BY <1>1, <1>2, <1>3, FS_Subset
<1>5. Cardinality(A) \in Nat /\ Cardinality(B) \in Nat
  BY <1>3, <1>4, FS_CardinalityType
<1>6. Cardinality(A) < Cardinality(B)
  BY <1>4, <1>5
<1> QED BY <1>5, <1>6 DEF A, B

\* Ranked lists every member once, and each after those that the order puts before it.
LEMMA RankedIsSorted ==
    ASSUME NEW S, IsFiniteSet(S), NEW R,
           \A x \in S : <<x, x>> \notin R,
           \A x, y, z \in S : <<x, y>> \in R /\ <<y, z>> \in R => <<x, z>> \in R,
           \A x, y \in S : x # y => <<x, y>> \in R \/ <<y, x>> \in R
    PROVE  /\ Cardinality(S) \in Nat
           /\ Ranked(S, R) \in [1..Cardinality(S) -> S]
           /\ \A r \in S : \E k \in 1..Cardinality(S) : Ranked(S, R)[k] = r
           /\ \A m, n \in 1..Cardinality(S) : <<Ranked(S, R)[m], Ranked(S, R)[n]>> \in R => m < n
<1> DEFINE c == Cardinality(S)
           Ahead(r) == Cardinality({s \in S : <<s, r>> \in R})
           f == [r \in S |-> Ahead(r)]
           T == 0..(c - 1)
<1>1. c \in Nat
  BY FS_CardinalityType
<1>2. \A r, s \in S : <<r, s>> \in R => Ahead(r) < Ahead(s)
  BY FewerBefore
<1>3. \A r \in S : Ahead(r) \in T
  <2> TAKE r \in S
  <2>1. {s \in S : <<s, r>> \in R} \in SUBSET S /\ {s \in S : <<s, r>> \in R} # S
    OBVIOUS
  <2> DEFINE A == {s \in S : <<s, r>> \in R}
  <2> HIDE DEF A
  <2>2. A \in SUBSET S /\ A # S
    BY <2>1 DEF A
  <2>3. IsFiniteSet(A) /\ Cardinality(A) <= c /\ Cardinality(A) # c
    BY <2>2, FS_Subset
  <2>4. Cardinality(A) \in Nat
    BY <2>3, FS_CardinalityType
  <2>5. Cardinality(A) \in T
    BY <1>1, <2>3, <2>4
  <2> QED BY <2>5 DEF A
<1>4. \A r, s \in S : Ahead(r) = Ahead(s) => r = s
  <2> SUFFICES ASSUME NEW r \in S, NEW s \in S, Ahead(r) = Ahead(s), r # s PROVE FALSE
    OBVIOUS
  <2> HIDE DEF Ahead
  <2>1. Ahead(r) < Ahead(s) \/ Ahead(s) < Ahead(r)
    BY <1>2
  <2>2. Ahead(r) \in Int /\ Ahead(s) \in Int
    BY <1>3
  <2> QED BY <2>1, <2>2
<1> HIDE DEF Ahead
<1>5. f \in Injection(S, T)
  BY <1>3, <1>4 DEF Injection, IsInjective
<1>6. IsFiniteSet(T) /\ Cardinality(T) = c
  <2>1. /\ IsFiniteSet(0..(c - 1))
        /\ Cardinality(0..(c - 1)) = IF 0 > c - 1 THEN 0 ELSE (c - 1) - 0 + 1
    <3>1. c - 1 \in Int /\ 0 \in Int
      BY <1>1
    <3> HIDE DEF c
    <3> QED BY <3>1, FS_Interval
  <2>2. (IF 0 > c - 1 THEN 0 ELSE (c - 1) - 0 + 1) = c
    BY <1>1
  <2> QED BY <2>1, <2>2
<1>7. f \in Surjection(S, T)
  <2> HIDE DEF f, T
  <2> QED BY <1>5, <1>6, FS_Injection
<1>8. \A k \in 1..c : \E r \in S : Ahead(r) = k - 1
  <2> TAKE k \in 1..c
  <2>1. k - 1 \in T
    BY <1>1
  <2>2. PICK r \in S : f[r] = k - 1
    <3> HIDE DEF f, T
    <3> QED BY <1>7, <2>1 DEF Surjection
  <2> QED BY <2>2
<1>9. Ranked(S, R) = [k \in 1..c |-> CHOOSE r \in S : Ahead(r) = k - 1]
  BY DEF Ranked, Ahead
<1>10. \A k \in 1..c : Ranked(S, R)[k] \in S /\ Ahead(Ranked(S, R)[k]) = k - 1
  BY <1>8, <1>9
<1>11. Ranked(S, R) \in [1..c -> S]
  BY <1>8, <1>9
<1>12. \A r \in S : \E k \in 1..c : Ranked(S, R)[k] = r
  <2> TAKE r \in S
  <2>1. Ahead(r) + 1 \in 1..c /\ (Ahead(r) + 1) - 1 = Ahead(r)
    BY <1>1, <1>3
  <2>2. Ranked(S, R)[Ahead(r) + 1] = r
    BY <1>4, <1>10, <2>1
  <2> QED BY <2>1, <2>2
<1>13. \A m, n \in 1..c : <<Ranked(S, R)[m], Ranked(S, R)[n]>> \in R => m < n
  <2> SUFFICES ASSUME NEW m \in 1..c, NEW n \in 1..c, <<Ranked(S, R)[m], Ranked(S, R)[n]>> \in R
               PROVE  m < n
    OBVIOUS
  <2>1. Ahead(Ranked(S, R)[m]) < Ahead(Ranked(S, R)[n])
    BY <1>2, <1>10
  <2>2. m - 1 < n - 1
    BY <1>10, <2>1
  <2> QED BY <1>1, <2>2
<1> QED BY <1>1, <1>11, <1>12, <1>13

Pos == Nat \ {0}

-----------------------------------------------------------------------------
(* Fusion                                                                   *)

LEMMA StrictProductGrows == \A x, y \in Nat, z \in Pos : x < y <=> x * z < y * z
BY DEF Pos

\* Fractions over positive denominators are ordered through their cross products.
LEMMA FractionsAreOrdered ==
    ASSUME NEW a \in Nat, NEW b \in Nat, NEW c \in Nat, NEW x \in Pos, NEW y \in Pos, NEW z \in Pos,
           a * y >= b * x, b * z >= c * y
    PROVE  /\ a * z >= c * x
           /\ (a * y > b * x \/ b * z > c * y) => a * z > c * x
<1>1. /\ (a * y) * z \in Nat /\ (b * x) * z \in Nat /\ (b * z) * x \in Nat /\ (c * y) * x \in Nat
      /\ (a * z) * y \in Nat /\ (c * x) * y \in Nat /\ a * z \in Nat /\ c * x \in Nat
      /\ a * y \in Nat /\ b * x \in Nat /\ b * z \in Nat /\ c * y \in Nat
  BY DEF Pos
<1>2. (a * y) * z = (a * z) * y /\ (b * x) * z = (b * z) * x /\ (c * y) * x = (c * x) * y
  BY DEF Pos
<1>3. (a * y) * z >= (b * x) * z /\ (a * y > b * x => (a * y) * z > (b * x) * z)
  <2> DEFINE u == a * y  v == b * x
  <2>1. u \in Nat /\ v \in Nat /\ u >= v
    BY <1>1
  <2> HIDE DEF u, v
  <2>2. u * z >= v * z /\ (u > v => u * z > v * z)
    BY <2>1 DEF Pos
  <2> QED BY <2>2 DEF u, v
<1>4. (b * z) * x >= (c * y) * x /\ (b * z > c * y => (b * z) * x > (c * y) * x)
  <2> DEFINE u == b * z  v == c * y
  <2>1. u \in Nat /\ v \in Nat /\ u >= v
    BY <1>1
  <2> HIDE DEF u, v
  <2>2. u * x >= v * x /\ (u > v => u * x > v * x)
    BY <2>1 DEF Pos
  <2> QED BY <2>2 DEF u, v
<1>5. /\ (a * z) * y >= (c * x) * y
      /\ (a * y > b * x \/ b * z > c * y) => (a * z) * y > (c * x) * y
  <2> DEFINE p == (a * z) * y  q == (b * x) * z  r == (c * x) * y  t == (c * y) * x
  <2> QED BY <1>1, <1>2, <1>3, <1>4
<1> DEFINE p == a * z  q == c * x
<1>6. p \in Nat /\ q \in Nat /\ p * y >= q * y /\ ((a * y > b * x \/ b * z > c * y) => p * y > q * y)
  BY <1>1, <1>5
<1> HIDE DEF p, q
<1>7. p >= q /\ ((a * y > b * x \/ b * z > c * y) => p > q)
  BY <1>6 DEF Pos
<1> QED BY <1>7 DEF p, q

\* A ranking names each row at most once.
LEMMA RankIsPlace ==
    ASSUME NEW arm, IsInjective(arm), NEW i \in DOMAIN arm
    PROVE  RankOf(arm, arm[i]) = i - 1
<1>1. (CHOOSE j \in DOMAIN arm : arm[j] = arm[i]) = i
  BY DEF IsInjective
<1> QED BY <1>1 DEF RankOf

Ranking(arm) == arm \in Seq(Nat) /\ IsInjective(arm)

LEMMA RanksAreApart ==
    ASSUME NEW arm, Ranking(arm)
    PROVE  /\ \A r \in Range(arm) : RankOf(arm, r) \in Nat
           /\ \A r, s \in Range(arm) : RankOf(arm, r) = RankOf(arm, s) => r = s
<1>1. DOMAIN arm = 1..Len(arm) /\ Len(arm) \in Nat
  BY LenProperties DEF Ranking
<1>2. \A i \in DOMAIN arm : RankOf(arm, arm[i]) = i - 1 /\ i - 1 \in Nat
  <2> TAKE i \in DOMAIN arm
  <2>1. i \in 1..Len(arm)
    BY <1>1
  <2> QED BY <1>1, <2>1, RankIsPlace DEF Ranking
<1>3. \A r \in Range(arm) : \E i \in DOMAIN arm : r = arm[i]
  BY DEF Range
<1>4. \A r, s \in Range(arm) : RankOf(arm, r) = RankOf(arm, s) => r = s
  <2> SUFFICES ASSUME NEW r \in Range(arm), NEW s \in Range(arm), RankOf(arm, r) = RankOf(arm, s)
               PROVE  r = s
    OBVIOUS
  <2>1. PICK i \in DOMAIN arm : r = arm[i]
    BY <1>3
  <2>2. PICK j \in DOMAIN arm : s = arm[j]
    BY <1>3
  <2>3. i - 1 = j - 1 /\ i \in Nat /\ j \in Nat
    BY <1>1, <1>2, <2>1, <2>2
  <2> QED BY <2>1, <2>2, <2>3
<1> QED BY <1>2, <1>3, <1>4

Fused(lexical, dense) == Range(lexical) \cup Range(dense)

\* What a fused row's score is made of.
Place(arm, r) == RrfK + 1 + RankOf(arm, r)

LEMMA ScoreIsFraction ==
    ASSUME NEW lexical, NEW dense, Ranking(lexical), Ranking(dense), NEW semantic,
           NEW r \in Fused(lexical, dense)
    PROVE  LET f == FusedScore(lexical, dense, semantic, r)
               w == Votes("dense", semantic)
               a == Place(lexical, r)
               b == Place(dense, r)
           IN  /\ f.votes \in Pos /\ f.over \in Pos /\ w \in Pos
               /\ r \in Range(lexical) => a \in Pos
               /\ r \in Range(dense) => b \in Pos
               /\ r \in Range(lexical) /\ r \in Range(dense) => f.votes = 2 * b + w * a /\ f.over = a * b
               /\ r \in Range(lexical) /\ r \notin Range(dense) => f.votes = 2 /\ f.over = a
               /\ r \notin Range(lexical) /\ r \in Range(dense) => f.votes = w /\ f.over = b
<1> DEFINE f == FusedScore(lexical, dense, semantic, r)
           w == Votes("dense", semantic)
           a == Place(lexical, r)
           b == Place(dense, r)
<1>1. Votes("lexical", semantic) = 2 /\ w \in Pos
  BY DEF Votes, Pos
<1>2. (r \in Range(lexical) => a \in Pos) /\ (r \in Range(dense) => b \in Pos)
  BY RanksAreApart DEF Place, RrfK, Pos
<1>3. r \in Range(lexical) \/ r \in Range(dense)
  BY DEF Fused
<1>4. /\ r \in Range(lexical) /\ r \in Range(dense) => f.votes = 2 * b + w * a /\ f.over = a * b
      /\ r \in Range(lexical) /\ r \notin Range(dense) => f.votes = 2 /\ f.over = a
      /\ r \notin Range(lexical) /\ r \in Range(dense) => f.votes = w /\ f.over = b
  BY <1>1 DEF FusedScore, Place
<1> HIDE DEF f, w, a, b
<1>5. r \in Range(lexical) /\ r \in Range(dense) => 2 * b + w * a \in Pos /\ a * b \in Pos
  BY <1>1, <1>2 DEF Pos
<1>6. f.votes \in Pos /\ f.over \in Pos
  <2>1. CASE r \in Range(lexical) /\ r \in Range(dense)
    BY <1>4, <1>5, <2>1
  <2>2. CASE ~ (r \in Range(lexical) /\ r \in Range(dense))
    <3>1. 2 \in Pos
      BY DEF Pos
    <3> QED BY <1>1, <1>2, <1>3, <1>4, <2>2, <3>1
  <2> QED BY <2>1, <2>2
<1>7. /\ f.votes \in Pos /\ f.over \in Pos /\ w \in Pos
      /\ r \in Range(lexical) => a \in Pos
      /\ r \in Range(dense) => b \in Pos
  BY <1>1, <1>2, <1>6
<1> QED BY <1>4, <1>7 DEF f, w, a, b

\* Higher scores first is a strict order of the rows.
LEMMA BeforeIsOrder ==
    ASSUME NEW lexical, NEW dense, Ranking(lexical), Ranking(dense), NEW semantic
    PROVE  LET S == Fused(lexical, dense)
               B(r, s) == Before(lexical, dense, semantic, r, s)
           IN  /\ \A r \in S : ~ B(r, r)
               /\ \A r, s, t \in S : B(r, s) /\ B(s, t) => B(r, t)
               /\ \A r, s \in S : r # s => B(r, s) \/ B(s, r)
<1> DEFINE S == Fused(lexical, dense)
           B(r, s) == Before(lexical, dense, semantic, r, s)
           V(r) == FusedScore(lexical, dense, semantic, r).votes
           O(r) == FusedScore(lexical, dense, semantic, r).over
<1>1. \A r, s : B(r, s) <=> V(r) * O(s) > V(s) * O(r) \/ (V(r) * O(s) = V(s) * O(r) /\ r < s)
  BY DEF Before
<1>2. \A r \in S : V(r) \in Pos /\ O(r) \in Pos
  BY ScoreIsFraction
<1>3. \A r \in S : r \in Nat
  <2>1. Range(lexical) \subseteq Nat /\ Range(dense) \subseteq Nat
    BY LenProperties DEF Ranking, Range
  <2> QED BY <2>1 DEF Fused
<1> HIDE DEF S, B, V, O
<1>4. \A r, s \in S : V(r) * O(s) \in Nat
  <2> TAKE r, s \in S
  <2>1. V(r) \in Nat /\ O(s) \in Nat
    BY <1>2 DEF Pos
  <2> QED BY <2>1
<1>5. \A r \in S : ~ B(r, r)
  BY <1>1, <1>3, <1>4
<1>6. \A r, s \in S : r # s => B(r, s) \/ B(s, r)
  <2> SUFFICES ASSUME NEW r \in S, NEW s \in S, r # s PROVE B(r, s) \/ B(s, r)
    OBVIOUS
  <2>1. V(r) * O(s) \in Nat /\ V(s) * O(r) \in Nat /\ r \in Nat /\ s \in Nat
    BY <1>3, <1>4
  <2> QED BY <1>1, <2>1
<1>7. \A r, s, t \in S : B(r, s) /\ B(s, t) => B(r, t)
  <2> SUFFICES ASSUME NEW r \in S, NEW s \in S, NEW t \in S, B(r, s), B(s, t) PROVE B(r, t)
    OBVIOUS
  <2>1. /\ V(r) * O(s) \in Nat /\ V(s) * O(r) \in Nat /\ V(s) * O(t) \in Nat /\ V(t) * O(s) \in Nat
        /\ V(r) * O(t) \in Nat /\ V(t) * O(r) \in Nat /\ r \in Nat /\ s \in Nat /\ t \in Nat
    BY <1>3, <1>4
  <2>2. V(r) * O(s) >= V(s) * O(r) /\ V(s) * O(t) >= V(t) * O(s)
    BY <1>1, <2>1
  <2>3. /\ V(r) * O(t) >= V(t) * O(r)
        /\ (V(r) * O(s) > V(s) * O(r) \/ V(s) * O(t) > V(t) * O(s)) => V(r) * O(t) > V(t) * O(r)
    <3>1. V(r) \in Nat /\ V(s) \in Nat /\ V(t) \in Nat /\ O(r) \in Pos /\ O(s) \in Pos /\ O(t) \in Pos
      BY <1>2 DEF Pos
    <3> QED BY <2>2, <3>1, FractionsAreOrdered
  <2>4. CASE V(r) * O(s) > V(s) * O(r) \/ V(s) * O(t) > V(t) * O(s)
    BY <1>1, <2>3, <2>4
  <2>5. CASE ~ (V(r) * O(s) > V(s) * O(r) \/ V(s) * O(t) > V(t) * O(s))
    <3>1. r < s /\ s < t
      BY <1>1, <2>1, <2>5
    <3>2. r < t
      BY <2>1, <3>1
    <3>3. V(r) * O(t) > V(t) * O(r) \/ V(r) * O(t) = V(t) * O(r)
      BY <2>1, <2>3
    <3> QED BY <1>1, <3>2, <3>3
  <2> QED BY <2>4, <2>5
<1>8. /\ \A r \in S : ~ B(r, r)
      /\ \A r, s, t \in S : B(r, s) /\ B(s, t) => B(r, t)
      /\ \A r, s \in S : r # s => B(r, s) \/ B(s, r)
  BY <1>5, <1>6, <1>7
<1> QED BY <1>8 DEF S, B

\* As in FusionIsFair: no arm puts r behind s.
NotBehind(arm, r, s) == s \in Range(arm) => r \in Range(arm) /\ RankOf(arm, r) <= RankOf(arm, s)

\* Sums of two parts, each of which is ahead.
LEMMA AheadInOne ==
    ASSUME NEW v \in Pos, NEW w \in Pos, NEW a \in Pos, NEW b \in Pos, NEW c \in Pos, a < c
    PROVE  /\ v * c > v * a
           /\ (v * b + w * a) * c > v * (a * b)
<1>1. v * c > v * a
  BY DEF Pos
<1>2. (v * b + w * a) * c > v * (a * b)
  <2>1. (v * b + w * a) * c = (v * b) * c + (w * a) * c /\ v * (a * b) = (v * b) * a
    BY DEF Pos
  <2> DEFINE p == v * b
             q == (w * a) * c
  <2>2. p \in Pos /\ q \in Pos
    <3>1. p \in Pos /\ w * a \in Pos
      BY DEF Pos
    <3> DEFINE u == w * a
    <3>2. u \in Pos
      BY <3>1
    <3> HIDE DEF u
    <3>3. u * c \in Pos
      BY <3>2 DEF Pos
    <3> QED BY <3>1, <3>3 DEF u
  <2>3. p * c + q > p * a
    <3> HIDE DEF p, q
    <3>1. p * c > p * a /\ p * c \in Nat /\ p * a \in Nat
      BY <2>2 DEF Pos
    <3> QED BY <2>2, <3>1 DEF Pos
  <2> QED BY <2>1, <2>3
<1> QED BY <1>1, <1>2

LEMMA ProductsAreOrdered ==
    ASSUME NEW v \in Pos, NEW b \in Pos, NEW d \in Pos, NEW a \in Pos, NEW c \in Pos, a <= c
    PROVE  /\ (v * b) * (c * d) >= (v * d) * (a * b)
           /\ a < c => (v * b) * (c * d) > (v * d) * (a * b)
<1> DEFINE m == v * (b * d)
<1>1. (v * b) * (c * d) = m * c /\ (v * d) * (a * b) = m * a
  BY DEF Pos
<1>2. m \in Pos
  <2>1. b * d \in Pos
    BY DEF Pos
  <2> DEFINE u == b * d
  <2>2. u \in Pos
    BY <2>1
  <2> HIDE DEF u
  <2>3. v * u \in Pos
    BY <2>2 DEF Pos
  <2> QED BY <2>3 DEF u
<1> HIDE DEF m
<1>3. m * c >= m * a /\ (a < c => m * c > m * a)
  BY <1>2 DEF Pos
<1> QED BY <1>1, <1>3

\* Ahead in both arms, and truly ahead in one of them.
LEMMA AheadInBoth ==
    ASSUME NEW w \in Pos, NEW a \in Pos, NEW b \in Pos, NEW c \in Pos, NEW d \in Pos,
           a <= c, b <= d, a < c \/ b < d
    PROVE  (2 * b + w * a) * (c * d) > (2 * d + w * c) * (a * b)
<1>0. 2 \in Pos
  BY DEF Pos
<1> DEFINE p == (2 * b) * (c * d)
           q == (w * a) * (c * d)
           r == (2 * d) * (a * b)
           s == (w * c) * (a * b)
<1>1. p >= r /\ (a < c => p > r)
  BY <1>0, ProductsAreOrdered
<1>2. q >= s /\ (b < d => q > s)
  <2>1. (w * a) * (d * c) >= (w * c) * (b * a) /\ (b < d => (w * a) * (d * c) > (w * c) * (b * a))
    BY ProductsAreOrdered
  <2>2. d * c = c * d /\ b * a = a * b
    BY DEF Pos
  <2> QED BY <2>1, <2>2
<1>3. /\ (2 * b + w * a) * (c * d) = p + q
      /\ (2 * d + w * c) * (a * b) = r + s
      /\ p \in Nat /\ q \in Nat /\ r \in Nat /\ s \in Nat
  <2>1. 2 * b \in Nat /\ w * a \in Nat /\ c * d \in Nat /\ 2 * d \in Nat /\ w * c \in Nat /\ a * b \in Nat
    BY DEF Pos
  <2>2. \A x, y, z \in Nat : (x + y) * z = x * z + y * z /\ x * z \in Nat
    OBVIOUS
  <2> QED BY <2>1, <2>2
<1> HIDE DEF p, q, r, s
<1> QED BY <1>1, <1>2, <1>3

\* Fusion respects what the arms agree about.
LEMMA DominatesIsBefore ==
    ASSUME NEW lexical, NEW dense, Ranking(lexical), Ranking(dense), NEW semantic,
           NEW r \in Fused(lexical, dense), NEW s \in Fused(lexical, dense), r # s,
           NotBehind(lexical, r, s), NotBehind(dense, r, s)
    PROVE  Before(lexical, dense, semantic, r, s)
<1> DEFINE f == FusedScore(lexical, dense, semantic, r)
           g == FusedScore(lexical, dense, semantic, s)
           w == Votes("dense", semantic)
           a == Place(lexical, r)
           b == Place(dense, r)
           c == Place(lexical, s)
           d == Place(dense, s)
<1>1. /\ f.votes \in Pos /\ f.over \in Pos /\ g.votes \in Pos /\ g.over \in Pos /\ w \in Pos
      /\ r \in Range(lexical) => a \in Pos
      /\ r \in Range(dense) => b \in Pos
      /\ s \in Range(lexical) => c \in Pos
      /\ s \in Range(dense) => d \in Pos
      /\ r \in Range(lexical) /\ r \in Range(dense) => f.votes = 2 * b + w * a /\ f.over = a * b
      /\ r \in Range(lexical) /\ r \notin Range(dense) => f.votes = 2 /\ f.over = a
      /\ r \notin Range(lexical) /\ r \in Range(dense) => f.votes = w /\ f.over = b
      /\ s \in Range(lexical) /\ s \in Range(dense) => g.votes = 2 * d + w * c /\ g.over = c * d
      /\ s \in Range(lexical) /\ s \notin Range(dense) => g.votes = 2 /\ g.over = c
      /\ s \notin Range(lexical) /\ s \in Range(dense) => g.votes = w /\ g.over = d
  BY ScoreIsFraction
<1>2. s \in Range(lexical) => r \in Range(lexical) /\ a < c
  <2> SUFFICES ASSUME s \in Range(lexical) PROVE r \in Range(lexical) /\ a < c
    OBVIOUS
  <2>1. r \in Range(lexical) /\ RankOf(lexical, r) <= RankOf(lexical, s)
    BY DEF NotBehind
  <2>2. RankOf(lexical, r) \in Nat /\ RankOf(lexical, s) \in Nat /\ RankOf(lexical, r) # RankOf(lexical, s)
    BY <2>1, RanksAreApart
  <2> QED BY <2>1, <2>2 DEF Place, RrfK
<1>3. s \in Range(dense) => r \in Range(dense) /\ b < d
  <2> SUFFICES ASSUME s \in Range(dense) PROVE r \in Range(dense) /\ b < d
    OBVIOUS
  <2>1. r \in Range(dense) /\ RankOf(dense, r) <= RankOf(dense, s)
    BY DEF NotBehind
  <2>2. RankOf(dense, r) \in Nat /\ RankOf(dense, s) \in Nat /\ RankOf(dense, r) # RankOf(dense, s)
    BY <2>1, RanksAreApart
  <2> QED BY <2>1, <2>2 DEF Place, RrfK
<1>4. s \in Range(lexical) \/ s \in Range(dense)
  BY DEF Fused
<1>0. 2 \in Pos
  BY DEF Pos
<1> SUFFICES f.votes * g.over > g.votes * f.over
  BY DEF Before
<1> HIDE DEF f, g, w, a, b, c, d
<1>5. CASE s \in Range(lexical) /\ s \in Range(dense)
  <2>1. a \in Pos /\ b \in Pos /\ c \in Pos /\ d \in Pos /\ a <= c /\ b <= d /\ a < c
    BY <1>1, <1>2, <1>3, <1>5 DEF Pos
  <2>2. (2 * b + w * a) * (c * d) > (2 * d + w * c) * (a * b)
    BY <1>1, <2>1, AheadInBoth
  <2> QED BY <1>1, <1>2, <1>3, <1>5, <2>2
<1>6. CASE s \in Range(lexical) /\ s \notin Range(dense)
  <2>1. a \in Pos /\ c \in Pos /\ a < c /\ g.votes = 2 /\ g.over = c
    BY <1>1, <1>2, <1>6
  <2>2. CASE r \in Range(dense)
    <3>1. b \in Pos /\ f.votes = 2 * b + w * a /\ f.over = a * b
      BY <1>1, <1>2, <1>6, <2>2
    <3>2. (2 * b + w * a) * c > 2 * (a * b)
      BY <1>0, <1>1, <2>1, <3>1, AheadInOne
    <3> QED BY <2>1, <3>1, <3>2
  <2>3. CASE r \notin Range(dense)
    <3>1. f.votes = 2 /\ f.over = a
      BY <1>1, <1>2, <1>6, <2>3
    <3>2. 2 * c > 2 * a
      BY <2>1 DEF Pos
    <3> QED BY <2>1, <3>1, <3>2
  <2> QED BY <2>2, <2>3
<1>7. CASE s \notin Range(lexical) /\ s \in Range(dense)
  <2>1. b \in Pos /\ d \in Pos /\ b < d /\ g.votes = w /\ g.over = d
    BY <1>1, <1>3, <1>7
  <2>2. CASE r \in Range(lexical)
    <3>1. a \in Pos /\ f.votes = 2 * b + w * a /\ f.over = a * b
      BY <1>1, <1>3, <1>7, <2>2
    <3>2. (w * a + 2 * b) * d > w * (b * a)
      BY <1>0, <1>1, <2>1, <3>1, AheadInOne
    <3>3. w * a + 2 * b = 2 * b + w * a /\ b * a = a * b
      BY <1>1, <2>1, <3>1 DEF Pos
    <3> QED BY <2>1, <3>1, <3>2, <3>3
  <2>3. CASE r \notin Range(lexical)
    <3>1. f.votes = w /\ f.over = b
      BY <1>1, <1>3, <1>7, <2>3
    <3>2. w * d > w * b
      BY <1>0, <1>1, <2>1, AheadInOne
    <3> QED BY <2>1, <3>1, <3>2
  <2> QED BY <2>2, <2>3
<1> QED BY <1>4, <1>5, <1>6, <1>7

LEMMA FirstOfIsPrefix ==
    ASSUME NEW X, NEW hits \in Seq(X), NEW k \in Nat
    PROVE  /\ FirstOf(hits, k) \in Seq(X)
           /\ Len(FirstOf(hits, k)) <= Len(hits)
           /\ DOMAIN FirstOf(hits, k) = 1..Len(FirstOf(hits, k))
           /\ \A i \in DOMAIN FirstOf(hits, k) : i \in 1..Len(hits) /\ FirstOf(hits, k)[i] = hits[i]
<1> DEFINE n == IF k < Len(hits) THEN k ELSE Len(hits)
           f == SubSeq(hits, 1, n)
<1>1. n \in Nat /\ n <= Len(hits) /\ \A i \in 1..n : hits[i] \in X
  BY LenProperties, ElementOfSeq
<1>2. FirstOf(hits, k) = f
  BY DEF FirstOf
<1> HIDE DEF n
<1>3. /\ f \in Seq(X)
      /\ Len(f) = (IF 1 <= n THEN n - 1 + 1 ELSE 0)
      /\ \A i \in 1..(n - 1 + 1) : f[i] = hits[1 + i - 1]
  BY <1>1, SubSeqProperties
<1>4. Len(f) = n /\ \A i \in 1..n : f[i] = hits[i]
  BY <1>1, <1>3
<1>5. DOMAIN f = 1..n
  BY <1>3, <1>4, LenProperties
<1>6. Len(hits) \in Nat
  BY LenProperties
<1> HIDE DEF f
<1> QED BY <1>1, <1>2, <1>3, <1>4, <1>5, <1>6

LEMMA RankingIsFinite == ASSUME NEW arm, Ranking(arm) PROVE IsFiniteSet(Range(arm)) /\ Range(arm) \in SUBSET Nat
<1>1. arm \in [1..Len(arm) -> Nat] /\ DOMAIN arm = 1..Len(arm) /\ Len(arm) \in Nat
  BY LenProperties DEF Ranking
<1>2. Range(arm) = {arm[i] : i \in 1..Len(arm)} /\ Range(arm) \in SUBSET Nat
  BY <1>1 DEF Range
<1>3. arm \in Surjection(1..Len(arm), Range(arm))
  BY <1>1, <1>2 DEF Surjection
<1>4. IsFiniteSet(1..Len(arm))
  BY <1>1, FS_Interval
<1> QED BY <1>2, <1>3, <1>4, FS_Surjection

\* The fused rows: all that an arm found, none twice, and in the order of their scores.
LEMMA FuseIsSorted ==
    ASSUME NEW lexical, NEW dense, Ranking(lexical), Ranking(dense), NEW semantic
    PROVE  LET S == Fused(lexical, dense)
               fused == Fuse(lexical, dense, semantic)
           IN  /\ fused \in Seq(S)
               /\ \A r \in S : \E k \in 1..Len(fused) : fused[k] = r
               /\ \A m, n \in 1..Len(fused) : Before(lexical, dense, semantic, fused[m], fused[n]) => m < n
<1> DEFINE S == Fused(lexical, dense)
           fused == Fuse(lexical, dense, semantic)
           R == {p \in S \X S : Before(lexical, dense, semantic, p[1], p[2])}
<1>1. fused = Ranked(S, R)
  BY DEF Fuse, Fused
<1>2. IsFiniteSet(S)
  BY RankingIsFinite, FS_Union DEF Fused
<1>3. \A r, s \in S : <<r, s>> \in R <=> Before(lexical, dense, semantic, r, s)
  BY Zenon
<1>4. /\ \A r \in S : ~ Before(lexical, dense, semantic, r, r)
      /\ \A r, s, t \in S : Before(lexical, dense, semantic, r, s) /\ Before(lexical, dense, semantic, s, t)
                              => Before(lexical, dense, semantic, r, t)
      /\ \A r, s \in S : r # s => Before(lexical, dense, semantic, r, s) \/ Before(lexical, dense, semantic, s, r)
  BY BeforeIsOrder
<1> HIDE DEF S, R
<1>5. /\ \A x \in S : <<x, x>> \notin R
      /\ \A x, y, z \in S : <<x, y>> \in R /\ <<y, z>> \in R => <<x, z>> \in R
      /\ \A x, y \in S : x # y => <<x, y>> \in R \/ <<y, x>> \in R
  BY <1>3, <1>4
<1> DEFINE c == Cardinality(S)
           q == Ranked(S, R)
<1>6. /\ c \in Nat
      /\ q \in [1..c -> S]
      /\ \A r \in S : \E k \in 1..c : q[k] = r
      /\ \A m, n \in 1..c : <<q[m], q[n]>> \in R => m < n
  BY <1>2, <1>5, RankedIsSorted
<1> HIDE DEF c, q
<1>7. q \in Seq(S) /\ Len(q) = c
  BY <1>6
<1>8. \A m, n \in 1..c : Before(lexical, dense, semantic, q[m], q[n]) => m < n
  BY <1>3, <1>6
<1>9. fused = q
  BY <1>1 DEF q
<1> HIDE DEF fused
<1>10. /\ fused \in Seq(S)
       /\ \A r \in S : \E k \in 1..Len(fused) : fused[k] = r
       /\ \A m, n \in 1..Len(fused) : Before(lexical, dense, semantic, fused[m], fused[n]) => m < n
  BY <1>6, <1>7, <1>8, <1>9
<1> QED BY <1>10 DEF S, fused

\* What is handed to a repair was picked by its place among the trusted hits.
LEMMA PassagesShownAreTrusted ==
    ASSUME NEW X, NEW chunks, NEW hits \in Seq(X), NEW k \in Nat
    PROVE  \A n \in DOMAIN EvidenceFor(chunks, hits, k) : ~IsUntrusted(chunks, EvidenceFor(chunks, hits, k)[n])
<1> DEFINE trusted == {i \in DOMAIN FirstOf(hits, 2 * k) : ~IsUntrusted(chunks, hits[i])}
           R == {p \in trusted \X trusted : p[1] < p[2]}
           places == Ranked(trusted, R)
           found == [n \in DOMAIN places |-> hits[places[n]]]
<1>1. EvidenceFor(chunks, hits, k) = FirstOf(found, k)
  BY DEF EvidenceFor
<1>2. trusted \in SUBSET (1..Len(hits)) /\ Len(hits) \in Nat /\ \A i \in trusted : ~IsUntrusted(chunks, hits[i])
  <2>1. 2 * k \in Nat
    OBVIOUS
  <2>2. DOMAIN FirstOf(hits, 2 * k) \subseteq 1..Len(hits)
    BY <2>1, FirstOfIsPrefix
  <2> QED BY <2>2, LenProperties
<1>3. \A i, j \in trusted : <<i, j>> \in R <=> i < j
  BY Zenon
<1> HIDE DEF trusted, R
<1>4. IsFiniteSet(trusted)
  <2>1. IsFiniteSet(1..Len(hits))
    BY <1>2, FS_Interval
  <2> QED BY <1>2, <2>1, FS_Subset
<1>5. \A i \in trusted : i \in Nat
  BY <1>2
<1>6. /\ \A x \in trusted : <<x, x>> \notin R
      /\ \A x, y, z \in trusted : <<x, y>> \in R /\ <<y, z>> \in R => <<x, z>> \in R
      /\ \A x, y \in trusted : x # y => <<x, y>> \in R \/ <<y, x>> \in R
  BY <1>3, <1>5
<1> DEFINE c == Cardinality(trusted)
<1>7. c \in Nat /\ places \in [1..c -> trusted]
  BY <1>4, <1>6, RankedIsSorted
<1> HIDE DEF places, c
<1>8. /\ \A n \in 1..c : places[n] \in trusted /\ hits[places[n]] \in X
      /\ DOMAIN found = 1..c /\ \A n \in 1..c : found[n] = hits[places[n]]
      /\ found \in [1..c -> X]
  <2>1. \A n \in 1..c : places[n] \in trusted /\ hits[places[n]] \in X
    BY <1>2, <1>7, ElementOfSeq
  <2> QED BY <1>7, <2>1
<1> HIDE DEF found
<1>9. found \in Seq(X) /\ Len(found) = c
  BY <1>7, <1>8
<1>10. \A n \in DOMAIN FirstOf(found, k) : n \in 1..c /\ FirstOf(found, k)[n] = found[n]
  BY <1>9, FirstOfIsPrefix
<1> QED BY <1>1, <1>2, <1>8, <1>10

\* What was answered is fused from two rankings.
AnswerInv ==
    /\ reply # NoReply => reader.state = "open"
    /\ reply # NoReply =>
        \E lexical, dense, semantic :
            /\ Ranking(lexical) /\ Ranking(dense)
            /\ reply = [lexical |-> lexical, dense |-> dense,
                        hits |-> FirstOf(Fuse(lexical, dense, semantic), TopK),
                        evidence |-> EvidenceFor(reader.rows, Fuse(lexical, dense, semantic), 1)]

LEMMA AnswersAreFair == AnswerInv => FusionIsFair
<1> SUFFICES ASSUME AnswerInv PROVE FusionIsFair
  OBVIOUS
<1>1. CASE reply = NoReply
  <2>1. DOMAIN reply.hits = {} /\ DOMAIN reply.evidence = {} 
    BY <1>1 DEF NoReply
  <2> QED BY <2>1 DEF FusionIsFair
<1>2. CASE reply # NoReply
  <2>1. PICK lexical, dense, semantic :
            /\ Ranking(lexical) /\ Ranking(dense)
            /\ reply = [lexical |-> lexical, dense |-> dense,
                        hits |-> FirstOf(Fuse(lexical, dense, semantic), TopK),
                        evidence |-> EvidenceFor(reader.rows, Fuse(lexical, dense, semantic), 1)]
    BY <1>2 DEF AnswerInv
  <2> DEFINE S == Fused(lexical, dense)
             fused == Fuse(lexical, dense, semantic)
             hits == FirstOf(fused, TopK)
  <2>2. /\ fused \in Seq(S)
        /\ \A r \in S : \E k \in 1..Len(fused) : fused[k] = r
        /\ \A m, n \in 1..Len(fused) : Before(lexical, dense, semantic, fused[m], fused[n]) => m < n
    BY <2>1, FuseIsSorted
  <2>3. TopK \in Nat /\ 1 \in Nat
    BY RetrievalAssumption
  <2> HIDE DEF S, fused
  <2>4. /\ hits \in Seq(S) /\ Len(hits) <= Len(fused) /\ DOMAIN hits = 1..Len(hits)
        /\ \A i \in DOMAIN hits : i \in 1..Len(fused) /\ hits[i] = fused[i]
    BY <2>2, <2>3, FirstOfIsPrefix
  <2>5. Len(hits) \in Nat /\ Len(fused) \in Nat
    BY <2>2, <2>4, LenProperties
  <2> HIDE DEF hits
  <2>6. \A i \in DOMAIN hits : hits[i] \in S
    BY <2>4, ElementOfSeq
  <2>7. \A r, s \in S : r # s /\ NotBehind(lexical, r, s) /\ NotBehind(dense, r, s) =>
            Before(lexical, dense, semantic, r, s)
    BY <2>1, DominatesIsBefore DEF S
  <2>8. reply.hits = hits /\ reply.lexical = lexical /\ reply.dense = dense
        /\ reply.evidence = EvidenceFor(reader.rows, fused, 1)
    BY <2>1 DEF hits, fused
  <2> DEFINE dominates(r, s) == NotBehind(lexical, r, s) /\ NotBehind(dense, r, s) /\ r # s
  <2>9. \A m, n \in DOMAIN hits : dominates(hits[m], hits[n]) => m < n
    BY <2>2, <2>4, <2>6, <2>7
  <2>10. \A r \in S, n \in DOMAIN hits : dominates(r, hits[n]) => r \in Range(hits)
    <3> SUFFICES ASSUME NEW r \in S, NEW n \in DOMAIN hits, dominates(r, hits[n]) PROVE r \in Range(hits)
      OBVIOUS
    <3>1. PICK k \in 1..Len(fused) : fused[k] = r
      BY <2>2
    <3>2. n \in 1..Len(fused) /\ hits[n] = fused[n] /\ n \in 1..Len(hits)
      BY <2>4
    <3>3. Before(lexical, dense, semantic, fused[k], fused[n])
      BY <2>6, <2>7, <3>1, <3>2
    <3>4. k < n
      BY <2>2, <3>2, <3>3
    <3>5. k \in 1..Len(hits)
      BY <2>5, <3>2, <3>4
    <3>6. hits[k] = r /\ k \in DOMAIN hits
      BY <2>4, <3>1, <3>5
    <3> QED BY <3>6 DEF Range
  <2>11. \A n \in DOMAIN reply.evidence : ~IsUntrusted(reader.rows, reply.evidence[n])
    BY <2>2, <2>3, <2>8, PassagesShownAreTrusted
  <2>12. Range(lexical) \cup Range(dense) = S
    BY DEF S, Fused
  <2> QED BY <2>8, <2>9, <2>10, <2>11, <2>12 DEF FusionIsFair, NotBehind
<1> QED BY <1>1, <1>2

-----------------------------------------------------------------------------
(* Runs over a sequence                                                     *)

\* What is computed step by step from the one before.
HasRun(n, X, b, step) ==
    \E g \in [0..n -> X] : g[0] = b /\ \A i \in 1..n : g[i] = step[i][g[i - 1]]

\* Such a run exists, up to any step.
LEMMA RunExists ==
    ASSUME NEW n \in Nat, NEW X, NEW b \in X, NEW step \in [1..n -> [X -> X]]
    PROVE  HasRun(n, X, b, step)
<1> DEFINE Runs(k) == \E h \in [0..k -> X] : h[0] = b /\ \A i \in 1..k : h[i] = step[i][h[i - 1]]
           T == {k \in Nat : k <= n => Runs(k)}
<1>1. 0 \in T
  <2> DEFINE h == [i \in 0..0 |-> b]
  <2>1. h \in [0..0 -> X] /\ h[0] = b
    OBVIOUS
  <2>2. \A i \in 1..0 : h[i] = step[i][h[i - 1]]
    OBVIOUS
  <2> HIDE DEF h
  <2>3. Runs(0)
    BY <2>1, <2>2
  <2> HIDE DEF Runs
  <2> QED BY <2>3
<1>2. ASSUME NEW k \in Nat, k \in T PROVE k + 1 \in T
  <2> SUFFICES ASSUME k + 1 <= n PROVE Runs(k + 1)
    OBVIOUS
  <2>1. PICK h \in [0..k -> X] : h[0] = b /\ \A i \in 1..k : h[i] = step[i][h[i - 1]]
    BY <1>2
  <2> DEFINE f == [i \in 0..(k + 1) |-> IF i = k + 1 THEN step[k + 1][h[k]] ELSE h[i]]
  <2>2. k + 1 \in 1..n /\ h[k] \in X
    BY <2>1
  <2>3. step[k + 1][h[k]] \in X
    BY <2>2
  <2>4. f \in [0..(k + 1) -> X]
    BY <2>1, <2>3
  <2>5. f[0] = b
    BY <2>1
  <2>6. \A i \in 1..(k + 1) : f[i] = step[i][f[i - 1]]
    <3> TAKE i \in 1..(k + 1)
    <3>1. CASE i = k + 1
      <4>1. f[i] = step[k + 1][h[k]] /\ i - 1 = k /\ f[k] = h[k]
        BY <3>1
      <4> QED BY <3>1, <4>1
    <3>2. CASE i # k + 1
      <4>1. i \in 1..k /\ i - 1 \in 0..k
        BY <3>2
      <4>2. f[i] = h[i] /\ f[i - 1] = h[i - 1]
        BY <3>2, <4>1
      <4> QED BY <2>1, <4>1, <4>2
    <3> QED BY <3>1, <3>2
  <2> QED BY <2>4, <2>5, <2>6
<1> HIDE DEF T
<1>3. n \in T
  BY <1>1, <1>2, Counting
<1> QED BY <1>3 DEF T, HasRun

\* Flattening, as a run.
LEMMA FlattenRuns ==
    ASSUME NEW X, NEW s \in Seq(Seq(X))
    PROVE  \E g \in [0..Len(s) -> Seq(X)] : /\ g[0] = <<>>
                                            /\ \A i \in 1..Len(s) : g[i] = g[i - 1] \o s[i]
                                            /\ FlattenSeq(s) = g[Len(s)]
<1> DEFINE L == Len(s)
           step == [i \in 1..L |-> [x \in Seq(X) |-> x \o s[i]]]
<1>1. L \in Nat /\ <<>> \in Seq(X)
  BY LenProperties
<1>2. step \in [1..L -> [Seq(X) -> Seq(X)]]
  <2>1. \A i \in 1..L, x \in Seq(X) : x \o s[i] \in Seq(X)
    BY ElementOfSeq, ConcatProperties
  <2> QED BY <2>1
<1>3. \A i \in 1..L, x \in Seq(X) : step[i][x] = x \o s[i]
  OBVIOUS
<1> HIDE DEF step
<1>4. PICK g \in [0..L -> Seq(X)] : g[0] = <<>> /\ \A i \in 1..L : g[i] = step[i][g[i - 1]]
  <2> DEFINE Y == Seq(X)
             b == <<>>
  <2>1. L \in Nat /\ b \in Y /\ step \in [1..L -> [Y -> Y]]
    BY <1>1, <1>2
  <2> HIDE DEF L, Y, b
  <2>2. HasRun(L, Y, b, step)
    BY <2>1, RunExists
  <2> QED BY <2>2 DEF Y, b, HasRun
<1>5. \A i \in 1..L : g[i] = g[i - 1] \o s[i]
  <2> TAKE i \in 1..L
  <2>1. i - 1 \in 0..L
    BY <1>1
  <2>2. g[i - 1] \in Seq(X)
    BY <1>4, <2>1
  <2> QED BY <1>3, <1>4, <2>2
<1>6. FlattenSeq(s) = g[L]
  <2>1. CASE L = 0
    <3>1. s = <<>>
      BY <2>1, EmptySeq
    <3> QED BY <1>4, <2>1, <3>1 DEF FlattenSeq
  <2>2. CASE L # 0
    <3> DEFINE Meets(f) == f = [i \in 1..L |-> IF i = 1 THEN s[i] ELSE f[i - 1] \o s[i]]
               k == [i \in 1..L |-> g[i]]
               f == CHOOSE h : Meets(h)
    <3>1. 1 \in 1..L /\ s[1] \in Seq(X)
      BY <1>1, <2>2, ElementOfSeq
    <3>2. g[1] = s[1]
      <4>1. g[1] = g[0] \o s[1]
        <5>1. 1 - 1 = 0
          OBVIOUS
        <5> QED BY <1>5, <3>1, <5>1
      <4>2. <<>> \o s[1] = s[1]
        BY <3>1, ConcatEmptySeq
      <4> QED BY <1>4, <4>1, <4>2
    <3>3. Meets(k)
      <4>1. \A i \in 1..L : k[i] = IF i = 1 THEN s[i] ELSE k[i - 1] \o s[i]
        <5> TAKE i \in 1..L
        <5>1. CASE i = 1
          BY <3>2, <5>1
        <5>2. CASE i # 1
          <6>1. i - 1 \in 1..L
            BY <1>1, <5>2
          <6> QED BY <1>5, <5>2, <6>1
        <5> QED BY <5>1, <5>2
      <4> QED BY <4>1
    <3>4. Meets(f)
      <4> HIDE DEF Meets, k
      <4> QED BY <3>3
    <3>5. FlattenSeq(s) = f[L]
      BY <2>2 DEF FlattenSeq
    <3>6. f[1] = s[1] /\ \A i \in 1..L : i # 1 => f[i] = f[i - 1] \o s[i]
      <4> HIDE DEF f
      <4> QED BY <3>1, <3>4
    <3> HIDE DEF f
    <3> DEFINE T == {j \in Nat : j + 1 <= L => f[j + 1] = g[j + 1]}
    <3>7. 0 \in T
      BY <3>2, <3>6
    <3>8. ASSUME NEW j \in Nat, j \in T PROVE j + 1 \in T
      <4> SUFFICES ASSUME (j + 1) + 1 <= L PROVE f[(j + 1) + 1] = g[(j + 1) + 1]
        OBVIOUS
      <4> DEFINE i == (j + 1) + 1
      <4>1. i \in 1..L /\ i # 1 /\ i - 1 = j + 1
        BY <1>1
      <4>2. f[j + 1] = g[j + 1]
        BY <1>1, <3>8
      <4> HIDE DEF i
      <4>3. f[i] = g[i]
        BY <1>5, <3>6, <4>1, <4>2
      <4> QED BY <4>3 DEF i
    <3>9. Nat \subseteq T
      <4> HIDE DEF T
      <4> QED BY <3>7, <3>8, Counting
    <3>10. L - 1 \in Nat /\ (L - 1) + 1 = L
      BY <1>1, <2>2
    <3>11. f[(L - 1) + 1] = g[(L - 1) + 1]
      <4>1. L - 1 \in T
        <5> HIDE DEF T, L
        <5> QED BY <3>9, <3>10
      <4>2. (L - 1) + 1 <= L
        BY <1>1, <3>10
      <4> QED BY <4>1, <4>2
    <3> QED BY <3>5, <3>10, <3>11
  <2> QED BY <2>1, <2>2
<1> QED BY <1>4, <1>5, <1>6

LEMMA FlattenNone == FlattenSeq(<<>>) = <<>>
BY DEF FlattenSeq

\* Flattening goes on where it stopped.
LEMMA FlattenGoesOn ==
    ASSUME NEW X, NEW s \in Seq(Seq(X)), NEW x \in Seq(X)
    PROVE  /\ FlattenSeq(s) \in Seq(X)
           /\ FlattenSeq(Append(s, x)) = FlattenSeq(s) \o x
<1> DEFINE t == Append(s, x)
           L == Len(s)
<1>1. t \in Seq(Seq(X)) /\ Len(t) = L + 1 /\ t[L + 1] = x /\ \A i \in 1..L : t[i] = s[i]
  BY AppendProperties
<1>2. L \in Nat
  BY LenProperties
<1>3. PICK g \in [0..L -> Seq(X)] : /\ g[0] = <<>>
                                    /\ \A i \in 1..L : g[i] = g[i - 1] \o s[i]
                                    /\ FlattenSeq(s) = g[L]
  BY FlattenRuns
<1> HIDE DEF t
<1>4. PICK h \in [0..Len(t) -> Seq(X)] : /\ h[0] = <<>>
                                         /\ \A i \in 1..Len(t) : h[i] = h[i - 1] \o t[i]
                                         /\ FlattenSeq(t) = h[Len(t)]
  BY <1>1, FlattenRuns
<1>5. h[L] = g[L]
  <2> DEFINE T == {k \in Nat : k <= L => h[k] = g[k]}
  <2>1. 0 \in T
    BY <1>3, <1>4
  <2>2. ASSUME NEW k \in Nat, k \in T PROVE k + 1 \in T
    <3> SUFFICES ASSUME k + 1 <= L PROVE h[k + 1] = g[k + 1]
      OBVIOUS
    <3>1. k + 1 \in 1..L /\ k + 1 \in 1..Len(t) /\ (k + 1) - 1 = k /\ h[k] = g[k]
      BY <1>1, <1>2, <2>2
    <3>2. t[k + 1] = s[k + 1]
      BY <1>1, <3>1
    <3>3. h[k + 1] = h[k] \o t[k + 1] /\ g[k + 1] = g[k] \o s[k + 1]
      BY <1>3, <1>4, <3>1
    <3> QED BY <3>1, <3>2, <3>3
  <2> HIDE DEF T
  <2>3. L \in T
    BY <1>2, <2>1, <2>2, Counting
  <2> QED BY <1>2, <2>3 DEF T
<1>6. L + 1 \in 1..Len(t) /\ (L + 1) - 1 = L
  BY <1>1, <1>2
<1>7. FlattenSeq(t) = h[L] \o x
  BY <1>1, <1>4, <1>6
<1>8. g[L] \in Seq(X)
  BY <1>2, <1>3
<1> QED BY <1>3, <1>5, <1>7, <1>8 DEF t

\* The characters of sentences, as a run.
LEMMA CharsRuns ==
    ASSUME NEW s \in Seq(Nat)
    PROVE  \E g \in [0..Len(s) -> Int] : /\ g[0] = 0
                                         /\ \A i \in 1..Len(s) : g[i] = g[i - 1] + s[i]
                                         /\ CharsIn(s) = g[Len(s)] + Len(s) - 1
<1> DEFINE L == Len(s)
           step == [i \in 1..L |-> [x \in Int |-> x + s[i]]]
           Meets(f) == f = [i \in 0..L |-> IF i = 0 THEN 0 ELSE f[i - 1] + s[i]]
           f == CHOOSE h : Meets(h)
<1>1. L \in Nat /\ 0 \in Int /\ \A i \in 1..L : s[i] \in Int
  BY LenProperties, ElementOfSeq
<1>2. step \in [1..L -> [Int -> Int]] /\ \A i \in 1..L, x \in Int : step[i][x] = x + s[i]
  BY <1>1
<1>3. CharsIn(s) = f[L] + L - 1
  BY DEF CharsIn
<1> HIDE DEF L, step
<1>4. PICK g \in [0..L -> Int] : g[0] = 0 /\ \A i \in 1..L : g[i] = step[i][g[i - 1]]
  <2>1. HasRun(L, Int, 0, step)
    BY <1>1, <1>2, RunExists
  <2> QED BY <2>1 DEF HasRun
<1>5. \A i \in 1..L : g[i] = g[i - 1] + s[i]
  <2> TAKE i \in 1..L
  <2>1. i - 1 \in 0..L
    BY <1>1
  <2>2. g[i - 1] \in Int
    BY <1>4, <2>1
  <2> QED BY <1>2, <1>4, <2>2
<1>6. Meets(g)
  <2>1. \A i \in 0..L : g[i] = IF i = 0 THEN 0 ELSE g[i - 1] + s[i]
    <3> TAKE i \in 0..L
    <3>1. i # 0 => i \in 1..L
      BY <1>1
    <3> QED BY <1>4, <1>5, <3>1
  <2> QED BY <1>4, <2>1
<1>7. Meets(f)
  <2> HIDE DEF Meets
  <2> QED BY <1>6
<1> HIDE DEF f
<1>8. f[0] = 0 /\ \A i \in 1..L : f[i] = f[i - 1] + s[i]
  <2>1. \A i \in 0..L : f[i] = IF i = 0 THEN 0 ELSE f[i - 1] + s[i]
    BY <1>7
  <2>2. 0 \in 0..L /\ \A i \in 1..L : i \in 0..L /\ i # 0
    BY <1>1
  <2> QED BY <2>1, <2>2
<1>9. f[L] = g[L]
  <2> DEFINE T == {k \in Nat : k <= L => f[k] = g[k]}
  <2>1. 0 \in T
    BY <1>4, <1>8
  <2>2. ASSUME NEW k \in Nat, k \in T PROVE k + 1 \in T
    <3> SUFFICES ASSUME k + 1 <= L PROVE f[k + 1] = g[k + 1]
      OBVIOUS
    <3>1. k + 1 \in 1..L /\ (k + 1) - 1 = k /\ f[k] = g[k]
      BY <1>1, <2>2
    <3>2. f[k + 1] = f[k] + s[k + 1] /\ g[k + 1] = g[k] + s[k + 1]
      BY <1>5, <1>8, <3>1
    <3> QED BY <3>1, <3>2
  <2> HIDE DEF T
  <2>3. L \in T
    BY <1>1, <2>1, <2>2, Counting
  <2> QED BY <1>1, <2>3 DEF T
<1> QED BY <1>3, <1>4, <1>5, <1>9 DEF L

LEMMA CharsOfNone == CharsIn(<<>>) = 0 - 1
<1>1. <<>> \in Seq(Nat) /\ Len(<<>>) = 0
  BY EmptySeq
<1>2. PICK g \in [0..0 -> Int] : g[0] = 0 /\ CharsIn(<<>>) = g[0] + 0 - 1
  BY <1>1, CharsRuns
<1> QED BY <1>2

\* One sentence more is its characters and the space before it.
LEMMA CharsGoOn ==
    ASSUME NEW s \in Seq(Nat), NEW x \in Nat
    PROVE  CharsIn(s) \in Int /\ CharsIn(Append(s, x)) = CharsIn(s) + x + 1
<1> DEFINE t == Append(s, x)
           L == Len(s)
<1>1. t \in Seq(Nat) /\ Len(t) = L + 1 /\ t[L + 1] = x /\ \A i \in 1..L : t[i] = s[i]
  BY AppendProperties
<1>2. L \in Nat
  BY LenProperties
<1>3. PICK g \in [0..L -> Int] : g[0] = 0 /\ (\A i \in 1..L : g[i] = g[i - 1] + s[i]) /\ CharsIn(s) = g[L] + L - 1
  BY CharsRuns
<1> HIDE DEF t
<1>4. PICK h \in [0..Len(t) -> Int] : /\ h[0] = 0
                                      /\ \A i \in 1..Len(t) : h[i] = h[i - 1] + t[i]
                                      /\ CharsIn(t) = h[Len(t)] + Len(t) - 1
  BY <1>1, CharsRuns
<1>5. h[L] = g[L]
  <2> DEFINE T == {k \in Nat : k <= L => h[k] = g[k]}
  <2>1. 0 \in T
    BY <1>3, <1>4
  <2>2. ASSUME NEW k \in Nat, k \in T PROVE k + 1 \in T
    <3> SUFFICES ASSUME k + 1 <= L PROVE h[k + 1] = g[k + 1]
      OBVIOUS
    <3>1. k + 1 \in 1..L /\ k + 1 \in 1..Len(t) /\ (k + 1) - 1 = k /\ h[k] = g[k]
      BY <1>1, <1>2, <2>2
    <3>2. t[k + 1] = s[k + 1]
      BY <1>1, <3>1
    <3>3. h[k + 1] = h[k] + t[k + 1] /\ g[k + 1] = g[k] + s[k + 1]
      BY <1>3, <1>4, <3>1
    <3> QED BY <3>1, <3>2, <3>3
  <2> HIDE DEF T
  <2>3. L \in T
    BY <1>2, <2>1, <2>2, Counting
  <2> QED BY <1>2, <2>3 DEF T
<1>6. L + 1 \in 1..Len(t) /\ (L + 1) - 1 = L
  BY <1>1, <1>2
<1>7. h[L + 1] = h[L] + x
  BY <1>1, <1>4, <1>6
<1>8. g[L] \in Int /\ x \in Int
  <2>1. L \in 0..L
    BY <1>2
  <2> HIDE DEF L
  <2> QED BY <1>3, <2>1
<1>9. CharsIn(t) = (g[L] + x) + (L + 1) - 1
  BY <1>1, <1>4, <1>5, <1>7
<1>10. (g[L] + x) + (L + 1) - 1 = (g[L] + L - 1) + x + 1 /\ g[L] + L - 1 \in Int
  BY <1>2, <1>8
<1> QED BY <1>3, <1>9, <1>10 DEF t

\* Two paragraphs in one.
LEMMA CharsOfBoth ==
    ASSUME NEW s \in Seq(Nat), NEW t \in Seq(Nat)
    PROVE  CharsIn(s) \in Int /\ CharsIn(t) \in Int /\ CharsIn(s \o t) = CharsIn(s) + CharsIn(t) + 1
<1>0. \A q \in Seq(Nat) : CharsIn(q) \in Int
  BY CharsGoOn
<1> DEFINE T == {n \in Nat : \A q \in Seq(Nat) : Len(q) = n => CharsIn(s \o q) = CharsIn(s) + CharsIn(q) + 1}
<1>1. 0 \in T
  <2> SUFFICES ASSUME NEW q \in Seq(Nat), Len(q) = 0 PROVE CharsIn(s \o q) = CharsIn(s) + CharsIn(q) + 1
    OBVIOUS
  <2>1. q = <<>>
    BY EmptySeq
  <2>2. s \o q = s
    BY <2>1, ConcatEmptySeq
  <2> QED BY <1>0, <2>1, <2>2, CharsOfNone
<1>2. ASSUME NEW n \in Nat, n \in T PROVE n + 1 \in T
  <2> SUFFICES ASSUME NEW q \in Seq(Nat), Len(q) = n + 1 PROVE CharsIn(s \o q) = CharsIn(s) + CharsIn(q) + 1
    OBVIOUS
  <2>1. q # <<>>
    BY EmptySeq
  <2>2. \E r \in Seq(Nat), x \in Nat : q = Append(r, x)
    BY <2>1, SequenceEmptyOrAppend
  <2>3. PICK r \in Seq(Nat), x \in Nat : q = Append(r, x)
    BY <2>2
  <2>4. Len(r) = n
    BY <2>3, AppendProperties, LenProperties
  <2>5. s \o q = Append(s \o r, x) /\ s \o r \in Seq(Nat)
    <3>1. q = r \o <<x>> /\ Append(s \o r, x) = (s \o r) \o <<x>> /\ s \o r \in Seq(Nat) /\ <<x>> \in Seq(Nat)
      BY <2>3, AppendIsConcat, ConcatProperties
    <3> QED BY <3>1, ConcatAssociative, SMTT(30)
  <2>6. CharsIn(s \o r) = CharsIn(s) + CharsIn(r) + 1
    BY <1>2, <2>4
  <2>7. CharsIn(s \o q) = CharsIn(s \o r) + x + 1 /\ CharsIn(q) = CharsIn(r) + x + 1
    BY <2>3, <2>5, CharsGoOn
  <2> QED BY <1>0, <2>6, <2>7
<1>3. Len(t) \in Nat
  BY LenProperties
<1> HIDE DEF T
<1>4. Len(t) \in T
  BY <1>1, <1>2, <1>3, Counting
<1> QED BY <1>0, <1>4 DEF T

\* Brackets do not matter.
Associates(X) == \A a, b, c \in Seq(X) : (a \o b) \o c = a \o (b \o c)

LEMMA Regroup == \A X : Associates(X)
BY ConcatAssociative, SMTT(30) DEF Associates

LEMMA FlattenIsSeq == ASSUME NEW X, NEW s \in Seq(Seq(X)) PROVE FlattenSeq(s) \in Seq(X)
<1>1. PICK g \in [0..Len(s) -> Seq(X)] : FlattenSeq(s) = g[Len(s)]
  BY FlattenRuns
<1>2. Len(s) \in 0..Len(s)
  BY LenProperties
<1> QED BY <1>1, <1>2

LEMMA AppendAfterConcat ==
    ASSUME NEW X, NEW s \in Seq(X), NEW t \in Seq(X), NEW x \in X
    PROVE  s \o Append(t, x) = Append(s \o t, x)
<1>1. Append(t, x) = t \o <<x>> /\ Append(s \o t, x) = (s \o t) \o <<x>> /\ <<x>> \in Seq(X)
  BY AppendIsConcat, ConcatProperties
<1> QED BY <1>1, ConcatAssociative, SMTT(30)

\* A list of lists may be flattened part by part.
LEMMA FlattenBoth ==
    ASSUME NEW X, NEW s \in Seq(Seq(X)), NEW t \in Seq(Seq(X))
    PROVE  FlattenSeq(s \o t) = FlattenSeq(s) \o FlattenSeq(t)
<1>a. Associates(X)
  BY Regroup
<1>0. \A q \in Seq(Seq(X)) : FlattenSeq(q) \in Seq(X)
  BY FlattenIsSeq
<1> DEFINE T == {n \in Nat : \A q \in Seq(Seq(X)) : Len(q) = n => FlattenSeq(s \o q) = FlattenSeq(s) \o FlattenSeq(q)}
<1>1. 0 \in T
  <2> SUFFICES ASSUME NEW q \in Seq(Seq(X)), Len(q) = 0 PROVE FlattenSeq(s \o q) = FlattenSeq(s) \o FlattenSeq(q)
    OBVIOUS
  <2>1. q = <<>>
    BY EmptySeq
  <2>2. s \o q = s /\ FlattenSeq(s) \o <<>> = FlattenSeq(s)
    BY <1>0, <2>1, ConcatEmptySeq
  <2> QED BY <2>1, <2>2, FlattenNone
<1>2. ASSUME NEW n \in Nat, n \in T PROVE n + 1 \in T
  <2> SUFFICES ASSUME NEW q \in Seq(Seq(X)), Len(q) = n + 1
               PROVE  FlattenSeq(s \o q) = FlattenSeq(s) \o FlattenSeq(q)
    OBVIOUS
  <2>1. q # <<>>
    BY EmptySeq
  <2>2. \E r \in Seq(Seq(X)), x \in Seq(X) : q = Append(r, x)
    BY <2>1, SequenceEmptyOrAppend
  <2>3. PICK r \in Seq(Seq(X)), x \in Seq(X) : q = Append(r, x)
    BY <2>2
  <2>4. Len(r) = n
    BY <2>3, AppendProperties, LenProperties
  <2>5. s \o q = Append(s \o r, x) /\ s \o r \in Seq(Seq(X))
    BY <2>3, AppendAfterConcat, ConcatProperties
  <2>6. FlattenSeq(s \o r) = FlattenSeq(s) \o FlattenSeq(r)
    BY <1>2, <2>4
  <2>7. FlattenSeq(s \o q) = FlattenSeq(s \o r) \o x /\ FlattenSeq(q) = FlattenSeq(r) \o x
    BY <2>3, <2>5, FlattenGoesOn
  <2>8. (FlattenSeq(s) \o FlattenSeq(r)) \o x = FlattenSeq(s) \o (FlattenSeq(r) \o x)
    <3> DEFINE a == FlattenSeq(s)
               b == FlattenSeq(r)
    <3>1. a \in Seq(X) /\ b \in Seq(X)
      BY <1>0
    <3> HIDE DEF a, b, T
    <3>2. (a \o b) \o x = a \o (b \o x)
      BY <1>a, <3>1 DEF Associates
    <3> QED BY <3>2 DEF a, b
  <2> QED BY <2>6, <2>7, <2>8
<1>3. Len(t) \in Nat
  BY LenProperties
<1> HIDE DEF T
<1>4. Len(t) \in T
  BY <1>1, <1>2, <1>3, Counting
<1> QED BY <1>4 DEF T

Flattened(q) == [i \in DOMAIN q |-> FlattenSeq(q[i])]

\* Or from the inside.
LEMMA FlattenTwice ==
    ASSUME NEW X, NEW q \in Seq(Seq(Seq(X)))
    PROVE  /\ Flattened(q) \in Seq(Seq(X))
           /\ FlattenSeq(FlattenSeq(q)) = FlattenSeq(Flattened(q))
<1>0. /\ \A s \in Seq(Seq(X)) : FlattenSeq(s) \in Seq(X)
      /\ \A s \in Seq(Seq(Seq(X))) : FlattenSeq(s) \in Seq(Seq(X)) /\ Flattened(s) \in Seq(Seq(X))
  <2>1. \A s \in Seq(Seq(X)) : FlattenSeq(s) \in Seq(X)
    BY FlattenIsSeq
  <2>2. \A s \in Seq(Seq(Seq(X))) : FlattenSeq(s) \in Seq(Seq(X))
    BY FlattenIsSeq
  <2>3. \A s \in Seq(Seq(Seq(X))) : Flattened(s) \in Seq(Seq(X))
    <3> TAKE s \in Seq(Seq(Seq(X)))
    <3>1. Len(s) \in Nat /\ DOMAIN s = 1..Len(s) /\ \A i \in 1..Len(s) : s[i] \in Seq(Seq(X))
      BY LenProperties, ElementOfSeq
    <3> DEFINE n == Len(s)
               f == [i \in 1..n |-> FlattenSeq(s[i])]
    <3>2. \A i \in 1..n : FlattenSeq(s[i]) \in Seq(X)
      BY <2>1, <3>1
    <3>3. Flattened(s) = f
      BY <3>1 DEF Flattened
    <3> DEFINE Y == Seq(X)
    <3>4. f \in [1..n -> Y] /\ n \in Nat
      BY <3>1, <3>2
    <3> HIDE DEF f, n, Y
    <3>5. f \in Seq(Y)
      BY <3>4
    <3> QED BY <3>3, <3>5 DEF Y
  <2> QED BY <2>1, <2>2, <2>3
<1> DEFINE T == {n \in Nat : \A s \in Seq(Seq(Seq(X))) :
                    Len(s) = n => FlattenSeq(FlattenSeq(s)) = FlattenSeq(Flattened(s))}
<1>1. 0 \in T
  <2> SUFFICES ASSUME NEW s \in Seq(Seq(Seq(X))), Len(s) = 0
               PROVE  FlattenSeq(FlattenSeq(s)) = FlattenSeq(Flattened(s))
    OBVIOUS
  <2>1. s = <<>>
    BY EmptySeq
  <2>2. Flattened(s) = <<>>
    BY <2>1 DEF Flattened
  <2> QED BY <2>1, <2>2, FlattenNone
<1>2. ASSUME NEW n \in Nat, n \in T PROVE n + 1 \in T
  <2> SUFFICES ASSUME NEW s \in Seq(Seq(Seq(X))), Len(s) = n + 1
               PROVE  FlattenSeq(FlattenSeq(s)) = FlattenSeq(Flattened(s))
    OBVIOUS
  <2>1. s # <<>>
    BY EmptySeq
  <2>2. \E r \in Seq(Seq(Seq(X))), x \in Seq(Seq(X)) : s = Append(r, x)
    BY <2>1, SequenceEmptyOrAppend
  <2>3. PICK r \in Seq(Seq(Seq(X))), x \in Seq(Seq(X)) : s = Append(r, x)
    BY <2>2
  <2>4. Len(r) = n /\ Len(r) \in Nat
    BY <2>3, AppendProperties, LenProperties
  <2>5. Flattened(s) = Append(Flattened(r), FlattenSeq(x))
    <3> DEFINE f == Flattened(s)
               g == Append(Flattened(r), FlattenSeq(x))
    <3>1. /\ DOMAIN s = 1..(n + 1) /\ s[n + 1] = x /\ (\A i \in 1..n : s[i] = r[i])
          /\ DOMAIN r = 1..n
      BY <2>3, <2>4, AppendProperties, LenProperties
    <3>2. Flattened(r) \in Seq(Seq(X)) /\ FlattenSeq(x) \in Seq(X) /\ f \in Seq(Seq(X))
      BY <1>0
    <3>3. DOMAIN Flattened(r) = 1..n /\ Len(Flattened(r)) = n /\ \A i \in 1..n : Flattened(r)[i] = FlattenSeq(r[i])
      <4>1. DOMAIN Flattened(r) = 1..n /\ \A i \in 1..n : Flattened(r)[i] = FlattenSeq(r[i])
        BY <3>1 DEF Flattened
      <4>2. DOMAIN Flattened(r) = 1..Len(Flattened(r)) /\ Len(Flattened(r)) \in Nat
        BY <3>2, LenProperties
      <4> QED BY <4>1, <4>2
    <3>4. DOMAIN f = 1..(n + 1) /\ Len(f) = n + 1 /\ \A i \in 1..(n + 1) : f[i] = FlattenSeq(s[i])
      <4>1. DOMAIN f = 1..(n + 1) /\ \A i \in 1..(n + 1) : f[i] = FlattenSeq(s[i])
        BY <3>1 DEF Flattened
      <4>2. DOMAIN f = 1..Len(f) /\ Len(f) \in Nat
        BY <3>2, LenProperties
      <4> QED BY <4>1, <4>2
    <3> HIDE DEF f
    <3>5. /\ g \in Seq(Seq(X)) /\ Len(g) = n + 1 /\ g[n + 1] = FlattenSeq(x)
          /\ \A i \in 1..n : g[i] = FlattenSeq(r[i])
      BY <3>2, <3>3, AppendProperties
    <3> HIDE DEF g
    <3>6. \A i \in 1..(n + 1) : f[i] = g[i]
      <4> TAKE i \in 1..(n + 1)
      <4>1. i = n + 1 \/ i \in 1..n
        OBVIOUS
      <4> QED BY <3>1, <3>4, <3>5, <4>1
    <3>7. f \in Seq(Seq(X)) /\ g \in Seq(Seq(X)) /\ Len(f) = Len(g) /\ \A i \in 1..Len(f) : f[i] = g[i]
      BY <3>2, <3>4, <3>5, <3>6
    <3>8. f = g
      BY <3>7, SeqEqual
    <3> QED BY <3>8 DEF f, g
  <2>6. FlattenSeq(s) = FlattenSeq(r) \o x
    BY <2>3, FlattenGoesOn
  <2>7. FlattenSeq(FlattenSeq(s)) = FlattenSeq(FlattenSeq(r)) \o FlattenSeq(x)
    BY <1>0, <2>6, FlattenBoth
  <2>8. FlattenSeq(Flattened(s)) = FlattenSeq(Flattened(r)) \o FlattenSeq(x)
    BY <1>0, <2>5, FlattenGoesOn
  <2>9. FlattenSeq(FlattenSeq(r)) = FlattenSeq(Flattened(r))
    BY <1>2, <2>4
  <2> QED BY <2>7, <2>8, <2>9
<1>3. Len(q) \in Nat
  BY LenProperties
<1> HIDE DEF T
<1>4. Len(q) \in T
  BY <1>1, <1>2, <1>3, Counting
<1> QED BY <1>0, <1>4 DEF T

-----------------------------------------------------------------------------
(* The passages of a document                                               *)

Sentences == Seq(Nat)

\* One passage more than one sentence long fits.
Fitting == {s \in Sentences : Len(s) > 1 => CharsIn(s) <= MaxChars}

\* A paragraph's length is never understated.
Paras == {p \in [body : Sentences, chars : Int] : CharsIn(p.body) <= p.chars}

Bodies(q) == [i \in DOMAIN q |-> q[i].body]

LEMMA BodiesOf ==
    ASSUME NEW q \in Seq(Paras)
    PROVE  /\ Bodies(q) \in Seq(Sentences) /\ Len(Bodies(q)) = Len(q)
           /\ \A i \in 1..Len(q) : Bodies(q)[i] = q[i].body
<1> DEFINE n == Len(q)
           f == [i \in 1..n |-> q[i].body]
           Y == Sentences
<1>1. n \in Nat /\ DOMAIN q = 1..n /\ \A i \in 1..n : q[i] \in Paras
  BY LenProperties, ElementOfSeq
<1>2. \A i \in 1..n : q[i].body \in Y
  BY <1>1 DEF Paras
<1>3. Bodies(q) = f
  BY <1>1 DEF Bodies
<1>4. f \in [1..n -> Y] /\ \A i \in 1..n : f[i] = q[i].body
  BY <1>2
<1> HIDE DEF f, n, Y
<1>5. f \in Seq(Y) /\ Len(f) = n
  BY <1>1, <1>4
<1> QED BY <1>3, <1>4, <1>5 DEF Y, n

LEMMA BodiesGoOn ==
    ASSUME NEW q \in Seq(Paras), NEW p \in Paras
    PROVE  Bodies(Append(q, p)) = Append(Bodies(q), p.body)
<1> DEFINE t == Append(q, p)
           f == Bodies(t)
           g == Append(Bodies(q), p.body)
           n == Len(q)
<1>1. t \in Seq(Paras) /\ Len(t) = n + 1 /\ t[n + 1] = p /\ (\A i \in 1..n : t[i] = q[i]) /\ n \in Nat
  BY AppendProperties, LenProperties
<1>2. p.body \in Sentences
  BY DEF Paras
<1>3. f \in Seq(Sentences) /\ Len(f) = n + 1 /\ \A i \in 1..(n + 1) : f[i] = t[i].body
  <2> HIDE DEF t
  <2> QED BY <1>1, BodiesOf
<1>4. Bodies(q) \in Seq(Sentences) /\ Len(Bodies(q)) = n /\ \A i \in 1..n : Bodies(q)[i] = q[i].body
  BY BodiesOf
<1>5. g \in Seq(Sentences) /\ Len(g) = n + 1 /\ g[n + 1] = p.body /\ \A i \in 1..n : g[i] = q[i].body
  <2> HIDE DEF n
  <2> QED BY <1>2, <1>4, AppendProperties
<1> HIDE DEF f, g, t, n
<1>6. \A i \in 1..(n + 1) : f[i] = g[i]
  <2> TAKE i \in 1..(n + 1)
  <2>1. i = n + 1 \/ i \in 1..n
    BY <1>1
  <2> QED BY <1>1, <1>3, <1>5, <2>1
<1>7. f = g
  BY <1>3, <1>5, <1>6, SeqEqual
<1> QED BY <1>7 DEF f, g, t

\* What a passage takes in loses no sentence and is counted in full.
LEMMA TakenIn ==
    ASSUME NEW q \in Seq(Paras), NEW p \in Paras
    PROVE  /\ TakeParagraph(q, p) \in Seq(Paras)
           /\ FlattenSeq(Bodies(TakeParagraph(q, p))) = FlattenSeq(Bodies(q)) \o p.body
<1> DEFINE taken == q # <<>> /\ Last(q).chars < MinChars /\ Last(q).chars + p.chars + 2 <= MaxChars
<1>0. \A r \in Seq(Paras) : Bodies(r) \in Seq(Sentences)
  BY BodiesOf
<1>1. CASE ~ taken
  <2>1. TakeParagraph(q, p) = Append(q, p)
    BY <1>1 DEF TakeParagraph
  <2>2. Append(q, p) \in Seq(Paras) /\ p.body \in Seq(Nat)
    BY AppendProperties DEF Paras, Sentences
  <2>3. FlattenSeq(Append(Bodies(q), p.body)) = FlattenSeq(Bodies(q)) \o p.body
    BY <1>0, <2>2, FlattenGoesOn DEF Sentences
  <2> QED BY <2>1, <2>2, <2>3, BodiesGoOn
<1>2. CASE taken
  <2>1. \E r \in Seq(Paras), l \in Paras : q = Append(r, l)
    BY <1>2, SequenceEmptyOrAppend
  <2>2. PICK r \in Seq(Paras), l \in Paras : q = Append(r, l)
    BY <2>1
  <2> DEFINE m == [body |-> l.body \o p.body, chars |-> l.chars + p.chars + 2]
  <2>3. Last(q) = l /\ Front(q) = r
    <3>1. Len(q) = Len(r) + 1 /\ q[Len(r) + 1] = l /\ Len(r) \in Nat /\ \A i \in 1..Len(r) : q[i] = r[i]
      BY <2>2, AppendProperties, LenProperties
    <3>2. Last(q) = l
      BY <3>1 DEF Last
    <3>3. Front(q) = SubSeq(q, 1, Len(r))
      BY <3>1 DEF Front
    <3>4. SubSeq(q, 1, Len(r)) = r
      <4> DEFINE k == Len(r)
                 f == SubSeq(q, 1, k)
      <4>1. \A i \in 1..k : q[i] \in Paras
        BY <3>1, ElementOfSeq
      <4>2. k \in Nat
        BY <3>1
      <4>3. /\ f \in Seq(Paras) /\ Len(f) = (IF 1 <= k THEN k - 1 + 1 ELSE 0)
            /\ \A i \in 1..(k - 1 + 1) : f[i] = q[1 + i - 1]
        <5> HIDE DEF k
        <5> QED BY <4>1, <4>2, SubSeqProperties
      <4>4. Len(f) = k /\ \A i \in 1..k : f[i] = q[i]
        <5> HIDE DEF f, k
        <5> QED BY <4>2, <4>3
      <4>5. \A i \in 1..Len(f) : f[i] = r[i]
        BY <3>1, <4>4
      <4> HIDE DEF f
      <4>6. f = r
        BY <4>3, <4>4, <4>5, SeqEqual
      <4> QED BY <4>6 DEF f
    <3> QED BY <3>2, <3>3, <3>4
  <2>4. TakeParagraph(q, p) = Append(r, m)
    BY <1>2, <2>3 DEF TakeParagraph
  <2>5. l.body \in Seq(Nat) /\ p.body \in Seq(Nat) /\ l.chars \in Int /\ p.chars \in Int
        /\ CharsIn(l.body) <= l.chars /\ CharsIn(p.body) <= p.chars
    BY <2>2 DEF Paras, Sentences
  <2>6. m \in Paras
    <3>1. l.body \o p.body \in Seq(Nat)
      BY <2>5, ConcatProperties
    <3>2. CharsIn(l.body) \in Int /\ CharsIn(p.body) \in Int
          /\ CharsIn(l.body \o p.body) = CharsIn(l.body) + CharsIn(p.body) + 1
      BY <2>5, CharsOfBoth
    <3>3. l.chars + p.chars + 2 \in Int /\ CharsIn(l.body \o p.body) <= l.chars + p.chars + 2
      BY <2>5, <3>2
    <3> QED BY <3>1, <3>3 DEF Paras, Sentences
  <2>7. Append(r, m) \in Seq(Paras) /\ Bodies(Append(r, m)) = Append(Bodies(r), l.body \o p.body)
    <3>1. m.body = l.body \o p.body
      OBVIOUS
    <3> HIDE DEF m
    <3>2. Append(r, m) \in Seq(Paras)
      BY <2>2, <2>6, AppendProperties
    <3>3. Bodies(Append(r, m)) = Append(Bodies(r), m.body)
      BY <2>2, <2>6, BodiesGoOn
    <3> QED BY <3>1, <3>2, <3>3
  <2>8. Bodies(q) = Append(Bodies(r), l.body)
    BY <2>2, BodiesGoOn
  <2>9. Bodies(r) \in Seq(Seq(Nat)) /\ l.body \o p.body \in Seq(Nat)
    BY <1>0, <2>2, <2>5, ConcatProperties DEF Sentences
  <2>10. FlattenSeq(Append(Bodies(r), l.body \o p.body)) = FlattenSeq(Bodies(r)) \o (l.body \o p.body)
    BY <2>9, FlattenGoesOn
  <2>11. FlattenSeq(Bodies(q)) = FlattenSeq(Bodies(r)) \o l.body /\ FlattenSeq(Bodies(r)) \in Seq(Nat)
    BY <2>5, <2>8, <2>9, FlattenGoesOn
  <2>12. (FlattenSeq(Bodies(r)) \o l.body) \o p.body = FlattenSeq(Bodies(r)) \o (l.body \o p.body)
    <3> DEFINE a == FlattenSeq(Bodies(r))
               b == l.body
               c == p.body
    <3>1. a \in Seq(Nat) /\ b \in Seq(Nat) /\ c \in Seq(Nat)
      BY <2>5, <2>11
    <3> HIDE DEF a, b, c
    <3>2. (a \o b) \o c = a \o (b \o c)
      BY <3>1, ConcatAssociative, SMTT(30)
    <3> QED BY <3>2 DEF a, b, c
  <2> QED BY <2>4, <2>7, <2>10, <2>11, <2>12
<1> QED BY <1>1, <1>2

\* The cut of an over-long paragraph, sentence by sentence.
Cuts == [out : Seq(Fitting), current : Fitting]

LEMMA FittingAreSentences == Fitting \in SUBSET Sentences /\ <<>> \in Fitting /\ \A x \in Nat : <<x>> \in Fitting
<1>1. <<>> \in Seq(Nat) /\ Len(<<>>) = 0
  BY EmptySeq
<1>2. \A x \in Nat : <<x>> \in Seq(Nat) /\ Len(<<x>>) = 1
  OBVIOUS
<1>3. ~ (0 > 1) /\ ~ (1 > 1)
  OBVIOUS
<1> QED BY <1>1, <1>2, <1>3 DEF Fitting, Sentences

LEMMA SentenceTaken ==
    ASSUME NEW acc \in Cuts, NEW x \in Nat
    PROVE  /\ TakeSentence(acc, x) \in Cuts
           /\ FlattenSeq(TakeSentence(acc, x).out) \o TakeSentence(acc, x).current
                = (FlattenSeq(acc.out) \o acc.current) \o <<x>>
<1> DEFINE long == acc.current # <<>> /\ CharsIn(Append(acc.current, x)) > MaxChars
<1>1. acc.out \in Seq(Fitting) /\ acc.current \in Fitting
  BY DEF Cuts
<1>2. acc.out \in Seq(Seq(Nat)) /\ acc.current \in Seq(Nat) /\ <<x>> \in Seq(Nat) /\ <<x>> \in Fitting
  <2>1. Seq(Fitting) \subseteq Seq(Sentences)
    BY FittingAreSentences, SeqMonotonic
  <2> QED BY <1>1, <2>1, FittingAreSentences DEF Sentences
<1>3. FlattenSeq(acc.out) \in Seq(Nat)
  BY <1>2, FlattenIsSeq
<1>4. CASE long
  <2>1. TakeSentence(acc, x) = [out |-> Append(acc.out, acc.current), current |-> <<x>>]
    BY <1>4 DEF TakeSentence
  <2>2. Append(acc.out, acc.current) \in Seq(Fitting)
    BY <1>1, AppendProperties
  <2>3. FlattenSeq(Append(acc.out, acc.current)) = FlattenSeq(acc.out) \o acc.current
    BY <1>2, FlattenGoesOn
  <2> DEFINE y == Append(acc.out, acc.current)
             c == <<x>>
  <2>4. y \in Seq(Fitting) /\ c \in Fitting /\ TakeSentence(acc, x) = [out |-> y, current |-> c]
    BY <1>2, <2>1, <2>2
  <2>5. FlattenSeq(y) = FlattenSeq(acc.out) \o acc.current
    BY <2>3
  <2> HIDE DEF y, c
  <2>6. TakeSentence(acc, x) \in Cuts /\ TakeSentence(acc, x).out = y /\ TakeSentence(acc, x).current = c
    BY <2>4 DEF Cuts
  <2> QED BY <2>5, <2>6 DEF c
<1>5. CASE ~ long
  <2>1. TakeSentence(acc, x) = [out |-> acc.out, current |-> Append(acc.current, x)]
    BY <1>5 DEF TakeSentence
  <2>2. Append(acc.current, x) = acc.current \o <<x>> /\ Append(acc.current, x) \in Seq(Nat)
    BY <1>2, AppendIsConcat, AppendProperties
  <2>3. Append(acc.current, x) \in Fitting
    <3>1. CASE acc.current = <<>>
      <4>1. Append(acc.current, x) = <<x>>
        BY <3>1
      <4> QED BY <1>2, <4>1
    <3>2. CASE acc.current # <<>>
      <4>1. ~ (CharsIn(Append(acc.current, x)) > MaxChars)
        BY <1>5, <3>2
      <4>2. CharsIn(Append(acc.current, x)) \in Int /\ MaxChars \in Int
        <5> DEFINE t == Append(acc.current, x)
        <5>1. t \in Seq(Nat)
          BY <2>2
        <5> HIDE DEF t
        <5>2. t \o t \in Seq(Nat) /\ CharsIn(t) \in Int
          BY <5>1, ConcatProperties, CharsOfBoth
        <5> QED BY <5>2, RetrievalAssumption DEF t
      <4>3. CharsIn(Append(acc.current, x)) <= MaxChars
        BY <4>1, <4>2
      <4> QED BY <2>2, <4>3 DEF Fitting, Sentences
    <3> QED BY <3>1, <3>2
  <2>4. (FlattenSeq(acc.out) \o acc.current) \o <<x>> = FlattenSeq(acc.out) \o (acc.current \o <<x>>)
    <3> DEFINE a == FlattenSeq(acc.out)
               b == acc.current
               c == <<x>>
    <3>1. a \in Seq(Nat) /\ b \in Seq(Nat) /\ c \in Seq(Nat)
      BY <1>2, <1>3
    <3> HIDE DEF a, b, c
    <3>2. (a \o b) \o c = a \o (b \o c)
      <4>1. Associates(Nat)
        BY Regroup
      <4> QED BY <3>1, <4>1 DEF Associates
    <3> QED BY <3>2 DEF a, b, c
  <2> DEFINE c == Append(acc.current, x)
  <2>5. c \in Fitting /\ c = acc.current \o <<x>> /\ TakeSentence(acc, x) = [out |-> acc.out, current |-> c]
    BY <2>1, <2>2, <2>3
  <2> HIDE DEF c
  <2>6. TakeSentence(acc, x) \in Cuts /\ TakeSentence(acc, x).out = acc.out /\ TakeSentence(acc, x).current = c
    BY <1>1, <2>5 DEF Cuts
  <2> QED BY <2>4, <2>5, <2>6
<1> QED BY <1>4, <1>5

\* Merging loses no sentence.
LEMMA MergedWhole ==
    ASSUME NEW ps \in Seq(Paras)
    PROVE  /\ MergeShort(ps) \in Seq(Paras)
           /\ FlattenSeq(Bodies(MergeShort(ps))) = FlattenSeq(Bodies(ps))
<1> DEFINE L == Len(ps)
           Q == Seq(Paras)
           step == [i \in 1..L |-> [q \in Q |-> TakeParagraph(q, ps[i])]]
           Meets(f) == f = [i \in 0..L |-> IF i = 0 THEN <<>> ELSE TakeParagraph(f[i - 1], ps[i])]
           f == CHOOSE h : Meets(h)
           b == <<>>
<1>1. L \in Nat /\ b \in Q /\ \A i \in 1..L : ps[i] \in Paras
  BY LenProperties, ElementOfSeq, EmptySeq
<1>2. step \in [1..L -> [Q -> Q]] /\ \A i \in 1..L, q \in Q : step[i][q] = TakeParagraph(q, ps[i])
  <2>1. \A i \in 1..L, q \in Q : TakeParagraph(q, ps[i]) \in Q
    BY <1>1, TakenIn
  <2> HIDE DEF Q, L
  <2> QED BY <2>1
<1>3. MergeShort(ps) = f[L]
  BY DEF MergeShort
<1> HIDE DEF step, L
<1>4. PICK g \in [0..L -> Q] : g[0] = b /\ \A i \in 1..L : g[i] = step[i][g[i - 1]]
  <2> HIDE DEF Q, b
  <2>1. HasRun(L, Q, b, step)
    BY <1>1, <1>2, RunExists
  <2> QED BY <2>1 DEF HasRun
<1>5. \A i \in 1..L : g[i] = TakeParagraph(g[i - 1], ps[i])
  <2> TAKE i \in 1..L
  <2>1. i - 1 \in 0..L
    BY <1>1
  <2>2. g[i - 1] \in Q
    BY <1>4, <2>1
  <2> QED BY <1>2, <1>4, <2>2
<1>6. Meets(g)
  <2>1. \A i \in 0..L : g[i] = IF i = 0 THEN <<>> ELSE TakeParagraph(g[i - 1], ps[i])
    <3> TAKE i \in 0..L
    <3>1. i # 0 => i \in 1..L
      BY <1>1
    <3> QED BY <1>4, <1>5, <3>1
  <2> QED BY <1>4, <2>1
<1>7. Meets(f)
  <2> HIDE DEF Meets
  <2> QED BY <1>6
<1> HIDE DEF f
<1>8. f[0] = b /\ \A i \in 1..L : f[i] = TakeParagraph(f[i - 1], ps[i])
  <2>1. \A i \in 0..L : f[i] = IF i = 0 THEN <<>> ELSE TakeParagraph(f[i - 1], ps[i])
    BY <1>7
  <2>2. 0 \in 0..L /\ \A i \in 1..L : i \in 0..L /\ i # 0
    BY <1>1
  <2> QED BY <2>1, <2>2
<1>9. Bodies(ps) \in Seq(Sentences) /\ Len(Bodies(ps)) = L /\ \A i \in 1..L : Bodies(ps)[i] = ps[i].body
  BY BodiesOf DEF L
<1> DEFINE s == Bodies(ps)
<1>10. PICK h \in [0..L -> Seq(Nat)] : /\ h[0] = <<>>
                                       /\ \A i \in 1..L : h[i] = h[i - 1] \o s[i]
                                       /\ FlattenSeq(s) = h[L]
  <2>1. s \in Seq(Seq(Nat)) /\ Len(s) = L
    BY <1>9 DEF Sentences
  <2> HIDE DEF s
  <2> QED BY <2>1, FlattenRuns
<1> DEFINE T == {k \in Nat : k <= L => f[k] \in Q /\ FlattenSeq(Bodies(f[k])) = h[k]}
<1>11. 0 \in T
  <2>1. Bodies(b) = <<>>
    BY DEF Bodies
  <2> QED BY <1>1, <1>8, <1>10, <2>1, FlattenNone
<1>12. ASSUME NEW k \in Nat, k \in T PROVE k + 1 \in T
  <2> SUFFICES ASSUME k + 1 <= L PROVE f[k + 1] \in Q /\ FlattenSeq(Bodies(f[k + 1])) = h[k + 1]
    OBVIOUS
  <2>1. k + 1 \in 1..L /\ (k + 1) - 1 = k /\ f[k] \in Seq(Paras) /\ FlattenSeq(Bodies(f[k])) = h[k]
    BY <1>1, <1>12
  <2>2. f[k + 1] = TakeParagraph(f[k], ps[k + 1]) /\ h[k + 1] = h[k] \o s[k + 1] /\ s[k + 1] = ps[k + 1].body
        /\ ps[k + 1] \in Paras
    BY <1>1, <1>8, <1>9, <1>10, <2>1
  <2>3. TakeParagraph(f[k], ps[k + 1]) \in Seq(Paras)
        /\ FlattenSeq(Bodies(TakeParagraph(f[k], ps[k + 1]))) = FlattenSeq(Bodies(f[k])) \o ps[k + 1].body
    BY <2>1, <2>2, TakenIn
  <2> QED BY <2>1, <2>2, <2>3
<1> HIDE DEF T
<1>13. L \in T
  BY <1>1, <1>11, <1>12, Counting
<1> QED BY <1>1, <1>3, <1>10, <1>13 DEF T

\* Splitting loses no sentence, and what it makes is of one sentence or fits.
LEMMA SplitWhole ==
    ASSUME NEW p \in Paras
    PROVE  /\ SplitLong(p) \in Seq(Fitting)
           /\ FlattenSeq(SplitLong(p)) = p.body
<1> DEFINE body == p.body
           L == Len(body)
           nothing == [out |-> <<>>, current |-> <<>>]
           step == [i \in 1..L |-> [c \in Cuts |-> TakeSentence(c, body[i])]]
           Meets(f) == f = [i \in 0..L |-> IF i = 0 THEN nothing ELSE TakeSentence(f[i - 1], body[i])]
           f == CHOOSE h : Meets(h)
<1>0. body \in Seq(Nat) /\ p.chars \in Int /\ CharsIn(body) <= p.chars /\ CharsIn(body) \in Int
  <2>1. body \in Seq(Nat) /\ p.chars \in Int /\ CharsIn(body) <= p.chars
    BY DEF Paras, Sentences
  <2> QED BY <2>1, CharsOfBoth
<1>1. L \in Nat /\ \A i \in 1..L : body[i] \in Nat
  BY <1>0, LenProperties, ElementOfSeq
<1>2. nothing \in Cuts /\ <<>> \in Seq(Fitting)
  <2>1. <<>> \in Seq(Fitting) /\ <<>> \in Fitting
    BY FittingAreSentences, EmptySeq
  <2> QED BY <2>1 DEF Cuts
<1>3. step \in [1..L -> [Cuts -> Cuts]] /\ \A i \in 1..L, c \in Cuts : step[i][c] = TakeSentence(c, body[i])
  <2>1. \A i \in 1..L, c \in Cuts : TakeSentence(c, body[i]) \in Cuts
    BY <1>1, SentenceTaken
  <2> HIDE DEF L, body
  <2> QED BY <2>1
<1>4. SplitLong(p) = IF p.chars <= MaxChars THEN <<body>>
                     ELSE IF f[L].current # <<>> THEN Append(f[L].out, f[L].current) ELSE f[L].out
  BY DEF SplitLong
<1> HIDE DEF step, L, body, nothing
<1>5. PICK g \in [0..L -> Cuts] : g[0] = nothing /\ \A i \in 1..L : g[i] = step[i][g[i - 1]]
  <2>1. HasRun(L, Cuts, nothing, step)
    BY <1>1, <1>2, <1>3, RunExists
  <2> QED BY <2>1 DEF HasRun
<1>6. \A i \in 1..L : g[i] = TakeSentence(g[i - 1], body[i])
  <2> TAKE i \in 1..L
  <2>1. i - 1 \in 0..L
    BY <1>1
  <2>2. g[i - 1] \in Cuts
    BY <1>5, <2>1
  <2> QED BY <1>3, <1>5, <2>2
<1>7. Meets(g)
  <2>1. \A i \in 0..L : g[i] = IF i = 0 THEN nothing ELSE TakeSentence(g[i - 1], body[i])
    <3> TAKE i \in 0..L
    <3>1. i # 0 => i \in 1..L
      BY <1>1
    <3> QED BY <1>5, <1>6, <3>1
  <2> QED BY <1>5, <2>1
<1>8. Meets(f)
  <2> HIDE DEF Meets
  <2> QED BY <1>7
<1> HIDE DEF f
<1>9. f[0] = nothing /\ \A i \in 1..L : f[i] = TakeSentence(f[i - 1], body[i])
  <2>1. \A i \in 0..L : f[i] = IF i = 0 THEN nothing ELSE TakeSentence(f[i - 1], body[i])
    BY <1>8
  <2>2. 0 \in 0..L /\ \A i \in 1..L : i \in 0..L /\ i # 0
    BY <1>1
  <2> QED BY <2>1, <2>2
<1> DEFINE Read(k) == SubSeq(body, 1, k)
           CutSoFar(k) == f[k] \in Cuts /\ FlattenSeq(f[k].out) \o f[k].current = Read(k)
           T == {k \in Nat : k <= L => CutSoFar(k)}
<1>10. 0 \in T
  <2>1. f[0] \in Cuts /\ f[0].out = <<>> /\ f[0].current = <<>>
    BY <1>2, <1>9 DEF nothing
  <2>2. Read(0) = <<>>
    BY SubSeqEmpty
  <2>3. <<>> \o <<>> = <<>>
    BY ConcatEmptySeq, EmptySeq
  <2> QED BY <2>1, <2>2, <2>3, FlattenNone
<1>11. ASSUME NEW k \in Nat, k \in T PROVE k + 1 \in T
  <2> SUFFICES ASSUME k + 1 <= L
               PROVE  CutSoFar(k + 1)
    <3> HIDE DEF CutSoFar
    <3> QED OBVIOUS
  <2>1. k + 1 \in 1..L /\ (k + 1) - 1 = k /\ f[k] \in Cuts /\ FlattenSeq(f[k].out) \o f[k].current = Read(k)
    BY <1>1, <1>11
  <2>2. f[k + 1] = TakeSentence(f[k], body[k + 1]) /\ body[k + 1] \in Nat
    BY <1>1, <1>9, <2>1
  <2>3. f[k + 1] \in Cuts
        /\ FlattenSeq(f[k + 1].out) \o f[k + 1].current = (FlattenSeq(f[k].out) \o f[k].current) \o <<body[k + 1]>>
    BY <2>1, <2>2, SentenceTaken
  <2>4. Read(k + 1) = Read(k) \o <<body[k + 1]>>
    <3>1. 1 \in 1..Len(body) /\ k + 1 \in 1..Len(body)
      BY <1>1, <2>1 DEF L
    <3>2. SubSeq(body, 1, k + 1) = SubSeq(body, 1, (k + 1) - 1) \o <<body[k + 1]>>
      BY <1>0, <3>1, SubSeqRecursiveSecond
    <3> QED BY <2>1, <3>2
  <2> QED BY <2>1, <2>3, <2>4
<1> HIDE DEF T
<1>12. L \in T
  BY <1>1, <1>10, <1>11, Counting
<1> DEFINE chunks == f[L].out
           current == f[L].current
<1>13. chunks \in Seq(Fitting) /\ current \in Fitting /\ FlattenSeq(chunks) \o current = body
  <2>1. f[L] \in Cuts /\ FlattenSeq(chunks) \o current = Read(L)
    BY <1>1, <1>12 DEF T
  <2>2. Read(L) = body
    BY <1>0, SubSeqFull DEF L
  <2> QED BY <2>1, <2>2 DEF Cuts
<1> HIDE DEF chunks, current
<1>14. Seq(Fitting) \subseteq Seq(Seq(Nat))
  BY FittingAreSentences, SeqMonotonic DEF Sentences
<1>15. CASE p.chars <= MaxChars
  <2>1. SplitLong(p) = <<body>>
    BY <1>4, <1>15
  <2>2. body \in Fitting
    BY <1>0, <1>15, RetrievalAssumption DEF Fitting, Sentences
  <2>3. <<body>> \in Seq(Fitting) /\ <<body>> = Append(<<>>, body)
    BY <2>2
  <2>4. FlattenSeq(Append(<<>>, body)) = FlattenSeq(<<>>) \o body
    BY <1>0, <1>2, <1>14, FlattenGoesOn
  <2>5. <<>> \o body = body
    BY <1>0, ConcatEmptySeq
  <2> QED BY <2>1, <2>3, <2>4, <2>5, FlattenNone DEF body
<1>16. CASE ~ (p.chars <= MaxChars) /\ current # <<>>
  <2>1. SplitLong(p) = Append(chunks, current)
    BY <1>4, <1>16 DEF chunks, current
  <2>2. Append(chunks, current) \in Seq(Fitting)
    BY <1>13, AppendProperties
  <2>3. chunks \in Seq(Seq(Nat)) /\ current \in Seq(Nat)
    BY <1>13, <1>14, FittingAreSentences DEF Sentences
  <2>4. FlattenSeq(Append(chunks, current)) = FlattenSeq(chunks) \o current
    BY <2>3, FlattenGoesOn
  <2> QED BY <1>13, <2>1, <2>2, <2>4 DEF body
<1>17. CASE ~ (p.chars <= MaxChars) /\ current = <<>>
  <2>1. SplitLong(p) = chunks
    BY <1>4, <1>17 DEF chunks, current
  <2>2. FlattenSeq(chunks) \in Seq(Nat)
    BY <1>13, <1>14, FlattenIsSeq
  <2>3. FlattenSeq(chunks) \o <<>> = FlattenSeq(chunks)
    BY <2>2, ConcatEmptySeq
  <2> QED BY <1>13, <1>17, <2>1, <2>3 DEF body
<1> QED BY <1>15, <1>16, <1>17

\* The passages of a document, before it is given a heading.
LEMMA PassagesWhole ==
    ASSUME NEW d, d.paragraphs \in Seq(Seq(Nat))
    PROVE  LET merged == MergeShort(Paragraphs(d))
               passages == FlattenSeq([i \in DOMAIN merged |-> SplitLong(merged[i])])
           IN  /\ passages \in Seq(Fitting)
               /\ FlattenSeq(passages) = FlattenSeq(d.paragraphs)
<1> DEFINE ps == Paragraphs(d)
           n == Len(d.paragraphs)
           merged == MergeShort(ps)
           m == Len(merged)
           parts == [i \in DOMAIN merged |-> SplitLong(merged[i])]
<1>1. n \in Nat /\ DOMAIN d.paragraphs = 1..n /\ \A i \in 1..n : d.paragraphs[i] \in Seq(Nat)
  BY LenProperties, ElementOfSeq
<1>2. ps \in Seq(Paras) /\ Bodies(ps) = d.paragraphs
  <2>1. ps = [i \in 1..n |-> [body |-> d.paragraphs[i], chars |-> CharsIn(d.paragraphs[i])]]
    BY <1>1 DEF Paragraphs
  <2>2. \A i \in 1..n : CharsIn(d.paragraphs[i]) \in Int
    BY <1>1, CharsOfBoth
  <2>3. \A i \in 1..n : [body |-> d.paragraphs[i], chars |-> CharsIn(d.paragraphs[i])] \in Paras
    BY <1>1, <2>2 DEF Paras, Sentences
  <2>4. ps \in [1..n -> Paras] /\ \A i \in 1..n : ps[i].body = d.paragraphs[i]
    BY <2>1, <2>3
  <2> HIDE DEF ps
  <2>5. ps \in Seq(Paras) /\ Len(ps) = n
    <3> HIDE DEF n
    <3> QED BY <1>1, <2>4
  <2>6. Bodies(ps) \in Seq(Sentences) /\ Len(Bodies(ps)) = n /\ \A i \in 1..n : Bodies(ps)[i] = d.paragraphs[i]
    BY <2>4, <2>5, BodiesOf
  <2>7. Bodies(ps) = d.paragraphs
    <3> DEFINE q == Bodies(ps)
               r == d.paragraphs
    <3>1. q \in Seq(Sentences) /\ r \in Seq(Sentences) /\ Len(q) = Len(r) /\ \A i \in 1..Len(q) : q[i] = r[i]
      BY <2>6 DEF Sentences
    <3> HIDE DEF q, r
    <3>2. q = r
      BY <3>1, SeqEqual
    <3> QED BY <3>2 DEF q, r
  <2> QED BY <2>5, <2>7
<1> HIDE DEF ps
<1>3. merged \in Seq(Paras) /\ FlattenSeq(Bodies(merged)) = FlattenSeq(d.paragraphs)
  BY <1>2, MergedWhole
<1> HIDE DEF merged
<1>4. m \in Nat /\ DOMAIN merged = 1..m /\ \A i \in 1..m : merged[i] \in Paras
  BY <1>3, LenProperties, ElementOfSeq
<1>5. \A i \in 1..m : SplitLong(merged[i]) \in Seq(Fitting) /\ FlattenSeq(SplitLong(merged[i])) = merged[i].body
  BY <1>4, SplitWhole
<1>6. parts \in Seq(Seq(Fitting)) /\ Len(parts) = m /\ \A i \in 1..m : parts[i] = SplitLong(merged[i])
  <2> DEFINE Y == Seq(Fitting)
  <2>1. parts \in [1..m -> Y] /\ \A i \in 1..m : parts[i] = SplitLong(merged[i])
    BY <1>4, <1>5
  <2> HIDE DEF parts, Y, m
  <2>2. parts \in Seq(Y) /\ Len(parts) = m
    BY <1>4, <2>1
  <2> QED BY <2>1, <2>2 DEF Y
<1> HIDE DEF parts
<1>7. FlattenSeq(parts) \in Seq(Fitting)
  BY <1>6, FlattenIsSeq
<1>8. parts \in Seq(Seq(Seq(Nat)))
  <2>1. Seq(Fitting) \subseteq Seq(Seq(Nat))
    BY FittingAreSentences, SeqMonotonic DEF Sentences
  <2> QED BY <1>6, <2>1, SeqMonotonic
<1>9. Flattened(parts) = Bodies(merged)
  <2>1. DOMAIN parts = 1..m
    BY <1>6, LenProperties
  <2> QED BY <1>4, <1>5, <1>6, <2>1 DEF Flattened, Bodies
<1>10. FlattenSeq(FlattenSeq(parts)) = FlattenSeq(Bodies(merged))
  BY <1>8, <1>9, FlattenTwice
<1> QED BY <1>3, <1>7, <1>10 DEF parts, merged, ps

\* As in EverySentenceIsCitable, of one document.
Citable(d) ==
    LET chunks == ChunkMarkdown(d)
    IN  /\ FlattenSeq([n \in DOMAIN chunks |-> chunks[n].body]) = FlattenSeq(d.paragraphs)
        /\ \A n \in DOMAIN chunks :
            /\ chunks[n].heading = Heading(d) /\ chunks[n].provenance = d.provenance
            /\ Len(chunks[n].body) > 1 => CharsIn(chunks[n].body) <= MaxChars
        /\ Heading(d) # "" => chunks # <<>>

LEMMA DocumentIsCitable ==
    ASSUME NEW d, d.paragraphs \in Seq(Seq(Nat))
    PROVE  /\ Citable(d)
           /\ ChunkMarkdown(d) \in Seq(Range(ChunkMarkdown(d)))
<1> DEFINE merged == MergeShort(Paragraphs(d))
           passages == FlattenSeq([i \in DOMAIN merged |-> SplitLong(merged[i])])
           h == Heading(d)
           titled == h # ""
           kept == IF passages = <<>> /\ titled THEN << <<>> >> ELSE passages
           chunk(i) == [doc |-> d.doc, ordinal |-> i - 1, heading |-> h, body |-> kept[i],
                        domain |-> d.domain, provenance |-> d.provenance]
           chunks == ChunkMarkdown(d)
<1>1. passages \in Seq(Fitting) /\ FlattenSeq(passages) = FlattenSeq(d.paragraphs)
  BY PassagesWhole
<1>2. chunks = [i \in DOMAIN kept |-> chunk(i)]
  BY DEF ChunkMarkdown
<1> HIDE DEF passages, h, titled, chunks
<1>3. kept \in Seq(Fitting) /\ FlattenSeq(kept) = FlattenSeq(passages) /\ (titled => kept # <<>>)
  <2>1. CASE passages = <<>> /\ titled
    <3>1. kept = << <<>> >>
      BY <2>1
    <3>2. << <<>> >> \in Seq(Fitting) /\ << <<>> >> = Append(<<>>, <<>>) /\ << <<>> >> # <<>>
      BY FittingAreSentences
    <3>3. <<>> \in Seq(Nat) /\ <<>> \in Seq(Seq(Nat))
      BY EmptySeq
    <3>4. FlattenSeq(Append(<<>>, <<>>)) = FlattenSeq(<<>>) \o <<>>
      BY <3>3, FlattenGoesOn
    <3>5. <<>> \o <<>> = <<>>
      BY <3>3, ConcatEmptySeq
    <3> QED BY <2>1, <3>1, <3>2, <3>4, <3>5, FlattenNone
  <2>2. CASE ~ (passages = <<>> /\ titled)
    <3>1. kept = passages
      BY <2>2
    <3> QED BY <1>1, <2>2, <3>1
  <2> QED BY <2>1, <2>2
<1> HIDE DEF kept
<1> DEFINE n == Len(kept)
<1>4. n \in Nat /\ DOMAIN kept = 1..n /\ \A i \in 1..n : kept[i] \in Fitting
  BY <1>3, LenProperties, ElementOfSeq
<1>5. DOMAIN chunks = 1..n /\ \A i \in 1..n : chunks[i].body = kept[i] /\ chunks[i].heading = h
                                              /\ chunks[i].provenance = d.provenance
  BY <1>2, <1>4
<1>6. [i \in DOMAIN chunks |-> chunks[i].body] = kept
  <2>1. kept = [i \in 1..n |-> kept[i]]
    <3>1. kept \in [1..n -> Fitting]
      BY <1>3, LenProperties
    <3> QED BY <3>1
  <2>2. [i \in DOMAIN chunks |-> chunks[i].body] = [i \in 1..n |-> kept[i]]
    BY <1>5
  <2> QED BY <2>1, <2>2
<1>7. \A i \in DOMAIN chunks : Len(chunks[i].body) > 1 => CharsIn(chunks[i].body) <= MaxChars
  BY <1>4, <1>5 DEF Fitting
<1>8. titled => chunks # <<>>
  <2> SUFFICES ASSUME titled PROVE chunks # <<>>
    OBVIOUS
  <2>1. n # 0
    BY <1>3, EmptySeq
  <2>2. 1 \in DOMAIN chunks
    BY <1>4, <1>5, <2>1
  <2>3. 1 \notin DOMAIN <<>>
    OBVIOUS
  <2> QED BY <2>2, <2>3
<1>9. Citable(d)
  <2>1. FlattenSeq([i \in DOMAIN chunks |-> chunks[i].body]) = FlattenSeq(d.paragraphs)
    BY <1>1, <1>3, <1>6
  <2>2. \A i \in DOMAIN chunks : /\ chunks[i].heading = Heading(d) /\ chunks[i].provenance = d.provenance
                                 /\ Len(chunks[i].body) > 1 => CharsIn(chunks[i].body) <= MaxChars
    BY <1>5, <1>7 DEF h
  <2>3. Heading(d) # "" => chunks # <<>>
    BY <1>8 DEF titled, h
  <2> QED BY <2>1, <2>2, <2>3, Zenon DEF Citable, chunks
<1>10. chunks \in Seq(Range(chunks))
  <2> DEFINE Y == Range(chunks)
  <2>1. chunks = [i \in 1..n |-> chunks[i]]
    BY <1>2, <1>4
  <2>2. \A i \in 1..n : chunks[i] \in Y
    BY <1>5 DEF Range
  <2> HIDE DEF Y
  <2>3. chunks \in [1..n -> Y]
    BY <2>1, <2>2
  <2>4. chunks \in Seq(Y)
    BY <1>4, <2>3
  <2> QED BY <2>4 DEF Y
<1> QED BY <1>9, <1>10 DEF chunks

-----------------------------------------------------------------------------
(* What the gateway's retriever serves                                      *)

\* Rows of a corpus that loaded strictly, all of them.
Whole(chunks) == \E c \in Corpora : LoadCorpus(c) /\ chunks = CorpusChunks(c)

IndexFields ==
    /\ indexFile = [state |-> indexFile.state, rows |-> indexFile.rows, maker |-> indexFile.maker]
    /\ builder = [state |-> builder.state, rows |-> builder.rows, maker |-> builder.maker]
    /\ reader = [state |-> reader.state, rows |-> reader.rows, maker |-> reader.maker, made |-> reader.made]

\* What a build writes was read whole before it began, and it begins on a file
\* without rows; a file has rows only once they are committed.
IndexInv ==
    /\ IndexFields
    /\ corpus \in Corpora
    /\ builder.state # "idle" => Whole(builder.rows) /\ builder.maker \in Embedders
    /\ builder.state # "idle" => indexFile.rows = <<>>
    /\ indexFile.rows # <<>> => indexFile.state = "built" /\ Whole(indexFile.rows) /\ indexFile.maker \in Embedders
    /\ ServesWholeCorpora

LEMMA IndexBegins == RetrievalInit => IndexInv
<1> SUFFICES ASSUME RetrievalInit PROVE IndexInv
  OBVIOUS
<1>1. IndexFields
  BY DEF RetrievalInit, IndexFields, NoFile
<1>2. builder.state = "idle" /\ indexFile.rows = <<>> /\ reader.rows = <<>> /\ corpus \in Corpora
  BY DEF RetrievalInit, NoFile
<1> QED BY <1>1, <1>2 DEF IndexInv, ServesWholeCorpora

\* Nothing else than opening gives a reader rows.
LEMMA ReaderKeeps ==
    ASSUME IndexInv, reader'.rows = reader.rows, reader'.made = reader.made, reader'.maker = reader.maker
    PROVE  ServesWholeCorpora'
BY DEF IndexInv, ServesWholeCorpora

LEMMA BuildStartsKeeps == ASSUME IndexInv, NEW e \in Embedders, BuildStarts(e) PROVE IndexInv'
<1>1. /\ corpus' = corpus /\ reader' = reader /\ LoadCorpus(corpus)
      /\ builder' = [state |-> "unlinked", rows |-> CorpusChunks(corpus), maker |-> e]
      /\ indexFile' = [state |-> "empty", rows |-> <<>>, maker |-> NoMaker]
  BY DEF BuildStarts, NoFile
<1>2. corpus \in Corpora /\ IndexFields
  BY DEF IndexInv
<1>3. Whole(builder'.rows) /\ builder'.maker \in Embedders /\ indexFile'.rows = <<>> /\ corpus' \in Corpora
  BY <1>1, <1>2 DEF Whole
<1>4. IndexFields'
  BY <1>1, <1>2 DEF IndexFields
<1>5. ServesWholeCorpora'
  BY <1>1, ReaderKeeps
<1> QED BY <1>3, <1>4, <1>5 DEF IndexInv

LEMMA BuildSchemaKeeps == IndexInv /\ BuildSchema => IndexInv'
<1> SUFFICES ASSUME IndexInv, BuildSchema PROVE IndexInv'
  OBVIOUS
<1>1. /\ corpus' = corpus /\ reader' = reader /\ builder.state = "unlinked"
      /\ builder' = [builder EXCEPT !.state = "schema"] /\ indexFile' = [indexFile EXCEPT !.state = "schema"]
  BY DEF BuildSchema
<1>2. IndexFields /\ corpus \in Corpora /\ Whole(builder.rows) /\ builder.maker \in Embedders /\ indexFile.rows = <<>>
  BY <1>1 DEF IndexInv
<1>3. builder'.rows = builder.rows /\ builder'.maker = builder.maker /\ indexFile'.rows = indexFile.rows
  BY <1>1, <1>2 DEF IndexFields
<1>4. IndexFields'
  BY <1>1, <1>2 DEF IndexFields
<1>5. ServesWholeCorpora'
  BY <1>1, ReaderKeeps
<1> QED BY <1>1, <1>2, <1>3, <1>4, <1>5 DEF IndexInv

LEMMA BuildCommitsKeeps == IndexInv /\ BuildCommits => IndexInv'
<1> SUFFICES ASSUME IndexInv, BuildCommits PROVE IndexInv'
  OBVIOUS
<1>1. /\ corpus' = corpus /\ reader' = reader /\ builder.state = "schema"
      /\ builder' = [builder EXCEPT !.state = "idle"]
      /\ indexFile' = [state |-> "built", rows |-> builder.rows, maker |-> builder.maker]
  BY DEF BuildCommits
<1>2. IndexFields /\ corpus \in Corpora /\ Whole(builder.rows) /\ builder.maker \in Embedders
  BY <1>1 DEF IndexInv
<1>3. builder'.state = "idle" /\ indexFile'.state = "built" /\ Whole(indexFile'.rows) /\ indexFile'.maker \in Embedders
  BY <1>1, <1>2 DEF IndexFields
<1>4. IndexFields'
  BY <1>1, <1>2 DEF IndexFields
<1>5. ServesWholeCorpora'
  BY <1>1, ReaderKeeps
<1> QED BY <1>1, <1>2, <1>3, <1>4, <1>5 DEF IndexInv

LEMMA BuildDiesKeeps == IndexInv /\ BuildDies => IndexInv'
<1> SUFFICES ASSUME IndexInv, BuildDies PROVE IndexInv'
  OBVIOUS
<1>1. /\ corpus' = corpus /\ reader' = reader /\ indexFile' = indexFile
      /\ builder' = [builder EXCEPT !.state = "idle"]
  BY DEF BuildDies
<1>2. IndexFields
  BY DEF IndexInv
<1>3. builder'.state = "idle"
  BY <1>1, <1>2 DEF IndexFields
<1>4. IndexFields'
  BY <1>1, <1>2 DEF IndexFields
<1>5. ServesWholeCorpora'
  BY <1>1, ReaderKeeps
<1> QED BY <1>1, <1>3, <1>4, <1>5 DEF IndexInv

LEMMA OpenRetrieverKeeps == ASSUME IndexInv, NEW e \in Embedders, OpenRetriever(e) PROVE IndexInv'
<1>1. /\ corpus' = corpus /\ indexFile' = indexFile /\ builder' = builder
      /\ reader' = IF indexFile.state \in {"schema", "built"} /\ CheckCompatible(e)
                   THEN [state |-> "open", rows |-> indexFile.rows, maker |-> e, made |-> indexFile.maker]
                   ELSE [state |-> "null", rows |-> <<>>, maker |-> e, made |-> NoMaker]
  BY DEF OpenRetriever
<1>2. IndexFields'
  BY <1>1 DEF IndexInv, IndexFields
<1>3. reader'.rows # <<>> => reader'.made = reader'.maker /\ Whole(reader'.rows)
  <2> SUFFICES ASSUME reader'.rows # <<>> PROVE reader'.made = reader'.maker /\ Whole(reader'.rows)
    OBVIOUS
  <2>1. /\ reader' = [state |-> "open", rows |-> indexFile.rows, maker |-> e, made |-> indexFile.maker]
        /\ indexFile.rows # <<>> /\ CheckCompatible(e)
    BY <1>1
  <2>2. indexFile.state = "built" /\ Whole(indexFile.rows) /\ indexFile.maker \in Embedders
    BY <2>1 DEF IndexInv
  <2>3. indexFile.maker = e
    BY <2>1, <2>2, EmbedderAssumption DEF CheckCompatible
  <2> QED BY <2>1, <2>2, <2>3
<1>4. ServesWholeCorpora'
  BY <1>3 DEF ServesWholeCorpora, Whole
<1> QED BY <1>1, <1>2, <1>4 DEF IndexInv

LEMMA ReadsKeep == IndexInv /\ (EditCorpus \/ CloseRetriever \/ Search \/ Answered) => IndexInv'
<1> SUFFICES ASSUME IndexInv, EditCorpus \/ CloseRetriever \/ Search \/ Answered PROVE IndexInv'
  OBVIOUS
<1>1. /\ corpus' \in Corpora /\ indexFile' = indexFile /\ builder' = builder
      /\ reader' = reader \/ reader' = [reader EXCEPT !.state = "down"]
  BY DEF IndexInv, EditCorpus, CloseRetriever, Search, Answered
<1>2. IndexFields
  BY DEF IndexInv
<1>3. reader'.rows = reader.rows /\ reader'.made = reader.made /\ reader'.maker = reader.maker
  BY <1>1, <1>2 DEF IndexFields
<1>4. IndexFields'
  BY <1>1, <1>2 DEF IndexFields
<1>5. ServesWholeCorpora'
  BY <1>3, ReaderKeeps
<1> QED BY <1>1, <1>4, <1>5 DEF IndexInv

\* The rows of an index are a sequence, as its chunks are.
LEMMA WholeIsSeq == ASSUME NEW chunks, Whole(chunks) PROVE DOMAIN chunks \in SUBSET Nat /\ Len(chunks) \in Nat
<1>1. PICK c \in Corpora : chunks = CorpusChunks(c)
  BY DEF Whole
<1> DEFINE n == Len(c)
           X == UNION {Range(ChunkMarkdown(c[i])) : i \in 1..n}
           parts == [i \in DOMAIN c |-> ChunkMarkdown(c[i])]
<1>2. c \in Seq(Range(c)) /\ \A d \in Range(c) : d.paragraphs \in Seq(Seq(Nat))
  BY CorpusAssumption
<1>3. n \in Nat /\ DOMAIN c = 1..n
  BY <1>2, LenProperties
<1>4. \A i \in 1..n : ChunkMarkdown(c[i]) \in Seq(X)
  <2> TAKE i \in 1..n
  <2>1. c[i].paragraphs \in Seq(Seq(Nat))
    BY <1>2, <1>3 DEF Range
  <2>2. ChunkMarkdown(c[i]) \in Seq(Range(ChunkMarkdown(c[i])))
    BY <2>1, DocumentIsCitable
  <2>3. Range(ChunkMarkdown(c[i])) \subseteq X
    OBVIOUS
  <2> HIDE DEF X
  <2> QED BY <2>2, <2>3, SeqMonotonic
<1> HIDE DEF X
<1>5. parts \in Seq(Seq(X))
  <2> DEFINE Y == Seq(X)
  <2>1. parts \in [1..n -> Y]
    BY <1>3, <1>4
  <2> HIDE DEF parts, n, Y
  <2>2. parts \in Seq(Y)
    BY <1>3, <2>1
  <2> QED BY <2>2 DEF Y
<1>6. CorpusChunks(c) = FlattenSeq(parts)
  BY DEF CorpusChunks
<1> HIDE DEF parts
<1>7. chunks \in Seq(X)
  BY <1>1, <1>5, <1>6, FlattenIsSeq
<1> QED BY <1>7, LenProperties

LEMMA CorporaAreCitable == corpus \in Corpora => EverySentenceIsCitable
<1> SUFFICES ASSUME corpus \in Corpora, NEW i \in DOMAIN corpus PROVE Citable(corpus[i])
  BY Zenon DEF EverySentenceIsCitable, Citable
<1>1. corpus[i] \in Range(corpus)
  BY DEF Range
<1>2. corpus[i].paragraphs \in Seq(Seq(Nat))
  BY <1>1, CorpusAssumption
<1> QED BY <1>2, DocumentIsCitable

\* What an arm can return is a ranking.
LEMMA RankingsAre ==
    ASSUME NEW S \in SUBSET Nat, NEW n \in Nat, NEW arm \in Rankings(S, n)
    PROVE  Ranking(arm)
<1>1. IsInjective(arm) /\ \E m \in 0..n : arm \in [1..m -> S]
  BY DEF Rankings, SeqOf
<1>2. PICK m \in 0..n : arm \in [1..m -> S]
  BY <1>1
<1>3. m \in Nat /\ arm = [i \in 1..m |-> arm[i]] /\ \A i \in 1..m : arm[i] \in S
  BY <1>2
<1>4. \A i \in 1..m : arm[i] \in Nat
  BY <1>3
<1>5. arm \in [1..m -> Nat]
  BY <1>3, <1>4
<1>6. arm \in Seq(Nat)
  BY <1>3, <1>5
<1> QED BY <1>1, <1>6 DEF Ranking

LEMMA SearchAnswers == IndexInv /\ AnswerInv /\ Search => AnswerInv'
<1> SUFFICES ASSUME IndexInv, AnswerInv, Search PROVE AnswerInv'
  OBVIOUS
<1> DEFINE ids == DOMAIN reader.rows
           nearest == IF Len(reader.rows) < ArmDepth THEN Len(reader.rows) ELSE ArmDepth
<1>1. reader.state = "open" /\ reader.rows # <<>> /\ reader' = reader
  BY DEF Search
<1>2. Whole(reader.rows)
  BY <1>1 DEF IndexInv, ServesWholeCorpora, Whole
<1>3. ids \in SUBSET Nat /\ Len(reader.rows) \in Nat
  BY <1>2, WholeIsSeq
<1>4. ArmDepth \in Nat /\ nearest \in Nat
  BY <1>3, RetrievalAssumption
<1> HIDE DEF ids, nearest
<1>5. \E lexical \in Rankings(ids, ArmDepth), dense \in Rankings(ids, nearest) :
        LET fused == Fuse(lexical, dense, reader.maker.semantic)
        IN  reply' = [lexical |-> lexical, dense |-> dense, hits |-> FirstOf(fused, TopK),
                      evidence |-> EvidenceFor(reader.rows, fused, 1)]
  BY DEF Search, ids, nearest
<1>6. PICK lexical \in Rankings(ids, ArmDepth), dense \in Rankings(ids, nearest) :
        LET fused == Fuse(lexical, dense, reader.maker.semantic)
        IN  reply' = [lexical |-> lexical, dense |-> dense, hits |-> FirstOf(fused, TopK),
                      evidence |-> EvidenceFor(reader.rows, fused, 1)]
  BY <1>5
<1>7. Ranking(lexical) /\ Ranking(dense)
  BY <1>3, <1>4, RankingsAre
<1> QED BY <1>1, <1>6, <1>7 DEF AnswerInv

LEMMA OthersKeepAnswer ==
    ASSUME AnswerInv,
           \/ UNCHANGED <<reader, reply>>
           \/ reader.state = "down" /\ UNCHANGED reply
           \/ reply' = NoReply
    PROVE  AnswerInv'
BY DEF AnswerInv

\* Whatever corpora there are, however builds die, follow one another or are opened
\* half-way, and whatever the two arms find: the gateway answers from all passages of
\* one corpus that loaded strictly or from none, the passages of every document hold its
\* sentences once and in order, and the order of the hits respects both arms.
THEOREM RetrievalStaysSound == RetrievalSpec => []RetrievalIsSound
<1>1. RetrievalInit => IndexInv /\ AnswerInv
  BY IndexBegins DEF RetrievalInit, AnswerInv
<1>2. (IndexInv /\ AnswerInv) /\ [RetrievalNext]_retrievalVars => (IndexInv /\ AnswerInv)'
  <2> SUFFICES ASSUME IndexInv, AnswerInv, [RetrievalNext]_retrievalVars PROVE IndexInv' /\ AnswerInv'
    OBVIOUS
  <2>1. ASSUME NEW e \in Embedders, BuildStarts(e) PROVE IndexInv' /\ AnswerInv'
    <3>1. UNCHANGED <<reader, reply>>
      BY <2>1 DEF BuildStarts
    <3> QED BY <2>1, <3>1, BuildStartsKeeps, OthersKeepAnswer
  <2>2. ASSUME NEW e \in Embedders, OpenRetriever(e) PROVE IndexInv' /\ AnswerInv'
    <3>1. reader.state = "down" /\ UNCHANGED reply
      BY <2>2 DEF OpenRetriever
    <3> QED BY <2>2, <3>1, OpenRetrieverKeeps, OthersKeepAnswer
  <2>3. CASE BuildSchema \/ BuildCommits \/ BuildDies
    <3>1. UNCHANGED <<reader, reply>>
      BY <2>3 DEF BuildSchema, BuildCommits, BuildDies
    <3> QED BY <2>3, <3>1, BuildSchemaKeeps, BuildCommitsKeeps, BuildDiesKeeps, OthersKeepAnswer
  <2>4. CASE EditCorpus \/ CloseRetriever \/ Answered
    <3>1. UNCHANGED <<reader, reply>> \/ reply' = NoReply
      BY <2>4 DEF EditCorpus, CloseRetriever, Answered
    <3> QED BY <2>4, <3>1, ReadsKeep, OthersKeepAnswer
  <2>5. CASE Search
    BY <2>5, ReadsKeep, SearchAnswers
  <2>6. CASE UNCHANGED retrievalVars
    <3>1. UNCHANGED <<corpus, indexFile, builder, reader, reply, builds>>
      BY <2>6 DEF retrievalVars
    <3>2. IndexInv'
      BY <3>1 DEF IndexInv, IndexFields, ServesWholeCorpora
    <3> QED BY <3>1, <3>2, OthersKeepAnswer
  <2> QED BY <2>1, <2>2, <2>3, <2>4, <2>5, <2>6 DEF RetrievalNext
<1>3. IndexInv /\ AnswerInv => RetrievalIsSound
  BY CorporaAreCitable, AnswersAreFair DEF IndexInv, RetrievalIsSound
<1> QED BY <1>1, <1>2, <1>3, PTL DEF RetrievalSpec

-----------------------------------------------------------------------------
(* Texts, and how they are cut                                              *)

\* Whoever has all that is smaller has all.
LEMMA Strongly ==
    ASSUME NEW S, \A n \in Nat : (\A m \in Nat : m < n => m \in S) => n \in S
    PROVE  Nat \subseteq S
<1> SUFFICES ASSUME Nat \ S # {} PROVE FALSE
  OBVIOUS
<1>1. PICK n \in Nat \ S : \A m \in Nat \ S : n <= m
  BY Least
<1>2. \A m \in Nat : m < n => m \in S
  BY <1>1
<1> QED BY <1>1, <1>2

\* The greatest of some places, or 0.
LEMMA LastPlace ==
    ASSUME NEW n \in Nat, NEW I \in SUBSET (1..n)
    PROVE  /\ Max(I \cup {0}) \in 0..n
           /\ Max(I \cup {0}) \in I \cup {0}
           /\ \A j \in I : j <= Max(I \cup {0})
<1> DEFINE J == I \cup {0}
           U == {k \in Nat : \A j \in J : j <= k}
<1>1. n \in U /\ (\A j \in J : j \in 0..n)
  OBVIOUS
<1>2. PICK m \in U : \A k \in U : m <= k
  BY <1>1, Least
<1>3. m \in J
  <2> SUFFICES ASSUME m \notin J PROVE FALSE
    OBVIOUS
  <2>1. \A j \in J : j < m
    BY <1>1, <1>2
  <2>2. m # 0 /\ m - 1 \in Nat
    BY <1>2, <2>1
  <2>3. m - 1 \in U
    BY <1>1, <2>1, <2>2
  <2> QED BY <1>2, <2>3
<1>4. m \in J /\ \A j \in J : j <= m
  BY <1>2, <1>3
<1> HIDE DEF J, U
<1>5. Max(J) \in J /\ \A j \in J : j <= Max(J)
  BY <1>4 DEF Max
<1> QED BY <1>1, <1>5 DEF J

\* What precedes a place of a sequence, and the rest.
LEMMA Pieces ==
    ASSUME NEW X, NEW s \in Seq(X), NEW i \in 1..(Len(s) + 1)
    PROVE  /\ From(s, i) \in Seq(X) /\ Len(From(s, i)) = Len(s) - i + 1
           /\ \A k \in 1..(Len(s) - i + 1) : From(s, i)[k] = s[i + k - 1]
           /\ Upto(s, i - 1) \in Seq(X) /\ Len(Upto(s, i - 1)) = i - 1
           /\ \A k \in 1..(i - 1) : Upto(s, i - 1)[k] = s[k]
           /\ Upto(s, i - 1) \o From(s, i) = s
<1>1. Len(s) \in Nat /\ i \in Nat /\ \A k \in 1..Len(s) : s[k] \in X
  BY LenProperties, ElementOfSeq
<1>2. /\ From(s, i) \in Seq(X) /\ Len(From(s, i)) = Len(s) - i + 1
      /\ \A k \in 1..(Len(s) - i + 1) : From(s, i)[k] = s[i + k - 1]
  <2>1. \A k \in i..Len(s) : s[k] \in X
    BY <1>1
  <2>2. /\ SubSeq(s, i, Len(s)) \in Seq(X)
        /\ Len(SubSeq(s, i, Len(s))) = IF i <= Len(s) THEN Len(s) - i + 1 ELSE 0
        /\ \A k \in 1..(Len(s) - i + 1) : SubSeq(s, i, Len(s))[k] = s[i + k - 1]
    BY <1>1, <2>1, SubSeqProperties
  <2> QED BY <1>1, <2>2 DEF From
<1>3. /\ Upto(s, i - 1) \in Seq(X) /\ Len(Upto(s, i - 1)) = i - 1
      /\ \A k \in 1..(i - 1) : Upto(s, i - 1)[k] = s[k]
  <2>1. \A k \in 1..(i - 1) : s[k] \in X
    BY <1>1
  <2>2. /\ SubSeq(s, 1, i - 1) \in Seq(X)
        /\ Len(SubSeq(s, 1, i - 1)) = IF 1 <= i - 1 THEN (i - 1) - 1 + 1 ELSE 0
        /\ \A k \in 1..((i - 1) - 1 + 1) : SubSeq(s, 1, i - 1)[k] = s[1 + k - 1]
    BY <1>1, <2>1, SubSeqProperties
  <2> QED BY <1>1, <2>2 DEF Upto
<1>4. Upto(s, i - 1) \o From(s, i) = s
  <2>1. 1 \in 1..(Len(s) + 1) /\ i - 1 \in (1 - 1)..Len(s) /\ Len(s) \in (i - 1)..Len(s) /\ (i - 1) + 1 = i
    BY <1>1
  <2>2. SubSeq(s, 1, i - 1) \o SubSeq(s, (i - 1) + 1, Len(s)) = SubSeq(s, 1, Len(s))
    BY <2>1, ConcatAdjacentSubSeq
  <2> QED BY <2>1, <2>2, SubSeqFull DEF Upto, From
<1> QED BY <1>2, <1>3, <1>4

\* The rest of a rest.
LEMMA RestOfRest ==
    ASSUME NEW X, NEW s \in Seq(X), NEW i \in 1..(Len(s) + 1), NEW j \in 1..(Len(s) - i + 2)
    PROVE  From(From(s, i), j) = From(s, i + j - 1)
<1> DEFINE t == From(s, i)
           a == From(t, j)
           b == From(s, i + j - 1)
<1>0. Len(s) \in Nat /\ i \in Nat /\ j \in Nat
  BY LenProperties
<1>1. t \in Seq(X) /\ Len(t) = Len(s) - i + 1 /\ \A k \in 1..Len(t) : t[k] = s[i + k - 1]
  BY Pieces
<1>2. a \in Seq(X) /\ Len(a) = Len(s) - i + 1 - j + 1 /\ \A k \in 1..Len(a) : a[k] = t[j + k - 1]
  <2> HIDE DEF t
  <2>1. j \in 1..(Len(t) + 1)
    BY <1>0, <1>1
  <2>2. /\ From(t, j) \in Seq(X) /\ Len(From(t, j)) = Len(t) - j + 1
        /\ \A k \in 1..(Len(t) - j + 1) : From(t, j)[k] = t[j + k - 1]
    BY <1>1, <2>1, Pieces
  <2> QED BY <1>1, <2>2
<1>3. b \in Seq(X) /\ Len(b) = Len(s) - (i + j - 1) + 1 /\ \A k \in 1..Len(b) : b[k] = s[i + j - 1 + k - 1]
  <2> DEFINE m == i + j - 1
  <2>1. m \in 1..(Len(s) + 1)
    BY <1>0
  <2> HIDE DEF m
  <2>2. /\ From(s, m) \in Seq(X) /\ Len(From(s, m)) = Len(s) - m + 1
        /\ \A k \in 1..(Len(s) - m + 1) : From(s, m)[k] = s[m + k - 1]
    BY <2>1, Pieces
  <2> QED BY <2>2 DEF m
<1> HIDE DEF t, a, b
<1>4. Len(a) = Len(b)
  BY <1>0, <1>2, <1>3
<1>5. \A k \in 1..Len(a) : a[k] = b[k]
  <2> TAKE k \in 1..Len(a)
  <2>0. k \in Nat /\ 1 <= k /\ k <= Len(s) - i + 1 - j + 1 /\ Len(t) = Len(s) - i + 1 /\ 1 <= j
    <3>1. Len(a) = Len(s) - i + 1 - j + 1 /\ Len(t) = Len(s) - i + 1
      BY <1>1, <1>2
    <3>2. k \in 1..(Len(s) - i + 1 - j + 1)
      BY <3>1
    <3> QED BY <1>0, <3>1, <3>2
  <2>1. j + k - 1 \in 1..Len(t) /\ i + (j + k - 1) - 1 = i + j - 1 + k - 1
    BY <1>0, <2>0
  <2> QED BY <1>1, <1>2, <1>3, <1>4, <2>1
<1>6. a = b
  BY <1>2, <1>3, <1>4, <1>5, SeqEqual
<1> QED BY <1>6 DEF t, a, b

\* Parts of what was put together.
LEMMA PiecesOfBoth ==
    ASSUME NEW X, NEW s \in Seq(X), NEW t \in Seq(X), NEW i \in 1..(Len(s) + 1)
    PROVE  /\ From(s \o t, i) = From(s, i) \o t
           /\ Upto(s \o t, i - 1) = Upto(s, i - 1)
<1> DEFINE u == s \o t
<1>0. /\ Len(s) \in Nat /\ Len(t) \in Nat /\ i \in Nat /\ u \in Seq(X) /\ Len(u) = Len(s) + Len(t)
      /\ i \in 1..(Len(u) + 1)
      /\ \A k \in 1..Len(s) : u[k] = s[k]
      /\ \A k \in 1..Len(t) : u[Len(s) + k] = t[k]
  <2>1. Len(s) \in Nat /\ Len(t) \in Nat
    BY LenProperties
  <2>2. /\ u \in Seq(X) /\ Len(u) = Len(s) + Len(t)
        /\ \A k \in 1..Len(s) + Len(t) : u[k] = IF k <= Len(s) THEN s[k] ELSE t[k - Len(s)]
    BY ConcatProperties
  <2> HIDE DEF u
  <2>3. \A k \in 1..Len(t) : u[Len(s) + k] = t[k]
    <3> TAKE k \in 1..Len(t)
    <3>1. Len(s) + k \in 1..Len(s) + Len(t) /\ ~(Len(s) + k <= Len(s)) /\ Len(s) + k - Len(s) = k
      BY <2>1
    <3> QED BY <2>2, <3>1
  <2> QED BY <2>1, <2>2, <2>3
<1> HIDE DEF u
<1>1. /\ From(u, i) \in Seq(X) /\ Len(From(u, i)) = Len(u) - i + 1
      /\ \A k \in 1..(Len(u) - i + 1) : From(u, i)[k] = u[i + k - 1]
      /\ Upto(u, i - 1) \in Seq(X) /\ Len(Upto(u, i - 1)) = i - 1
      /\ \A k \in 1..(i - 1) : Upto(u, i - 1)[k] = u[k]
  BY <1>0, Pieces
<1>2. /\ From(s, i) \in Seq(X) /\ Len(From(s, i)) = Len(s) - i + 1
      /\ \A k \in 1..(Len(s) - i + 1) : From(s, i)[k] = s[i + k - 1]
      /\ Upto(s, i - 1) \in Seq(X) /\ Len(Upto(s, i - 1)) = i - 1
      /\ \A k \in 1..(i - 1) : Upto(s, i - 1)[k] = s[k]
  BY Pieces
<1> DEFINE a == From(s, i)
           b == a \o t
<1>3. /\ b \in Seq(X) /\ Len(b) = Len(a) + Len(t)
      /\ \A k \in 1..Len(a) + Len(t) : b[k] = IF k <= Len(a) THEN a[k] ELSE t[k - Len(a)]
  BY <1>2, ConcatProperties
<1> HIDE DEF b, a
<1>4. From(u, i) = b
  <2>1. Len(b) = Len(From(u, i))
    BY <1>0, <1>1, <1>2, <1>3 DEF a
  <2>2. \A k \in 1..Len(b) : b[k] = From(u, i)[k]
    <3> TAKE k \in 1..Len(b)
    <3>0. Len(a) = Len(s) - i + 1 /\ k \in 1..(Len(u) - i + 1) /\ From(u, i)[k] = u[i + k - 1]
      <4>1. Len(a) = Len(s) - i + 1
        BY <1>2 DEF a
      <4>2. Len(b) = Len(u) - i + 1
        BY <1>1, <2>1
      <4>3. k \in 1..(Len(u) - i + 1)
        BY <4>2
      <4> QED BY <1>1, <4>1, <4>3
    <3>1. CASE k <= Len(a)
      <4>1. b[k] = a[k] /\ k \in 1..(Len(s) - i + 1)
        BY <1>3, <3>0, <3>1
      <4>2. a[k] = s[i + k - 1]
        BY <1>2, <4>1 DEF a
      <4>3. i + k - 1 \in 1..Len(s)
        BY <1>0, <4>1
      <4> QED BY <1>0, <3>0, <4>1, <4>2, <4>3
    <3>2. CASE ~(k <= Len(a))
      <4>1. b[k] = t[k - Len(a)]
        BY <1>3, <3>2
      <4>2. k - Len(a) \in 1..Len(t) /\ Len(s) + (k - Len(a)) = i + k - 1
        BY <1>0, <1>3, <3>0, <3>2
      <4>3. u[Len(s) + (k - Len(a))] = t[k - Len(a)]
        BY <1>0, <4>2
      <4> QED BY <3>0, <4>1, <4>2, <4>3
    <3> QED BY <3>1, <3>2
  <2> QED BY <1>1, <1>3, <2>1, <2>2, SeqEqual
<1>5. Upto(u, i - 1) = Upto(s, i - 1)
  <2>1. Len(Upto(u, i - 1)) = Len(Upto(s, i - 1))
    BY <1>1, <1>2
  <2>2. \A k \in 1..Len(Upto(u, i - 1)) : Upto(u, i - 1)[k] = Upto(s, i - 1)[k]
    <3> TAKE k \in 1..Len(Upto(u, i - 1))
    <3>1. k \in 1..(i - 1) /\ k \in 1..Len(s)
      BY <1>0, <1>1
    <3> QED BY <1>0, <1>1, <1>2, <3>1
  <2> QED BY <1>1, <1>2, <2>1, <2>2, SeqEqual
<1> QED BY <1>4, <1>5 DEF u, a, b

-----------------------------------------------------------------------------
(* Reasoning blocks                                                         *)

\* The tag that is looked for, and where it stands.
Tag(isInside) == IF isInside THEN CloseTag ELSE OpenTag

\* A tag of the kind that is looked for stands from i to j.
TagOn(s, i, j, isInside) == i \in 1..Len(s) /\ j \in 1..Len(s) /\ TagAt(s, i, j, Tag(isInside))

\* s holds no such tag.
NoTag(s, isInside) == \A i, j \in 1..Len(s) : ~TagOn(s, i, j, isInside)

\* The first such tag of s is the one from i to j.
FirstAt(s, i, j, isInside) ==
    TagOn(s, i, j, isInside) /\ \A k, l \in 1..Len(s) : TagOn(s, k, l, isInside) => i <= k

\* What begins at i, up to the end, is a tag.
WholeTag(s, i) == \E u \in BOOLEAN : TagOn(s, i, Len(s), u)

\* The tags of s are no longer than what is held back, before their ">".
Fits(s) == \A i, j \in 1..Len(s), u \in BOOLEAN : TagOn(s, i, j, u) => j - i <= MaxTag

\* A tag is two or three symbols long before its blanks, the first of them its
\* "<".
LEMMA TagIs ==
    ASSUME NEW v \in BOOLEAN
    PROVE  /\ Len(Tag(v)) \in {2, 3} /\ DOMAIN Tag(v) = 1..Len(Tag(v)) /\ Tag(v)[1] = "<"
           /\ \A k \in 2..Len(Tag(v)) : Tag(v)[k] \notin {"<", ">"}
<1>1. Len(OpenTag) = 2 /\ DOMAIN OpenTag = 1..2 /\ OpenTag[1] = "<" /\ OpenTag[2] = "t"
  BY DEF OpenTag
<1>2. Len(CloseTag) = 3 /\ DOMAIN CloseTag = 1..3 /\ CloseTag[1] = "<" /\ CloseTag[2] = "/" /\ CloseTag[3] = "t"
  BY DEF CloseTag
<1>3. "t" \notin {"<", ">"} /\ "/" \notin {"<", ">"}
  OBVIOUS
<1>4. CASE v
  <2>1. Tag(v) = CloseTag
    BY <1>4 DEF Tag
  <2>2. \A k \in 2..3 : k = 2 \/ k = 3
    OBVIOUS
  <2> QED BY <1>2, <1>3, <2>1, <2>2
<1>5. CASE ~v
  <2>1. Tag(v) = OpenTag
    BY <1>5 DEF Tag
  <2>2. \A k \in 2..2 : k = 2
    OBVIOUS
  <2> QED BY <1>1, <1>3, <2>1, <2>2
<1> QED BY <1>4, <1>5

\* A tag begins with its only "<" and ends with its only ">".
LEMMA TagHas ==
    ASSUME NEW s, NEW v \in BOOLEAN, NEW i \in Nat, NEW j \in Nat, TagAt(s, i, j, Tag(v))
    PROVE  /\ i < j /\ s[i] = "<" /\ s[j] = ">"
           /\ \A k \in (i + 1)..j : s[k] # "<"
           /\ \A k \in i..(j - 1) : s[k] # ">"
<1> DEFINE t == Tag(v)
           n == Len(t)
<1>1. n \in {2, 3} /\ DOMAIN t = 1..n /\ t[1] = "<" /\ \A k \in 2..n : t[k] \notin {"<", ">"}
  BY TagIs
<1>2. /\ i + n <= j /\ s[j] = ">"
      /\ \A k \in 1..n : s[i + k - 1] = t[k]
      /\ \A k \in (i + n)..(j - 1) : s[k] \in Blanks
  BY <1>1 DEF TagAt
<1> HIDE DEF t, n
<1>3. s[i] = "<"
  <2>1. 1 \in 1..n /\ i + 1 - 1 = i
    BY <1>1
  <2> QED BY <1>1, <1>2, <2>1
<1>4. ASSUME NEW k \in (i + 1)..(j - 1) PROVE s[k] \notin {"<", ">"}
  <2>1. CASE k < i + n
    <3> DEFINE m == k - i + 1
    <3>1. m \in 1..n /\ m \in 2..n /\ i + m - 1 = k
      BY <1>1, <2>1
    <3> HIDE DEF m
    <3> QED BY <1>1, <1>2, <3>1
  <2>2. CASE ~(k < i + n)
    <3>1. k \in (i + n)..(j - 1)
      BY <1>1, <2>2
    <3>2. s[k] \in Blanks
      BY <1>2, <3>1
    <3> QED BY <3>2 DEF Blanks
  <2> QED BY <2>1, <2>2
<1>5. i < j
  BY <1>1, <1>2
<1>6. \A k \in (i + 1)..j : s[k] # "<"
  <2> TAKE k \in (i + 1)..j
  <2>1. k = j \/ k \in (i + 1)..(j - 1)
    OBVIOUS
  <2> QED BY <1>2, <1>4, <2>1
<1>7. \A k \in i..(j - 1) : s[k] # ">"
  <2> TAKE k \in i..(j - 1)
  <2>1. k = i \/ k \in (i + 1)..(j - 1)
    OBVIOUS
  <2> QED BY <1>3, <1>4, <2>1
<1> QED BY <1>2, <1>3, <1>5, <1>6, <1>7

\* A tag depends on what stands where it stands alone.
LEMMA TagMoves ==
    ASSUME NEW s, NEW u, NEW v \in BOOLEAN, NEW d \in Nat, NEW i \in Nat, NEW j \in Nat,
           \A k \in i..j : s[k] = u[d + k]
    PROVE  TagAt(s, i, j, Tag(v)) <=> TagAt(u, d + i, d + j, Tag(v))
<1> DEFINE t == Tag(v)
           n == Len(t)
           e == d + i
           f == d + j
<1>1. n \in {2, 3} /\ DOMAIN t = 1..n
  BY TagIs
<1>2. TagAt(s, i, j, t) <=> /\ i + n <= j /\ s[j] = ">"
                            /\ \A k \in 1..n : s[i + k - 1] = t[k]
                            /\ \A k \in (i + n)..(j - 1) : s[k] \in Blanks
  BY <1>1 DEF TagAt
<1>3. TagAt(u, e, f, t) <=> /\ e + n <= f /\ u[f] = ">"
                            /\ \A k \in 1..n : u[e + k - 1] = t[k]
                            /\ \A k \in (e + n)..(f - 1) : u[k] \in Blanks
  <2> HIDE DEF e, f
  <2> QED BY <1>1 DEF TagAt
<1> HIDE DEF t, n
<1>4. i + n <= j <=> e + n <= f
  BY <1>1
<1>5. ASSUME i + n <= j
      PROVE  /\ s[j] = u[f] /\ \A k \in 1..n : s[i + k - 1] = u[e + k - 1]
             /\ (\A k \in (i + n)..(j - 1) : s[k] \in Blanks) <=> \A k \in (e + n)..(f - 1) : u[k] \in Blanks
  <2>1. s[j] = u[f]
    <3>1. j \in i..j
      BY <1>1, <1>5
    <3> QED BY <3>1
  <2>2. \A k \in 1..n : s[i + k - 1] = u[e + k - 1]
    <3> TAKE k \in 1..n
    <3> DEFINE m == i + k - 1
    <3>1. m \in i..j /\ d + m = e + k - 1
      BY <1>1, <1>5
    <3> HIDE DEF m, e
    <3>2. s[m] = u[d + m]
      BY <3>1
    <3> QED BY <3>1, <3>2 DEF m
  <2>3. ASSUME \A k \in (i + n)..(j - 1) : s[k] \in Blanks, NEW k \in (e + n)..(f - 1) PROVE u[k] \in Blanks
    <3> DEFINE m == k - d
    <3>1. m \in (i + n)..(j - 1) /\ m \in i..j /\ d + m = k
      BY <1>1, <1>5
    <3> HIDE DEF m
    <3> QED BY <2>3, <3>1
  <2>4. ASSUME \A k \in (e + n)..(f - 1) : u[k] \in Blanks, NEW k \in (i + n)..(j - 1) PROVE s[k] \in Blanks
    <3> DEFINE m == d + k
    <3>1. m \in (e + n)..(f - 1) /\ k \in i..j
      BY <1>1, <1>5
    <3>2. s[k] = u[m]
      BY <3>1
    <3> HIDE DEF m, e, f
    <3> QED BY <2>4, <3>1, <3>2
  <2> HIDE DEF e, f
  <2> QED BY <2>1, <2>2, <2>3, <2>4
<1> HIDE DEF e, f
<1>6. TagAt(s, i, j, t) <=> TagAt(u, e, f, t)
  <2>1. CASE i + n <= j
    <3>1. (\A k \in 1..n : s[i + k - 1] = t[k]) <=> \A k \in 1..n : u[e + k - 1] = t[k]
      BY <1>5, <2>1
    <3> QED BY <1>2, <1>3, <1>4, <1>5, <2>1, <3>1
  <2>2. CASE ~(i + n <= j)
    BY <1>2, <1>3, <1>4, <2>2
  <2> QED BY <2>1, <2>2
<1> QED BY <1>6 DEF t, e, f

\* The occurrences are the places where the tag stands.
LEMMA OccursWhere ==
    ASSUME NEW s \in Seq(Symbols), NEW v \in BOOLEAN
    PROVE  /\ \A p \in Occurrences(Tag(v), s) : /\ p[1] \in 1..Len(s) /\ p[2] \in 1..Len(s) /\ p = <<p[1], p[2]>>
                                                 /\ TagOn(s, p[1], p[2], v)
           /\ \A i, j \in 1..Len(s) : TagOn(s, i, j, v) => <<i, j>> \in Occurrences(Tag(v), s)
<1>1. DOMAIN s = 1..Len(s)
  BY LenProperties
<1>2. \A p \in (DOMAIN s) \X (DOMAIN s) : p[1] \in 1..Len(s) /\ p[2] \in 1..Len(s) /\ p = <<p[1], p[2]>>
  BY <1>1
<1>3. \A p \in Occurrences(Tag(v), s) : p \in (DOMAIN s) \X (DOMAIN s) /\ TagAt(s, p[1], p[2], Tag(v))
  BY DEF Occurrences
<1>4. \A i, j \in 1..Len(s) : TagAt(s, i, j, Tag(v)) => <<i, j>> \in Occurrences(Tag(v), s)
  BY <1>1 DEF Occurrences
<1> QED BY <1>2, <1>3, <1>4 DEF TagOn

\* A whole tag is an opening or a closing one.
LEMMA WholeTagIs ==
    ASSUME NEW s \in Seq(Symbols), NEW m \in 1..Len(s)
    PROVE  WholeTag(s, m) <=> \E tag \in {OpenTag, CloseTag} : TagAt(s, m, Len(s), tag)
<1>1. Len(s) \in 1..Len(s)
  BY LenProperties
<1>2. Tag(TRUE) = CloseTag /\ Tag(FALSE) = OpenTag
  BY DEF Tag
<1>3. \A u \in BOOLEAN : TagOn(s, m, Len(s), u) <=> TagAt(s, m, Len(s), Tag(u))
  BY <1>1 DEF TagOn
<1>4. WholeTag(s, m) <=> TagOn(s, m, Len(s), TRUE) \/ TagOn(s, m, Len(s), FALSE)
  BY DEF WholeTag
<1> QED BY <1>2, <1>3, <1>4

\* What is held back begins with the last "<" and is no tag; or it is nothing.
LEMMA HeldBack ==
    ASSUME NEW s \in Seq(Symbols)
    PROVE  LET i == PartialFrom(s)
           IN  /\ i \in 1..(Len(s) + 1)
               /\ i <= Len(s) => /\ s[i] = "<" /\ \A k \in (i + 1)..Len(s) : s[k] # "<"
                                 /\ Len(s) - i + 1 <= MaxTag /\ ~WholeTag(s, i)
<1> DEFINE I == {k \in DOMAIN s : s[k] = "<"}
           m == Max(I \cup {0})
<1>1. Len(s) \in Nat /\ DOMAIN s = 1..Len(s) /\ MaxTag \in Nat
  BY LenProperties, SegmenterAssumption
<1>2. I \in SUBSET (1..Len(s))
  BY <1>1
<1>3. m \in 0..Len(s) /\ m \in I \cup {0} /\ \A j \in I : j <= m
  <2> HIDE DEF I
  <2> QED BY <1>1, <1>2, LastPlace
<1>4. PartialFrom(s) = IF \/ m = 0
                          \/ Len(s) - m + 1 > MaxTag
                          \/ WholeTag(s, m)
                       THEN Len(s) + 1 ELSE m
  <2>1. PartialFrom(s) = IF \/ m = 0
                            \/ Len(s) - m + 1 > MaxTag
                            \/ \E tag \in {OpenTag, CloseTag} : TagAt(s, m, Len(s), tag)
                         THEN Len(s) + 1 ELSE m
    BY DEF PartialFrom, LastOf
  <2> HIDE DEF m
  <2>2. m # 0 => (WholeTag(s, m) <=> \E tag \in {OpenTag, CloseTag} : TagAt(s, m, Len(s), tag))
    BY <1>1, <1>3, WholeTagIs
  <2> QED BY <2>1, <2>2
<1>5. m # 0 => s[m] = "<" /\ \A k \in (m + 1)..Len(s) : s[k] # "<"
  <2>1. m # 0 => s[m] = "<"
    BY <1>3
  <2>2. \A k \in (m + 1)..Len(s) : k \in 1..Len(s) /\ ~(k <= m)
    <3> HIDE DEF m
    <3> QED BY <1>1, <1>3
  <2>3. \A k \in (m + 1)..Len(s) : s[k] # "<"
    <3> TAKE k \in (m + 1)..Len(s)
    <3>1. k \notin I /\ k \in DOMAIN s
      BY <1>1, <1>3, <2>2
    <3> QED BY <3>1
  <2> QED BY <2>1, <2>3
<1> HIDE DEF m, I
<1> QED BY <1>1, <1>3, <1>4, <1>5

\* The other way round: this is what is held back.
LEMMA HeldBackFrom ==
    ASSUME NEW s \in Seq(Symbols), NEW i \in 1..Len(s), s[i] = "<", \A k \in (i + 1)..Len(s) : s[k] # "<",
           Len(s) - i + 1 <= MaxTag, ~WholeTag(s, i)
    PROVE  PartialFrom(s) = i
<1> DEFINE I == {k \in DOMAIN s : s[k] = "<"}
           m == Max(I \cup {0})
<1>1. Len(s) \in Nat /\ DOMAIN s = 1..Len(s) /\ MaxTag \in Nat
  BY LenProperties, SegmenterAssumption
<1>2. I \in SUBSET (1..Len(s)) /\ i \in I
  BY <1>1
<1>3. m \in 0..Len(s) /\ m \in I \cup {0} /\ i <= m
  <2> HIDE DEF I
  <2> QED BY <1>1, <1>2, LastPlace
<1>4. m = i
  <2>1. m \in I
    BY <1>1, <1>2, <1>3
  <2>2. s[m] = "<"
    BY <2>1
  <2> HIDE DEF m
  <2> QED BY <1>1, <1>3, <2>2
<1>5. PartialFrom(s) = IF \/ m = 0
                          \/ Len(s) - m + 1 > MaxTag
                          \/ WholeTag(s, m)
                       THEN Len(s) + 1 ELSE m
  <2>1. PartialFrom(s) = IF \/ m = 0
                            \/ Len(s) - m + 1 > MaxTag
                            \/ \E tag \in {OpenTag, CloseTag} : TagAt(s, m, Len(s), tag)
                         THEN Len(s) + 1 ELSE m
    BY DEF PartialFrom, LastOf
  <2> HIDE DEF m
  <2>2. m # 0 => (WholeTag(s, m) <=> \E tag \in {OpenTag, CloseTag} : TagAt(s, m, Len(s), tag))
    BY <1>1, <1>3, WholeTagIs
  <2> QED BY <2>1, <2>2
<1> HIDE DEF m
<1> QED BY <1>1, <1>4, <1>5

-----------------------------------------------------------------------------
(* Functions defined by recursion over smaller arguments                    *)

\* A function on S that is defined from its values for smaller arguments.
ByRecursion(S, size, Y, body) ==
    /\ size \in [S -> Nat] /\ Y # {} /\ body \in [[S -> Y] -> [S -> Y]]
    /\ \A f, g \in [S -> Y], s \in S :
          (\A t \in S : size[t] < size[s] => f[t] = g[t]) => body[f][s] = body[g][s]

\* f solves the equation for arguments smaller than n.
Solves(S, size, Y, body, n, f) ==
    f \in [S -> Y] /\ \A s \in S : size[s] < n => f[s] = body[f][s]

\* Two solutions agree where both solve the equation.
LEMMA SolutionsAgree ==
    ASSUME NEW S, NEW size, NEW Y, NEW body, ByRecursion(S, size, Y, body),
           NEW n \in Nat, NEW f, NEW g, Solves(S, size, Y, body, n, f), Solves(S, size, Y, body, n, g)
    PROVE  \A s \in S : size[s] < n => f[s] = g[s]
<1> DEFINE T == {k \in Nat : k < n => \A s \in S : size[s] = k => f[s] = g[s]}
<1>1. ASSUME NEW k \in Nat, \A m \in Nat : m < k => m \in T PROVE k \in T
  <2> SUFFICES ASSUME k < n, NEW s \in S, size[s] = k PROVE f[s] = g[s]
    OBVIOUS
  <2>1. f \in [S -> Y] /\ g \in [S -> Y] /\ f[s] = body[f][s] /\ g[s] = body[g][s]
    BY DEF Solves
  <2>2. \A t \in S : size[t] \in Nat
    BY DEF ByRecursion
  <2>3. \A t \in S : size[t] < size[s] => f[t] = g[t]
    <3> TAKE t \in S
    <3> HAVE size[t] < size[s]
    <3>1. size[t] \in Nat /\ size[t] < k /\ size[t] < n
      BY <2>2
    <3>2. size[t] \in T
      BY <1>1, <3>1
    <3> QED BY <3>1, <3>2
  <2>4. body[f][s] = body[g][s]
    BY <2>1, <2>3 DEF ByRecursion
  <2> QED BY <2>1, <2>4
<1> HIDE DEF T
<1>2. Nat \subseteq T
  BY <1>1, Strongly
<1>3. \A s \in S : size[s] \in Nat
  BY DEF ByRecursion
<1> QED BY <1>2, <1>3 DEF T

\* The equation has a solution: recursion on the size of the argument.
LEMMA SolutionExists ==
    ASSUME NEW S, NEW size, NEW Y, NEW body, ByRecursion(S, size, Y, body)
    PROVE  \E f \in [S -> Y] : f = body[f]
<1> DEFINE T == {n \in Nat : \E f : Solves(S, size, Y, body, n, f)}
<1>0. \A s \in S : size[s] \in Nat
  BY DEF ByRecursion
<1>1. 0 \in T
  <2>1. PICK y : y \in Y
    BY DEF ByRecursion
  <2>2. Solves(S, size, Y, body, 0, [s \in S |-> y])
    BY <1>0, <2>1 DEF Solves
  <2> QED BY <2>2
<1>2. ASSUME NEW n \in Nat, n \in T PROVE n + 1 \in T
  <2>1. PICK f : Solves(S, size, Y, body, n, f)
    BY <1>2
  <2> DEFINE g == body[f]
  <2>2. f \in [S -> Y] /\ g \in [S -> Y] /\ \A s \in S : size[s] < n => f[s] = g[s]
    BY <2>1 DEF Solves, ByRecursion
  <2>3. ASSUME NEW s \in S, size[s] < n + 1 PROVE g[s] = body[g][s]
    <3>1. \A t \in S : size[t] < size[s] => f[t] = g[t]
      <4> TAKE t \in S
      <4> HAVE size[t] < size[s]
      <4>1. size[t] < n
        BY <1>0, <2>3
      <4> HIDE DEF g
      <4> QED BY <2>2, <4>1
    <3>2. body[f][s] = body[g][s]
      <4> HIDE DEF g
      <4> QED BY <2>2, <3>1 DEF ByRecursion
    <3> QED BY <3>2
  <2> HIDE DEF g
  <2>4. Solves(S, size, Y, body, n + 1, g)
    BY <2>2, <2>3 DEF Solves
  <2> QED BY <2>4
<1> HIDE DEF T
<1>3. Nat \subseteq T
  BY <1>1, <1>2, Counting
<1> DEFINE sol(n) == CHOOSE f : Solves(S, size, Y, body, n, f)
           F == [s \in S |-> sol(size[s] + 1)[s]]
<1>4. \A n \in Nat : Solves(S, size, Y, body, n, sol(n))
  BY <1>3 DEF T
<1> HIDE DEF sol
<1>5. F \in [S -> Y]
  <2>1. ASSUME NEW s \in S PROVE sol(size[s] + 1)[s] \in Y
    <3>1. sol(size[s] + 1) \in [S -> Y]
      BY <1>0, <1>4 DEF Solves
    <3> QED BY <3>1
  <2> QED BY <2>1
<1>6. \A s \in S : F[s] = sol(size[s] + 1)[s]
  OBVIOUS
<1> HIDE DEF F
<1>7. ASSUME NEW s \in S PROVE F[s] = body[F][s]
  <2> DEFINE f == sol(size[s] + 1)
  <2>1. size[s] \in Nat /\ size[s] + 1 \in Nat /\ size[s] < size[s] + 1
    BY <1>0
  <2>2. Solves(S, size, Y, body, size[s] + 1, f)
    BY <1>4, <2>1
  <2>3. F[s] = f[s]
    BY <1>6
  <2> HIDE DEF f
  <2>4. f \in [S -> Y] /\ f[s] = body[f][s]
    BY <2>1, <2>2 DEF Solves
  <2>5. \A t \in S : size[t] < size[s] => F[t] = f[t]
    <3> TAKE t \in S
    <3> HAVE size[t] < size[s]
    <3> DEFINE g == sol(size[t] + 1)
    <3>1. size[t] \in Nat /\ size[t] + 1 \in Nat /\ size[t] < size[t] + 1
      BY <1>0
    <3>2. Solves(S, size, Y, body, size[t] + 1, g)
      BY <1>4, <3>1
    <3>3. F[t] = g[t]
      BY <1>6
    <3>4. \A x \in S : size[x] < size[t] + 1 => size[x] < size[s] + 1
      BY <1>0
    <3> HIDE DEF g
    <3>5. Solves(S, size, Y, body, size[t] + 1, f)
      BY <2>2, <3>4 DEF Solves
    <3>6. f[t] = g[t]
      BY <3>1, <3>2, <3>5, SolutionsAgree
    <3> QED BY <3>3, <3>6
  <2>6. body[F][s] = body[f][s]
    BY <1>5, <2>4, <2>5 DEF ByRecursion
  <2> QED BY <2>3, <2>4, <2>6
<1>8. body[F] \in [S -> Y]
  BY <1>5 DEF ByRecursion
<1>9. F = body[F]
  BY <1>5, <1>7, <1>8
<1> QED BY <1>5, <1>9

-----------------------------------------------------------------------------
(* What one push of a text separates                                        *)

\* The parts of a text, and the body of Separate as an equation.
Parts == [answer : Seq(Symbols), aside : Seq(Symbols), carry : Seq(Symbols), inside : BOOLEAN]

\* One round of the separation.
SeparateStep(f, s) ==
    [isInside \in BOOLEAN |->
        LET at    == Occurrences(IF isInside THEN CloseTag ELSE OpenTag, s)
            first == CHOOSE p \in at : \A q \in at : p[1] <= q[1]
            i     == IF at = {} THEN PartialFrom(s) ELSE first[1]
            here  == Upto(s, i - 1)
            rest  == IF at = {} THEN [answer |-> <<>>, aside |-> <<>>,
                                      carry |-> From(s, i), inside |-> isInside]
                                ELSE f[From(s, first[2] + 1)][~isInside]
        IN  IF isInside THEN [rest EXCEPT !.aside  = here \o @]
                        ELSE [rest EXCEPT !.answer = here \o @]]

\* Separate is a solution of the equation, if there is one.
LEMMA SeparateDef == Separate = CHOOSE f : f = [s \in Seq(Symbols) |-> SeparateStep(f, s)]
BY DEF Separate, SeparateStep

\* Without the tag: all but what is held back.
LEMMA StepNone ==
    ASSUME NEW f, NEW s \in Seq(Symbols), NEW v \in BOOLEAN, NoTag(s, v)
    PROVE  SeparateStep(f, s)[v] =
               [answer |-> IF v THEN <<>> ELSE Upto(s, PartialFrom(s) - 1),
                aside  |-> IF v THEN Upto(s, PartialFrom(s) - 1) ELSE <<>>,
                carry  |-> From(s, PartialFrom(s)), inside |-> v]
<1> DEFINE i == PartialFrom(s)
<1>1. Occurrences(Tag(v), s) = {}
  <2> SUFFICES ASSUME NEW p \in Occurrences(Tag(v), s) PROVE FALSE
    OBVIOUS
  <2>1. p[1] \in 1..Len(s) /\ p[2] \in 1..Len(s) /\ TagOn(s, p[1], p[2], v)
    BY OccursWhere
  <2> QED BY <2>1 DEF NoTag
<1>2. Upto(s, i - 1) \o <<>> = Upto(s, i - 1)
  <2>1. i \in 1..(Len(s) + 1)
    BY HeldBack
  <2>2. Upto(s, i - 1) \in Seq(Symbols)
    BY <2>1, Pieces
  <2> QED BY <2>2, ConcatEmptySeq
<1> DEFINE rest == [answer |-> <<>>, aside |-> <<>>, carry |-> From(s, i), inside |-> v]
<1>3. SeparateStep(f, s)[v] = IF v THEN [rest EXCEPT !.aside  = Upto(s, i - 1) \o @]
                                   ELSE [rest EXCEPT !.answer = Upto(s, i - 1) \o @]
  BY <1>1 DEF SeparateStep, Tag
<1> HIDE DEF i
<1>4. CASE v
  <2>1. SeparateStep(f, s)[v] = [rest EXCEPT !.aside = Upto(s, i - 1)]
    BY <1>2, <1>3, <1>4
  <2> QED BY <1>4, <2>1 DEF i
<1>5. CASE ~v
  <2>1. SeparateStep(f, s)[v] = [rest EXCEPT !.answer = Upto(s, i - 1)]
    BY <1>2, <1>3, <1>5
  <2> QED BY <1>5, <2>1 DEF i
<1> QED BY <1>4, <1>5

\* With the tag: what precedes it, and what follows the other way round.
After(x, r, v) == IF v THEN [r EXCEPT !.aside  = x \o @]
                       ELSE [r EXCEPT !.answer = x \o @]

\* The first tag found decides the round.
LEMMA StepSome ==
    ASSUME NEW f, NEW s \in Seq(Symbols), NEW v \in BOOLEAN, NEW i \in 1..Len(s), NEW j \in 1..Len(s), FirstAt(s, i, j, v)
    PROVE  SeparateStep(f, s)[v] = After(Upto(s, i - 1), f[From(s, j + 1)][~v], v)
<1> DEFINE at == Occurrences(Tag(v), s)
           first == CHOOSE p \in at : \A q \in at : p[1] <= q[1]
<1>1. /\ \A p \in at : p[1] \in 1..Len(s) /\ p[2] \in 1..Len(s) /\ TagOn(s, p[1], p[2], v)
      /\ \A k, l \in 1..Len(s) : TagOn(s, k, l, v) => <<k, l>> \in at
  BY OccursWhere
<1>2. <<i, j>> \in at /\ \A q \in at : i <= q[1]
  BY <1>1 DEF FirstAt
<1>3. first \in at /\ \A q \in at : first[1] <= q[1]
  <2> DEFINE p == <<i, j>>
  <2>1. p \in at /\ \A q \in at : p[1] <= q[1]
    BY <1>2
  <2> HIDE DEF at, p
  <2> QED BY <2>1
<1> HIDE DEF first, at
<1>4. first[1] = i
  <2> DEFINE k == first[1]
  <2>1. k \in 1..Len(s) /\ i <= k /\ k <= i
    <3>1. <<i, j>>[1] = i
      OBVIOUS
    <3> QED BY <1>1, <1>2, <1>3, <3>1
  <2> HIDE DEF k
  <2>2. k = i
    BY <2>1
  <2> QED BY <2>2 DEF k
<1>5. first[2] = j
  <2> DEFINE l == first[2]
  <2>1. l \in 1..Len(s) /\ TagOn(s, i, l, v) /\ TagOn(s, i, j, v)
    BY <1>1, <1>3, <1>4 DEF FirstAt
  <2> HIDE DEF l
  <2>2. l \in Nat /\ j \in Nat /\ i \in Nat
    BY <2>1
  <2>3. i < l /\ s[l] = ">" /\ \A k \in i..(l - 1) : s[k] # ">"
    BY <2>1, <2>2, TagHas DEF TagOn
  <2>4. i < j /\ s[j] = ">" /\ \A k \in i..(j - 1) : s[k] # ">"
    BY <2>1, <2>2, TagHas DEF TagOn
  <2>5. ~(l < j)
    <3> SUFFICES ASSUME l < j PROVE FALSE
      OBVIOUS
    <3>1. l \in i..(j - 1)
      BY <2>2, <2>3
    <3> QED BY <2>3, <2>4, <3>1
  <2>6. ~(j < l)
    <3> SUFFICES ASSUME j < l PROVE FALSE
      OBVIOUS
    <3>1. j \in i..(l - 1)
      BY <2>2, <2>4
    <3> QED BY <2>3, <2>4, <3>1
  <2>7. l = j
    BY <2>2, <2>5, <2>6
  <2> QED BY <2>7 DEF l
<1>6. at # {}
  BY <1>2
<1>7. Occurrences(IF v THEN CloseTag ELSE OpenTag, s) = at
  BY DEF Tag, at
<1> DEFINE rest == f[From(s, first[2] + 1)][~v]
<1>8. SeparateStep(f, s)[v] = IF v THEN [rest EXCEPT !.aside  = Upto(s, first[1] - 1) \o @]
                                   ELSE [rest EXCEPT !.answer = Upto(s, first[1] - 1) \o @]
  <2> DEFINE occ == Occurrences(IF v THEN CloseTag ELSE OpenTag, s)
             fst == CHOOSE p \in occ : \A q \in occ : p[1] <= q[1]
             i2  == IF occ = {} THEN PartialFrom(s) ELSE fst[1]
             r2  == IF occ = {} THEN [answer |-> <<>>, aside |-> <<>>, carry |-> From(s, i2), inside |-> v]
                               ELSE f[From(s, fst[2] + 1)][~v]
  <2>1. SeparateStep(f, s)[v] = IF v THEN [r2 EXCEPT !.aside  = Upto(s, i2 - 1) \o @]
                                     ELSE [r2 EXCEPT !.answer = Upto(s, i2 - 1) \o @]
    BY DEF SeparateStep
  <2>2. occ = at /\ fst = first
    BY <1>7 DEF first
  <2>3. i2 = first[1] /\ r2 = rest
    <3> HIDE DEF occ, fst
    <3> QED BY <1>6, <2>2
  <2> HIDE DEF i2, r2, rest
  <2> QED BY <2>1, <2>3
<1> QED BY <1>4, <1>5, <1>8 DEF After

\* A text holds no tag, or a first one.
LEMMA FirstOrNone ==
    ASSUME NEW s \in Seq(Symbols), NEW v \in BOOLEAN
    PROVE  \/ NoTag(s, v)
           \/ \E i, j \in 1..Len(s) : FirstAt(s, i, j, v)
<1> DEFINE I == {i \in 1..Len(s) : \E j \in 1..Len(s) : TagOn(s, i, j, v)}
<1>1. Len(s) \in Nat
  BY LenProperties
<1>2. CASE I = {}
  BY <1>2 DEF NoTag
<1>3. CASE I # {}
  <2>1. I \in SUBSET Nat
    BY <1>1
  <2>2. PICK i \in I : \A k \in I : i <= k
    BY <1>3, <2>1, Least
  <2>3. PICK j \in 1..Len(s) : TagOn(s, i, j, v)
    BY <2>2
  <2>4. \A k, l \in 1..Len(s) : TagOn(s, k, l, v) => i <= k
    BY <2>2
  <2>5. FirstAt(s, i, j, v) /\ i \in 1..Len(s)
    BY <2>2, <2>3, <2>4 DEF FirstAt
  <2> QED BY <2>5
<1> QED BY <1>2, <1>3

\* A round makes parts out of parts.
LEMMA SeparateStepIs ==
    ASSUME NEW f, NEW s \in Seq(Symbols), NEW v \in BOOLEAN,
           \A t \in Seq(Symbols) : Len(t) < Len(s) => f[t] \in [BOOLEAN -> Parts]
    PROVE  SeparateStep(f, s)[v] \in Parts
<1>1. CASE NoTag(s, v)
  <2>1. PartialFrom(s) \in 1..(Len(s) + 1)
    BY HeldBack
  <2>2. From(s, PartialFrom(s)) \in Seq(Symbols) /\ Upto(s, PartialFrom(s) - 1) \in Seq(Symbols) /\ <<>> \in Seq(Symbols)
    BY <2>1, Pieces
  <2> DEFINE h == Upto(s, PartialFrom(s) - 1)
             c == From(s, PartialFrom(s))
  <2>3. SeparateStep(f, s)[v] = [answer |-> IF v THEN <<>> ELSE h, aside |-> IF v THEN h ELSE <<>>, carry |-> c, inside |-> v]
    BY <1>1, StepNone
  <2>4. h \in Seq(Symbols) /\ c \in Seq(Symbols) /\ <<>> \in Seq(Symbols)
    BY <2>2
  <2> HIDE DEF h, c
  <2> QED BY <2>3, <2>4 DEF Parts
<1>2. CASE ~NoTag(s, v)
  <2>1. PICK i \in 1..Len(s), j \in 1..Len(s) : FirstAt(s, i, j, v)
    BY <1>2, FirstOrNone
  <2> DEFINE t == From(s, j + 1)
             r == f[t][~v]
  <2>2. Len(s) \in Nat /\ i \in 1..(Len(s) + 1)
    BY LenProperties
  <2>3. t \in Seq(Symbols) /\ Len(t) < Len(s) /\ Upto(s, i - 1) \in Seq(Symbols)
    <3> DEFINE e == j + 1
    <3>1. e \in 1..(Len(s) + 1) /\ e > 1
      BY <2>2
    <3> HIDE DEF e
    <3>2. From(s, e) \in Seq(Symbols) /\ Len(From(s, e)) = Len(s) - e + 1
      BY <3>1, Pieces
    <3>3. Upto(s, i - 1) \in Seq(Symbols)
      BY <2>2, Pieces
    <3>4. Len(From(s, e)) < Len(s)
      BY <2>2, <3>1, <3>2
    <3> QED BY <3>2, <3>3, <3>4 DEF e
  <2>4. r \in Parts
    <3> HIDE DEF t
    <3>2. f[t] \in [BOOLEAN -> Parts]
      BY <2>3
    <3> QED BY <3>2
  <2>5. SeparateStep(f, s)[v] = After(Upto(s, i - 1), r, v)
    BY <2>1, StepSome
  <2> HIDE DEF r, t
  <2>6. Upto(s, i - 1) \o r.aside \in Seq(Symbols) /\ Upto(s, i - 1) \o r.answer \in Seq(Symbols)
    BY <2>3, <2>4, ConcatProperties DEF Parts
  <2> QED BY <2>4, <2>5, <2>6 DEF Parts, After
<1> QED BY <1>1, <1>2

\* Separate solves its equation, and gives parts of texts.
LEMMA SeparateIs ==
    /\ Separate \in [Seq(Symbols) -> [BOOLEAN -> Parts]]
    /\ \A s \in Seq(Symbols) : Separate[s] = SeparateStep(Separate, s)
<1> DEFINE S == Seq(Symbols)
           Y == [BOOLEAN -> Parts]
           size == [s \in S |-> Len(s)]
           body == [f \in [S -> Y] |-> [s \in S |-> SeparateStep(f, s)]]
<1>1. \A f \in [S -> Y], s \in S : SeparateStep(f, s) \in Y
  <2> TAKE f \in [S -> Y], s \in S
  <2>1. \A v \in BOOLEAN : SeparateStep(f, s)[v] \in Parts
    BY SeparateStepIs
  <2> QED BY <2>1 DEF SeparateStep
<1>2. size \in [S -> Nat] /\ body \in [[S -> Y] -> [S -> Y]]
  BY <1>1, LenProperties
<1>3. Y # {}
  <2>1. [v \in BOOLEAN |-> [answer |-> <<>>, aside |-> <<>>, carry |-> <<>>, inside |-> v]] \in Y
    BY DEF Parts
  <2> QED BY <2>1
<1>4. ASSUME NEW f \in [S -> Y], NEW g \in [S -> Y], NEW s \in S,
             \A t \in S : size[t] < size[s] => f[t] = g[t]
      PROVE  SeparateStep(f, s) = SeparateStep(g, s)
  <2>1. \A t \in S : Len(t) < Len(s) => f[t] = g[t]
    BY <1>4
  <2>2. ASSUME NEW v \in BOOLEAN PROVE SeparateStep(f, s)[v] = SeparateStep(g, s)[v]
    <3>1. CASE NoTag(s, v)
      BY <3>1, StepNone, ZenonT(30)
    <3>2. CASE ~NoTag(s, v)
      <4>1. PICK i \in 1..Len(s), j \in 1..Len(s) : FirstAt(s, i, j, v)
        BY <3>2, FirstOrNone
      <4> DEFINE t == From(s, j + 1)
      <4>3. t \in S /\ Len(t) < Len(s)
        <5> DEFINE e == j + 1
        <5>1. e \in 1..(Len(s) + 1) /\ e > 1 /\ Len(s) \in Nat
          BY LenProperties
        <5> HIDE DEF e
        <5>2. From(s, e) \in Seq(Symbols) /\ Len(From(s, e)) = Len(s) - e + 1
          BY <5>1, Pieces
        <5>3. Len(From(s, e)) < Len(s)
          BY <5>1, <5>2
        <5> QED BY <5>2, <5>3 DEF e
      <4>4. f[t] = g[t]
        <5> HIDE DEF t
        <5> QED BY <2>1, <4>3
      <4>5. /\ SeparateStep(f, s)[v] = After(Upto(s, i - 1), f[t][~v], v)
            /\ SeparateStep(g, s)[v] = After(Upto(s, i - 1), g[t][~v], v)
        BY <4>1, StepSome
      <4> HIDE DEF t
      <4> QED BY <4>4, <4>5
    <3> QED BY <3>1, <3>2
  <2>3. SeparateStep(f, s) \in Y /\ SeparateStep(g, s) \in Y
    BY <1>1
  <2> HIDE DEF S
  <2> QED BY <2>2, <2>3
<1>5. \A f \in [S -> Y], s \in S : body[f][s] = SeparateStep(f, s)
  OBVIOUS
<1>6. \A f \in [S -> Y] : body[f] = [s \in S |-> SeparateStep(f, s)]
  OBVIOUS
<1> HIDE DEF body, size
<1>7. ByRecursion(S, size, Y, body)
  <2> HIDE DEF S, Y
  <2>1. \A f, g \in [S -> Y], s \in S :
           (\A t \in S : size[t] < size[s] => f[t] = g[t]) => SeparateStep(f, s) = SeparateStep(g, s)
    BY <1>4
  <2> QED BY <1>2, <1>3, <1>5, <2>1 DEF ByRecursion
<1>8. PICK F \in [S -> Y] : F = body[F]
  <2> HIDE DEF S, Y
  <2> QED BY <1>7, SolutionExists
<1>9. F = [s \in S |-> SeparateStep(F, s)]
  BY <1>6, <1>8
<1> DEFINE Meets(f) == f = [s \in S |-> SeparateStep(f, s)]
<1>10. Separate = CHOOSE f : Meets(f)
  BY SeparateDef
<1>11. Meets(Separate)
  <2>1. Meets(F)
    BY <1>9
  <2> HIDE DEF Meets
  <2> QED BY <1>10, <2>1
<1>12. \A s \in S : Separate[s] = SeparateStep(Separate, s)
  <2>1. Separate = [s \in S |-> SeparateStep(Separate, s)]
    BY <1>11
  <2> QED BY <2>1
<1>13. \A s \in S : Separate[s] \in Y
  <2> DEFINE T == {n \in Nat : \A s \in S : Len(s) = n => Separate[s] \in Y}
  <2>1. ASSUME NEW n \in Nat, \A m \in Nat : m < n => m \in T PROVE n \in T
    <3> SUFFICES ASSUME NEW s \in S, Len(s) = n PROVE Separate[s] \in Y
      OBVIOUS
    <3>1. \A t \in S : Len(t) < Len(s) => Separate[t] \in Y
      BY <2>1, LenProperties
    <3>2. \A v \in BOOLEAN : SeparateStep(Separate, s)[v] \in Parts
      BY <3>1, SeparateStepIs
    <3>3. SeparateStep(Separate, s) \in Y
      BY <3>2 DEF SeparateStep
    <3> QED BY <1>12, <3>3
  <2> HIDE DEF T
  <2>2. Nat \subseteq T
    BY <2>1, Strongly
  <2> QED BY <2>2, LenProperties DEF T
<1>14. Separate = [s \in S |-> Separate[s]]
  <2>1. Separate = [s \in S |-> SeparateStep(Separate, s)]
    BY <1>11
  <2> QED BY <1>12, <2>1
<1> QED BY <1>12, <1>13, <1>14

\* What was let through or set aside, without and with what is held back.
Part(r, u) == IF u THEN r.aside ELSE r.answer
Full(r, u) == IF u = r.inside THEN Part(r, u) \o r.carry ELSE Part(r, u)

\* What is separated are texts.
LEMMA PartsAre ==
    ASSUME NEW s \in Seq(Symbols), NEW v \in BOOLEAN
    PROVE  /\ Separate[s][v] \in Parts /\ Separate[s][v].carry \in Seq(Symbols) /\ Separate[s][v].inside \in BOOLEAN
           /\ \A u \in BOOLEAN : Part(Separate[s][v], u) \in Seq(Symbols) /\ Full(Separate[s][v], u) \in Seq(Symbols)
<1> DEFINE r == Separate[s][v]
<1>1. r \in Parts
  BY SeparateIs
<1> HIDE DEF r
<1>2. r.answer \in Seq(Symbols) /\ r.aside \in Seq(Symbols) /\ r.carry \in Seq(Symbols) /\ r.inside \in BOOLEAN
  BY <1>1 DEF Parts
<1>3. \A u \in BOOLEAN : Part(r, u) \in Seq(Symbols)
  BY <1>2 DEF Part
<1>4. \A u \in BOOLEAN : Full(r, u) \in Seq(Symbols)
  BY <1>2, <1>3, ConcatProperties DEF Full
<1> QED BY <1>1, <1>2, <1>3, <1>4 DEF r

\* A text without the tag is kept but for what is held back.
LEMMA NoneSeparated ==
    ASSUME NEW s \in Seq(Symbols), NEW v \in BOOLEAN, NoTag(s, v)
    PROVE  LET r == Separate[s][v]
               i == PartialFrom(s)
           IN  /\ r.inside = v /\ r.carry = From(s, i) /\ Part(r, v) = Upto(s, i - 1) /\ Part(r, ~v) = <<>>
               /\ Full(r, v) = s /\ Full(r, ~v) = <<>>
<1> DEFINE r == Separate[s][v]
           h == Upto(s, PartialFrom(s) - 1)
           c == From(s, PartialFrom(s))
<1>1. r = [answer |-> IF v THEN <<>> ELSE h, aside |-> IF v THEN h ELSE <<>>, carry |-> c, inside |-> v]
  <2>1. r = SeparateStep(Separate, s)[v]
    BY SeparateIs
  <2>2. SeparateStep(Separate, s)[v] = [answer |-> IF v THEN <<>> ELSE h, aside |-> IF v THEN h ELSE <<>>, carry |-> c, inside |-> v]
    BY StepNone
  <2> HIDE DEF r, h, c
  <2> QED BY <2>1, <2>2
<1>2. h \o c = s
  <2>1. PartialFrom(s) \in 1..(Len(s) + 1)
    BY HeldBack
  <2> QED BY <2>1, Pieces
<1> HIDE DEF r, h, c
<1>3. r.inside = v /\ r.carry = c /\ r.answer = (IF v THEN <<>> ELSE h) /\ r.aside = IF v THEN h ELSE <<>>
  BY <1>1
<1>4. Part(r, v) = h /\ Part(r, ~v) = <<>>
  BY <1>3 DEF Part
<1>5. Full(r, v) = s /\ Full(r, ~v) = <<>>
  BY <1>2, <1>3, <1>4 DEF Full
<1> QED BY <1>3, <1>4, <1>5 DEF r, h, c

\* A text with the tag is what precedes it and what follows, the other way
\* round.
LEMMA SomeSeparated ==
    ASSUME NEW s \in Seq(Symbols), NEW v \in BOOLEAN, NEW i \in 1..Len(s), NEW j \in 1..Len(s), FirstAt(s, i, j, v)
    PROVE  LET w == Separate[s][v]
               t == From(s, j + 1)
               r == Separate[t][~v]
               x == Upto(s, i - 1)
           IN  /\ t \in Seq(Symbols) /\ Len(t) < Len(s) /\ x \in Seq(Symbols)
               /\ w.inside = r.inside /\ w.carry = r.carry
               /\ Part(w, v) = x \o Part(r, v) /\ Part(w, ~v) = Part(r, ~v)
               /\ Full(w, v) = x \o Full(r, v) /\ Full(w, ~v) = Full(r, ~v)
<1> DEFINE w == Separate[s][v]
           t == From(s, j + 1)
           r == Separate[t][~v]
           x == Upto(s, i - 1)
<1>1. t \in Seq(Symbols) /\ Len(t) < Len(s) /\ x \in Seq(Symbols)
  <2> DEFINE e == j + 1
  <2>1. e \in 1..(Len(s) + 1) /\ i \in 1..(Len(s) + 1) /\ e > 1 /\ Len(s) \in Nat
    BY LenProperties
  <2> HIDE DEF e
  <2>2. From(s, e) \in Seq(Symbols) /\ Len(From(s, e)) = Len(s) - e + 1 /\ x \in Seq(Symbols)
    BY <2>1, Pieces
  <2>3. Len(From(s, e)) < Len(s)
    BY <2>1, <2>2
  <2> QED BY <2>2, <2>3 DEF e
<1>2. w = After(x, r, v)
  <2>1. w = SeparateStep(Separate, s)[v]
    BY SeparateIs
  <2>2. SeparateStep(Separate, s)[v] = After(x, r, v)
    BY StepSome
  <2> HIDE DEF w, x, r
  <2> QED BY <2>1, <2>2
<1>3. r \in Parts
  BY <1>1, PartsAre
<1> HIDE DEF w, t, r, x
<1>4. r.answer \in Seq(Symbols) /\ r.aside \in Seq(Symbols) /\ r.carry \in Seq(Symbols) /\ r.inside \in BOOLEAN
  BY <1>3 DEF Parts
<1>5. /\ w.inside = r.inside /\ w.carry = r.carry
      /\ w.answer = (IF v THEN r.answer ELSE x \o r.answer)
      /\ w.aside = IF v THEN x \o r.aside ELSE r.aside
  BY <1>2, <1>3 DEF After, Parts
<1>6. Part(w, v) = x \o Part(r, v) /\ Part(w, ~v) = Part(r, ~v)
  BY <1>5 DEF Part
<1>7. Full(w, ~v) = Full(r, ~v)
  BY <1>5, <1>6 DEF Full
<1>8. Full(w, v) = x \o Full(r, v)
  <2> DEFINE p == Part(r, v)
             c == r.carry
  <2>1. p \in Seq(Symbols) /\ c \in Seq(Symbols)
    BY <1>4 DEF Part
  <2> HIDE DEF p, c
  <2>a. Associates(Symbols)
    BY Regroup
  <2>2. (x \o p) \o c = x \o (p \o c)
    BY <1>1, <2>a, <2>1, ZenonT(30) DEF Associates
  <2>3. Part(w, v) = x \o p
    BY <1>6 DEF p
  <2> QED BY <1>5, <2>2, <2>3 DEF Full, p, c
<1> QED BY <1>1, <1>5, <1>6, <1>7, <1>8 DEF w, t, r, x

\* Nothing separates into nothing.
LEMMA EmptySeparated ==
    ASSUME NEW v \in BOOLEAN
    PROVE  LET r == Separate[<<>>][v]
           IN  r.inside = v /\ r.carry = <<>> /\ \A u \in BOOLEAN : Part(r, u) = <<>> /\ Full(r, u) = <<>>
<1> DEFINE e == <<>>
<1>1. e \in Seq(Symbols) /\ Len(e) = 0
  OBVIOUS
<1> HIDE DEF e
<1>2. NoTag(e, v)
  BY <1>1 DEF NoTag
<1>3. PartialFrom(e) = 1
  <2>1. PartialFrom(e) \in 1..(Len(e) + 1)
    BY <1>1, HeldBack
  <2> QED BY <1>1, <2>1
<1>4. From(e, 1) \in Seq(Symbols) /\ Len(From(e, 1)) = 0 /\ Upto(e, 1 - 1) \in Seq(Symbols) /\ Len(Upto(e, 1 - 1)) = 0
  <2> DEFINE k == 1
  <2>1. k \in 1..(Len(e) + 1)
    BY <1>1
  <2> HIDE DEF k
  <2>2. /\ From(e, k) \in Seq(Symbols) /\ Len(From(e, k)) = Len(e) - k + 1
        /\ Upto(e, k - 1) \in Seq(Symbols) /\ Len(Upto(e, k - 1)) = k - 1
    BY <1>1, <2>1, Pieces
  <2> QED BY <1>1, <2>2 DEF k
<1>5. From(e, 1) = <<>> /\ Upto(e, 1 - 1) = <<>>
  BY <1>4, EmptySeq
<1> DEFINE r == Separate[e][v]
<1>6. r.inside = v /\ r.carry = <<>> /\ Part(r, v) = <<>> /\ Part(r, ~v) = <<>> /\ Full(r, v) = e /\ Full(r, ~v) = <<>>
  BY <1>1, <1>2, <1>3, <1>5, NoneSeparated
<1> HIDE DEF r
<1>7. \A u \in BOOLEAN : u = v \/ u = ~v
  OBVIOUS
<1>8. \A u \in BOOLEAN : Part(r, u) = <<>> /\ Full(r, u) = <<>>
  BY <1>6, <1>7 DEF e
<1> QED BY <1>6, <1>8 DEF r, e

\* Two texts put together.
LEMMA Both ==
    ASSUME NEW X, NEW s \in Seq(X), NEW t \in Seq(X)
    PROVE  /\ s \o t \in Seq(X) /\ Len(s) \in Nat /\ Len(t) \in Nat /\ Len(s \o t) = Len(s) + Len(t)
           /\ \A k \in 1..Len(s) : (s \o t)[k] = s[k]
           /\ \A k \in 1..Len(t) : (s \o t)[Len(s) + k] = t[k]
<1> DEFINE u == s \o t
<1>1. Len(s) \in Nat /\ Len(t) \in Nat
  BY LenProperties
<1>2. /\ u \in Seq(X) /\ Len(u) = Len(s) + Len(t)
      /\ \A k \in 1..Len(s) + Len(t) : u[k] = IF k <= Len(s) THEN s[k] ELSE t[k - Len(s)]
  BY ConcatProperties
<1> HIDE DEF u
<1>3. \A k \in 1..Len(t) : u[Len(s) + k] = t[k]
  <2> TAKE k \in 1..Len(t)
  <2>1. Len(s) + k \in 1..Len(s) + Len(t) /\ ~(Len(s) + k <= Len(s)) /\ Len(s) + k - Len(s) = k
    BY <1>1
  <2> QED BY <1>2, <2>1
<1>4. \A k \in 1..Len(s) : u[k] = s[k]
  BY <1>1, <1>2
<1> QED BY <1>1, <1>2, <1>3, <1>4 DEF u

\* A tag stands where it stands, whatever follows and whatever precedes.
LEMMA TagStays ==
    ASSUME NEW a \in Seq(Symbols), NEW b \in Seq(Symbols), NEW v \in BOOLEAN, NEW i \in 1..Len(a), NEW j \in 1..Len(a)
    PROVE  TagOn(a \o b, i, j, v) <=> TagOn(a, i, j, v)
<1> DEFINE u == a \o b
           d == 0
<1>1. /\ Len(a) \in Nat /\ Len(b) \in Nat /\ Len(u) = Len(a) + Len(b)
      /\ \A k \in 1..Len(a) : u[k] = a[k]
  BY Both
<1> HIDE DEF u
<1>2. i \in 1..Len(u) /\ j \in 1..Len(u) /\ i \in Nat /\ j \in Nat
  BY <1>1
<1>3. \A k \in i..j : k \in 1..Len(a) /\ 0 + k = k
  BY <1>1
<1>4. d + i = i /\ d + j = j
  BY <1>2
<1>5. d \in Nat /\ \A k \in i..j : a[k] = u[d + k]
  BY <1>1, <1>2, <1>3
<1>6. TagAt(a, i, j, Tag(v)) <=> TagAt(u, i, j, Tag(v))
  <2> HIDE DEF d
  <2>1. TagAt(a, i, j, Tag(v)) <=> TagAt(u, d + i, d + j, Tag(v))
    BY <1>2, <1>5, TagMoves
  <2> QED BY <1>4, <2>1
<1> QED BY <1>2, <1>6 DEF TagOn, u

\* Moved along with its text.
LEMMA TagShifts ==
    ASSUME NEW x \in Seq(Symbols), NEW c \in Seq(Symbols), NEW v \in BOOLEAN, NEW i \in 1..Len(c), NEW j \in 1..Len(c)
    PROVE  /\ Len(x) + i \in 1..Len(x \o c) /\ Len(x) + j \in 1..Len(x \o c)
           /\ TagOn(x \o c, Len(x) + i, Len(x) + j, v) <=> TagOn(c, i, j, v)
<1> DEFINE u == x \o c
           d == Len(x)
<1>1. /\ d \in Nat /\ Len(c) \in Nat /\ Len(u) = d + Len(c)
      /\ \A k \in 1..Len(c) : u[d + k] = c[k]
  BY Both
<1> HIDE DEF u, d
<1>2. d + i \in 1..Len(u) /\ d + j \in 1..Len(u) /\ i \in Nat /\ j \in Nat
  BY <1>1
<1>3. \A k \in i..j : k \in 1..Len(c)
  BY <1>1
<1>4. \A k \in i..j : c[k] = u[d + k]
  BY <1>1, <1>3
<1>5. TagAt(c, i, j, Tag(v)) <=> TagAt(u, d + i, d + j, Tag(v))
  BY <1>1, <1>2, <1>4, TagMoves
<1> QED BY <1>2, <1>5 DEF TagOn, u, d

\* What a tag is like where it stands.
Marked(s, i, j) ==
    /\ i \in 1..Len(s) /\ j \in 1..Len(s) /\ i < j /\ s[i] = "<" /\ s[j] = ">"
    /\ \A k \in (i + 1)..j : s[k] # "<"
    /\ \A k \in i..(j - 1) : s[k] # ">"

\* A tag has its only marks at its ends.
LEMMA TagOnHas ==
    ASSUME NEW s \in Seq(Symbols), NEW v \in BOOLEAN, NEW i, NEW j, TagOn(s, i, j, v)
    PROVE  Marked(s, i, j)
<1>1. i \in 1..Len(s) /\ j \in 1..Len(s) /\ TagAt(s, i, j, Tag(v))
  BY DEF TagOn
<1>2. i \in Nat /\ j \in Nat
  BY <1>1, LenProperties
<1> QED BY <1>1, <1>2, TagHas DEF Marked

\* The tags of a rest fit if those of the whole do.
LEMMA RestFits ==
    ASSUME NEW x \in Seq(Symbols), NEW c \in Seq(Symbols), Fits(x \o c)
    PROVE  Fits(c)
<1> SUFFICES ASSUME NEW i \in 1..Len(c), NEW j \in 1..Len(c), NEW u \in BOOLEAN, TagOn(c, i, j, u)
             PROVE  j - i <= MaxTag
  BY DEF Fits
<1> DEFINE e == Len(x) + i
           f == Len(x) + j
<1>1. e \in 1..Len(x \o c) /\ f \in 1..Len(x \o c) /\ TagOn(x \o c, e, f, u)
  BY TagShifts
<1>2. f - e = j - i
  BY LenProperties
<1> HIDE DEF e, f
<1>3. f - e <= MaxTag
  BY <1>1 DEF Fits
<1> QED BY <1>2, <1>3

\* The first tag stays the first one.
LEMMA FirstStays ==
    ASSUME NEW a \in Seq(Symbols), NEW b \in Seq(Symbols), NEW v \in BOOLEAN,
           NEW i \in 1..Len(a), NEW l \in 1..Len(a), FirstAt(a, i, l, v)
    PROVE  i \in 1..Len(a \o b) /\ l \in 1..Len(a \o b) /\ FirstAt(a \o b, i, l, v)
<1> DEFINE u == a \o b
<1>1. TagOn(a, i, l, v)
  BY DEF FirstAt
<1>2. TagOn(u, i, l, v) /\ u \in Seq(Symbols)
  BY <1>1, TagStays, Both
<1>3. ASSUME NEW j \in 1..Len(u), NEW m \in 1..Len(u), TagOn(u, j, m, v) PROVE i <= j
  <2> SUFFICES ASSUME j < i PROVE FALSE
    BY <1>2 DEF FirstAt
  <2> HIDE DEF u
  <2>1. /\ j \in 1..Len(u) /\ m \in 1..Len(u) /\ j < m /\ u[j] = "<" /\ u[m] = ">"
        /\ \A k \in (j + 1)..m : u[k] # "<"
        /\ \A k \in j..(m - 1) : u[k] # ">"
    <3>1. u \in Seq(Symbols) /\ TagOn(u, j, m, v)
      BY <1>2, <1>3
    <3>2. Marked(u, j, m)
      BY <3>1, TagOnHas
    <3> QED BY <3>2 DEF Marked
  <2>2. u[i] = "<" /\ u[l] = ">" /\ i < l
    <3>1. Marked(u, i, l)
      BY <1>2, TagOnHas
    <3> QED BY <3>1 DEF Marked
  <2>3. j \in Nat /\ m \in Nat /\ Len(a) \in Nat
    BY LenProperties
  <2>4. ~(l <= m - 1) /\ ~(i <= m)
    <3>1. ~(i \in (j + 1)..m) /\ ~(l \in j..(m - 1))
      BY <2>1, <2>2
    <3> QED BY <2>2, <2>3, <3>1
  <2>5. j \in 1..Len(a) /\ m \in 1..Len(a)
    BY <2>3, <2>4
  <2>6. TagOn(a, j, m, v)
    BY <1>3, <2>5, TagStays DEF u
  <2>7. i <= j
    BY <2>5, <2>6 DEF FirstAt
  <2> QED BY <2>3, <2>7
<1>4. i \in 1..Len(u) /\ l \in 1..Len(u)
  BY <1>2 DEF TagOn
<1> HIDE DEF u
<1>5. FirstAt(u, i, l, v)
  BY <1>2, <1>3 DEF FirstAt
<1> QED BY <1>4, <1>5 DEF u

\* No tag begins in what is let through: the beginning of one is held back.
LEMMA NoneBeforeHeld ==
    ASSUME NEW a \in Seq(Symbols), NEW b \in Seq(Symbols), NEW v \in BOOLEAN, NoTag(a, v), Fits(a \o b),
           NEW j \in 1..(PartialFrom(a) - 1), NEW l
    PROVE  ~TagOn(a \o b, j, l, v)
<1> DEFINE u == a \o b
           i == PartialFrom(a)
<1> SUFFICES ASSUME TagOn(u, j, l, v) PROVE FALSE
  OBVIOUS
<1>1. /\ Len(a) \in Nat /\ Len(b) \in Nat /\ u \in Seq(Symbols) /\ Len(u) = Len(a) + Len(b)
      /\ \A k \in 1..Len(a) : u[k] = a[k]
  BY Both
<1>2. i \in 1..(Len(a) + 1)
  BY HeldBack
<1>3. j \in 1..Len(a) /\ j < i
  <2>1. j \in 1..(i - 1)
    OBVIOUS
  <2> HIDE DEF i
  <2> QED BY <1>1, <1>2, <2>1
<1>4. l - j <= MaxTag
  <2> HIDE DEF u
  <2>1. j \in 1..Len(u) /\ l \in 1..Len(u)
    BY DEF TagOn
  <2>2. Fits(u)
    BY DEF u
  <2> QED BY <2>1, <2>2 DEF Fits
<1>5. ~(l \in 1..Len(a))
  <2> SUFFICES ASSUME l \in 1..Len(a) PROVE FALSE
    OBVIOUS
  <2>1. TagOn(a, j, l, v)
    BY <1>3, TagStays
  <2> QED BY <1>3, <2>1 DEF NoTag
<1> HIDE DEF u, i
<1>6. /\ j \in 1..Len(u) /\ l \in 1..Len(u) /\ j < l /\ u[j] = "<" /\ u[l] = ">"
      /\ \A k \in (j + 1)..l : u[k] # "<"
      /\ \A k \in j..(l - 1) : u[k] # ">"
  <2>1. u \in Seq(Symbols) /\ TagOn(u, j, l, v)
    BY <1>1
  <2> QED BY <2>1, TagOnHas DEF Marked
<1>7. l > Len(a)
  BY <1>1, <1>5, <1>6
<1>8. a[j] = "<" /\ \A k \in (j + 1)..Len(a) : a[k] # "<"
  <2>1. \A k \in (j + 1)..Len(a) : k \in 1..Len(a) /\ k \in (j + 1)..l
    BY <1>1, <1>3, <1>6, <1>7
  <2> QED BY <1>1, <1>3, <1>6, <2>1
<1>9. Len(a) - j + 1 <= MaxTag
  <2>1. MaxTag \in Nat
    BY SegmenterAssumption
  <2> QED BY <1>1, <1>3, <1>4, <1>6, <1>7, <2>1
<1>10. ~WholeTag(a, j)
  <2> SUFFICES ASSUME NEW z \in BOOLEAN, TagOn(a, j, Len(a), z) PROVE FALSE
    BY DEF WholeTag
  <2>1. a[Len(a)] = ">"
    <3>1. Marked(a, j, Len(a))
      BY TagOnHas
    <3> QED BY <3>1 DEF Marked
  <2>2. Len(a) \in j..(l - 1) /\ Len(a) \in 1..Len(a)
    BY <1>1, <1>3, <1>6, <1>7
  <2> QED BY <1>1, <1>6, <2>1, <2>2
<1>11. PartialFrom(a) = j
  BY <1>3, <1>8, <1>9, <1>10, HeldBackFrom
<1> QED BY <1>3, <1>11 DEF i

\* What was held back is followed by what comes next as if it were new.
LEMMA HeldGoesOn ==
    ASSUME NEW a \in Seq(Symbols), NEW b \in Seq(Symbols), NEW v \in BOOLEAN, NoTag(a, v), Fits(a \o b)
    PROVE  LET x == Upto(a, PartialFrom(a) - 1)
               c == From(a, PartialFrom(a)) \o b
           IN  /\ x \in Seq(Symbols) /\ c \in Seq(Symbols) /\ a \o b = x \o c
               /\ \A j \in 1..Len(x) : \A l : ~TagOn(x \o c, j, l, v)
<1> DEFINE i == PartialFrom(a)
           x == Upto(a, i - 1)
           h == From(a, i)
           c == h \o b
<1>1. i \in 1..(Len(a) + 1) /\ Len(a) \in Nat
  BY HeldBack, LenProperties
<1>2. x \in Seq(Symbols) /\ Len(x) = i - 1 /\ h \in Seq(Symbols) /\ x \o h = a
  <2> HIDE DEF i
  <2> QED BY <1>1, Pieces
<1>3. \A j \in 1..(i - 1) : \A l : ~TagOn(a \o b, j, l, v)
  BY NoneBeforeHeld
<1> HIDE DEF h, x, i
<1>a. Associates(Symbols)
  BY Regroup
<1>4. (x \o h) \o b = x \o (h \o b)
  BY <1>2, <1>a, ZenonT(30) DEF Associates
<1>5. c \in Seq(Symbols)
  BY <1>2, ConcatProperties
<1>6. a \o b = x \o c
  BY <1>2, <1>4
<1> QED BY <1>2, <1>3, <1>5, <1>6 DEF h, x, i

\* Cut in two, a text separates as in one piece.
Goes(p, q, w) ==
    /\ w.inside = q.inside
    /\ \A u \in BOOLEAN : Full(w, u) = Part(p, u) \o Full(q, u)

\* The text was cut where no tag had been found.
LEMMA ResumedAfterNone ==
    ASSUME NEW a \in Seq(Symbols), NEW b \in Seq(Symbols), NEW v \in BOOLEAN, NoTag(a, v), Fits(a \o b)
    PROVE  LET p == Separate[a][v]
           IN  Goes(p, Separate[p.carry \o b][p.inside], Separate[a \o b][v])
<1> DEFINE x == Upto(a, PartialFrom(a) - 1)
           c == From(a, PartialFrom(a)) \o b
           p == Separate[a][v]
           q == Separate[c][v]
           w == Separate[x \o c][v]
<1>1. /\ x \in Seq(Symbols) /\ c \in Seq(Symbols) /\ a \o b = x \o c
      /\ \A j \in 1..Len(x) : \A l : ~TagOn(x \o c, j, l, v)
  BY HeldGoesOn
<1>2. p.inside = v /\ p.carry \o b = c /\ Part(p, v) = x /\ Part(p, ~v) = <<>>
  BY NoneSeparated
<1> HIDE DEF x, c, p
<1>3. Len(x) \in Nat /\ Len(c) \in Nat /\ x \o c \in Seq(Symbols) /\ Len(x \o c) = Len(x) + Len(c)
  BY <1>1, Both
<1>4. \A u \in BOOLEAN : Part(q, u) \in Seq(Symbols) /\ Full(q, u) \in Seq(Symbols)
  BY <1>1, PartsAre
<1>b. ASSUME NEW j, NEW l, TagOn(x \o c, j, l, v)
      PROVE  /\ j - Len(x) \in 1..Len(c) /\ l - Len(x) \in 1..Len(c)
             /\ TagOn(c, j - Len(x), l - Len(x), v)
  <2> DEFINE y == x \o c
             e == j - Len(x)
             f == l - Len(x)
  <2>1. j \in 1..Len(y) /\ l \in 1..Len(y) /\ j < l
    <3>1. y \in Seq(Symbols) /\ TagOn(y, j, l, v)
      BY <1>3, <1>b
    <3> HIDE DEF y
    <3>2. /\ j \in 1..Len(y) /\ l \in 1..Len(y) /\ j < l /\ y[j] = "<" /\ y[l] = ">"
          /\ \A k \in (j + 1)..l : y[k] # "<"
          /\ \A k \in j..(l - 1) : y[k] # ">"
      BY <3>1, TagOnHas DEF Marked
    <3> QED BY <3>2
  <2>2. ~(j \in 1..Len(x))
    BY <1>1, <1>b
  <2>3. e \in 1..Len(c) /\ f \in 1..Len(c) /\ Len(x) + e = j /\ Len(x) + f = l
    BY <1>3, <2>1, <2>2
  <2> HIDE DEF e, f, y
  <2>4. TagOn(y, Len(x) + e, Len(x) + f, v) <=> TagOn(c, e, f, v)
    BY <1>1, <2>3, TagShifts DEF y
  <2>5. TagOn(c, e, f, v)
    BY <1>b, <2>3, <2>4 DEF y
  <2> QED BY <2>3, <2>5 DEF e, f
<1>5. CASE NoTag(c, v)
  <2>1. NoTag(x \o c, v)
    <3> SUFFICES ASSUME NEW j \in 1..Len(x \o c), NEW l \in 1..Len(x \o c), TagOn(x \o c, j, l, v) PROVE FALSE
      BY DEF NoTag
    <3>1. /\ j - Len(x) \in 1..Len(c) /\ l - Len(x) \in 1..Len(c)
          /\ TagOn(c, j - Len(x), l - Len(x), v)
      BY <1>b
    <3> QED BY <1>5, <3>1 DEF NoTag
  <2>2. q.inside = v /\ Full(q, v) = c /\ Full(q, ~v) = <<>>
    BY <1>1, <1>5, NoneSeparated
  <2>3. w.inside = v /\ Full(w, v) = x \o c /\ Full(w, ~v) = <<>>
    BY <1>3, <2>1, NoneSeparated
  <2> HIDE DEF q, w
  <2>5. <<>> \o <<>> = <<>>
    OBVIOUS
  <2>6. \A u \in BOOLEAN : Full(w, u) = Part(p, u) \o Full(q, u)
    <3>1. \A u \in BOOLEAN : u = v \/ u = ~v
      OBVIOUS
    <3> QED BY <1>2, <2>2, <2>3, <2>5, <3>1
  <2>7. Goes(p, q, w)
    BY <2>2, <2>3, <2>6 DEF Goes
  <2> QED BY <1>1, <1>2, <2>7 DEF p, q, w
<1>6. CASE ~NoTag(c, v)
  <2>1. PICK k \in 1..Len(c), l \in 1..Len(c) : FirstAt(c, k, l, v)
    BY <1>1, <1>6, FirstOrNone
  <2> DEFINE m == Len(x) + k
             z == Len(x) + l
             t == From(c, l + 1)
             r == Separate[t][~v]
             h == Upto(c, k - 1)
             y == x \o c
  <2>2. /\ q.inside = r.inside /\ q.carry = r.carry /\ h \in Seq(Symbols) /\ t \in Seq(Symbols)
        /\ Full(q, v) = h \o Full(r, v) /\ Full(q, ~v) = Full(r, ~v)
    BY <1>1, <2>1, SomeSeparated, SMTT(30)
  <2>3. m \in 1..Len(y) /\ z \in 1..Len(y) /\ TagOn(y, m, z, v)
    <3>1. TagOn(c, k, l, v)
      BY <2>1 DEF FirstAt
    <3> QED BY <1>1, <3>1, TagShifts
  <2>4. ASSUME NEW j \in 1..Len(y), NEW g \in 1..Len(y), TagOn(y, j, g, v) PROVE m <= j
    <3>1. /\ j - Len(x) \in 1..Len(c) /\ g - Len(x) \in 1..Len(c)
          /\ TagOn(c, j - Len(x), g - Len(x), v)
      BY <1>b, <2>4
    <3>2. k <= j - Len(x)
      BY <2>1, <3>1 DEF FirstAt
    <3> QED BY <1>3, <3>2
  <2>5. FirstAt(y, m, z, v)
    <3> HIDE DEF y, m, z
    <3> QED BY <2>3, <2>4 DEF FirstAt
  <2>6. From(y, z + 1) = t /\ Upto(y, m - 1) = x \o h
    <3> HIDE DEF r, q, w, y
    <3>0. l + 1 \in 1..(Len(c) + 1) /\ l + 1 \in Nat /\ k - 1 \in Nat /\ Len(y) = Len(x) + Len(c)
      BY <1>3, <2>1 DEF y
    <3> DEFINE g == Len(x) + 1
               kn == l + 1
    <3>1. /\ g \in 1..(Len(y) + 1) /\ g \in 1..(Len(x) + 1) /\ kn \in 1..(Len(y) - g + 2) /\ g + kn - 1 = z + 1
      BY <1>3, <3>0
    <3> HIDE DEF g, kn
    <3>2. From(From(y, g), kn) = From(y, g + kn - 1)
      BY <1>3, <3>1, RestOfRest DEF y
    <3>3. From(y, g) = From(x, g) \o c
      BY <1>1, <3>1, PiecesOfBoth DEF y
    <3>4. From(x, g) \in Seq(Symbols) /\ Len(From(x, g)) = Len(x) - g + 1
      BY <1>1, <3>1, Pieces
    <3>5. From(x, g) = <<>>
      BY <1>3, <3>4, EmptySeq DEF g
    <3>6. <<>> \o c = c
      BY <1>1, ConcatEmptySeq
    <3>7. From(y, z + 1) = t
      BY <3>1, <3>2, <3>3, <3>5, <3>6 DEF kn
    <3>8. Upto(y, m - 1) = x \o h
      <4>0. m \in 1..(Len(y) + 1) /\ k \in 1..(Len(c) + 1) /\ m = Len(x) + k /\ m - 1 = Len(x) + (k - 1)
        BY <1>3, <3>0
      <4> HIDE DEF m
      <4>1. Upto(y, m - 1) \in Seq(Symbols) /\ Len(Upto(y, m - 1)) = m - 1 /\ \A j \in 1..(m - 1) : Upto(y, m - 1)[j] = y[j]
        BY <1>3, <4>0, Pieces DEF y
      <4>2. h \in Seq(Symbols) /\ Len(h) = k - 1 /\ \A j \in 1..(k - 1) : h[j] = c[j]
        BY <1>1, <4>0, Pieces
      <4> HIDE DEF h
      <4>3. /\ x \o h \in Seq(Symbols) /\ Len(x) \in Nat /\ Len(h) \in Nat /\ Len(x \o h) = Len(x) + Len(h)
            /\ \A j \in 1..Len(x) : (x \o h)[j] = x[j]
            /\ \A j \in 1..Len(h) : (x \o h)[Len(x) + j] = h[j]
        <5>1. x \in Seq(Symbols) /\ h \in Seq(Symbols)
          BY <1>1, <4>2
        <5> QED BY <5>1, Both, SMTT(30)
      <4>4. /\ \A j \in 1..Len(x) : y[j] = x[j]
            /\ \A j \in 1..Len(c) : y[Len(x) + j] = c[j]
        BY <1>1, Both DEF y
      <4> DEFINE ll == Upto(y, m - 1)
                 e == x \o h
      <4>5. Len(ll) = Len(e)
        BY <1>3, <4>0, <4>1, <4>2, <4>3
      <4>6. \A j \in 1..Len(ll) : ll[j] = e[j]
        <5> TAKE j \in 1..Len(ll)
        <5>0. j \in 1..(m - 1) /\ ll[j] = y[j]
          BY <4>1
        <5>1. CASE j \in 1..Len(x)
          BY <4>3, <4>4, <5>0, <5>1
        <5>2. CASE ~(j \in 1..Len(x))
          <6>1. j - Len(x) \in 1..(k - 1) /\ j - Len(x) \in 1..Len(c) /\ Len(x) + (j - Len(x)) = j
            BY <1>3, <4>0, <5>0, <5>2
          <6>2. e[j] = h[j - Len(x)] /\ h[j - Len(x)] = c[j - Len(x)] /\ y[j] = c[j - Len(x)]
            BY <4>2, <4>3, <4>4, <6>1
          <6> QED BY <5>0, <6>2
        <5> QED BY <5>1, <5>2
      <4> HIDE DEF ll, e
      <4>7. ll = e
        BY <4>1, <4>3, <4>5, <4>6, SeqEqual DEF ll, e
      <4> QED BY <4>7 DEF ll, e
    <3> QED BY <3>7, <3>8
  <2>7. /\ w.inside = r.inside /\ w.carry = r.carry
        /\ Full(w, v) = (x \o h) \o Full(r, v) /\ Full(w, ~v) = Full(r, ~v)
    <3>1. y \in Seq(Symbols)
      BY <1>3
    <3> HIDE DEF y, m, z, t, h
    <3>2. /\ Separate[y][v].inside = Separate[From(y, z + 1)][~v].inside
          /\ Separate[y][v].carry = Separate[From(y, z + 1)][~v].carry
          /\ Full(Separate[y][v], v) = Upto(y, m - 1) \o Full(Separate[From(y, z + 1)][~v], v)
          /\ Full(Separate[y][v], ~v) = Full(Separate[From(y, z + 1)][~v], ~v)
      BY <2>3, <2>5, <3>1, SomeSeparated
    <3> QED BY <2>6, <3>2 DEF y
  <2>8. Full(r, v) \in Seq(Symbols) /\ Full(r, ~v) \in Seq(Symbols)
    <3> HIDE DEF t
    <3> QED BY <2>2, PartsAre
  <2> DEFINE fr == Full(r, v)
             fn == Full(r, ~v)
  <2> HIDE DEF q, w, r, h, t, fr, fn
  <2>9. Full(w, v) = x \o Full(q, v)
    <3>a. Associates(Symbols)
      BY Regroup
    <3>b. fr \in Seq(Symbols)
      BY <2>8 DEF fr
    <3>1. (x \o h) \o fr = x \o (h \o fr)
      BY <1>1, <2>2, <3>a, <3>b, ZenonT(30) DEF Associates
    <3> QED BY <2>2, <2>7, <3>1 DEF fr
  <2>10. <<>> \o fn = fn
    BY <2>8, ConcatEmptySeq DEF fn
  <2>11. \A u \in BOOLEAN : Full(w, u) = Part(p, u) \o Full(q, u)
    <3>1. \A u \in BOOLEAN : u = v \/ u = ~v
      OBVIOUS
    <3>2. Full(w, v) = Part(p, v) \o Full(q, v)
      BY <1>2, <2>9
    <3>3. Full(w, ~v) = Part(p, ~v) \o Full(q, ~v)
      BY <1>2, <2>2, <2>7, <2>10 DEF fn
    <3> QED BY <3>1, <3>2, <3>3
  <2>12. Goes(p, q, w)
    BY <2>2, <2>7, <2>11 DEF Goes
  <2> QED BY <1>1, <1>2, <2>12 DEF p, q, w
<1> QED BY <1>5, <1>6

\* The text was cut anywhere.
LEMMA Resumed ==
    \A a, b \in Seq(Symbols), v \in BOOLEAN :
        Fits(a \o b) =>
            LET p == Separate[a][v]
            IN  Goes(p, Separate[p.carry \o b][p.inside], Separate[a \o b][v])
<1> DEFINE Holds(a, b, v) == LET p == Separate[a][v]
                             IN  Goes(p, Separate[p.carry \o b][p.inside], Separate[a \o b][v])
           T == {n \in Nat : \A a, b \in Seq(Symbols), v \in BOOLEAN :
                                (Len(a) = n /\ Fits(a \o b)) => Holds(a, b, v)}
<1>1. ASSUME NEW k \in Nat, \A m \in Nat : m < k => m \in T PROVE k \in T
  <2> SUFFICES ASSUME NEW a \in Seq(Symbols), NEW b \in Seq(Symbols), NEW v \in BOOLEAN, Len(a) = k, Fits(a \o b)
               PROVE  Holds(a, b, v)
    OBVIOUS
  <2>1. CASE NoTag(a, v)
    BY <2>1, ResumedAfterNone
  <2>2. CASE ~NoTag(a, v)
    <3>1. PICK i \in 1..Len(a), l \in 1..Len(a) : FirstAt(a, i, l, v)
      BY <2>2, FirstOrNone
    <3> DEFINE y == a \o b
               j == l + 1
               t == From(a, j)
               x == Upto(a, i - 1)
               p == Separate[a][v]
               pt == Separate[t][~v]
               q == Separate[p.carry \o b][p.inside]
               r == Separate[t \o b][~v]
               w == Separate[y][v]
    <3>2. /\ t \in Seq(Symbols) /\ Len(t) < Len(a) /\ x \in Seq(Symbols)
          /\ p.inside = pt.inside /\ p.carry = pt.carry
          /\ Part(p, v) = x \o Part(pt, v) /\ Part(p, ~v) = Part(pt, ~v)
      BY <3>1, SomeSeparated, SMTT(30)
    <3>3. i \in 1..Len(y) /\ l \in 1..Len(y) /\ FirstAt(y, i, l, v) /\ y \in Seq(Symbols)
      BY <3>1, FirstStays, Both
    <3>4. From(y, j) = t \o b /\ Upto(y, i - 1) = x
      <4>1. j \in 1..(Len(a) + 1) /\ i \in 1..(Len(a) + 1)
        BY <3>1, LenProperties
      <4> HIDE DEF j
      <4> QED BY <4>1, PiecesOfBoth
    <3>5. /\ w.inside = r.inside /\ w.carry = r.carry
          /\ Full(w, v) = x \o Full(r, v) /\ Full(w, ~v) = Full(r, ~v)
      <4> HIDE DEF y, x, t
      <4>1. /\ Separate[y][v].inside = Separate[From(y, j)][~v].inside
            /\ Separate[y][v].carry = Separate[From(y, j)][~v].carry
            /\ Full(Separate[y][v], v) = Upto(y, i - 1) \o Full(Separate[From(y, j)][~v], v)
            /\ Full(Separate[y][v], ~v) = Full(Separate[From(y, j)][~v], ~v)
        <5>1. From(y, l + 1) = From(y, j)
          OBVIOUS
        <5> HIDE DEF j
        <5>2. /\ Separate[y][v].inside = Separate[From(y, l + 1)][~v].inside
              /\ Separate[y][v].carry = Separate[From(y, l + 1)][~v].carry
              /\ Full(Separate[y][v], v) = Upto(y, i - 1) \o Full(Separate[From(y, l + 1)][~v], v)
              /\ Full(Separate[y][v], ~v) = Full(Separate[From(y, l + 1)][~v], ~v)
          BY <3>3, SomeSeparated
        <5> QED BY <5>1, <5>2
      <4> QED BY <3>4, <4>1
    <3>f. Fits(t \o b)
      <4> DEFINE z == Upto(y, j - 1)
                 s == From(y, j)
      <4>1. j \in 1..(Len(y) + 1)
        BY <3>3, LenProperties
      <4>2. Fits(y)
        OBVIOUS
      <4> HIDE DEF y, j
      <4>3. z \in Seq(Symbols) /\ s \in Seq(Symbols) /\ z \o s = y
        BY <3>3, <4>1, Pieces
      <4> HIDE DEF z, s
      <4>4. Fits(s)
        BY <4>2, <4>3, RestFits
      <4> QED BY <3>4, <4>4 DEF s
    <3>6. Goes(pt, Separate[pt.carry \o b][pt.inside], r)
      <4> HIDE DEF t
      <4>1. Len(t) \in Nat /\ Len(t) < k
        BY <3>2, LenProperties
      <4>2. Len(t) \in T
        BY <1>1, <4>1
      <4>3. Holds(t, b, ~v)
        BY <3>2, <3>f, <4>2
      <4> QED BY <4>3
    <3>7. Separate[pt.carry \o b][pt.inside] = q
      <4> HIDE DEF pt
      <4> QED BY <3>2
    <3>8. \A u \in BOOLEAN : Part(pt, u) \in Seq(Symbols)
      <4> HIDE DEF t
      <4> QED BY <3>2, PartsAre
    <3>9. \A u \in BOOLEAN : Full(q, u) \in Seq(Symbols)
      <4> DEFINE c == p.carry \o b
                 z == p.inside
      <4>1. p.carry \in Seq(Symbols) /\ z \in BOOLEAN
        BY PartsAre
      <4>2. c \in Seq(Symbols)
        <5> HIDE DEF p
        <5> QED BY <4>1, ConcatProperties
      <4> HIDE DEF c, z
      <4>3. \A u \in BOOLEAN : Full(Separate[c][z], u) \in Seq(Symbols)
        BY <4>1, <4>2, PartsAre
      <4> QED BY <4>3 DEF c, z
    <3> HIDE DEF w, r, p, pt, x, t
    <3>10. Goes(pt, q, r)
      BY <3>6, <3>7
    <3> HIDE DEF q
    <3>11. w.inside = q.inside
      BY <3>5, <3>10 DEF Goes
    <3>12. Full(w, ~v) = Part(p, ~v) \o Full(q, ~v)
      BY <3>2, <3>5, <3>10 DEF Goes
    <3>13. Full(w, v) = Part(p, v) \o Full(q, v)
      <4> DEFINE e == Part(pt, v)
                 f == Full(q, v)
      <4>1. e \in Seq(Symbols) /\ f \in Seq(Symbols)
        BY <3>8, <3>9
      <4>2. Full(r, v) = e \o f
        BY <3>10 DEF Goes
      <4> HIDE DEF e, f
      <4>a. Associates(Symbols)
        BY Regroup
      <4>3. (x \o e) \o f = x \o (e \o f)
        BY <3>2, <4>1, <4>a, SMTT(30) DEF Associates
      <4> QED BY <3>2, <3>5, <4>2, <4>3 DEF e, f
    <3>14. \A u \in BOOLEAN : Full(w, u) = Part(p, u) \o Full(q, u)
      <4>1. \A u \in BOOLEAN : u = v \/ u = ~v
        OBVIOUS
      <4> QED BY <3>12, <3>13, <4>1
    <3>15. Goes(p, q, w)
      BY <3>11, <3>14 DEF Goes
    <3> QED BY <3>15 DEF p, q, w
  <2> QED BY <2>1, <2>2
<1> HIDE DEF T
<1>2. Nat \subseteq T
  BY <1>1, Strongly
<1>3. \A a, b \in Seq(Symbols), v \in BOOLEAN : Fits(a \o b) => Holds(a, b, v)
  <2> HIDE DEF Holds
  <2> QED BY <1>2, LenProperties DEF T
<1> QED BY <1>3

\* What is held back stays held back as long as nothing follows.
Resting(c, v) ==
    LET r == Separate[c][v]
    IN  r.inside = v /\ r.carry = c /\ Part(r, v) = <<>> /\ Part(r, ~v) = <<>>

\* What a text without the tag leaves to hold back.
LEMMA HeldRests ==
    ASSUME NEW a \in Seq(Symbols), NEW v \in BOOLEAN, NoTag(a, v)
    PROVE  Resting(From(a, PartialFrom(a)), v)
<1> DEFINE i == PartialFrom(a)
           c == From(a, i)
<1>1. Len(a) \in Nat /\ i \in 1..(Len(a) + 1)
  BY HeldBack, LenProperties
<1>2. /\ i <= Len(a) => /\ a[i] = "<" /\ \A k \in (i + 1)..Len(a) : a[k] # "<"
                        /\ Len(a) - i + 1 <= MaxTag /\ ~WholeTag(a, i)
  BY HeldBack
<1>3. /\ c \in Seq(Symbols) /\ Len(c) = Len(a) - i + 1 /\ \A k \in 1..(Len(a) - i + 1) : c[k] = a[i + k - 1]
      /\ Upto(a, i - 1) \in Seq(Symbols) /\ Len(Upto(a, i - 1)) = i - 1 /\ Upto(a, i - 1) \o c = a
  <2> HIDE DEF i
  <2> QED BY <1>1, Pieces
<1>4. NoTag(c, v)
  <2> SUFFICES ASSUME NEW j \in 1..Len(c), NEW l \in 1..Len(c), TagOn(c, j, l, v) PROVE FALSE
    BY DEF NoTag
  <2> DEFINE x == Upto(a, i - 1)
             m == Len(x) + j
             z == Len(x) + l
  <2>0. TagOn(c, j, l, v) /\ j \in 1..Len(c) /\ l \in 1..Len(c)
    OBVIOUS
  <2> HIDE DEF c, x
  <2>1. m \in 1..Len(x \o c) /\ z \in 1..Len(x \o c) /\ TagOn(x \o c, m, z, v)
    BY <1>3, <2>0, TagShifts DEF x
  <2> QED BY <1>3, <2>1 DEF NoTag, x
<1> DEFINE r == Separate[c][v]
           k == PartialFrom(c)
<1>5. r.inside = v /\ r.carry = From(c, k) /\ Part(r, v) = Upto(c, k - 1) /\ Part(r, ~v) = <<>>
  <2> HIDE DEF c
  <2> QED BY <1>3, <1>4, NoneSeparated
<1>6. k = 1
  <2>1. CASE i <= Len(a)
    <3> HIDE DEF i, c
    <3>1. 1 \in 1..Len(c) /\ c[1] = "<" /\ Len(c) - 1 + 1 <= MaxTag
      <4>1. 1 \in 1..(Len(a) - i + 1) /\ i + 1 - 1 = i
        BY <1>1, <2>1
      <4>2. MaxTag \in Nat
        BY SegmenterAssumption
      <4> QED BY <1>1, <1>2, <1>3, <2>1, <4>1, <4>2
    <3>2. \A j \in (1 + 1)..Len(c) : c[j] # "<"
      <4> TAKE j \in (1 + 1)..Len(c)
      <4>1. j \in 1..(Len(a) - i + 1) /\ i + j - 1 \in (i + 1)..Len(a)
        BY <1>1, <1>3
      <4> QED BY <1>2, <1>3, <2>1, <4>1
    <3>3. ~WholeTag(c, 1)
      <4> SUFFICES ASSUME NEW u \in BOOLEAN, TagOn(c, 1, Len(c), u) PROVE FALSE
        BY DEF WholeTag
      <4> DEFINE x == Upto(a, i - 1)
      <4> HIDE DEF x
      <4>1. 1 \in 1..Len(c) /\ Len(c) \in 1..Len(c)
        BY <1>3, <3>1, LenProperties
      <4>2. TagOn(x \o c, Len(x) + 1, Len(x) + Len(c), u)
        BY <1>3, <4>1, TagShifts DEF x
      <4>3. Len(x) + 1 = i /\ Len(x) + Len(c) = Len(a) /\ x \o c = a
        <5>1. Len(x) = i - 1 /\ x \o c = a
          BY <1>3 DEF x
        <5>2. Len(c) = Len(a) - i + 1
          BY <1>3
        <5>3. i \in Nat
          BY <1>1
        <5> QED BY <1>1, <5>1, <5>2, <5>3
      <4>4. TagOn(a, i, Len(a), u)
        BY <4>2, <4>3
      <4> QED BY <1>2, <2>1, <4>4 DEF WholeTag
    <3> DEFINE o == 1
    <3>4. o \in 1..Len(c) /\ c[o] = "<" /\ Len(c) - o + 1 <= MaxTag /\ ~WholeTag(c, o)
      BY <3>1, <3>3
    <3>5. \A j \in (o + 1)..Len(c) : c[j] # "<"
      BY <3>2
    <3> HIDE DEF o
    <3>6. PartialFrom(c) = o
      BY <1>3, <3>4, <3>5, HeldBackFrom
    <3> QED BY <3>6 DEF o
  <2>2. CASE ~(i <= Len(a))
    <3>1. k \in 1..(Len(c) + 1)
      <4> HIDE DEF c
      <4> QED BY <1>3, HeldBack
    <3> HIDE DEF i, c, k
    <3> QED BY <1>1, <1>3, <2>2, <3>1
  <2> QED BY <2>1, <2>2
<1>7. From(c, 1) = c /\ Upto(c, 1 - 1) = <<>>
  <2> HIDE DEF c
  <2> DEFINE o == 1
  <2>1. o \in 1..(Len(c) + 1)
    BY <1>3, LenProperties
  <2> HIDE DEF o
  <2>2. Upto(c, o - 1) \in Seq(Symbols) /\ Len(Upto(c, o - 1)) = o - 1
    BY <1>3, <2>1, Pieces
  <2>3. Upto(c, o - 1) = <<>>
    <3>1. o - 1 = 0
      BY DEF o
    <3> QED BY <2>2, <3>1, EmptySeq
  <2>4. SubSeq(c, 1, Len(c)) = c
    BY <1>3, SubSeqFull
  <2> QED BY <2>3, <2>4 DEF From, o
<1> HIDE DEF c, k, r, i
<1>8. r.inside = v /\ r.carry = c /\ Part(r, v) = <<>> /\ Part(r, ~v) = <<>>
  BY <1>5, <1>6, <1>7
<1> QED BY <1>8 DEF Resting, r, c, i

\* What any text leaves to hold back.
LEMMA CarryRests ==
    \A a \in Seq(Symbols), v \in BOOLEAN : Resting(Separate[a][v].carry, Separate[a][v].inside)
<1> DEFINE Holds(a, v) == Resting(Separate[a][v].carry, Separate[a][v].inside)
           T == {n \in Nat : \A a \in Seq(Symbols), v \in BOOLEAN : Len(a) = n => Holds(a, v)}
<1>1. ASSUME NEW k \in Nat, \A m \in Nat : m < k => m \in T PROVE k \in T
  <2> SUFFICES ASSUME NEW a \in Seq(Symbols), NEW v \in BOOLEAN, Len(a) = k PROVE Holds(a, v)
    OBVIOUS
  <2>1. CASE NoTag(a, v)
    <3>1. Separate[a][v].inside = v /\ Separate[a][v].carry = From(a, PartialFrom(a))
      BY <2>1, NoneSeparated
    <3> QED BY <2>1, <3>1, HeldRests
  <2>2. CASE ~NoTag(a, v)
    <3>1. PICK i \in 1..Len(a), l \in 1..Len(a) : FirstAt(a, i, l, v)
      BY <2>2, FirstOrNone
    <3> DEFINE t == From(a, l + 1)
    <3>2. /\ t \in Seq(Symbols) /\ Len(t) < Len(a)
          /\ Separate[a][v].inside = Separate[t][~v].inside
          /\ Separate[a][v].carry = Separate[t][~v].carry
      BY <3>1, SomeSeparated
    <3> HIDE DEF t
    <3>3. Len(t) \in Nat /\ Len(t) < k
      BY <3>2, LenProperties
    <3>4. Len(t) \in T
      BY <1>1, <3>3
    <3>5. Holds(t, ~v)
      BY <3>2, <3>4
    <3> QED BY <3>2, <3>5
  <2> QED BY <2>1, <2>2
<1> HIDE DEF T
<1>2. Nat \subseteq T
  BY <1>1, Strongly
<1>3. \A a \in Seq(Symbols), v \in BOOLEAN : Holds(a, v)
  <2> HIDE DEF Holds
  <2> QED BY <1>2, LenProperties DEF T
<1> QED BY <1>3

\* What is held back is the end of the text.
LEMMA CarryIsEnd ==
    \A a \in Seq(Symbols), v \in BOOLEAN : \E x \in Seq(Symbols) : a = x \o Separate[a][v].carry
<1> DEFINE Holds(a, v) == \E x \in Seq(Symbols) : a = x \o Separate[a][v].carry
           T == {n \in Nat : \A a \in Seq(Symbols), v \in BOOLEAN : Len(a) = n => Holds(a, v)}
<1>1. ASSUME NEW k \in Nat, \A m \in Nat : m < k => m \in T PROVE k \in T
  <2> SUFFICES ASSUME NEW a \in Seq(Symbols), NEW v \in BOOLEAN, Len(a) = k PROVE Holds(a, v)
    OBVIOUS
  <2>1. CASE NoTag(a, v)
    <3> DEFINE i == PartialFrom(a)
               x == Upto(a, i - 1)
    <3>1. Separate[a][v].carry = From(a, i)
      BY <2>1, NoneSeparated
    <3>2. i \in 1..(Len(a) + 1)
      BY HeldBack
    <3> HIDE DEF i
    <3>3. x \in Seq(Symbols) /\ x \o From(a, i) = a
      BY <3>2, Pieces
    <3> HIDE DEF x
    <3> QED BY <3>1, <3>3
  <2>2. CASE ~NoTag(a, v)
    <3>1. PICK i \in 1..Len(a), l \in 1..Len(a) : FirstAt(a, i, l, v)
      BY <2>2, FirstOrNone
    <3> DEFINE j == l + 1
               t == From(a, j)
               z == Upto(a, j - 1)
               c == Separate[t][~v].carry
    <3>2. t \in Seq(Symbols) /\ Len(t) < Len(a) /\ Separate[a][v].carry = c
      BY <3>1, SomeSeparated
    <3>3. z \in Seq(Symbols) /\ z \o t = a
      <4>1. j \in 1..(Len(a) + 1)
        BY LenProperties
      <4> HIDE DEF j
      <4> QED BY <4>1, Pieces
    <3>4. c \in Seq(Symbols)
      <4> HIDE DEF t
      <4> QED BY <3>2, PartsAre
    <3>5. \E x \in Seq(Symbols) : t = x \o c
      <4> HIDE DEF t
      <4>1. Len(t) \in Nat /\ Len(t) < k
        BY <3>2, LenProperties
      <4>2. Len(t) \in T
        BY <1>1, <4>1
      <4>3. Holds(t, ~v)
        BY <3>2, <4>2
      <4> QED BY <4>3
    <3> HIDE DEF t, z, c
    <3>6. PICK x \in Seq(Symbols) : t = x \o c
      BY <3>5
    <3>a. Associates(Symbols)
      BY Regroup
    <3>7. z \o (x \o c) = (z \o x) \o c /\ z \o x \in Seq(Symbols)
      BY <3>3, <3>4, <3>a, ConcatProperties DEF Associates
    <3> DEFINE y == z \o x
    <3>8. y \in Seq(Symbols) /\ a = y \o Separate[a][v].carry
      BY <3>2, <3>3, <3>6, <3>7
    <3> HIDE DEF y
    <3> QED BY <3>8
  <2> QED BY <2>1, <2>2
<1> HIDE DEF T
<1>2. Nat \subseteq T
  BY <1>1, Strongly
<1>3. \A a \in Seq(Symbols), v \in BOOLEAN : Holds(a, v)
  <2> HIDE DEF Holds
  <2> QED BY <1>2, LenProperties DEF T
<1> QED BY <1>3

\* What was let through or set aside so far.
Got(u) == IF u THEN reasoning ELSE answer

\* Separating b now gives what separating it after the whole text would.
Continues(b) ==
    LET q == Separate[carry \o b][inside]
        w == Separate[text \o b][FALSE]
    IN  /\ w.inside = q.inside
        /\ \A u \in BOOLEAN : Full(w, u) = Got(u) \o Full(q, u)

\* What values the variables of the separation take.
TagTypes ==
    /\ alphabet \subseteq Symbols
    /\ text \in Seq(Symbols) /\ answer \in Seq(Symbols) /\ reasoning \in Seq(Symbols)
    /\ carry \in Seq(Symbols) /\ held \in Seq(Symbols) /\ inside \in BOOLEAN /\ finished \in BOOLEAN

\* What is held back is the end of the text.
CarryEnds == \E x \in Seq(Symbols) : text = x \o carry

\* Whatever may follow separates as if it followed the whole text, as long as
\* the tags fit.
TagInv ==
    /\ TagTypes
    /\ ~finished => /\ Resting(carry, inside) /\ CarryEnds
                    /\ \A b \in Seq(Symbols) : Fits(text \o b) => Continues(b)
    /\ finished => ReasoningIsSeparated

\* It holds at the beginning.
LEMMA TagInvInit == SegmenterInit => TagInv
<1> SUFFICES ASSUME SegmenterInit PROVE TagInv
  OBVIOUS
<1>1. TagTypes
  <2>1. alphabet \subseteq Symbols
    BY SegmenterAssumption DEF SegmenterInit
  <2>2. <<>> \in Seq(Symbols)
    OBVIOUS
  <2> QED BY <2>1, <2>2 DEF SegmenterInit, TagTypes
<1>2. Resting(carry, inside)
  <2>1. carry = <<>> /\ inside = FALSE
    BY DEF SegmenterInit
  <2>2. Resting(<<>>, FALSE)
    <3> DEFINE r == Separate[<<>>][FALSE]
    <3>1. r.inside = FALSE /\ r.carry = <<>> /\ \A u \in BOOLEAN : Part(r, u) = <<>>
      BY EmptySeparated
    <3> HIDE DEF r
    <3>2. r.inside = FALSE /\ r.carry = <<>> /\ Part(r, FALSE) = <<>> /\ Part(r, TRUE) = <<>> /\ ~FALSE = TRUE
      BY <3>1
    <3> QED BY <3>2 DEF Resting, r
  <2> QED BY <2>1, <2>2
<1>3. ASSUME NEW b \in Seq(Symbols) PROVE Continues(b)
  <2>1. carry = <<>> /\ text = <<>> /\ inside = FALSE /\ answer = <<>> /\ reasoning = <<>>
    BY DEF SegmenterInit
  <2>2. <<>> \o b = b
    BY ConcatEmptySeq
  <2> DEFINE w == Separate[b][FALSE]
  <2>3. \A u \in BOOLEAN : Full(w, u) \in Seq(Symbols)
    BY PartsAre
  <2>4. carry \o b = b /\ text \o b = b
    BY <2>1, <2>2
  <2>5. Separate[carry \o b][inside] = w /\ Separate[text \o b][FALSE] = w
    BY <2>1, <2>4
  <2> HIDE DEF w
  <2>6. \A u \in BOOLEAN : Full(w, u) = Got(u) \o Full(w, u)
    <3> TAKE u \in BOOLEAN
    <3> DEFINE f == Full(w, u)
    <3>1. f \in Seq(Symbols)
      BY <2>3
    <3>2. Got(u) = <<>>
      BY <2>1 DEF Got
    <3> HIDE DEF f
    <3>3. <<>> \o f = f
      BY <3>1, ConcatEmptySeq
    <3> QED BY <3>2, <3>3 DEF f
  <2> QED BY <2>5, <2>6 DEF Continues
<1>4. CarryEnds
  <2>1. carry = <<>> /\ text = <<>>
    BY DEF SegmenterInit
  <2>2. <<>> \in Seq(Symbols) /\ <<>> \o <<>> = <<>>
    OBVIOUS
  <2> QED BY <2>1, <2>2 DEF CarryEnds
<1>5. finished = FALSE
  BY DEF SegmenterInit
<1> QED BY <1>1, <1>2, <1>3, <1>4, <1>5 DEF TagInv

\* A chunk is a text.
LEMMA ChunkIs ==
    ASSUME alphabet \subseteq Symbols, NEW chunk \in Chunks
    PROVE  chunk \in Seq(Symbols) /\ chunk # <<>>
<1>1. PICK n \in 1..MaxChunk : chunk \in [1..n -> alphabet]
  BY DEF Chunks
<1>2. MaxChunk \in Nat /\ n \in Nat /\ n # 0
  BY SegmenterAssumption
<1>3. chunk \in [1..n -> Symbols]
  BY <1>1
<1>4. chunk \in Seq(Symbols) /\ Len(chunk) = n
  BY <1>2, <1>3, SeqDef, LenProperties
<1> QED BY <1>2, <1>4

\* What Push does to the tags.
Pushed(chunk) ==
    LET parts == Separate[carry \o chunk][inside]
    IN  /\ finished' = FALSE /\ text' = text \o chunk
        /\ carry' = parts.carry /\ inside' = parts.inside
        /\ reasoning' = reasoning \o parts.aside /\ answer' = answer \o parts.answer
        /\ alphabet' = alphabet /\ held' = held

\* A push keeps it.
LEMMA TagInvPush ==
    ASSUME TagInv, ~finished, NEW chunk \in Chunks, Pushed(chunk)
    PROVE  TagInv'
<1> DEFINE a == carry \o chunk
           p == Separate[a][inside]
<1>1. chunk \in Seq(Symbols) /\ a \in Seq(Symbols) /\ inside \in BOOLEAN /\ text \in Seq(Symbols) /\ carry \in Seq(Symbols)
      /\ answer \in Seq(Symbols) /\ reasoning \in Seq(Symbols) /\ held \in Seq(Symbols)
  BY ChunkIs, ConcatProperties DEF TagInv, TagTypes
<1>2. p \in Parts /\ p.carry \in Seq(Symbols) /\ p.inside \in BOOLEAN /\ \A u \in BOOLEAN : Part(p, u) \in Seq(Symbols)
  <2> HIDE DEF a
  <2> QED BY <1>1, PartsAre
<1>3. finished' = FALSE /\ text' = text \o chunk /\ carry' = p.carry /\ inside' = p.inside
      /\ reasoning' = reasoning \o p.aside /\ answer' = answer \o p.answer /\ alphabet' = alphabet
      /\ held' = held
  BY DEF Pushed
<1>4. Resting(p.carry, p.inside)
  <2> HIDE DEF a
  <2> QED BY <1>1, CarryRests
<1>5. \A u \in BOOLEAN : Got(u)' = Got(u) \o Part(p, u)
  <2> HIDE DEF p
  <2> QED BY <1>3 DEF Got, Part
<1>6. \A b \in Seq(Symbols) : Fits(a \o b) => Goes(p, Separate[p.carry \o b][p.inside], Separate[a \o b][inside])
  <2> HIDE DEF a
  <2> QED BY <1>1, Resumed
<1>7. TagTypes'
  <2> HIDE DEF p
  <2>1. p.aside \in Seq(Symbols) /\ p.answer \in Seq(Symbols)
    BY <1>2 DEF Parts
  <2>2. (text \o chunk) \in Seq(Symbols) /\ (reasoning \o p.aside) \in Seq(Symbols) /\ (answer \o p.answer) \in Seq(Symbols)
    BY <1>1, <2>1, ConcatProperties
  <2> QED BY <1>2, <1>3, <2>2 DEF TagInv, TagTypes
<1>8. ASSUME NEW b \in Seq(Symbols), Fits(text' \o b) PROVE Continues(b)'
  <2> DEFINE c == chunk \o b
             q == Separate[p.carry \o b][p.inside]
             r == Separate[a \o b][inside]
             w == Separate[(text \o chunk) \o b][FALSE]
  <2>a. Associates(Symbols)
    BY Regroup
  <2>1. c \in Seq(Symbols)
    BY <1>1, ConcatProperties
  <2>2. a \o b = carry \o c /\ (text \o chunk) \o b = text \o c
    <3>1. carry \in Seq(Symbols) /\ text \in Seq(Symbols) /\ chunk \in Seq(Symbols)
      BY <1>1
    <3>2. (carry \o chunk) \o b = carry \o (chunk \o b)
      BY <2>a, <3>1 DEF Associates
    <3>3. (text \o chunk) \o b = text \o (chunk \o b)
      BY <2>a, <3>1 DEF Associates
    <3> QED BY <3>2, <3>3
  <2>f. Fits(text \o c) /\ Fits(a \o b)
    <3>1. Fits(text \o c)
      <4> HIDE DEF c
      <4> QED BY <1>3, <1>8, <2>2
    <3> HIDE DEF c
    <3>2. PICK x \in Seq(Symbols) : text = x \o carry
      BY DEF TagInv, CarryEnds
    <3> DEFINE d == carry \o c
    <3>3. d \in Seq(Symbols) /\ text \o c = x \o d
      <4>1. carry \in Seq(Symbols)
        BY <1>1
      <4>2. (x \o carry) \o c = x \o (carry \o c)
        BY <2>a, <2>1, <4>1 DEF Associates
      <4> QED BY <2>1, <3>2, <4>1, <4>2, ConcatProperties
    <3> HIDE DEF d
    <3>4. Fits(d)
      <4>1. Fits(x \o d)
        BY <3>1, <3>3
      <4> QED BY <3>3, <4>1, RestFits
    <3> QED BY <2>2, <3>1, <3>4 DEF d
  <2>3. Goes(p, q, r)
    BY <1>6, <2>f
  <2>4. Continues(c)
    <3> HIDE DEF c
    <3> QED BY <2>1, <2>f DEF TagInv
  <2>5. Separate[carry \o c][inside] = r /\ Separate[text \o c][FALSE] = w
    <3> HIDE DEF c, a
    <3> QED BY <2>2
  <2> HIDE DEF c, w, r
  <2>6. w.inside = r.inside /\ (\A u \in BOOLEAN : Full(w, u) = Got(u) \o Full(r, u))
    BY <2>4, <2>5 DEF Continues
  <2>7. \A u \in BOOLEAN : Full(q, u) \in Seq(Symbols)
    <3> DEFINE d == p.carry \o b
               z == p.inside
    <3>1. d \in Seq(Symbols) /\ z \in BOOLEAN
      <4> HIDE DEF p
      <4> QED BY <1>2, ConcatProperties
    <3> HIDE DEF d, z
    <3>2. \A u \in BOOLEAN : Full(Separate[d][z], u) \in Seq(Symbols)
      BY <3>1, PartsAre
    <3> QED BY <3>2 DEF d, z
  <2>8. Separate[carry' \o b][inside'] = q /\ Separate[text' \o b][FALSE] = w
    <3> HIDE DEF p
    <3> QED BY <1>3 DEF w
  <2> HIDE DEF p, q
  <2>9. \A u \in BOOLEAN : Full(w, u) = Got(u)' \o Full(q, u)
    <3> TAKE u \in BOOLEAN
    <3> DEFINE g == Got(u)
               e == Part(p, u)
               f == Full(q, u)
    <3>1. g \in Seq(Symbols) /\ e \in Seq(Symbols) /\ f \in Seq(Symbols)
      BY <1>1, <1>2, <2>7 DEF Got
    <3>2. Full(w, u) = g \o (e \o f) /\ Got(u)' = g \o e
      BY <1>5, <2>3, <2>6 DEF Goes
    <3> HIDE DEF g, e, f
    <3>3. (g \o e) \o f = g \o (e \o f)
      BY <2>a, <3>1 DEF Associates
    <3> QED BY <3>2, <3>3 DEF f
  <2>10. w.inside = q.inside
    BY <2>3, <2>6 DEF Goes
  <2> QED BY <2>8, <2>9, <2>10 DEF Continues
<1>e. CarryEnds'
  <2>1. PICK x \in Seq(Symbols) : text = x \o carry
    BY DEF TagInv, CarryEnds
  <2>2. \E y \in Seq(Symbols) : a = y \o p.carry
    <3> HIDE DEF a
    <3> QED BY <1>1, CarryIsEnd
  <2> HIDE DEF p
  <2>3. PICK y \in Seq(Symbols) : a = y \o p.carry
    BY <2>2
  <2> DEFINE c == p.carry
             z == x \o y
  <2>4. c \in Seq(Symbols)
    BY <1>2
  <2> HIDE DEF c
  <2>a. Associates(Symbols)
    BY Regroup
  <2>5. (x \o carry) \o chunk = x \o (carry \o chunk) /\ (x \o y) \o c = x \o (y \o c)
    <3>1. carry \in Seq(Symbols) /\ chunk \in Seq(Symbols)
      BY <1>1
    <3> QED BY <2>a, <2>4, <3>1, ZenonT(30) DEF Associates
  <2>6. z \in Seq(Symbols) /\ text' = z \o carry'
    <3>1. z \in Seq(Symbols)
      BY ConcatProperties
    <3>2. text' = (x \o carry) \o chunk /\ carry' = c /\ carry \o chunk = y \o c
      BY <1>3, <2>1, <2>3 DEF c
    <3> HIDE DEF a
    <3> QED BY <2>5, <3>1, <3>2
  <2> HIDE DEF z
  <2> QED BY <2>6 DEF CarryEnds
<1> HIDE DEF p
<1>9. Resting(carry', inside')
  BY <1>3, <1>4
<1>10. (\A b \in Seq(Symbols) : Fits(text \o b) => Continues(b))'
  BY <1>8
<1>11. finished' = FALSE
  BY <1>3
<1> QED BY <1>7, <1>9, <1>10, <1>11, <1>e DEF TagInv

\* With behind held back, the text has been separated as by one push of the whole.
Separated(behind) ==
    TagsFit(text) =>
        LET whole == Separate[text][FALSE]
            heldBack(isInside, c) == IF isInside THEN [answer |-> <<>>, aside |-> c]
                                                 ELSE [answer |-> c, aside |-> <<>>]
        IN  /\ inside = whole.inside
            /\ answer \o heldBack(inside, behind).answer
                   = whole.answer \o heldBack(whole.inside, whole.carry).answer
            /\ reasoning \o heldBack(inside, behind).aside
                   = whole.aside \o heldBack(whole.inside, whole.carry).aside

\* The property, with what is held back last.
LEMMA SeparatedIs == ReasoningIsSeparated <=> Separated(IF finished THEN held ELSE carry)
BY DEF ReasoningIsSeparated, Separated

\* The exception of the property, in the terms of the proof.
LEMMA FitsIs == ASSUME NEW s \in Seq(Symbols), TagsFit(s) PROVE Fits(s)
<1> SUFFICES ASSUME NEW i \in 1..Len(s), NEW j \in 1..Len(s), NEW u \in BOOLEAN, TagOn(s, i, j, u)
             PROVE  j - i <= MaxTag
  BY DEF Fits
<1>1. i \in DOMAIN s /\ j \in DOMAIN s
  BY LenProperties
<1>2. Tag(u) \in {OpenTag, CloseTag} /\ TagAt(s, i, j, Tag(u))
  BY DEF Tag, TagOn
<1> QED BY <1>1, <1>2 DEF TagsFit

\* A text separates as one push of the whole of it.
LEMMA OpenSeparates == ASSUME TagInv, ~finished PROVE Separated(carry)
<1> SUFFICES ASSUME TagsFit(text) PROVE Separated(carry)
  BY DEF Separated
<1> DEFINE e == <<>>
           w == Separate[text][FALSE]
           q == Separate[carry][inside]
<1>1. e \in Seq(Symbols) /\ text \in Seq(Symbols) /\ carry \in Seq(Symbols) /\ inside \in BOOLEAN
      /\ answer \in Seq(Symbols) /\ reasoning \in Seq(Symbols)
  BY DEF TagInv, TagTypes
<1>2. text \o e = text /\ carry \o e = carry
  BY <1>1, ConcatEmptySeq
<1>3. Continues(e)
  <2>1. Fits(text \o e)
    BY <1>1, <1>2, FitsIs
  <2> HIDE DEF e
  <2> QED BY <1>1, <2>1 DEF TagInv
<1>4. Resting(carry, inside)
  BY DEF TagInv
<1>5. w \in Parts
  BY <1>1, PartsAre
<1> HIDE DEF e
<1>6. w.inside = q.inside /\ (\A u \in BOOLEAN : Full(w, u) = Got(u) \o Full(q, u))
  BY <1>2, <1>3 DEF Continues
<1>7. q.inside = inside /\ q.carry = carry /\ Part(q, inside) = <<>> /\ Part(q, ~inside) = <<>>
  BY <1>4 DEF Resting
<1> HIDE DEF w, q
<1>8. <<>> \o carry = carry
  BY <1>1, ConcatEmptySeq
<1>9. Full(q, inside) = carry /\ Full(q, ~inside) = <<>>
  BY <1>1, <1>7, <1>8 DEF Full
<1>10. w.answer \in Seq(Symbols) /\ w.aside \in Seq(Symbols)
  BY <1>5 DEF Parts
<1>11. w.answer \o <<>> = w.answer /\ w.aside \o <<>> = w.aside
  BY <1>10, ConcatEmptySeq
<1>12. Full(w, FALSE) = answer \o Full(q, FALSE) /\ Full(w, TRUE) = reasoning \o Full(q, TRUE)
  BY <1>6 DEF Got
<1> DEFINE whole == Separate[text][FALSE]
           heldBack(isInside, c) == IF isInside THEN [answer |-> <<>>, aside |-> c]
                                            ELSE [answer |-> c, aside |-> <<>>]
<1>13. inside = w.inside
  BY <1>6, <1>7
<1>14. answer \o heldBack(inside, carry).answer = w.answer \o heldBack(w.inside, w.carry).answer
  <2>1. CASE inside
    <3>1. Full(w, FALSE) = w.answer /\ Full(q, FALSE) = <<>>
      BY <1>9, <1>13, <2>1 DEF Full, Part
    <3> QED BY <1>11, <1>12, <1>13, <2>1, <3>1
  <2>2. CASE ~inside
    <3>1. Full(w, FALSE) = w.answer \o w.carry /\ Full(q, FALSE) = carry
      BY <1>1, <1>9, <1>13, <2>2 DEF Full, Part
    <3> QED BY <1>12, <1>13, <2>2, <3>1
  <2> QED BY <2>1, <2>2
<1>15. reasoning \o heldBack(inside, carry).aside = w.aside \o heldBack(w.inside, w.carry).aside
  <2>1. CASE inside
    <3>1. Full(w, TRUE) = w.aside \o w.carry /\ Full(q, TRUE) = carry
      BY <1>1, <1>9, <1>13, <2>1 DEF Full, Part
    <3> QED BY <1>12, <1>13, <2>1, <3>1
  <2>2. CASE ~inside
    <3>1. Full(w, TRUE) = w.aside /\ Full(q, TRUE) = <<>>
      BY <1>1, <1>9, <1>13, <2>2 DEF Full, Part
    <3> QED BY <1>11, <1>12, <1>13, <2>2, <3>1
  <2> QED BY <2>1, <2>2
<1> QED BY <1>13, <1>14, <1>15 DEF Separated, w

\* The invariant has the property in it, before the end and after it.
LEMMA TagInvSeparates == TagInv => ReasoningIsSeparated
<1> SUFFICES ASSUME TagInv, ~finished PROVE ReasoningIsSeparated
  BY DEF TagInv
<1>1. Separated(carry)
  BY OpenSeparates
<1> QED BY <1>1, SeparatedIs

\* Every step keeps it.
LEMMA TagInvStep == TagInv /\ [SegmenterNext]_segmenterVars => TagInv'
<1> SUFFICES ASSUME TagInv, [SegmenterNext]_segmenterVars PROVE TagInv'
  OBVIOUS
<1>1. ASSUME ~finished, NEW chunk \in Chunks, Push(chunk) PROVE TagInv'
  <2>1. Pushed(chunk)
    BY <1>1 DEF Push, Pushed
  <2> QED BY <1>1, <2>1, TagInvPush
<1>2. CASE Flush
  <2>1. /\ ~finished /\ finished' = TRUE /\ carry' = <<>> /\ held' = carry /\ text' = text /\ alphabet' = alphabet
        /\ inside' = inside /\ reasoning' = reasoning /\ answer' = answer
    BY <1>2 DEF Flush, textVars
  <2>2. <<>> \in Seq(Symbols)
    OBVIOUS
  <2>3. TagTypes'
    BY <2>1, <2>2 DEF TagInv, TagTypes
  <2>4. Separated(carry)
    BY <2>1, OpenSeparates
  <2>5. ReasoningIsSeparated'
    <3>1. Separated(held)'
      BY <2>1, <2>4 DEF Separated
    <3> QED BY <2>1, <3>1 DEF ReasoningIsSeparated, Separated
  <2> QED BY <2>1, <2>3, <2>5 DEF TagInv
<1>3. CASE UNCHANGED segmenterVars
  <2>1. /\ finished' = finished /\ carry' = carry /\ held' = held /\ text' = text /\ alphabet' = alphabet
        /\ inside' = inside /\ reasoning' = reasoning /\ answer' = answer
    BY <1>3 DEF segmenterVars, textVars, tagVars
  <2>2. TagTypes'
    BY <2>1 DEF TagInv, TagTypes
  <2>3. ~finished => Resting(carry', inside') /\ CarryEnds'
    BY <2>1 DEF TagInv, CarryEnds
  <2>4. ASSUME NEW b \in Seq(Symbols), Continues(b) PROVE Continues(b)'
    BY <2>1, <2>4 DEF Continues, Got
  <2>5. ReasoningIsSeparated => ReasoningIsSeparated'
    BY <2>1 DEF ReasoningIsSeparated
  <2>6. ~finished => (\A b \in Seq(Symbols) : Fits(text \o b) => Continues(b))'
    BY <2>1, <2>4 DEF TagInv
  <2>7. finished => ReasoningIsSeparated
    BY DEF TagInv
  <2> QED BY <2>1, <2>2, <2>3, <2>5, <2>6, <2>7 DEF TagInv
<1> QED BY <1>1, <1>2, <1>3 DEF SegmenterNext

-----------------------------------------------------------------------------
(* The text without its blanks                                              *)

\* What Visible keeps of each symbol.
Shown(s) == [i \in DOMAIN s |-> IF s[i] \in Blanks THEN <<>> ELSE <<s[i]>>]

\* It is a sequence of texts.
LEMMA ShownIs ==
    ASSUME NEW s \in Seq(Symbols)
    PROVE  /\ Shown(s) \in Seq(Seq(Symbols)) /\ Len(Shown(s)) = Len(s)
           /\ \A i \in 1..Len(s) : Shown(s)[i] = IF s[i] \in Blanks THEN <<>> ELSE <<s[i]>>
<1> DEFINE n == Len(s)
           f == [i \in 1..n |-> IF s[i] \in Blanks THEN <<>> ELSE <<s[i]>>]
           Y == Seq(Symbols)
<1>1. n \in Nat /\ DOMAIN s = 1..n /\ \A i \in 1..n : s[i] \in Symbols
  BY LenProperties, ElementOfSeq
<1>2. Shown(s) = f
  BY <1>1 DEF Shown
<1>3. \A i \in 1..n : f[i] = IF s[i] \in Blanks THEN <<>> ELSE <<s[i]>>
  OBVIOUS
<1>4. f \in [1..n -> Y]
  <2>1. \A i \in 1..n : (IF s[i] \in Blanks THEN <<>> ELSE <<s[i]>>) \in Y
    BY <1>1
  <2> HIDE DEF Y
  <2> QED BY <2>1
<1> HIDE DEF f, n, Y
<1>5. f \in Seq(Y) /\ Len(f) = n
  BY <1>1, <1>4, SeqDef, LenProperties
<1> QED BY <1>2, <1>3, <1>5 DEF n, Y

\* Visible gives a text.
LEMMA VisibleIs == ASSUME NEW s \in Seq(Symbols) PROVE Visible(s) = FlattenSeq(Shown(s)) /\ Visible(s) \in Seq(Symbols)
<1>1. Visible(s) = FlattenSeq(Shown(s))
  BY DEF Visible, Shown
<1> QED BY <1>1, ShownIs, FlattenIsSeq

\* Visible of two texts put together.
LEMMA VisibleBoth ==
    ASSUME NEW s \in Seq(Symbols), NEW t \in Seq(Symbols)
    PROVE  Visible(s \o t) = Visible(s) \o Visible(t)
<1> DEFINE u == s \o t
           a == Shown(s)
           b == Shown(t)
           c == Shown(u)
           d == a \o b
<1>1. /\ u \in Seq(Symbols) /\ Len(s) \in Nat /\ Len(t) \in Nat /\ Len(u) = Len(s) + Len(t)
      /\ \A k \in 1..Len(s) : u[k] = s[k]
      /\ \A k \in 1..Len(t) : u[Len(s) + k] = t[k]
  BY Both
<1>2. a \in Seq(Seq(Symbols)) /\ Len(a) = Len(s) /\ \A i \in 1..Len(s) : a[i] = IF s[i] \in Blanks THEN <<>> ELSE <<s[i]>>
  BY ShownIs
<1>3. b \in Seq(Seq(Symbols)) /\ Len(b) = Len(t) /\ \A i \in 1..Len(t) : b[i] = IF t[i] \in Blanks THEN <<>> ELSE <<t[i]>>
  BY ShownIs
<1> HIDE DEF u, a, b
<1>4. c \in Seq(Seq(Symbols)) /\ Len(c) = Len(u) /\ \A i \in 1..Len(u) : c[i] = IF u[i] \in Blanks THEN <<>> ELSE <<u[i]>>
  BY <1>1, ShownIs
<1>5. /\ d \in Seq(Seq(Symbols)) /\ Len(a) \in Nat /\ Len(b) \in Nat /\ Len(d) = Len(a) + Len(b)
      /\ \A k \in 1..Len(a) : d[k] = a[k]
      /\ \A k \in 1..Len(b) : d[Len(a) + k] = b[k]
  <2> DEFINE Y == Seq(Symbols)
  <2>1. a \in Seq(Y) /\ b \in Seq(Y)
    BY <1>2, <1>3
  <2> HIDE DEF Y
  <2>2. /\ a \o b \in Seq(Y) /\ Len(a) \in Nat /\ Len(b) \in Nat /\ Len(a \o b) = Len(a) + Len(b)
        /\ \A k \in 1..Len(a) : (a \o b)[k] = a[k]
        /\ \A k \in 1..Len(b) : (a \o b)[Len(a) + k] = b[k]
    BY <2>1, Both
  <2> QED BY <2>2 DEF Y
<1> HIDE DEF c, d
<1>6. \A i \in 1..Len(c) : c[i] = d[i]
  <2> TAKE i \in 1..Len(c)
  <2>1. CASE i <= Len(s)
    <3>1. i \in 1..Len(s) /\ i \in 1..Len(a) /\ i \in 1..Len(u)
      BY <1>1, <1>2, <1>4, <2>1
    <3> QED BY <1>1, <1>2, <1>4, <1>5, <3>1
  <2>2. CASE ~(i <= Len(s))
    <3> DEFINE k == i - Len(s)
    <3>1. k \in 1..Len(t) /\ k \in 1..Len(b) /\ i \in 1..Len(u) /\ Len(s) + k = i
      BY <1>1, <1>3, <1>4, <2>2
    <3> HIDE DEF k
    <3>2. u[i] = t[k] /\ d[i] = b[k]
      BY <1>1, <1>2, <1>5, <3>1
    <3> QED BY <1>3, <1>4, <3>1, <3>2
  <2> QED BY <2>1, <2>2
<1>7. c = d
  <2>1. Len(c) = Len(d)
    BY <1>1, <1>2, <1>3, <1>4, <1>5
  <2> QED BY <1>4, <1>5, <1>6, <2>1, SeqEqual
<1>8. FlattenSeq(d) = FlattenSeq(a) \o FlattenSeq(b)
  BY <1>2, <1>3, FlattenBoth DEF d
<1>9. Visible(s) = FlattenSeq(a) /\ Visible(t) = FlattenSeq(b)
  BY VisibleIs DEF a, b
<1>10. Visible(u) = FlattenSeq(c)
  BY <1>1, VisibleIs DEF c
<1> QED BY <1>7, <1>8, <1>9, <1>10 DEF u

\* A blank text shows nothing.
LEMMA VisibleBlank == ASSUME NEW s \in Seq(Symbols), Blank(s) PROVE Visible(s) = <<>>
<1> DEFINE a == Shown(s)
           n == Len(s)
<1>1. n \in Nat /\ DOMAIN s = 1..n
  BY LenProperties
<1>2. \A i \in 1..n : s[i] \in Blanks
  BY <1>1 DEF Blank
<1>3. a \in Seq(Seq(Symbols)) /\ Len(a) = n /\ \A i \in 1..n : a[i] = <<>>
  BY <1>2, ShownIs
<1> HIDE DEF a, n
<1>4. PICK g \in [0..n -> Seq(Symbols)] : g[0] = <<>> /\ (\A i \in 1..n : g[i] = g[i - 1] \o a[i]) /\ FlattenSeq(a) = g[n]
  BY <1>3, FlattenRuns
<1> DEFINE T == {k \in Nat : k <= n => g[k] = <<>>}
<1>5. 0 \in T
  BY <1>4
<1>6. ASSUME NEW k \in Nat, k \in T PROVE k + 1 \in T
  <2> SUFFICES ASSUME k + 1 <= n PROVE g[k + 1] = <<>>
    OBVIOUS
  <2>1. k + 1 \in 1..n /\ (k + 1) - 1 = k /\ g[k] = <<>>
    BY <1>1, <1>6
  <2>2. g[k + 1] = g[k] \o a[k + 1] /\ a[k + 1] = <<>>
    BY <1>3, <1>4, <2>1
  <2> QED BY <2>1, <2>2
<1> HIDE DEF T
<1>7. n \in T
  BY <1>1, <1>5, <1>6, Counting
<1>8. g[n] = <<>>
  BY <1>1, <1>7 DEF T
<1>9. Visible(s) = FlattenSeq(a)
  BY VisibleIs DEF a
<1> QED BY <1>4, <1>8, <1>9

-----------------------------------------------------------------------------
(* Blanks at the ends                                                       *)

\* The smallest of some places, or the one behind the last.
LEMMA FirstPlaceOf ==
    ASSUME NEW n \in Nat, NEW I \in SUBSET (1..n)
    PROVE  /\ Min(I \cup {n + 1}) \in 1..(n + 1)
           /\ Min(I \cup {n + 1}) \in I \cup {n + 1}
           /\ \A j \in I : Min(I \cup {n + 1}) <= j
<1> DEFINE J == I \cup {n + 1}
<1>1. J \in SUBSET Nat /\ n + 1 \in J
  OBVIOUS
<1>2. PICK m \in J : \A j \in J : m <= j
  BY <1>1, Least
<1> HIDE DEF J
<1>3. Min(J) \in J /\ \A j \in J : Min(J) <= j
  BY <1>2 DEF Min
<1>4. J \subseteq 1..(n + 1) /\ I \subseteq J
  BY DEF J
<1>5. Min(J) \in 1..(n + 1) /\ Min(J) \in J /\ \A j \in I : Min(J) <= j
  BY <1>3, <1>4
<1> QED BY <1>5 DEF J

\* lstrip drops a blank beginning and no more.
LEMMA LStripIs ==
    ASSUME NEW s \in Seq(Symbols)
    PROVE  \E i \in 1..(Len(s) + 1) :
               /\ LStrip(s) = From(s, i) /\ Blank(Upto(s, i - 1)) /\ (i <= Len(s) => s[i] \notin Blanks)
               /\ \A k \in 1..(i - 1) : s[k] \in Blanks
<1> DEFINE I == {i \in DOMAIN s : s[i] \notin Blanks}
           m == Min(I \cup {Len(s) + 1})
<1>1. Len(s) \in Nat /\ DOMAIN s = 1..Len(s)
  BY LenProperties
<1>2. I \in SUBSET (1..Len(s))
  BY <1>1
<1>3. m \in 1..(Len(s) + 1) /\ m \in I \cup {Len(s) + 1} /\ \A j \in I : m <= j
  <2> HIDE DEF I
  <2> QED BY <1>1, <1>2, FirstPlaceOf
<1>4. LStrip(s) = From(s, m)
  BY DEF LStrip
<1>5. m <= Len(s) => s[m] \notin Blanks
  <2> HAVE m <= Len(s)
  <2>1. m \in I
    <3> HIDE DEF m
    <3> QED BY <1>1, <1>3
  <2> QED BY <2>1
<1> HIDE DEF m
<1>6. \A k \in 1..(m - 1) : s[k] \in Blanks
  <2> TAKE k \in 1..(m - 1)
  <2>1. k \in 1..Len(s) /\ ~(m <= k)
    BY <1>1, <1>3
  <2> QED BY <1>1, <1>3, <2>1
<1>7. Blank(Upto(s, m - 1))
  <2>1. /\ Upto(s, m - 1) \in Seq(Symbols) /\ Len(Upto(s, m - 1)) = m - 1
        /\ \A k \in 1..(m - 1) : Upto(s, m - 1)[k] = s[k]
    BY <1>3, Pieces
  <2>2. DOMAIN Upto(s, m - 1) = 1..(m - 1)
    BY <2>1, LenProperties
  <2> QED BY <1>6, <2>1, <2>2 DEF Blank
<1> QED BY <1>3, <1>4, <1>5, <1>6, <1>7

\* rstrip drops a blank end and no more.
LEMMA RStripIs ==
    ASSUME NEW s \in Seq(Symbols)
    PROVE  \E i \in 0..Len(s) :
               /\ RStrip(s) = Upto(s, i) /\ Blank(From(s, i + 1)) /\ (i # 0 => s[i] \notin Blanks)
<1> DEFINE I == {i \in DOMAIN s : s[i] \notin Blanks}
           m == Max(I \cup {0})
<1>1. Len(s) \in Nat /\ DOMAIN s = 1..Len(s)
  BY LenProperties
<1>2. I \in SUBSET (1..Len(s))
  BY <1>1
<1>3. m \in 0..Len(s) /\ m \in I \cup {0} /\ \A j \in I : j <= m
  <2> HIDE DEF I
  <2> QED BY <1>1, <1>2, LastPlace
<1>4. RStrip(s) = Upto(s, m)
  BY DEF RStrip
<1>5. m # 0 => s[m] \notin Blanks
  BY <1>3
<1> HIDE DEF m
<1>6. Blank(From(s, m + 1))
  <2> DEFINE e == m + 1
  <2>1. e \in 1..(Len(s) + 1)
    BY <1>1, <1>3
  <2>2. /\ From(s, e) \in Seq(Symbols) /\ Len(From(s, e)) = Len(s) - e + 1
        /\ \A k \in 1..(Len(s) - e + 1) : From(s, e)[k] = s[e + k - 1]
    <3> HIDE DEF e
    <3> QED BY <2>1, Pieces
  <2>3. DOMAIN From(s, e) = 1..(Len(s) - e + 1)
    <3> HIDE DEF e
    <3> QED BY <2>2, LenProperties
  <2>4. \A k \in 1..(Len(s) - e + 1) : s[e + k - 1] \in Blanks
    <3> TAKE k \in 1..(Len(s) - e + 1)
    <3>1. e + k - 1 \in 1..Len(s) /\ ~(e + k - 1 <= m)
      BY <1>1, <1>3
    <3> QED BY <1>1, <1>3, <3>1
  <2> HIDE DEF e
  <2>5. Blank(From(s, e))
    BY <2>2, <2>3, <2>4 DEF Blank
  <2> QED BY <2>5 DEF e
<1> QED BY <1>3, <1>4, <1>5, <1>6

\* lstrip drops nothing visible.
LEMMA LStripKeeps ==
    ASSUME NEW s \in Seq(Symbols)
    PROVE  LStrip(s) \in Seq(Symbols) /\ Len(LStrip(s)) <= Len(s) /\ Visible(LStrip(s)) = Visible(s)
<1>1. PICK i \in 1..(Len(s) + 1) : LStrip(s) = From(s, i) /\ Blank(Upto(s, i - 1))
  BY LStripIs
<1>2. /\ From(s, i) \in Seq(Symbols) /\ Len(From(s, i)) = Len(s) - i + 1
      /\ Upto(s, i - 1) \in Seq(Symbols) /\ Upto(s, i - 1) \o From(s, i) = s
  BY Pieces
<1>3. Visible(Upto(s, i - 1)) = <<>>
  BY <1>1, <1>2, VisibleBlank
<1>4. Visible(s) = Visible(Upto(s, i - 1)) \o Visible(From(s, i))
  BY <1>2, VisibleBoth
<1>5. Visible(From(s, i)) \in Seq(Symbols)
  BY <1>2, VisibleIs
<1>6. Visible(s) = Visible(From(s, i))
  BY <1>3, <1>4, <1>5, ConcatEmptySeq
<1>7. Len(From(s, i)) <= Len(s)
  BY <1>2, LenProperties
<1> QED BY <1>1, <1>2, <1>6, <1>7

\* rstrip drops nothing visible.
LEMMA RStripKeeps ==
    ASSUME NEW s \in Seq(Symbols)
    PROVE  RStrip(s) \in Seq(Symbols) /\ Len(RStrip(s)) <= Len(s) /\ Visible(RStrip(s)) = Visible(s)
<1>1. PICK m \in 0..Len(s) : RStrip(s) = Upto(s, m) /\ Blank(From(s, m + 1))
  BY RStripIs
<1> DEFINE i == m + 1
<1>0. i \in 1..(Len(s) + 1) /\ i - 1 = m /\ Len(s) \in Nat
  BY LenProperties
<1> HIDE DEF i
<1>2. /\ From(s, i) \in Seq(Symbols)
      /\ Upto(s, i - 1) \in Seq(Symbols) /\ Len(Upto(s, i - 1)) = i - 1 /\ Upto(s, i - 1) \o From(s, i) = s
  BY <1>0, Pieces
<1>3. Visible(From(s, i)) = <<>>
  BY <1>1, <1>2, VisibleBlank DEF i
<1>4. Visible(s) = Visible(Upto(s, i - 1)) \o Visible(From(s, i))
  BY <1>2, VisibleBoth
<1>5. Visible(Upto(s, i - 1)) \in Seq(Symbols)
  BY <1>2, VisibleIs
<1>6. Visible(s) = Visible(Upto(s, i - 1))
  BY <1>3, <1>4, <1>5, ConcatEmptySeq
<1> QED BY <1>0, <1>1, <1>2, <1>6

\* strip drops nothing visible.
LEMMA StripKeeps ==
    ASSUME NEW s \in Seq(Symbols)
    PROVE  Strip(s) \in Seq(Symbols) /\ Len(Strip(s)) <= Len(s) /\ Visible(Strip(s)) = Visible(s)
<1> DEFINE t == LStrip(s)
<1>1. t \in Seq(Symbols) /\ Len(t) <= Len(s) /\ Visible(t) = Visible(s)
  BY LStripKeeps
<1> HIDE DEF t
<1>2. RStrip(t) \in Seq(Symbols) /\ Len(RStrip(t)) <= Len(t) /\ Visible(RStrip(t)) = Visible(t)
  BY <1>1, RStripKeeps
<1>3. Len(RStrip(t)) <= Len(s)
  BY <1>1, <1>2, LenProperties
<1> QED BY <1>1, <1>2, <1>3 DEF Strip, t

\* The text of sentences one after the other.
LEMMA VisibleGoesOn ==
    ASSUME NEW s \in Seq(Seq(Symbols)), NEW x \in Seq(Symbols)
    PROVE  /\ FlattenSeq(s) \in Seq(Symbols)
           /\ Append(s, x) \in Seq(Seq(Symbols))
           /\ Visible(FlattenSeq(Append(s, x))) = Visible(FlattenSeq(s)) \o Visible(x)
<1>1. FlattenSeq(s) \in Seq(Symbols) /\ FlattenSeq(Append(s, x)) = FlattenSeq(s) \o x
  BY FlattenGoesOn
<1>2. Visible(FlattenSeq(s) \o x) = Visible(FlattenSeq(s)) \o Visible(x)
  BY <1>1, VisibleBoth
<1>3. Append(s, x) \in Seq(Seq(Symbols))
  BY AppendProperties
<1> QED BY <1>1, <1>2, <1>3

-----------------------------------------------------------------------------
(* The closed sentences                                                     *)

\* The sentences closed, and how far they go.
Opened == [sentences : Seq(Seq(Symbols)), start : Nat]

\* None closed yet.
None == [sentences |-> <<>>, start |-> 0]

\* One place of the run of Closed.
ClosedStep(s, before, i) ==
    LET here == SubSeq(s, before.start + 1, i)
    IN  IF i \in RealBoundaries(s) /\ ~OddFences(here)
        THEN [sentences |-> Append(before.sentences, Strip(here)), start |-> i]
        ELSE before

\* The sentences closed up to a place of s.
ClosedAt(s) ==
    LET ends == RealBoundaries(s)
        closed[i \in 0..Len(s)] ==
            IF i = 0 THEN [sentences |-> <<>>, start |-> 0]
            ELSE LET before == closed[i - 1]
                     here   == SubSeq(s, before.start + 1, i)
                 IN  IF i \in ends /\ ~OddFences(here)
                     THEN [sentences |-> Append(before.sentences, Strip(here)), start |-> i]
                     ELSE before
    IN  closed

\* Closed is where the run ends.
LEMMA ClosedDef ==
    ASSUME NEW s
    PROVE  /\ Closed(s) = ClosedAt(s)[Len(s)]
           /\ ClosedAt(s) = CHOOSE f : f = [i \in 0..Len(s) |-> IF i = 0 THEN None ELSE ClosedStep(s, f[i - 1], i)]
<1>1. Closed(s) = ClosedAt(s)[Len(s)]
  BY DEF Closed, ClosedAt
<1>2. ClosedAt(s) = CHOOSE f : f = [i \in 0..Len(s) |-> IF i = 0 THEN None ELSE ClosedStep(s, f[i - 1], i)]
  BY DEF ClosedAt, ClosedStep, None
<1> QED BY <1>1, <1>2

\* Where a part is cut out.
LEMMA Between ==
    ASSUME NEW s \in Seq(Symbols), NEW j \in Nat, NEW i \in 0..Len(s)
    PROVE  /\ SubSeq(s, j + 1, i) \in Seq(Symbols)
           /\ j <= i => /\ Upto(s, j) \in Seq(Symbols) /\ Len(SubSeq(s, j + 1, i)) = i - j
                        /\ Upto(s, j) \o SubSeq(s, j + 1, i) = Upto(s, i)
<1>1. Len(s) \in Nat /\ \A k \in 1..Len(s) : s[k] \in Symbols
  BY LenProperties, ElementOfSeq
<1>2. SubSeq(s, j + 1, i) \in Seq(Symbols) /\ Len(SubSeq(s, j + 1, i)) = IF j + 1 <= i THEN i - (j + 1) + 1 ELSE 0
  <2> DEFINE a == j + 1
  <2>1. a \in Int /\ i \in Int /\ \A k \in a..i : s[k] \in Symbols
    BY <1>1
  <2> HIDE DEF a
  <2>2. SubSeq(s, a, i) \in Seq(Symbols) /\ Len(SubSeq(s, a, i)) = IF a <= i THEN i - a + 1 ELSE 0
    BY <2>1, SubSeqProperties
  <2> QED BY <2>2 DEF a
<1>3. ASSUME j <= i PROVE Upto(s, j) \in Seq(Symbols) /\ Upto(s, j) \o SubSeq(s, j + 1, i) = Upto(s, i)
  <2>1. 1 \in 1..(Len(s) + 1) /\ j \in (1 - 1)..Len(s) /\ i \in j..Len(s) /\ j + 1 \in 1..(Len(s) + 1) /\ (j + 1) - 1 = j
    BY <1>1, <1>3
  <2>2. SubSeq(s, 1, j) \o SubSeq(s, j + 1, i) = SubSeq(s, 1, i)
    BY <2>1, ConcatAdjacentSubSeq
  <2> DEFINE e == j + 1
  <2>3. e \in 1..(Len(s) + 1) /\ e - 1 = j
    BY <2>1
  <2> HIDE DEF e
  <2>4. Upto(s, e - 1) \in Seq(Symbols)
    BY <2>3, Pieces
  <2> QED BY <2>2, <2>3, <2>4 DEF Upto
<1>4. j <= i => Len(SubSeq(s, j + 1, i)) = i - j
  <2> DEFINE l == Len(SubSeq(s, j + 1, i))
  <2>1. l = IF j + 1 <= i THEN i - (j + 1) + 1 ELSE 0
    BY <1>2
  <2>2. j \in Nat /\ i \in Nat
    BY <1>1
  <2> HIDE DEF l
  <2>3. j <= i => l = i - j
    BY <2>1, <2>2
  <2> QED BY <2>3 DEF l
<1>5. SubSeq(s, j + 1, i) \in Seq(Symbols)
  BY <1>2
<1> QED BY <1>3, <1>4, <1>5

\* A place closes a sentence or none.
LEMMA ClosedStepIs ==
    ASSUME NEW s \in Seq(Symbols), NEW b \in Opened, NEW i \in 1..Len(s)
    PROVE  ClosedStep(s, b, i) \in Opened
<1> DEFINE here == SubSeq(s, b.start + 1, i)
<1>1. b.start \in Nat /\ b.sentences \in Seq(Seq(Symbols)) /\ i \in 0..Len(s) /\ i \in Nat
  BY DEF Opened
<1>2. here \in Seq(Symbols)
  BY <1>1, Between
<1> HIDE DEF here
<1>3. Strip(here) \in Seq(Symbols)
  BY <1>2, StripKeeps
<1>4. Append(b.sentences, Strip(here)) \in Seq(Seq(Symbols))
  BY <1>1, <1>3, AppendProperties
<1> QED BY <1>1, <1>4 DEF ClosedStep, Opened, here

\* The run of Closed, place by place.
LEMMA ClosedAtIs ==
    ASSUME NEW s \in Seq(Symbols)
    PROVE  /\ ClosedAt(s) \in [0..Len(s) -> Opened] /\ Closed(s) = ClosedAt(s)[Len(s)]
           /\ ClosedAt(s)[0] = None
           /\ \A i \in 1..Len(s) : ClosedAt(s)[i] = ClosedStep(s, ClosedAt(s)[i - 1], i)
<1> DEFINE n == Len(s)
           X == Opened
           b == None
           step == [i \in 1..n |-> [x \in X |-> ClosedStep(s, x, i)]]
<1>1. n \in Nat /\ b \in X
  BY LenProperties DEF Opened, None
<1>2. step \in [1..n -> [X -> X]]
  BY ClosedStepIs
<1>3. \A i \in 1..n, x \in X : step[i][x] = ClosedStep(s, x, i)
  OBVIOUS
<1> HIDE DEF step
<1>4. PICK g \in [0..n -> X] : g[0] = b /\ \A i \in 1..n : g[i] = step[i][g[i - 1]]
  <2> HIDE DEF n, X, b
  <2>1. HasRun(n, X, b, step)
    BY <1>1, <1>2, RunExists
  <2> QED BY <2>1 DEF HasRun
<1> DEFINE Meets(f) == f = [i \in 0..n |-> IF i = 0 THEN None ELSE ClosedStep(s, f[i - 1], i)]
<1>5. Meets(g)
  <2>1. ASSUME NEW i \in 0..n PROVE g[i] = IF i = 0 THEN None ELSE ClosedStep(s, g[i - 1], i)
    <3>1. CASE i = 0
      BY <1>4, <3>1
    <3>2. CASE i # 0
      <4>1. i \in 1..n /\ i - 1 \in 0..n
        BY <1>1, <3>2
      <4>2. g[i - 1] \in X
        BY <1>4, <4>1
      <4> HIDE DEF X
      <4> QED BY <1>3, <1>4, <3>2, <4>1, <4>2
    <3> QED BY <3>1, <3>2
  <2> HIDE DEF n, X, b
  <2> QED BY <1>4, <2>1
<1> DEFINE f == ClosedAt(s)
<1>6. f = CHOOSE h : Meets(h)
  BY ClosedDef
<1>7. Meets(f)
  <2> HIDE DEF Meets, f
  <2> QED BY <1>5, <1>6
<1> HIDE DEF f
<1>8. f[0] = None /\ \A i \in 1..n : f[i] = ClosedStep(s, f[i - 1], i)
  <2>1. f = [i \in 0..n |-> IF i = 0 THEN None ELSE ClosedStep(s, f[i - 1], i)]
    BY <1>7
  <2>2. 0 \in 0..n /\ \A i \in 1..n : i \in 0..n /\ i # 0
    BY <1>1
  <2> HIDE DEF n
  <2> QED BY <2>1, <2>2
<1>9. \A i \in 0..n : f[i] \in X
  <2> DEFINE T == {k \in Nat : k <= n => f[k] \in X}
  <2>1. 0 \in T
    BY <1>1, <1>8
  <2>2. ASSUME NEW k \in Nat, k \in T PROVE k + 1 \in T
    <3> SUFFICES ASSUME k + 1 <= n PROVE f[k + 1] \in X
      OBVIOUS
    <3>1. k + 1 \in 1..n /\ (k + 1) - 1 = k /\ f[k] \in X
      BY <1>1, <2>2
    <3>2. f[k + 1] = ClosedStep(s, f[k], k + 1)
      BY <1>8, <3>1
    <3> QED BY <3>1, <3>2, ClosedStepIs
  <2> HIDE DEF T
  <2>3. Nat \subseteq T
    BY <2>1, <2>2, Counting
  <2>4. \A i \in 0..n : i \in Nat /\ i <= n
    BY <1>1
  <2> HIDE DEF n, X
  <2> QED BY <2>3, <2>4 DEF T
<1>10. f \in [0..n -> X]
  <2>1. f = [i \in 0..n |-> IF i = 0 THEN None ELSE ClosedStep(s, f[i - 1], i)]
    BY <1>7
  <2> DEFINE e(i) == IF i = 0 THEN None ELSE ClosedStep(s, f[i - 1], i)
  <2>2. f = [i \in 0..n |-> e(i)]
    BY <2>1
  <2> HIDE DEF n, X, e
  <2> QED BY <1>9, <2>2
<1>11. Closed(s) = f[n]
  BY ClosedDef DEF f
<1> QED BY <1>8, <1>10, <1>11 DEF f

\* The closed sentences are the text up to where they go.
LEMMA ClosedKeeps ==
    ASSUME NEW s \in Seq(Symbols)
    PROVE  \A i \in 0..Len(s) :
              LET c == ClosedAt(s)[i]
              IN  /\ c \in Opened /\ c.start \in 0..i
                  /\ Visible(FlattenSeq(c.sentences)) = Visible(Upto(s, c.start))
<1> DEFINE n == Len(s)
           C == ClosedAt(s)
           Keeps(i) == C[i].start \in 0..i /\ Visible(FlattenSeq(C[i].sentences)) = Visible(Upto(s, C[i].start))
           T == {k \in Nat : k <= n => Keeps(k)}
<1>0. n \in Nat
  BY LenProperties
<1>1. C \in [0..n -> Opened] /\ C[0] = None /\ \A i \in 1..n : C[i] = ClosedStep(s, C[i - 1], i)
  BY ClosedAtIs
<1> HIDE DEF C
<1>2. 0 \in T
  <2>1. C[0].start = 0 /\ C[0].sentences = <<>>
    BY <1>1 DEF None
  <2>2. Upto(s, 0) = <<>>
    <3> DEFINE e == 1
    <3>1. e \in 1..(Len(s) + 1) /\ e - 1 = 0
      BY <1>0
    <3> HIDE DEF e
    <3>2. Upto(s, e - 1) \in Seq(Symbols) /\ Len(Upto(s, e - 1)) = e - 1
      BY <3>1, Pieces
    <3> QED BY <3>1, <3>2, EmptySeq
  <2>3. Keeps(0)
    BY <2>1, <2>2, FlattenNone
  <2> QED BY <2>3
<1>3. ASSUME NEW k \in Nat, k \in T PROVE k + 1 \in T
  <2> DEFINE i == k + 1
             b == C[k]
             here == SubSeq(s, b.start + 1, i)
  <2> SUFFICES ASSUME i <= n PROVE Keeps(i)
    OBVIOUS
  <2>1. i \in 1..n /\ i \in 0..n /\ i - 1 = k /\ k \in 0..n /\ Keeps(k)
    BY <1>0, <1>3
  <2>2. b \in Opened /\ C[i] = ClosedStep(s, b, i)
    BY <1>1, <2>1
  <2>3. b.start \in 0..k /\ b.start \in Nat /\ b.start <= i /\ b.sentences \in Seq(Seq(Symbols))
        /\ Visible(FlattenSeq(b.sentences)) = Visible(Upto(s, b.start))
    BY <2>1, <2>2 DEF Opened
  <2>4. here \in Seq(Symbols) /\ Upto(s, b.start) \in Seq(Symbols) /\ Upto(s, b.start) \o here = Upto(s, i)
    <3> HIDE DEF b, i
    <3> QED BY <2>1, <2>3, Between
  <2>5. Strip(here) \in Seq(Symbols) /\ Visible(Strip(here)) = Visible(here)
    <3> HIDE DEF here
    <3> QED BY <2>4, StripKeeps
  <2>6. Visible(Upto(s, i)) = Visible(Upto(s, b.start)) \o Visible(here)
    <3> DEFINE up == Upto(s, b.start)
    <3> HIDE DEF here, up
    <3>1. Visible(up \o here) = Visible(up) \o Visible(here)
      BY <2>4, VisibleBoth DEF up
    <3> QED BY <2>4, <3>1 DEF up
  <2>7. CASE i \in RealBoundaries(s) /\ ~OddFences(here)
    <3>1. C[i] = [sentences |-> Append(b.sentences, Strip(here)), start |-> i]
      BY <2>2, <2>7 DEF ClosedStep
    <3>2. Visible(FlattenSeq(Append(b.sentences, Strip(here)))) = Visible(FlattenSeq(b.sentences)) \o Visible(Strip(here))
      <4> HIDE DEF here, b
      <4> QED BY <2>3, <2>5, VisibleGoesOn
    <3>3. C[i].start = i /\ C[i].sentences = Append(b.sentences, Strip(here))
      BY <3>1
    <3>4. Visible(FlattenSeq(C[i].sentences)) = Visible(Upto(s, i))
      BY <2>3, <2>5, <2>6, <3>2, <3>3
    <3>5. i \in 0..i
      OBVIOUS
    <3> HIDE DEF i
    <3> QED BY <3>3, <3>4, <3>5
  <2>8. CASE ~(i \in RealBoundaries(s) /\ ~OddFences(here))
    <3>1. C[i] = b
      BY <2>2, <2>8 DEF ClosedStep
    <3>2. b.start \in 0..i
      BY <2>3
    <3> HIDE DEF i, b
    <3> QED BY <2>3, <3>1, <3>2
  <2> QED BY <2>7, <2>8
<1> HIDE DEF T
<1>4. Nat \subseteq T
  BY <1>2, <1>3, Counting
<1>5. \A i \in 0..n : i \in Nat /\ i <= n
  BY <1>0
<1>6. \A i \in 0..n : Keeps(i) /\ C[i] \in Opened
  <2> HIDE DEF Keeps, n
  <2> QED BY <1>1, <1>4, <1>5 DEF T
<1> QED BY <1>6 DEF C

-----------------------------------------------------------------------------
(* What a buffer is split into                                              *)

\* A blank line and what precedes it.
LEMMA LineKeeps ==
    ASSUME NEW t \in Seq(Symbols)
    PROVE  LET line  == LastOf(t, "P")
               title == Strip(Upto(t, line - 1))
           IN  /\ line \in 0..Len(t) /\ From(t, line + 1) \in Seq(Symbols) /\ title \in Seq(Symbols)
               /\ line = 0 => From(t, line + 1) = t
               /\ line # 0 => Visible(title) \o Visible(From(t, line + 1)) = Visible(t)
<1> DEFINE I == {i \in DOMAIN t : t[i] = "P"}
           line == LastOf(t, "P")
           up == Upto(t, line - 1)
           title == Strip(up)
           rest == From(t, line + 1)
<1>1. Len(t) \in Nat /\ DOMAIN t = 1..Len(t)
  BY LenProperties
<1>2. line \in 0..Len(t) /\ (line # 0 => t[line] = "P")
  <2>1. I \in SUBSET (1..Len(t))
    BY <1>1
  <2>2. line = Max(I \cup {0})
    BY DEF LastOf
  <2>3. line \in 0..Len(t) /\ line \in I \cup {0}
    <3> HIDE DEF I
    <3> QED BY <1>1, <2>1, <2>2, LastPlace
  <2> QED BY <2>3
<1>3. up \in Seq(Symbols)
  <2>1. line - 1 \in Int /\ \A k \in 1..(line - 1) : t[k] \in Symbols
    <3>1. \A k \in 1..Len(t) : t[k] \in Symbols
      BY ElementOfSeq
    <3> HIDE DEF line
    <3> QED BY <1>1, <1>2, <3>1
  <2> DEFINE m == line - 1
  <2> HIDE DEF m
  <2>2. m \in Int /\ \A k \in 1..m : t[k] \in Symbols
    BY <2>1 DEF m
  <2>3. SubSeq(t, 1, m) \in Seq(Symbols)
    BY <2>2, SubSeqProperties
  <2> QED BY <2>3 DEF Upto, m
<1>4. rest \in Seq(Symbols)
  <2> DEFINE e == line + 1
  <2>1. e \in 1..(Len(t) + 1)
    BY <1>1, <1>2
  <2> HIDE DEF e
  <2>2. From(t, e) \in Seq(Symbols)
    BY <2>1, Pieces
  <2> QED BY <2>2 DEF e
<1>5. title \in Seq(Symbols) /\ Visible(title) = Visible(up)
  <2> HIDE DEF up
  <2> QED BY <1>3, StripKeeps
<1>6. line = 0 => rest = t
  <2> HAVE line = 0
  <2>1. SubSeq(t, 1, Len(t)) = t
    BY SubSeqFull
  <2>2. line + 1 = 1
    OBVIOUS
  <2> HIDE DEF line
  <2> QED BY <2>1, <2>2 DEF From
<1>7. line # 0 => Visible(title) \o Visible(rest) = Visible(t)
  <2> HAVE line # 0
  <2> DEFINE u == From(t, line)
             p == Upto(u, 1)
             two == 2
  <2> HIDE DEF line, two
  <2>1. line \in 1..(Len(t) + 1) /\ two \in 1..(Len(t) - line + 2) /\ line + two - 1 = line + 1 /\ two - 1 = 1
    BY <1>1, <1>2 DEF two
  <2>2. /\ u \in Seq(Symbols) /\ Len(u) = Len(t) - line + 1 /\ \A k \in 1..(Len(t) - line + 1) : u[k] = t[line + k - 1]
        /\ up \o u = t
    BY <2>1, Pieces
  <2>3. From(u, two) = rest
    BY <2>1, RestOfRest
  <2> HIDE DEF u, up
  <2>4. two \in 1..(Len(u) + 1)
    BY <2>1, <2>2
  <2>5. /\ Upto(u, two - 1) \in Seq(Symbols) /\ Len(Upto(u, two - 1)) = two - 1
        /\ \A k \in 1..(two - 1) : Upto(u, two - 1)[k] = u[k]
        /\ Upto(u, two - 1) \o From(u, two) = u
    BY <2>2, <2>4, Pieces
  <2>6. p \in Seq(Symbols) /\ Len(p) = 1 /\ p[1] = u[1] /\ p \o rest = u
    <3>1. two - 1 = 1 /\ 1 \in 1..(two - 1)
      BY <2>1
    <3>2. Upto(u, two - 1) = p
      BY <3>1
    <3> HIDE DEF p, rest
    <3> QED BY <2>3, <2>5, <3>1, <3>2
  <2>7. u[1] = "P"
    <3>1. 1 \in 1..(Len(t) - line + 1) /\ line + 1 - 1 = line
      BY <1>1, <1>2, <2>1
    <3> QED BY <1>2, <2>2, <3>1
  <2> HIDE DEF p, rest
  <2>8. Blank(p)
    <3>1. DOMAIN p = 1..1
      BY <2>6, LenProperties
    <3>2. \A i \in 1..1 : i = 1
      OBVIOUS
    <3>3. p[1] \in Blanks
      BY <2>6, <2>7 DEF Blanks
    <3> QED BY <3>1, <3>2, <3>3 DEF Blank
  <2>9. Visible(p) = <<>>
    BY <2>6, <2>8, VisibleBlank
  <2>10. Visible(u) = Visible(p) \o Visible(rest)
    BY <1>4, <2>6, VisibleBoth
  <2>11. Visible(rest) \in Seq(Symbols)
    BY <1>4, VisibleIs
  <2>12. Visible(u) = Visible(rest)
    BY <2>9, <2>10, <2>11, ConcatEmptySeq
  <2>13. Visible(t) = Visible(up) \o Visible(u)
    BY <1>3, <2>2, VisibleBoth
  <2> QED BY <1>5, <2>12, <2>13
<1> QED BY <1>2, <1>4, <1>5, <1>6, <1>7

\* The sentences and what remains are the text.
LEMMA SplitKeeps ==
    ASSUME NEW s \in Seq(Symbols)
    PROVE  LET p == Split(s)
           IN  /\ p.sentences \in Seq(Seq(Symbols)) /\ p.rest \in Seq(Symbols)
               /\ Visible(FlattenSeq(p.sentences)) \o Visible(p.rest) = Visible(s)
<1> DEFINE p == Split(s)
<1>0. Visible(s) \in Seq(Symbols)
  BY VisibleIs
<1>1. CASE Blank(s) \/ OddFences(s)
  <2>1. p = [sentences |-> <<>>, rest |-> s]
    BY <1>1 DEF Split
  <2>2. p.sentences = <<>> /\ p.rest = s
    BY <2>1
  <2>3. <<>> \in Seq(Seq(Symbols)) /\ <<>> \in Seq(Symbols) /\ Visible(<<>>) = <<>>
    <3> DEFINE e == <<>>
    <3>1. e \in Seq(Symbols) /\ Blank(e)
      BY DEF Blank
    <3> HIDE DEF e
    <3>2. Visible(e) = <<>>
      BY <3>1, VisibleBlank
    <3> QED BY <3>2 DEF e
  <2>4. <<>> \o Visible(s) = Visible(s)
    BY <1>0, ConcatEmptySeq
  <2> HIDE DEF p
  <2>5. /\ p.sentences \in Seq(Seq(Symbols)) /\ p.rest \in Seq(Symbols)
        /\ Visible(FlattenSeq(p.sentences)) \o Visible(p.rest) = Visible(s)
    BY <2>2, <2>3, <2>4, FlattenNone
  <2> QED BY <2>5 DEF p
<1>2. CASE ~(Blank(s) \/ OddFences(s))
  <2> DEFINE closed == Closed(s)
             tail == From(s, closed.start + 1)
             line == LastOf(tail, "P")
             title == Strip(Upto(tail, line - 1))
             rest == From(tail, line + 1)
  <2>1. p = [sentences |-> IF line = 0 \/ title = <<>> THEN closed.sentences
                           ELSE Append(closed.sentences, title), rest |-> rest]
    BY <1>2 DEF Split
  <2>2. /\ closed \in Opened /\ closed.start \in 0..Len(s)
        /\ Visible(FlattenSeq(closed.sentences)) = Visible(Upto(s, closed.start))
    <3>1. Len(s) \in 0..Len(s)
      BY LenProperties
    <3>2. closed = ClosedAt(s)[Len(s)]
      BY ClosedAtIs
    <3> HIDE DEF closed
    <3> QED BY <3>1, <3>2, ClosedKeeps
  <2> DEFINE e == closed.start + 1
  <2>3. closed.sentences \in Seq(Seq(Symbols)) /\ e \in 1..(Len(s) + 1) /\ e - 1 = closed.start
    <3>1. Len(s) \in Nat
      BY LenProperties
    <3> HIDE DEF closed
    <3> QED BY <2>2, <3>1 DEF Opened
  <2>4. tail \in Seq(Symbols) /\ Upto(s, closed.start) \in Seq(Symbols) /\ Upto(s, closed.start) \o tail = s
    <3>1. From(s, e) \in Seq(Symbols) /\ Upto(s, e - 1) \in Seq(Symbols) /\ Upto(s, e - 1) \o From(s, e) = s
      <4> HIDE DEF e
      <4> QED BY <2>3, Pieces
    <3>2. e - 1 = closed.start /\ tail = From(s, e)
      BY <2>3
    <3> HIDE DEF closed, tail
    <3> QED BY <3>1, <3>2
  <2>5. Visible(s) = Visible(Upto(s, closed.start)) \o Visible(tail)
    <3> DEFINE up == Upto(s, closed.start)
    <3> HIDE DEF up, tail
    <3>1. Visible(up \o tail) = Visible(up) \o Visible(tail)
      BY <2>4, VisibleBoth DEF up
    <3> QED BY <2>4, <3>1 DEF up
  <2>6. /\ rest \in Seq(Symbols) /\ title \in Seq(Symbols)
        /\ line = 0 => rest = tail
        /\ line # 0 => Visible(title) \o Visible(rest) = Visible(tail)
    <3> HIDE DEF tail
    <3> QED BY <2>4, LineKeeps
  <2> HIDE DEF p, tail, line, title, rest, closed
  <2>7. Visible(rest) \in Seq(Symbols) /\ Visible(title) \in Seq(Symbols) /\ FlattenSeq(closed.sentences) \in Seq(Symbols)
    BY <2>3, <2>6, VisibleIs, FlattenIsSeq
  <2> DEFINE vc == Visible(FlattenSeq(closed.sentences))
  <2>8. vc \in Seq(Symbols)
    BY <2>7, VisibleIs
  <2>9. CASE line = 0
    <3>1. p.sentences = closed.sentences /\ p.rest = tail
      BY <2>1, <2>6, <2>9
    <3> QED BY <2>2, <2>3, <2>4, <2>5, <3>1 DEF p
  <2>10. CASE line # 0 /\ title = <<>>
    <3>1. p.sentences = closed.sentences /\ p.rest = rest
      BY <2>1, <2>10
    <3>2. Visible(title) = <<>>
      <4>1. Blank(title)
        BY <2>10 DEF Blank
      <4> QED BY <2>6, <4>1, VisibleBlank
    <3>3. Visible(tail) = Visible(rest)
      BY <2>6, <2>7, <2>10, <3>2, ConcatEmptySeq
    <3> QED BY <2>2, <2>3, <2>5, <2>6, <3>1, <3>3 DEF p
  <2>11. CASE line # 0 /\ title # <<>>
    <3>1. p.sentences = Append(closed.sentences, title) /\ p.rest = rest
      BY <2>1, <2>11
    <3>2. /\ Append(closed.sentences, title) \in Seq(Seq(Symbols))
          /\ Visible(FlattenSeq(Append(closed.sentences, title))) = vc \o Visible(title)
      BY <2>3, <2>6, VisibleGoesOn
    <3> DEFINE vt == Visible(title)
               vr == Visible(rest)
    <3>3. vt \in Seq(Symbols) /\ vr \in Seq(Symbols) /\ vt \o vr = Visible(tail)
      BY <2>6, <2>7, <2>11
    <3>4. Visible(FlattenSeq(p.sentences)) = vc \o vt /\ Visible(p.rest) = vr /\ Visible(s) = vc \o Visible(tail)
      BY <2>2, <2>5, <3>1, <3>2
    <3> HIDE DEF vc, vt, vr
    <3>a. Associates(Symbols)
      BY Regroup
    <3>5. (vc \o vt) \o vr = vc \o (vt \o vr)
      BY <2>8, <3>a, <3>3 DEF Associates
    <3>6. p.sentences \in Seq(Seq(Symbols)) /\ p.rest \in Seq(Symbols)
      BY <2>6, <3>1, <3>2
    <3> QED BY <3>3, <3>4, <3>5, <3>6 DEF p
  <2> QED BY <2>9, <2>10, <2>11
<1> QED BY <1>1, <1>2

-----------------------------------------------------------------------------
(* Hard cuts                                                                *)

\* A text cut in two at any place.
LEMMA Beginning ==
    ASSUME NEW s \in Seq(Symbols), NEW m \in 0..Len(s)
    PROVE  /\ Upto(s, m) \in Seq(Symbols) /\ Len(Upto(s, m)) = m
           /\ \A k \in 1..m : Upto(s, m)[k] = s[k]
           /\ From(s, m + 1) \in Seq(Symbols) /\ Len(From(s, m + 1)) = Len(s) - m
           /\ \A k \in 1..(Len(s) - m) : From(s, m + 1)[k] = s[m + k]
           /\ Upto(s, m) \o From(s, m + 1) = s
<1> DEFINE e == m + 1
<1>1. Len(s) \in Nat /\ e \in 1..(Len(s) + 1) /\ e - 1 = m /\ Len(s) - e + 1 = Len(s) - m
      /\ \A k \in 1..(Len(s) - m) : e + k - 1 = m + k
  BY LenProperties
<1> HIDE DEF e
<1>2. /\ From(s, e) \in Seq(Symbols) /\ Len(From(s, e)) = Len(s) - e + 1
      /\ \A k \in 1..(Len(s) - e + 1) : From(s, e)[k] = s[e + k - 1]
      /\ Upto(s, e - 1) \in Seq(Symbols) /\ Len(Upto(s, e - 1)) = e - 1
      /\ \A k \in 1..(e - 1) : Upto(s, e - 1)[k] = s[k]
      /\ Upto(s, e - 1) \o From(s, e) = s
  BY <1>1, Pieces
<1>3. /\ From(s, e) \in Seq(Symbols) /\ Len(From(s, e)) = Len(s) - m
      /\ \A k \in 1..(Len(s) - m) : From(s, e)[k] = s[m + k]
      /\ Upto(s, m) \in Seq(Symbols) /\ Len(Upto(s, m)) = m
      /\ \A k \in 1..m : Upto(s, m)[k] = s[k]
      /\ Upto(s, m) \o From(s, e) = s
  BY <1>1, <1>2
<1> QED BY <1>3 DEF e

\* A beginning of a beginning.
LEMMA UptoUpto ==
    ASSUME NEW s \in Seq(Symbols), NEW a \in 0..Len(s), NEW m \in 0..a
    PROVE  Upto(Upto(s, a), m) = Upto(s, m)
<1> DEFINE t == Upto(s, a)
           p == Upto(t, m)
           q == Upto(s, m)
<1>1. Len(s) \in Nat /\ m \in 0..Len(s)
  BY LenProperties
<1>2. t \in Seq(Symbols) /\ Len(t) = a /\ \A k \in 1..a : t[k] = s[k]
  BY Beginning
<1>3. q \in Seq(Symbols) /\ Len(q) = m /\ \A k \in 1..m : q[k] = s[k]
  BY <1>1, Beginning
<1> HIDE DEF t, q
<1>4. p \in Seq(Symbols) /\ Len(p) = m /\ \A k \in 1..m : p[k] = t[k]
  BY <1>2, Beginning
<1> HIDE DEF p
<1>5. \A k \in 1..Len(p) : p[k] = q[k]
  <2> TAKE k \in 1..Len(p)
  <2>1. k \in 1..m /\ k \in 1..a
    BY <1>1, <1>4
  <2> QED BY <1>2, <1>3, <1>4, <2>1
<1>6. p = q
  BY <1>3, <1>4, <1>5, SeqEqual
<1> QED BY <1>6 DEF p, q, t

\* A cut is a beginning of the buffer, without the blanks at its ends.
LEMMA HardCutIs ==
    ASSUME NEW s \in Seq(Symbols), Len(s) >= HardFlush
    PROVE  \E a \in 0..Len(s) : HardCut(s) = Strip(Upto(s, a))
<1> DEFINE window == Upto(s, HardFlush)
           I == {i \in DOMAIN window : window[i] = "_"}
           space == LastOf(window, "_")
<1>1. HardFlush \in Nat /\ HardFlush # 0 /\ Len(s) \in Nat /\ HardFlush \in 0..Len(s)
  BY SegmenterAssumption, LenProperties
<1>2. window \in Seq(Symbols) /\ Len(window) = HardFlush
  BY <1>1, Beginning
<1>3. space \in 0..HardFlush
  <2> HIDE DEF window
  <2>1. I \in SUBSET (1..HardFlush)
    <3>1. DOMAIN window = 1..HardFlush
      BY <1>2, LenProperties
    <3> QED BY <3>1
  <2>2. space = Max(I \cup {0})
    BY DEF LastOf
  <2> HIDE DEF I
  <2> QED BY <1>1, <2>1, <2>2, LastPlace
<1>4. HardCut(s) = Strip(IF space - 1 > HardFlush \div 2 THEN Upto(window, space - 1) ELSE window)
  BY DEF HardCut
<1> HIDE DEF space
<1>5. CASE space - 1 > HardFlush \div 2
  <2>1. HardFlush \div 2 \in Nat
    BY <1>1
  <2> DEFINE m == space - 1
  <2>2. m \in 0..HardFlush /\ m \in 0..Len(s)
    BY <1>1, <1>3, <1>5, <2>1
  <2> HIDE DEF m
  <2>3. Upto(window, m) = Upto(s, m)
    BY <1>1, <2>2, UptoUpto
  <2>4. HardCut(s) = Strip(Upto(s, m))
    BY <1>4, <1>5, <2>3 DEF m
  <2> QED BY <2>2, <2>4
<1>6. CASE ~(space - 1 > HardFlush \div 2)
  <2>1. HardCut(s) = Strip(Upto(s, HardFlush))
    BY <1>4, <1>6
  <2> QED BY <1>1, <2>1
<1> QED BY <1>5, <1>6

\* What begins with no blank is only cut at its end.
LEMMA StripOfBeginning ==
    ASSUME NEW s \in Seq(Symbols), NEW a \in 0..Len(s), s # <<>>, Head(s) \notin Blanks
    PROVE  Strip(Upto(s, a)) = Upto(s, Len(Strip(Upto(s, a))))
<1> DEFINE t == Upto(s, a)
<1>0. Len(s) \in Nat /\ Len(s) # 0 /\ Head(s) = s[1]
  BY LenProperties, EmptySeq
<1>1. t \in Seq(Symbols) /\ Len(t) = a /\ \A k \in 1..a : t[k] = s[k]
  BY Beginning
<1>2. LStrip(t) = t
  <2> HIDE DEF t
  <2>1. PICK i \in 1..(Len(t) + 1) : LStrip(t) = From(t, i) /\ \A k \in 1..(i - 1) : t[k] \in Blanks
    BY <1>1, LStripIs
  <2>2. i = 1
    <3> SUFFICES ASSUME i # 1 PROVE FALSE
      OBVIOUS
    <3>1. 1 \in 1..(i - 1) /\ 1 \in 1..a
      BY <1>0, <1>1, <2>1
    <3> QED BY <1>0, <1>1, <2>1, <3>1
  <2>3. SubSeq(t, 1, Len(t)) = t
    BY <1>1, SubSeqFull
  <2> QED BY <2>1, <2>2, <2>3 DEF From
<1>3. PICK m \in 0..a : RStrip(t) = Upto(t, m)
  <2> HIDE DEF t
  <2> QED BY <1>1, RStripIs
<1>4. Upto(t, m) = Upto(s, m)
  BY UptoUpto
<1>5. Len(Upto(s, m)) = m
  <2>1. m \in 0..Len(s)
    BY <1>0
  <2> QED BY <2>1, Beginning
<1>6. Strip(t) = Upto(s, m)
  BY <1>2, <1>3, <1>4 DEF Strip
<1> QED BY <1>5, <1>6

\* What a long buffer is cut into, and the body of CutLong as an equation.
CutTexts == [sentences : Seq(Seq(Symbols)), rest : Seq(Symbols), recut : BOOLEAN]

\* What is left behind a cut.
AfterCut(s) == LStrip(From(s, Len(HardCut(s)) + 1))

\* One round of the cutting.
CutStep(f, s) ==
    LET cut == HardCut(s)
    IN  IF Len(s) < HardFlush \/ cut = <<>>
        THEN [sentences |-> <<>>, rest |-> s, recut |-> FALSE]
        ELSE LET more == f[LStrip(From(s, Len(cut) + 1))]
             IN  [more EXCEPT !.sentences = <<cut>> \o @,
                              !.recut = @ \/ Head(s) \in Blanks]

\* CutLong is a solution of the equation, if there is one.
LEMMA CutDef == CutLong = CHOOSE f : f = [s \in Seq(Symbols) |-> CutStep(f, s)]
BY DEF CutLong, CutStep

\* The loop ends.
Uncut(s) == Len(s) < HardFlush \/ HardCut(s) = <<>>

\* A cut before what more there is.
CutAfter(cut, more, first) == [more EXCEPT !.sentences = <<cut>> \o @, !.recut = @ \/ first \in Blanks]

\* The last round.
LEMMA CutNone == ASSUME NEW f, NEW s, Uncut(s) PROVE CutStep(f, s) = [sentences |-> <<>>, rest |-> s, recut |-> FALSE]
BY DEF Uncut, CutStep

\* Any other round.
LEMMA CutSome == ASSUME NEW f, NEW s, ~Uncut(s) PROVE CutStep(f, s) = CutAfter(HardCut(s), f[AfterCut(s)], Head(s))
BY DEF Uncut, CutStep, CutAfter, AfterCut

\* A cut makes the buffer shorter.
LEMMA CutShortens ==
    ASSUME NEW s \in Seq(Symbols), ~Uncut(s)
    PROVE  /\ HardCut(s) \in Seq(Symbols) /\ Len(HardCut(s)) \in 1..Len(s) /\ AfterCut(s) \in Seq(Symbols)
           /\ Len(AfterCut(s)) < Len(s)
<1> DEFINE cut == HardCut(s)
<1>0. Len(s) \in Nat /\ HardFlush \in Nat /\ HardFlush # 0
  BY SegmenterAssumption, LenProperties
<1>1. Len(s) >= HardFlush /\ cut # <<>>
  BY <1>0 DEF Uncut
<1>2. PICK a \in 0..Len(s) : cut = Strip(Upto(s, a))
  BY <1>1, HardCutIs
<1> HIDE DEF cut
<1>3. Upto(s, a) \in Seq(Symbols) /\ Len(Upto(s, a)) = a
  BY Beginning
<1>4. cut \in Seq(Symbols) /\ Len(cut) <= a
  BY <1>2, <1>3, StripKeeps
<1>5. Len(cut) \in Nat /\ Len(cut) # 0
  BY <1>1, <1>4, EmptySeq, LenProperties
<1> DEFINE m == Len(cut)
<1>6. m \in 1..Len(s) /\ m \in 0..Len(s)
  BY <1>0, <1>4, <1>5
<1>7. From(s, m + 1) \in Seq(Symbols) /\ Len(From(s, m + 1)) = Len(s) - m
  <2> HIDE DEF m
  <2> QED BY <1>6, Beginning
<1> DEFINE t == From(s, m + 1)
<1>8. LStrip(t) \in Seq(Symbols) /\ Len(LStrip(t)) <= Len(t)
  <2>1. t \in Seq(Symbols)
    BY <1>7
  <2> HIDE DEF t
  <2> QED BY <2>1, LStripKeeps
<1>9. Len(LStrip(t)) < Len(s)
  <2>1. Len(t) = Len(s) - m /\ Len(LStrip(t)) \in Nat
    BY <1>7, <1>8, LenProperties
  <2> HIDE DEF t, m
  <2> QED BY <1>0, <1>6, <1>8, <2>1
<1> QED BY <1>4, <1>6, <1>8, <1>9 DEF AfterCut, cut

\* A round makes cuts out of cuts.
LEMMA CutStepIs ==
    ASSUME NEW f, NEW s \in Seq(Symbols), \A t \in Seq(Symbols) : Len(t) < Len(s) => f[t] \in CutTexts
    PROVE  CutStep(f, s) \in CutTexts
<1>1. CASE Uncut(s)
  <2>1. <<>> \in Seq(Seq(Symbols)) /\ FALSE \in BOOLEAN
    OBVIOUS
  <2>2. CutStep(f, s) = [sentences |-> <<>>, rest |-> s, recut |-> FALSE]
    BY <1>1, CutNone
  <2> QED BY <2>1, <2>2 DEF CutTexts
<1>2. CASE ~Uncut(s)
  <2> DEFINE r == f[AfterCut(s)]
             cut == HardCut(s)
  <2>1. cut \in Seq(Symbols) /\ AfterCut(s) \in Seq(Symbols) /\ Len(AfterCut(s)) < Len(s)
    BY <1>2, CutShortens
  <2>2. r \in CutTexts
    BY <2>1
  <2>3. CutStep(f, s) = CutAfter(cut, r, Head(s))
    BY <1>2, CutSome
  <2> HIDE DEF r, cut
  <2>4. <<cut>> \o r.sentences \in Seq(Seq(Symbols))
    <3>1. <<cut>> \in Seq(Seq(Symbols)) /\ r.sentences \in Seq(Seq(Symbols))
      BY <2>1, <2>2 DEF CutTexts
    <3> QED BY <3>1, ConcatProperties
  <2>5. (r.recut \/ Head(s) \in Blanks) \in BOOLEAN
    OBVIOUS
  <2> QED BY <2>2, <2>3, <2>4, <2>5 DEF CutAfter, CutTexts
<1> QED BY <1>1, <1>2

\* CutLong solves its equation, and gives texts.
LEMMA CutLongIs ==
    /\ CutLong \in [Seq(Symbols) -> CutTexts]
    /\ \A s \in Seq(Symbols) : CutLong[s] = CutStep(CutLong, s)
<1> DEFINE S == Seq(Symbols)
           Y == CutTexts
           size == [s \in S |-> Len(s)]
           body == [f \in [S -> Y] |-> [s \in S |-> CutStep(f, s)]]
<1>1. \A f \in [S -> Y], s \in S : CutStep(f, s) \in Y
  BY CutStepIs
<1>2. size \in [S -> Nat] /\ body \in [[S -> Y] -> [S -> Y]]
  BY <1>1, LenProperties
<1>3. Y # {}
  <2>1. [sentences |-> <<>>, rest |-> <<>>, recut |-> FALSE] \in Y
    BY DEF CutTexts
  <2> QED BY <2>1
<1>4. ASSUME NEW f \in [S -> Y], NEW g \in [S -> Y], NEW s \in S,
             \A t \in S : size[t] < size[s] => f[t] = g[t]
      PROVE  CutStep(f, s) = CutStep(g, s)
  <2>1. CASE Uncut(s)
    BY <2>1, CutNone
  <2>2. CASE ~Uncut(s)
    <3>1. AfterCut(s) \in S /\ Len(AfterCut(s)) < Len(s)
      BY <2>2, CutShortens
    <3>2. f[AfterCut(s)] = g[AfterCut(s)]
      BY <1>4, <3>1
    <3>3. /\ CutStep(f, s) = CutAfter(HardCut(s), f[AfterCut(s)], Head(s))
          /\ CutStep(g, s) = CutAfter(HardCut(s), g[AfterCut(s)], Head(s))
      BY <2>2, CutSome
    <3> QED BY <3>2, <3>3
  <2> QED BY <2>1, <2>2
<1>5. \A f \in [S -> Y], s \in S : body[f][s] = CutStep(f, s)
  OBVIOUS
<1>6. \A f \in [S -> Y] : body[f] = [s \in S |-> CutStep(f, s)]
  OBVIOUS
<1> HIDE DEF body, size
<1>7. ByRecursion(S, size, Y, body)
  <2> HIDE DEF S, Y
  <2>1. \A f, g \in [S -> Y], s \in S :
           (\A t \in S : size[t] < size[s] => f[t] = g[t]) => CutStep(f, s) = CutStep(g, s)
    BY <1>4
  <2> QED BY <1>2, <1>3, <1>5, <2>1 DEF ByRecursion
<1>8. PICK F \in [S -> Y] : F = body[F]
  <2> HIDE DEF S, Y
  <2> QED BY <1>7, SolutionExists
<1>9. F = [s \in S |-> CutStep(F, s)]
  BY <1>6, <1>8
<1> DEFINE Meets(f) == f = [s \in S |-> CutStep(f, s)]
<1>10. CutLong = CHOOSE f : Meets(f)
  BY CutDef
<1>11. Meets(CutLong)
  <2>1. Meets(F)
    BY <1>9
  <2> HIDE DEF Meets
  <2> QED BY <1>10, <2>1
<1>12. CutLong = [s \in S |-> CutStep(CutLong, s)]
  BY <1>11
<1>13. \A s \in S : CutLong[s] = CutStep(CutLong, s)
  BY <1>12
<1>14. \A s \in S : CutLong[s] \in Y
  <2> DEFINE T == {n \in Nat : \A s \in S : Len(s) = n => CutLong[s] \in Y}
  <2>1. ASSUME NEW n \in Nat, \A m \in Nat : m < n => m \in T PROVE n \in T
    <3> SUFFICES ASSUME NEW s \in S, Len(s) = n PROVE CutLong[s] \in Y
      OBVIOUS
    <3>1. \A t \in S : Len(t) < Len(s) => CutLong[t] \in Y
      BY <2>1, LenProperties
    <3>2. CutStep(CutLong, s) \in Y
      BY <3>1, CutStepIs
    <3> QED BY <1>13, <3>2
  <2> HIDE DEF T
  <2>2. Nat \subseteq T
    BY <2>1, Strongly
  <2> QED BY <2>2, LenProperties DEF T
<1>15. CutLong \in [S -> Y]
  <2> HIDE DEF S, Y
  <2> QED BY <1>12, <1>13, <1>14
<1> QED BY <1>13, <1>15

\* The cuts and what remains are the text, as long as none began at a blank.
KeepsIt(c, s) == ~c.recut => Visible(FlattenSeq(c.sentences)) \o Visible(c.rest) = Visible(s)

\* The loop keeps the text unless it recuts.
LEMMA CutKeeps == \A s \in Seq(Symbols) : CutLong[s] \in CutTexts /\ KeepsIt(CutLong[s], s)
<1> DEFINE T == {n \in Nat : \A s \in Seq(Symbols) : Len(s) = n => KeepsIt(CutLong[s], s)}
<1>1. ASSUME NEW k \in Nat, \A m \in Nat : m < k => m \in T PROVE k \in T
  <2> SUFFICES ASSUME NEW s \in Seq(Symbols), Len(s) = k PROVE KeepsIt(CutLong[s], s)
    OBVIOUS
  <2> DEFINE c == CutLong[s]
  <2>1. c = CutStep(CutLong, s)
    BY CutLongIs
  <2>2. CASE Uncut(s)
    <3>1. c.sentences = <<>> /\ c.rest = s
      BY <2>1, <2>2, CutNone
    <3> HIDE DEF c
    <3>2. Visible(s) \in Seq(Symbols)
      BY VisibleIs
    <3>3. <<>> \o Visible(s) = Visible(s) /\ Visible(<<>>) = <<>>
      <4> DEFINE e == <<>>
      <4>1. e \in Seq(Symbols) /\ Blank(e)
        BY DEF Blank
      <4> HIDE DEF e
      <4>2. Visible(e) = <<>>
        BY <4>1, VisibleBlank
      <4> QED BY <3>2, <4>2, ConcatEmptySeq DEF e
    <3> QED BY <3>1, <3>3, FlattenNone DEF KeepsIt, c
  <2>3. CASE ~Uncut(s)
    <3> DEFINE cut == HardCut(s)
               t == From(s, Len(cut) + 1)
               u == AfterCut(s)
               r == CutLong[u]
    <3>1. /\ cut \in Seq(Symbols) /\ Len(cut) \in 1..Len(s) /\ u \in Seq(Symbols) /\ Len(u) < Len(s)
      BY <2>3, CutShortens
    <3>2. c = CutAfter(cut, r, Head(s)) /\ r \in CutTexts
      BY <2>1, <2>3, <3>1, CutSome, CutLongIs
    <3>3. KeepsIt(r, u)
      <4> HIDE DEF u
      <4>1. Len(u) \in Nat /\ Len(u) < k
        BY <3>1, LenProperties
      <4>2. Len(u) \in T
        BY <1>1, <4>1
      <4> QED BY <3>1, <4>2
    <3>4. u = LStrip(t)
      BY DEF AfterCut
    <3> HIDE DEF c, r, u
    <3>5. /\ r.sentences \in Seq(Seq(Symbols)) /\ r.rest \in Seq(Symbols)
          /\ c.sentences = <<cut>> \o r.sentences /\ c.rest = r.rest /\ c.recut = (r.recut \/ Head(s) \in Blanks)
      BY <3>2 DEF CutTexts, CutAfter
    <3> SUFFICES ASSUME ~c.recut PROVE Visible(FlattenSeq(c.sentences)) \o Visible(c.rest) = Visible(s)
      BY DEF KeepsIt, c
    <3>6. ~r.recut /\ Head(s) \notin Blanks
      BY <3>5
    <3>7. cut = Upto(s, Len(cut))
      <4>1. Len(s) >= HardFlush /\ s # <<>>
        <5>1. Len(s) \in Nat /\ HardFlush \in Nat /\ HardFlush # 0
          BY SegmenterAssumption, LenProperties
        <5>2. Len(s) >= HardFlush
          BY <2>3, <5>1 DEF Uncut
        <5> QED BY <5>1, <5>2, EmptySeq
      <4>2. PICK a \in 0..Len(s) : cut = Strip(Upto(s, a))
        BY <4>1, HardCutIs
      <4> HIDE DEF cut
      <4>3. Strip(Upto(s, a)) = Upto(s, Len(Strip(Upto(s, a))))
        BY <3>6, <4>1, StripOfBeginning
      <4> QED BY <4>2, <4>3
    <3>8. t \in Seq(Symbols) /\ cut \o t = s
      <4> DEFINE m == Len(cut)
      <4>1. m \in 0..Len(s)
        BY <3>1
      <4>2. From(s, m + 1) \in Seq(Symbols) /\ Upto(s, m) \o From(s, m + 1) = s
        <5> HIDE DEF m
        <5> QED BY <4>1, Beginning
      <4> HIDE DEF cut
      <4> QED BY <3>7, <4>2
    <3> HIDE DEF cut, t
    <3>9. Visible(u) = Visible(t)
      BY <3>4, <3>8, LStripKeeps
    <3>10. Visible(s) = Visible(cut) \o Visible(t)
      BY <3>1, <3>8, VisibleBoth
    <3>11. Visible(FlattenSeq(c.sentences)) = Visible(cut) \o Visible(FlattenSeq(r.sentences))
      <4> DEFINE rs == r.sentences
                 f == FlattenSeq(rs)
      <4>1. <<cut>> \in Seq(Seq(Symbols)) /\ rs \in Seq(Seq(Symbols))
        BY <3>1, <3>5
      <4>2. f \in Seq(Symbols)
        BY <4>1, FlattenIsSeq
      <4> HIDE DEF rs, f
      <4>3. FlattenSeq(<<cut>> \o rs) = FlattenSeq(<<cut>>) \o FlattenSeq(rs)
        BY <4>1, FlattenBoth
      <4>4. FlattenSeq(<<cut>>) = cut
        <5> DEFINE e == <<>>
        <5>1. e \in Seq(Seq(Symbols)) /\ Append(e, cut) = <<cut>> /\ FlattenSeq(e) = <<>>
          BY FlattenNone
        <5> HIDE DEF e
        <5>2. FlattenSeq(Append(e, cut)) = FlattenSeq(e) \o cut
          BY <3>1, <5>1, FlattenGoesOn
        <5>3. <<>> \o cut = cut
          BY <3>1, ConcatEmptySeq
        <5> QED BY <5>1, <5>2, <5>3
      <4>5. Visible(cut \o f) = Visible(cut) \o Visible(f)
        BY <3>1, <4>2, VisibleBoth
      <4> QED BY <3>5, <4>3, <4>4, <4>5 DEF rs, f
    <3> DEFINE a == Visible(cut)
               b == Visible(FlattenSeq(r.sentences))
               d == Visible(r.rest)
    <3>12. a \in Seq(Symbols) /\ b \in Seq(Symbols) /\ d \in Seq(Symbols)
      BY <3>1, <3>5, VisibleIs, FlattenIsSeq
    <3>13. b \o d = Visible(u)
      BY <3>3, <3>6 DEF KeepsIt
    <3>14. Visible(FlattenSeq(c.sentences)) = a \o b /\ Visible(c.rest) = d /\ Visible(s) = a \o Visible(u)
      BY <3>5, <3>9, <3>10, <3>11
    <3> HIDE DEF a, b, d
    <3>a. Associates(Symbols)
      BY Regroup
    <3>15. (a \o b) \o d = a \o (b \o d)
      BY <3>a, <3>12 DEF Associates
    <3> QED BY <3>13, <3>14, <3>15
  <2> QED BY <2>2, <2>3
<1> HIDE DEF T
<1>2. Nat \subseteq T
  BY <1>1, Strongly
<1>3. \A s \in Seq(Symbols) : CutLong[s] \in CutTexts
  BY CutLongIs
<1> QED BY <1>2, <1>3, LenProperties DEF T

\* What a push hands over and keeps is the buffer.
LEMMA TakeKeeps ==
    ASSUME NEW s \in Seq(Symbols)
    PROVE  Take(s) \in CutTexts /\ KeepsIt(Take(s), s)
<1> DEFINE p == Split(s)
           l == CutLong[p.rest]
           t == Take(s)
<1>1. /\ p.sentences \in Seq(Seq(Symbols)) /\ p.rest \in Seq(Symbols)
      /\ Visible(FlattenSeq(p.sentences)) \o Visible(p.rest) = Visible(s)
  BY SplitKeeps
<1>2. l \in CutTexts /\ KeepsIt(l, p.rest)
  <2> DEFINE q == p.rest
  <2>1. q \in Seq(Symbols)
    BY <1>1
  <2> HIDE DEF q
  <2>2. CutLong[q] \in CutTexts /\ KeepsIt(CutLong[q], q)
    BY <2>1, CutKeeps
  <2> QED BY <2>2 DEF q
<1>3. t = [l EXCEPT !.sentences = p.sentences \o @]
  BY DEF Take
<1> HIDE DEF p, l, t
<1>4. l.sentences \in Seq(Seq(Symbols)) /\ l.rest \in Seq(Symbols) /\ l.recut \in BOOLEAN
  BY <1>2 DEF CutTexts
<1>5. t.sentences = p.sentences \o l.sentences /\ t.rest = l.rest /\ t.recut = l.recut
  BY <1>2, <1>3 DEF CutTexts
<1>6. p.sentences \o l.sentences \in Seq(Seq(Symbols))
  BY <1>1, <1>4, ConcatProperties
<1>7. t \in CutTexts
  BY <1>2, <1>3, <1>6 DEF CutTexts
<1>8. ASSUME ~t.recut PROVE Visible(FlattenSeq(t.sentences)) \o Visible(t.rest) = Visible(s)
  <2> DEFINE x == FlattenSeq(p.sentences)
             y == FlattenSeq(l.sentences)
  <2>1. x \in Seq(Symbols) /\ y \in Seq(Symbols)
    BY <1>1, <1>4, FlattenIsSeq
  <2>2. FlattenSeq(t.sentences) = x \o y
    BY <1>1, <1>4, <1>5, FlattenBoth
  <2> HIDE DEF x, y
  <2>3. Visible(x \o y) = Visible(x) \o Visible(y)
    BY <2>1, VisibleBoth
  <2> DEFINE a == Visible(x)
             b == Visible(y)
             d == Visible(l.rest)
  <2>4. a \in Seq(Symbols) /\ b \in Seq(Symbols) /\ d \in Seq(Symbols)
    BY <1>4, <2>1, VisibleIs
  <2>5. b \o d = Visible(p.rest)
    BY <1>2, <1>5, <1>8 DEF KeepsIt, y
  <2>6. Visible(FlattenSeq(t.sentences)) = a \o b /\ Visible(t.rest) = d /\ a \o Visible(p.rest) = Visible(s)
    BY <1>1, <1>5, <2>2, <2>3 DEF x
  <2> HIDE DEF a, b, d
  <2>a. Associates(Symbols)
    BY Regroup
  <2>7. (a \o b) \o d = a \o (b \o d)
    BY <2>a, <2>4 DEF Associates
  <2> QED BY <2>5, <2>6, <2>7
<1> QED BY <1>7, <1>8 DEF KeepsIt, t

-----------------------------------------------------------------------------
(* The text of the answer is kept                                           *)

\* Until the end nothing held back has been put between the sentences.
KeptSoFar ==
    /\ held = <<>>
    /\ ~recut => Visible(FlattenSeq(out) \o buffer) = Visible(answer)

\* The inductive invariant for TextIsKept.
TextInv ==
    /\ TagInv
    /\ out \in Seq(Seq(Symbols)) /\ buffer \in Seq(Symbols) /\ recut \in BOOLEAN
    /\ ~finished => KeptSoFar
    /\ TextIsKept

\* Two texts put together come apart where they met.
LEMMA BothAgain ==
    ASSUME NEW s \in Seq(Symbols), NEW t \in Seq(Symbols)
    PROVE  Len(s) \in 0..Len(s \o t) /\ Upto(s \o t, Len(s)) = s /\ From(s \o t, Len(s) + 1) = t
<1> DEFINE i == Len(s) + 1
<1>1. i \in 1..(Len(s) + 1) /\ i - 1 = Len(s) /\ Len(s) \in Nat /\ Len(t) \in Nat /\ Len(s \o t) = Len(s) + Len(t)
  BY Both
<1>2. Len(s) \in 0..Len(s \o t)
  BY <1>1
<1> HIDE DEF i
<1>3. From(s \o t, i) = From(s, i) \o t /\ Upto(s \o t, i - 1) = Upto(s, i - 1)
  BY <1>1, PiecesOfBoth
<1>4. /\ From(s, i) \in Seq(Symbols) /\ Len(From(s, i)) = Len(s) - i + 1
      /\ Upto(s, i - 1) \in Seq(Symbols) /\ Len(Upto(s, i - 1)) = i - 1
      /\ Upto(s, i - 1) \o From(s, i) = s
  BY <1>1, Pieces
<1>5. From(s, i) = <<>>
  <2>1. Len(From(s, i)) = 0
    BY <1>1, <1>4 DEF i
  <2> QED BY <1>4, <2>1, EmptySeq
<1>6. Upto(s, i - 1) \o <<>> = Upto(s, i - 1) /\ <<>> \o t = t
  BY <1>4, ConcatEmptySeq
<1>7. From(s \o t, i) = t /\ Upto(s \o t, i - 1) = s
  BY <1>3, <1>4, <1>5, <1>6
<1>8. Upto(s \o t, Len(s)) = s
  BY <1>1, <1>7
<1> QED BY <1>2, <1>7, <1>8 DEF i

\* The empty text shows nothing.
VisibleNone == Visible(<<>>) = <<>>

\* It is blank.
LEMMA NothingVisible == VisibleNone
<1> DEFINE e == <<>>
<1>1. e \in Seq(Symbols) /\ Blank(e)
  BY DEF Blank
<1> HIDE DEF e
<1>2. Visible(e) = <<>>
  BY <1>1, VisibleBlank
<1> QED BY <1>2 DEF VisibleNone, e

\* Nothing put in at the very beginning changes nothing.
AtTheStart(k) == 0 \in 0..Len(k) /\ Upto(k, 0) \o Visible(<<>>) \o From(k, 0 + 1) = k

\* So it is for every text.
LEMMA NothingPut == ASSUME NEW k \in Seq(Symbols) PROVE AtTheStart(k)
<1> DEFINE e == <<>>
<1>1. e \in Seq(Symbols) /\ Len(e) = 0
  OBVIOUS
<1>2. Visible(<<>>) = e
  BY NothingVisible DEF VisibleNone
<1>3. e \o k = k /\ e \o e = e
  BY <1>1, ConcatEmptySeq
<1> HIDE DEF e
<1>4. Len(e) \in 0..Len(e \o k) /\ Upto(e \o k, Len(e)) = e /\ From(e \o k, Len(e) + 1) = k
  BY <1>1, BothAgain
<1>5. 0 \in 0..Len(k) /\ Upto(k, 0) = e /\ From(k, 0 + 1) = k
  BY <1>1, <1>3, <1>4
<1>6. Upto(k, 0) \o Visible(<<>>) \o From(k, 0 + 1) = k
  BY <1>2, <1>3, <1>5
<1> QED BY <1>5, <1>6 DEF AtTheStart

\* Before the end the property is that the text is kept.
LEMMA SoFarIsKept == KeptSoFar /\ AtTheStart(Visible(answer)) => TextIsKept
<1> SUFFICES ASSUME KeptSoFar, AtTheStart(Visible(answer)), ~recut
             PROVE  \E n \in 0..Len(Visible(answer)) :
                       Visible(FlattenSeq(out) \o buffer)
                           = Upto(Visible(answer), n) \o Visible(held) \o From(Visible(answer), n + 1)
  BY DEF TextIsKept
<1> DEFINE k == Visible(answer)
<1>1. Visible(FlattenSeq(out) \o buffer) = k /\ held = <<>>
  BY DEF KeptSoFar
<1>2. AtTheStart(k)
  OBVIOUS
<1> HIDE DEF k
<1>3. Visible(FlattenSeq(out) \o buffer) = Upto(k, 0) \o Visible(held) \o From(k, 0 + 1) /\ 0 \in 0..Len(k)
  BY <1>1, <1>2 DEF AtTheStart
<1> QED BY <1>3 DEF k

\* It holds at the beginning.
LEMMA TextInvInit == SegmenterInit => TextInv
<1> SUFFICES ASSUME SegmenterInit PROVE TextInv
  OBVIOUS
<1>1. TagInv
  BY TagInvInit
<1>2. out = <<>> /\ buffer = <<>> /\ recut = FALSE /\ answer = <<>> /\ held = <<>>
  BY DEF SegmenterInit
<1>3. out \in Seq(Seq(Symbols)) /\ buffer \in Seq(Symbols) /\ recut \in BOOLEAN
  <2>1. <<>> \in Seq(Seq(Symbols)) /\ <<>> \in Seq(Symbols) /\ FALSE \in BOOLEAN
    OBVIOUS
  <2> QED BY <1>2, <2>1
<1>4. FlattenSeq(<<>>) \o <<>> = <<>>
  BY FlattenNone
<1>5. KeptSoFar
  BY <1>2, <1>4 DEF KeptSoFar
<1>6. answer \in Seq(Symbols)
  BY <1>1 DEF TagInv, TagTypes
<1>7. TextIsKept
  <2>1. AtTheStart(Visible(answer))
    BY <1>6, NothingPut, VisibleIs
  <2> QED BY <1>5, <2>1, SoFarIsKept
<1> QED BY <1>1, <1>3, <1>5, <1>7 DEF TextInv

\* Three texts put together.
Regroups(a, b, c) == (a \o b) \o c = a \o (b \o c)

\* The order of putting them together does not matter.
LEMMA ThreeParts ==
    ASSUME NEW a \in Seq(Symbols), NEW b \in Seq(Symbols), NEW c \in Seq(Symbols)
    PROVE  Regroups(a, b, c)
<1>a. Associates(Symbols)
  BY Regroup
<1> QED BY <1>a DEF Associates, Regroups

\* What a push hands over and keeps goes on with the answer.
OutGoes(o, t, b, r, x, a) ==
    /\ Visible(FlattenSeq(o) \o b) = Visible(a)
    /\ Visible(FlattenSeq(t)) \o Visible(r) = Visible(b \o x)
    => Visible(FlattenSeq(o \o t) \o r) = Visible(a \o x)

\* So it does whatever the texts are.
LEMMA OutGoesOn ==
    ASSUME NEW o \in Seq(Seq(Symbols)), NEW t \in Seq(Seq(Symbols)), NEW b \in Seq(Symbols), NEW r \in Seq(Symbols),
           NEW x \in Seq(Symbols), NEW a \in Seq(Symbols)
    PROVE  OutGoes(o, t, b, r, x, a)
<1> SUFFICES ASSUME Visible(FlattenSeq(o) \o b) = Visible(a),
                    Visible(FlattenSeq(t)) \o Visible(r) = Visible(b \o x)
             PROVE  Visible(FlattenSeq(o \o t) \o r) = Visible(a \o x)
  BY DEF OutGoes
<1> DEFINE f == FlattenSeq(o)
           g == FlattenSeq(t)
<1>1. f \in Seq(Symbols) /\ g \in Seq(Symbols) /\ FlattenSeq(o \o t) = f \o g
  BY FlattenIsSeq, FlattenBoth
<1> HIDE DEF f, g
<1>2. (f \o g) \in Seq(Symbols)
  BY <1>1, ConcatProperties
<1>3. Visible((f \o g) \o r) = Visible(f \o g) \o Visible(r)
  BY <1>2, VisibleBoth
<1>4. Visible(f \o g) = Visible(f) \o Visible(g) /\ Visible(f \o b) = Visible(f) \o Visible(b)
      /\ Visible(b \o x) = Visible(b) \o Visible(x) /\ Visible(a \o x) = Visible(a) \o Visible(x)
  BY <1>1, VisibleBoth
<1> DEFINE vf == Visible(f)
           vg == Visible(g)
           vb == Visible(b)
           vr == Visible(r)
           vx == Visible(x)
<1>5. vf \in Seq(Symbols) /\ vg \in Seq(Symbols) /\ vb \in Seq(Symbols) /\ vr \in Seq(Symbols) /\ vx \in Seq(Symbols)
  BY <1>1, VisibleIs
<1>6. vf \o vb = Visible(a) /\ vg \o vr = vb \o vx
  BY <1>4 DEF f, g
<1>7. Visible(FlattenSeq(o \o t) \o r) = (vf \o vg) \o vr /\ Visible(a \o x) = (vf \o vb) \o vx
  BY <1>1, <1>3, <1>4, <1>6
<1> HIDE DEF vf, vg, vb, vr, vx
<1>8. Regroups(vf, vg, vr) /\ Regroups(vf, vb, vx)
  BY <1>5, ThreeParts
<1> QED BY <1>6, <1>7, <1>8 DEF Regroups

\* A push keeps it.
LEMMA TextInvPush ==
    ASSUME TextInv, ~finished, NEW chunk \in Chunks, Push(chunk)
    PROVE  TextInv'
<1> DEFINE p == Separate[carry \o chunk][inside]
           x == p.answer
           b == buffer \o x
           t == Take(b)
<1>1. Pushed(chunk) /\ finished' = FALSE /\ answer' = answer \o x /\ held' = held
  BY DEF Push, Pushed
<1>2. TagInv'
  BY <1>1, TagInvPush DEF TextInv
<1>3. answer \in Seq(Symbols) /\ carry \in Seq(Symbols) /\ inside \in BOOLEAN /\ buffer \in Seq(Symbols)
      /\ out \in Seq(Seq(Symbols)) /\ recut \in BOOLEAN
  BY DEF TextInv, TagInv, TagTypes
<1>4. x \in Seq(Symbols)
  <2> DEFINE c == carry \o chunk
  <2>1. chunk \in Seq(Symbols)
    BY ChunkIs DEF TextInv, TagInv, TagTypes
  <2>2. c \in Seq(Symbols)
    BY <1>3, <2>1, ConcatProperties
  <2> HIDE DEF c
  <2>3. Separate[c][inside] \in Parts
    BY <1>3, <2>2, PartsAre
  <2> QED BY <2>3 DEF Parts, c
<1>5. IF x = <<>> THEN UNCHANGED <<buffer, out, recut>>
      ELSE buffer' = t.rest /\ out' = out \o t.sentences /\ recut' = (recut \/ t.recut)
  BY DEF Push
<1>6. held' = <<>> /\ (~recut => Visible(FlattenSeq(out) \o buffer) = Visible(answer))
  BY <1>1 DEF TextInv, KeptSoFar
<1>k. KeptSoFar' => TextIsKept'
  <2>1. answer' \in Seq(Symbols)
    BY <1>2 DEF TagInv, TagTypes
  <2>2. AtTheStart(Visible(answer'))
    BY <2>1, NothingPut, VisibleIs
  <2> SUFFICES ASSUME KeptSoFar', ~recut'
               PROVE  \E n \in 0..Len(Visible(answer')) :
                         Visible(FlattenSeq(out') \o buffer')
                             = Upto(Visible(answer'), n) \o Visible(held') \o From(Visible(answer'), n + 1)
    BY DEF TextIsKept
  <2> DEFINE k == Visible(answer')
  <2>3. Visible(FlattenSeq(out') \o buffer') = k /\ held' = <<>>
    BY DEF KeptSoFar
  <2>4. AtTheStart(k)
    BY <2>2
  <2> HIDE DEF k
  <2>5. Visible(FlattenSeq(out') \o buffer') = Upto(k, 0) \o Visible(held') \o From(k, 0 + 1) /\ 0 \in 0..Len(k)
    BY <2>3, <2>4 DEF AtTheStart
  <2> QED BY <2>5 DEF k
<1> HIDE DEF x
<1>7. CASE x = <<>>
  <2>1. answer' = answer /\ buffer' = buffer /\ out' = out /\ recut' = recut
    <3>1. answer \o <<>> = answer
      BY <1>3, ConcatEmptySeq
    <3> QED BY <1>1, <1>5, <1>7, <3>1
  <2>2. KeptSoFar'
    BY <1>1, <1>6, <2>1 DEF KeptSoFar
  <2> QED BY <1>2, <1>3, <1>k, <2>1, <2>2 DEF TextInv
<1>8. CASE x # <<>>
  <2>1. b \in Seq(Symbols)
    BY <1>3, <1>4, ConcatProperties
  <2> HIDE DEF b
  <2>2. t \in CutTexts /\ KeepsIt(t, b)
    BY <2>1, TakeKeeps
  <2>3. buffer' = t.rest /\ out' = out \o t.sentences /\ recut' = (recut \/ t.recut)
    BY <1>5, <1>8
  <2> HIDE DEF t
  <2>4. t.sentences \in Seq(Seq(Symbols)) /\ t.rest \in Seq(Symbols) /\ t.recut \in BOOLEAN
    BY <2>2 DEF CutTexts
  <2>5. out' \in Seq(Seq(Symbols)) /\ buffer' \in Seq(Symbols) /\ recut' \in BOOLEAN
    <3>1. out \o t.sentences \in Seq(Seq(Symbols))
      BY <1>3, <2>4, ConcatProperties
    <3> QED BY <1>3, <2>3, <2>4, <3>1
  <2>6. ASSUME ~recut' PROVE Visible(FlattenSeq(out') \o buffer') = Visible(answer')
    <3>1. ~recut /\ ~t.recut
      BY <2>3, <2>6
    <3>2. Visible(FlattenSeq(t.sentences)) \o Visible(t.rest) = Visible(buffer \o x)
      BY <2>2, <3>1 DEF KeepsIt, b
    <3>3. Visible(FlattenSeq(out) \o buffer) = Visible(answer)
      BY <1>6, <3>1
    <3> DEFINE ts == t.sentences
               tr == t.rest
    <3> HIDE DEF ts, tr
    <3>4. ts \in Seq(Seq(Symbols)) /\ tr \in Seq(Symbols)
          /\ Visible(FlattenSeq(ts)) \o Visible(tr) = Visible(buffer \o x)
      BY <2>4, <3>2 DEF ts, tr
    <3>5. Visible(FlattenSeq(out \o ts) \o tr) = Visible(answer \o x)
      <4> DEFINE o == out
                 bf == buffer
                 a == answer
      <4>1. /\ o \in Seq(Seq(Symbols)) /\ ts \in Seq(Seq(Symbols)) /\ bf \in Seq(Symbols) /\ tr \in Seq(Symbols)
            /\ x \in Seq(Symbols) /\ a \in Seq(Symbols)
            /\ Visible(FlattenSeq(o) \o bf) = Visible(a)
            /\ Visible(FlattenSeq(ts)) \o Visible(tr) = Visible(bf \o x)
        BY <1>3, <1>4, <3>3, <3>4
      <4> HIDE DEF o, bf, a
      <4>2. OutGoes(o, ts, bf, tr, x, a)
        BY <4>1, OutGoesOn
      <4> QED BY <4>1, <4>2 DEF OutGoes, o, a
    <3> QED BY <1>1, <2>3, <3>5 DEF ts, tr, x
  <2>7. KeptSoFar'
    BY <1>6, <2>6 DEF KeptSoFar
  <2> QED BY <1>2, <1>k, <2>5, <2>7 DEF TextInv
<1> QED BY <1>7, <1>8

\* The flush keeps it: what was held back goes between the closed sentences and
\* the open one.
LEMMA TextInvFlush ==
    ASSUME TextInv, Flush
    PROVE  TextInv'
<1>1. ~finished /\ finished' = TRUE /\ buffer' = <<>> /\ held' = carry /\ recut' = recut /\ answer' = answer /\ text' = text
      /\ out' = IF Remaining = <<>> THEN out ELSE Append(out, Remaining)
  BY DEF Flush, textVars
<1>2. TagInv'
  BY TagInvStep DEF TextInv, SegmenterNext
<1>3. answer \in Seq(Symbols) /\ carry \in Seq(Symbols) /\ buffer \in Seq(Symbols)
      /\ out \in Seq(Seq(Symbols)) /\ recut \in BOOLEAN
  BY DEF TextInv, TagInv, TagTypes
<1> DEFINE c == carry \o buffer
           r == Remaining
<1>4. c \in Seq(Symbols)
  BY <1>3, ConcatProperties
<1>5. r \in Seq(Symbols) /\ Visible(r) = Visible(c)
  <2>1. r = Strip(c)
    BY DEF Remaining
  <2> HIDE DEF c, r
  <2> QED BY <1>4, <2>1, StripKeeps
<1>6. out' \in Seq(Seq(Symbols)) /\ buffer' \in Seq(Symbols) /\ recut' \in BOOLEAN
  <2>1. Append(out, r) \in Seq(Seq(Symbols)) /\ <<>> \in Seq(Symbols)
    BY <1>3, <1>5, AppendProperties
  <2> QED BY <1>1, <1>3, <2>1
<1> DEFINE f == FlattenSeq(out)
           vf == Visible(f)
           vh == Visible(carry)
           vb == Visible(buffer)
<1>7. /\ f \in Seq(Symbols) /\ Visible(f \o buffer) = vf \o vb /\ Visible(c) = vh \o vb
      /\ vf \in Seq(Symbols) /\ vb \in Seq(Symbols) /\ vh \in Seq(Symbols)
  <2>1. f \in Seq(Symbols)
    BY <1>3, FlattenIsSeq
  <2> HIDE DEF f
  <2> QED BY <1>3, <2>1, VisibleBoth, VisibleIs
<1> HIDE DEF c, r
<1>8. Visible(FlattenSeq(out') \o buffer') = vf \o (vh \o vb)
  <2>1. FlattenSeq(out') \in Seq(Symbols)
    BY <1>6, FlattenIsSeq
  <2>2. FlattenSeq(out') \o buffer' = FlattenSeq(out')
    BY <1>1, <2>1, ConcatEmptySeq
  <2>3. CASE r = <<>>
    <3>1. Blank(r)
      BY <2>3 DEF Blank
    <3>2. vh \o vb = <<>>
      BY <1>5, <1>7, <3>1, VisibleBlank
    <3>3. out' = out
      BY <1>1, <2>3 DEF r
    <3>4. vf \o <<>> = vf
      BY <1>7, ConcatEmptySeq
    <3>5. Visible(FlattenSeq(out')) = vf
      BY <3>3
    <3> HIDE DEF vf, vh, vb
    <3> QED BY <2>2, <3>2, <3>4, <3>5
  <2>4. CASE r # <<>>
    <3>1. out' = Append(out, r)
      BY <1>1, <2>4 DEF r
    <3>2. Visible(FlattenSeq(Append(out, r))) = Visible(FlattenSeq(out)) \o Visible(r)
      BY <1>3, <1>5, VisibleGoesOn
    <3> QED BY <1>5, <1>7, <2>2, <3>1, <3>2
  <2> QED BY <2>3, <2>4
<1>9. ASSUME ~recut'
      PROVE  \E n \in 0..Len(Visible(answer')) :
                Visible(FlattenSeq(out') \o buffer')
                    = Upto(Visible(answer'), n) \o Visible(held') \o From(Visible(answer'), n + 1)
  <2>1. Visible(answer') = vf \o vb
    BY <1>1, <1>7, <1>9 DEF TextInv, KeptSoFar
  <2>2. Visible(held') = vh
    BY <1>1
  <2> HIDE DEF vf, vh, vb
  <2>3. Len(vf) \in 0..Len(vf \o vb) /\ Upto(vf \o vb, Len(vf)) = vf /\ From(vf \o vb, Len(vf) + 1) = vb
    BY <1>7, BothAgain
  <2>4. Regroups(vf, vh, vb)
    BY <1>7, ThreeParts
  <2>5. (vf \o vh) \o vb = vf \o (vh \o vb)
    BY <2>4 DEF Regroups
  <2> DEFINE n == Len(vf)
  <2>6. /\ n \in 0..Len(Visible(answer'))
        /\ Upto(Visible(answer'), n) \o Visible(held') \o From(Visible(answer'), n + 1) = vf \o (vh \o vb)
    BY <2>1, <2>2, <2>3, <2>5
  <2> HIDE DEF n
  <2> QED BY <1>8, <2>6
<1>10. TextIsKept'
  BY <1>9 DEF TextIsKept
<1> QED BY <1>1, <1>2, <1>6, <1>10 DEF TextInv

\* Every step keeps it.
LEMMA TextInvStep == TextInv /\ [SegmenterNext]_segmenterVars => TextInv'
<1> SUFFICES ASSUME TextInv, [SegmenterNext]_segmenterVars PROVE TextInv'
  OBVIOUS
<1>1. CASE UNCHANGED segmenterVars
  <2>1. TagInv'
    BY <1>1, TagInvStep DEF TextInv
  <2>2. UNCHANGED <<text, answer, buffer, out, recut, finished, held>>
    BY <1>1 DEF segmenterVars, textVars, tagVars
  <2> QED BY <2>1, <2>2 DEF TextInv, KeptSoFar, TextIsKept
<1> QED BY <1>1, TextInvPush, TextInvFlush DEF SegmenterNext

-----------------------------------------------------------------------------
(* Plain prose                                                              *)

\* The longest suffix within a set of symbols.
LEMMA SuffixInIs ==
    ASSUME NEW t \in Seq(Symbols), NEW set
    PROVE  \E m \in 0..Len(t) : /\ SuffixIn(t, set) = From(t, m + 1)
                                /\ m # 0 => t[m] \notin set
                                /\ \A k \in (m + 1)..Len(t) : t[k] \in set
<1> DEFINE I == {i \in DOMAIN t : t[i] \notin set}
           m == Max(I \cup {0})
<1>1. Len(t) \in Nat /\ DOMAIN t = 1..Len(t)
  BY LenProperties
<1>2. I \in SUBSET (1..Len(t))
  BY <1>1
<1>3. m \in 0..Len(t) /\ m \in I \cup {0} /\ \A j \in I : j <= m
  <2> HIDE DEF I
  <2> QED BY <1>1, <1>2, LastPlace
<1>4. SuffixIn(t, set) = From(t, 1 + m)
  BY DEF SuffixIn
<1>5. m # 0 => t[m] \notin set
  BY <1>3
<1> HIDE DEF m
<1>6. \A k \in (m + 1)..Len(t) : t[k] \in set
  <2> TAKE k \in (m + 1)..Len(t)
  <2>1. k \in 1..Len(t) /\ ~(k <= m)
    BY <1>1, <1>3
  <2> QED BY <1>1, <1>3, <2>1
<1>7. 1 + m = m + 1
  BY <1>1, <1>3
<1> QED BY <1>3, <1>4, <1>5, <1>6, <1>7

\* It is the one that no symbol of the set precedes.
LEMMA SuffixInIsThat ==
    ASSUME NEW t \in Seq(Symbols), NEW set, NEW m \in 0..Len(t),
           m # 0 => t[m] \notin set, \A k \in (m + 1)..Len(t) : t[k] \in set
    PROVE  SuffixIn(t, set) = From(t, m + 1)
<1>1. PICK n \in 0..Len(t) : /\ SuffixIn(t, set) = From(t, n + 1)
                             /\ n # 0 => t[n] \notin set
                             /\ \A k \in (n + 1)..Len(t) : t[k] \in set
  BY SuffixInIs
<1>2. Len(t) \in Nat
  BY LenProperties
<1>3. ~(n < m)
  <2> SUFFICES ASSUME n < m PROVE FALSE
    OBVIOUS
  <2>1. m \in (n + 1)..Len(t) /\ m # 0
    BY <1>2
  <2> QED BY <1>1, <2>1
<1>4. ~(m < n)
  <2> SUFFICES ASSUME m < n PROVE FALSE
    OBVIOUS
  <2>1. n \in (m + 1)..Len(t) /\ n # 0
    BY <1>2
  <2> QED BY <1>1, <2>1
<1>5. n = m
  BY <1>2, <1>3, <1>4
<1> QED BY <1>1, <1>5

\* Plain prose by its symbols.
Prose(s) ==
    \A i \in 1..Len(s) : /\ s[i] \notin {"1", "P", "F", "<"}
                         /\ s[i] = "." => i = Len(s) \/ s[i + 1] = "_"

\* Plain prose by the length of its sentences.
NeverLong(s) ==
    \A i \in 1..Len(s) : i + HardFlush - 1 <= Len(s) =>
        \E j \in i..(i + HardFlush - 2) : j \in RealBoundaries(s)

\* The two together.
LEMMA PlainIs == ASSUME NEW s \in Seq(Symbols) PROVE PlainProse(s) <=> Prose(s) /\ NeverLong(s)
<1>1. DOMAIN s = 1..Len(s)
  BY LenProperties
<1> QED BY <1>1 DEF PlainProse, Prose, NeverLong

\* In such a text the end of a sentence is a terminator after no abbreviation.
LEMMA ProseEnds ==
    ASSUME NEW s \in Seq(Symbols), Prose(s), NEW i \in 1..Len(s)
    PROVE  i \in RealBoundaries(s) <=> s[i] = "." /\ ~ShortWord(Upto(s, i - 1))
<1>1. Len(s) \in Nat /\ DOMAIN s = 1..Len(s) /\ i \in Nat
  BY LenProperties
<1> SUFFICES ASSUME s[i] = "." PROVE i \in RealBoundaries(s) <=> ~ShortWord(Upto(s, i - 1))
  BY DEF RealBoundaries, Boundaries
<1>2. i \in Boundaries(s)
  <2>1. i = Len(s) \/ s[i + 1] = "_"
    BY DEF Prose
  <2> QED BY <1>1, <2>1 DEF Boundaries, Blanks
<1> DEFINE t == Upto(s, i)
           dot == {"."}
           m == i - 1
<1>3. t \in Seq(Symbols) /\ Len(t) = i /\ \A k \in 1..i : t[k] = s[k]
  <2>1. i \in 0..Len(s)
    BY <1>1
  <2> QED BY <2>1, Beginning
<1>4. m \in 0..Len(t) /\ m + 1 = i /\ i - Len(From(t, i)) = m
  <2>1. i \in 1..(Len(t) + 1)
    BY <1>1, <1>3
  <2> HIDE DEF t
  <2>2. Len(From(t, i)) = Len(t) - i + 1
    BY <1>3, <2>1, Pieces
  <2> QED BY <1>1, <1>3, <2>2
<1>5. SuffixIn(t, dot) = From(t, i)
  <2>1. m # 0 => t[m] \notin dot
    <3> HAVE m # 0
    <3>1. m \in 1..Len(s) /\ m \in 1..i /\ m # Len(s) /\ m + 1 = i
      BY <1>1
    <3> HIDE DEF m
    <3>2. s[m] # "."
      BY <3>1 DEF Prose
    <3> QED BY <1>3, <3>1, <3>2
  <2>2. \A k \in (m + 1)..Len(t) : t[k] \in dot
    <3> TAKE k \in (m + 1)..Len(t)
    <3>1. k = i /\ i \in 1..i
      BY <1>1, <1>3, <1>4
    <3> QED BY <1>3, <3>1
  <2> HIDE DEF t, dot, m
  <2>3. SuffixIn(t, dot) = From(t, m + 1)
    BY <1>3, <1>4, <2>1, <2>2, SuffixInIsThat
  <2> QED BY <1>4, <2>3
<1>6. i - Len(SuffixIn(t, dot)) = m
  BY <1>4, <1>5
<1>7. AbbreviationOrInitial(s, i) <=> ShortWord(Upto(s, m))
  <2> HIDE DEF m
  <2> QED BY <1>6 DEF AbbreviationOrInitial
<1>8. ~PartOfANumber(s, i)
  <2> DEFINE head == Upto(s, m)
  <2>1. head \in Seq(Symbols) /\ Len(head) = m /\ \A k \in 1..m : head[k] = s[k]
    <3>1. m \in 0..Len(s)
      BY <1>1
    <3> HIDE DEF m
    <3> QED BY <3>1, Beginning
  <2>2. head # <<>> => Last(head) # "1"
    <3> HAVE head # <<>>
    <3> HIDE DEF head
    <3>1. m # 0
      BY <2>1, EmptySeq
    <3>2. m \in 1..m /\ m \in 1..Len(s)
      BY <1>1, <3>1
    <3>3. Last(head) = head[m]
      BY <2>1 DEF Last
    <3>4. s[m] # "1"
      <4> HIDE DEF m
      <4> QED BY <3>2 DEF Prose
    <3> QED BY <2>1, <3>2, <3>3, <3>4
  <2> HIDE DEF m
  <2> QED BY <1>6, <2>2 DEF PartOfANumber
<1> QED BY <1>2, <1>7, <1>8 DEF RealBoundaries

\* A sentence ends with a terminator.
LEMMA EndsAreDots ==
    ASSUME NEW s \in Seq(Symbols), NEW i, i \in RealBoundaries(s)
    PROVE  i \in 1..Len(s) /\ s[i] = "."
BY LenProperties DEF RealBoundaries, Boundaries

\* The beginning of plain prose is plain and ends the same sentences.
LEMMA PlainBeginning ==
    ASSUME NEW a \in Seq(Symbols), NEW x \in Seq(Symbols), PlainProse(a \o x)
    PROVE  /\ PlainProse(a)
           /\ \A i \in 1..Len(a) : i \in RealBoundaries(a) <=> i \in RealBoundaries(a \o x)
<1> DEFINE s == a \o x
<1>1. s \in Seq(Symbols) /\ Len(a) \in Nat /\ Len(x) \in Nat /\ Len(s) = Len(a) + Len(x) /\ \A k \in 1..Len(a) : s[k] = a[k]
  BY Both
<1> HIDE DEF s
<1>2. Prose(s) /\ NeverLong(s)
  BY <1>1, PlainIs DEF s
<1>3. Prose(a)
  <2> SUFFICES ASSUME NEW i \in 1..Len(a)
               PROVE  a[i] \notin {"1", "P", "F", "<"} /\ (a[i] = "." => i = Len(a) \/ a[i + 1] = "_")
    BY DEF Prose
  <2>1. i \in 1..Len(s) /\ s[i] = a[i]
    BY <1>1
  <2>2. s[i] \notin {"1", "P", "F", "<"} /\ (s[i] = "." => i = Len(s) \/ s[i + 1] = "_")
    BY <1>2, <2>1 DEF Prose
  <2>3. i # Len(a) => i # Len(s) /\ s[i + 1] = a[i + 1]
    <3> HAVE i # Len(a)
    <3>1. i + 1 \in 1..Len(a) /\ i # Len(s)
      BY <1>1
    <3> QED BY <1>1, <3>1
  <2> QED BY <2>1, <2>2, <2>3
<1>4. \A i \in 1..Len(a) : i \in RealBoundaries(a) <=> i \in RealBoundaries(s)
  <2> TAKE i \in 1..Len(a)
  <2>1. i \in 1..Len(s) /\ s[i] = a[i]
    BY <1>1
  <2>2. Upto(s, i - 1) = Upto(a, i - 1)
    <3>1. i \in 1..(Len(a) + 1)
      BY <1>1
    <3> QED BY <3>1, PiecesOfBoth DEF s
  <2>3. i \in RealBoundaries(a) <=> a[i] = "." /\ ~ShortWord(Upto(a, i - 1))
    BY <1>3, ProseEnds
  <2>4. i \in RealBoundaries(s) <=> s[i] = "." /\ ~ShortWord(Upto(s, i - 1))
    BY <1>1, <1>2, <2>1, ProseEnds
  <2> QED BY <2>1, <2>2, <2>3, <2>4
<1>5. NeverLong(a)
  <2> SUFFICES ASSUME NEW i \in 1..Len(a), i + HardFlush - 1 <= Len(a)
               PROVE  \E j \in i..(i + HardFlush - 2) : j \in RealBoundaries(a)
    BY DEF NeverLong
  <2>0. HardFlush \in Nat
    BY SegmenterAssumption
  <2>1. i \in 1..Len(s) /\ i + HardFlush - 1 <= Len(s)
    BY <1>1, <2>0
  <2>2. PICK j \in i..(i + HardFlush - 2) : j \in RealBoundaries(s)
    BY <1>2, <2>1 DEF NeverLong
  <2>3. j \in 1..Len(a)
    BY <1>1, <2>0
  <2> QED BY <1>4, <2>2, <2>3
<1> QED BY <1>3, <1>4, <1>5, PlainIs DEF s

\* The text after a sentence is plain and ends the same sentences.
LEMMA PlainRest ==
    ASSUME NEW s \in Seq(Symbols), PlainProse(s), NEW d \in 0..Len(s), d = 0 \/ d \in RealBoundaries(s)
    PROVE  LET r == From(s, d + 1)
           IN  /\ r \in Seq(Symbols) /\ Len(r) = Len(s) - d /\ PlainProse(r)
               /\ \A j \in 1..(Len(s) - d) : j \in RealBoundaries(r) <=> d + j \in RealBoundaries(s)
<1> DEFINE r == From(s, d + 1)
           word == Upper \cup Lower \cup {"."}
<1>0. Len(s) \in Nat /\ d \in Nat /\ HardFlush \in Nat
  BY LenProperties, SegmenterAssumption
<1>1. r \in Seq(Symbols) /\ Len(r) = Len(s) - d /\ \A k \in 1..(Len(s) - d) : r[k] = s[d + k]
  BY Beginning
<1> HIDE DEF r
<1>2. Prose(s) /\ NeverLong(s)
  BY PlainIs
<1>3. Prose(r)
  <2> SUFFICES ASSUME NEW i \in 1..Len(r)
               PROVE  r[i] \notin {"1", "P", "F", "<"} /\ (r[i] = "." => i = Len(r) \/ r[i + 1] = "_")
    BY DEF Prose
  <2>1. i \in 1..(Len(s) - d) /\ d + i \in 1..Len(s) /\ (d + i = Len(s) => i = Len(r))
    BY <1>0, <1>1
  <2>2. i # Len(r) => r[i + 1] = s[d + i + 1]
    <3> HAVE i # Len(r)
    <3>0. Len(r) = Len(s) - d /\ i \in 1..(Len(s) - d) /\ i # Len(s) - d
      BY <1>1
    <3>1. i + 1 \in 1..(Len(s) - d) /\ d + (i + 1) = d + i + 1
      BY <1>0, <3>0
    <3> QED BY <1>1, <3>1
  <2> DEFINE e == d + i
  <2>3. r[i] = s[e] /\ e \in 1..Len(s)
    BY <1>1, <2>1
  <2> HIDE DEF e
  <2>4. s[e] \notin {"1", "P", "F", "<"} /\ (s[e] = "." => e = Len(s) \/ s[e + 1] = "_")
    BY <1>2, <2>3 DEF Prose
  <2> QED BY <2>1, <2>2, <2>3, <2>4 DEF e
<1>4. ASSUME NEW j \in 1..(Len(s) - d), r[j] = "." PROVE ShortWord(Upto(r, j - 1)) <=> ShortWord(Upto(s, d + j - 1))
  <2>0. d + j \in 1..Len(s) /\ r[j] = s[d + j]
    BY <1>0, <1>1
  <2>1. CASE d = 0
    <3>1. r = s
      <4>1. SubSeq(s, 1, Len(s)) = s
        BY SubSeqFull
      <4> QED BY <2>1, <4>1 DEF r, From
    <3> QED BY <1>0, <2>1, <3>1
  <2>2. CASE d # 0
    <3> DEFINE u == Upto(r, j - 1)
               t == Upto(s, d + j - 1)
    <3>1. s[d] = "." /\ d \in 1..Len(s)
      BY <2>2, EndsAreDots
    <3>2. s[d + 1] = "_"
      <4>1. d # Len(s)
        BY <1>0
      <4> QED BY <1>2, <3>1, <4>1 DEF Prose
    <3>3. j # 1
      <4> SUFFICES ASSUME j = 1 PROVE FALSE
        OBVIOUS
      <4> QED BY <1>4, <2>0, <3>2
    <3>4. u \in Seq(Symbols) /\ Len(u) = j - 1 /\ \A k \in 1..(j - 1) : u[k] = r[k]
      <4> DEFINE m == j - 1
      <4>1. m \in 0..Len(r)
        BY <1>0, <1>1
      <4> HIDE DEF m
      <4>2. Upto(r, m) \in Seq(Symbols) /\ Len(Upto(r, m)) = m /\ \A k \in 1..m : Upto(r, m)[k] = r[k]
        BY <1>1, <4>1, Beginning
      <4> QED BY <4>2 DEF m
    <3>5. t \in Seq(Symbols) /\ Len(t) = d + j - 1 /\ \A k \in 1..(d + j - 1) : t[k] = s[k]
      <4> DEFINE m == d + j - 1
      <4>1. m \in 0..Len(s)
        BY <1>0
      <4> HIDE DEF m
      <4>2. Upto(s, m) \in Seq(Symbols) /\ Len(Upto(s, m)) = m /\ \A k \in 1..m : Upto(s, m)[k] = s[k]
        BY <4>1, Beginning
      <4> QED BY <4>2 DEF m
    <3>6. \A k \in 1..(j - 1) : u[k] = t[d + k]
      <4> TAKE k \in 1..(j - 1)
      <4>1. k \in 1..(Len(s) - d) /\ d + k \in 1..(d + j - 1)
        BY <1>0
      <4> QED BY <1>1, <3>4, <3>5, <4>1
    <3>7. 1 \in 1..(j - 1) /\ u[1] = "_"
      <4>1. 1 \in 1..(j - 1) /\ 1 \in 1..(Len(s) - d)
        BY <1>0, <3>3
      <4> QED BY <1>1, <3>2, <3>4, <4>1
    <3> HIDE DEF u, t
    <3>8. "_" \notin word
      BY DEF Upper, Lower
    <3> HIDE DEF word
    <3>9. PICK m \in 0..Len(u) : /\ SuffixIn(u, word) = From(u, m + 1)
                                 /\ m # 0 => u[m] \notin word
                                 /\ \A k \in (m + 1)..Len(u) : u[k] \in word
      BY <3>4, SuffixInIs
    <3>10. m # 0 /\ m \in 1..(j - 1)
      <4>1. m # 0
        <5> SUFFICES ASSUME m = 0 PROVE FALSE
          OBVIOUS
        <5>0. \A k \in 1..(j - 1) : u[k] \in word
          <6>1. Len(u) = j - 1
            BY <3>4
          <6>2. m + 1 = 1
            OBVIOUS
          <6>3. (m + 1)..Len(u) = 1..(j - 1)
            BY <6>1, <6>2
          <6> QED BY <3>9, <6>3
        <5>1. u[1] \in word
          BY <3>7, <5>0
        <5> QED BY <3>7, <3>8, <5>1
      <4> QED BY <1>0, <3>4, <4>1
    <3> DEFINE n == d + m
    <3>11. n \in 0..Len(t) /\ n # 0 /\ t[n] \notin word
      <4>1. n \in 0..Len(t) /\ n # 0
        BY <1>0, <3>5, <3>10
      <4>2. t[n] = u[m]
        BY <3>6, <3>10
      <4> QED BY <3>9, <3>10, <4>1, <4>2
    <3>12. \A k \in (n + 1)..Len(t) : t[k] \in word
      <4> TAKE k \in (n + 1)..Len(t)
      <4> DEFINE l == k - d
      <4>1. l \in (m + 1)..Len(u) /\ l \in 1..(j - 1) /\ d + l = k
        BY <1>0, <3>4, <3>5, <3>10
      <4> HIDE DEF l
      <4> QED BY <3>6, <3>9, <4>1
    <3> HIDE DEF n
    <3>13. SuffixIn(t, word) = From(t, n + 1)
      BY <3>5, <3>11, <3>12, SuffixInIsThat
    <3>14. From(t, n + 1) = From(u, m + 1)
      <4> DEFINE p == From(t, n + 1)
                 q == From(u, m + 1)
      <4>1. p \in Seq(Symbols) /\ Len(p) = Len(t) - n /\ \A k \in 1..(Len(t) - n) : p[k] = t[n + k]
        BY <3>5, <3>11, Beginning
      <4>2. q \in Seq(Symbols) /\ Len(q) = Len(u) - m /\ \A k \in 1..(Len(u) - m) : q[k] = u[m + k]
        BY <3>4, Beginning
      <4> HIDE DEF p, q
      <4>3. Len(p) = Len(q)
        BY <1>0, <3>4, <3>5, <3>10, <4>1, <4>2 DEF n
      <4>4. \A k \in 1..Len(p) : p[k] = q[k]
        <5> TAKE k \in 1..Len(p)
        <5>1. k \in 1..(Len(t) - n) /\ k \in 1..(Len(u) - m) /\ m + k \in 1..(j - 1) /\ d + (m + k) = n + k
          BY <1>0, <3>4, <3>5, <3>10, <4>1, <4>2, <4>3 DEF n
        <5> QED BY <3>6, <4>1, <4>2, <5>1
      <4>5. p = q
        BY <4>1, <4>2, <4>3, <4>4, SeqEqual
      <4> QED BY <4>5 DEF p, q
    <3>15. SuffixIn(t, word) = SuffixIn(u, word)
      BY <3>9, <3>13, <3>14
    <3>16. ShortWord(u) <=> ShortWord(t)
      BY <3>15 DEF ShortWord, word
    <3> QED BY <3>16 DEF u, t
  <2> QED BY <2>1, <2>2
<1>5. \A j \in 1..(Len(s) - d) : j \in RealBoundaries(r) <=> d + j \in RealBoundaries(s)
  <2> TAKE j \in 1..(Len(s) - d)
  <2>1. j \in 1..Len(r) /\ d + j \in 1..Len(s) /\ r[j] = s[d + j]
    BY <1>0, <1>1
  <2>2. j \in RealBoundaries(r) <=> r[j] = "." /\ ~ShortWord(Upto(r, j - 1))
    BY <1>1, <1>3, <2>1, ProseEnds
  <2> DEFINE e == d + j
  <2>3. e \in RealBoundaries(s) <=> s[e] = "." /\ ~ShortWord(Upto(s, e - 1))
    <3>1. e \in 1..Len(s)
      BY <2>1
    <3> HIDE DEF e
    <3> QED BY <1>2, <3>1, ProseEnds
  <2> QED BY <1>4, <2>1, <2>2, <2>3
<1>6. NeverLong(r)
  <2> SUFFICES ASSUME NEW i \in 1..Len(r), i + HardFlush - 1 <= Len(r)
               PROVE  \E j \in i..(i + HardFlush - 2) : j \in RealBoundaries(r)
    BY DEF NeverLong
  <2> DEFINE e == d + i
  <2>1. e \in 1..Len(s) /\ e + HardFlush - 1 <= Len(s)
    BY <1>0, <1>1
  <2> HIDE DEF e
  <2>2. PICK j \in e..(e + HardFlush - 2) : j \in RealBoundaries(s)
    BY <1>2, <2>1 DEF NeverLong
  <2> DEFINE k == j - d
  <2>3. k \in 1..(Len(s) - d) /\ k \in i..(i + HardFlush - 2) /\ d + k = j
    BY <1>0, <1>1, <2>1 DEF e
  <2> HIDE DEF k
  <2> QED BY <1>5, <2>2, <2>3
<1> QED BY <1>1, <1>3, <1>5, <1>6, PlainIs DEF r

\* In plain prose every end closes a sentence.
LEMMA PlainStep ==
    ASSUME NEW s \in Seq(Symbols), PlainProse(s), NEW b \in Opened, NEW i \in 1..Len(s), b.start <= i
    PROVE  ClosedStep(s, b, i) =
               IF i \in RealBoundaries(s)
               THEN [sentences |-> Append(b.sentences, Strip(SubSeq(s, b.start + 1, i))), start |-> i]
               ELSE b
<1> DEFINE here == SubSeq(s, b.start + 1, i)
<1>1. ~OddFences(here)
  <2>0. b.start \in Nat /\ Len(s) \in Nat /\ \A k \in 1..Len(s) : s[k] \in Symbols
    BY LenProperties, ElementOfSeq DEF Opened
  <2> DEFINE a == b.start + 1
  <2>1. a \in Int /\ i \in Int /\ a >= 1 /\ \A k \in a..i : s[k] \in Symbols
    BY <2>0
  <2> HIDE DEF a
  <2>2. /\ SubSeq(s, a, i) \in Seq(Symbols)
        /\ Len(SubSeq(s, a, i)) = IF a <= i THEN i - a + 1 ELSE 0
        /\ \A k \in 1..(i - a + 1) : SubSeq(s, a, i)[k] = s[a + k - 1]
    BY <2>1, SubSeqProperties
  <2>3. DOMAIN SubSeq(s, a, i) = 1..Len(SubSeq(s, a, i))
    BY <2>2, LenProperties
  <2>4. \A k \in DOMAIN SubSeq(s, a, i) : SubSeq(s, a, i)[k] # "F"
    <3> TAKE k \in DOMAIN SubSeq(s, a, i)
    <3>1. k \in 1..(i - a + 1) /\ a + k - 1 \in 1..Len(s)
      BY <2>0, <2>1, <2>2, <2>3
    <3>2. s[a + k - 1] # "F"
      BY <3>1, PlainIs DEF Prose
    <3> QED BY <2>2, <3>1, <3>2
  <2>5. {k \in DOMAIN SubSeq(s, a, i) : SubSeq(s, a, i)[k] = "F"} = {}
    BY <2>4
  <2>6. Cardinality({}) = 0 /\ 0 % 2 # 1
    BY FS_EmptySet
  <2>7. ~OddFences(SubSeq(s, a, i))
    BY <2>5, <2>6 DEF OddFences
  <2> QED BY <2>7 DEF a
<1> QED BY <1>1 DEF ClosedStep

\* The last end before a place is where the closed sentences go.
LEMMA PlainClosed ==
    ASSUME NEW s \in Seq(Symbols), PlainProse(s)
    PROVE  \A i \in 0..Len(s) :
              LET c == ClosedAt(s)[i]
              IN  /\ c \in Opened /\ c.start \in 0..i
                  /\ c.start = 0 => c = None
                  /\ c.start # 0 => c.start \in RealBoundaries(s)
                  /\ \A j \in (c.start + 1)..i : j \notin RealBoundaries(s)
<1> DEFINE n == Len(s)
           C == ClosedAt(s)
           Last0(i) == /\ C[i].start = 0 => C[i] = None
                       /\ C[i].start # 0 => C[i].start \in RealBoundaries(s)
                       /\ \A j \in (C[i].start + 1)..i : j \notin RealBoundaries(s)
           T == {k \in Nat : k <= n => Last0(k)}
<1>0. n \in Nat
  BY LenProperties
<1>1. C[0] = None /\ \A i \in 1..n : C[i] = ClosedStep(s, C[i - 1], i)
  BY ClosedAtIs
<1>2. \A i \in 0..n : C[i] \in Opened /\ C[i].start \in 0..i
  BY ClosedKeeps
<1> HIDE DEF C
<1>3. 0 \in T
  <2>1. C[0].start = 0
    BY <1>1 DEF None
  <2> QED BY <1>1, <2>1
<1>4. ASSUME NEW k \in Nat, k \in T PROVE k + 1 \in T
  <2> DEFINE i == k + 1
             b == C[k]
             h == Strip(SubSeq(s, b.start + 1, i))
  <2> SUFFICES ASSUME i <= n PROVE Last0(i)
    OBVIOUS
  <2>1. i \in 1..n /\ i - 1 = k /\ k \in 0..n /\ Last0(k)
    BY <1>0, <1>4
  <2>2. b \in Opened /\ b.start \in 0..k /\ b.start \in Nat
    BY <1>2, <2>1
  <2>3. C[i] = IF i \in RealBoundaries(s) THEN [sentences |-> Append(b.sentences, h), start |-> i] ELSE b
    <3>1. C[i] = ClosedStep(s, b, i) /\ b.start <= i
      BY <1>1, <2>1, <2>2
    <3> HIDE DEF b, i
    <3> QED BY <2>1, <2>2, <3>1, PlainStep
  <2> HIDE DEF h
  <2>4. CASE i \in RealBoundaries(s)
    <3>1. C[i].start = i
      BY <2>3, <2>4
    <3> QED BY <2>4, <3>1
  <2>5. CASE i \notin RealBoundaries(s)
    <3>1. C[i] = b
      BY <2>3, <2>5
    <3>2. \A j \in (b.start + 1)..i : j = i \/ j \in (b.start + 1)..k
      BY <2>2
    <3> QED BY <2>1, <2>5, <3>1, <3>2
  <2> QED BY <2>4, <2>5
<1> HIDE DEF T
<1>5. Nat \subseteq T
  BY <1>3, <1>4, Counting
<1>6. \A i \in 0..n : i \in Nat /\ i <= n
  BY <1>0
<1>7. \A i \in 0..n : Last0(i)
  <2> HIDE DEF Last0, n
  <2> QED BY <1>5, <1>6 DEF T
<1> QED BY <1>2, <1>7 DEF C

\* What follows does not change the sentences of a beginning.
LEMMA PlainClosedStays ==
    ASSUME NEW a \in Seq(Symbols), NEW x \in Seq(Symbols), PlainProse(a \o x)
    PROVE  \A i \in 0..Len(a) : ClosedAt(a \o x)[i] = ClosedAt(a)[i]
<1> DEFINE s == a \o x
           n == Len(a)
           C == ClosedAt(a)
           D == ClosedAt(s)
           T == {k \in Nat : k <= n => D[k] = C[k]}
<1>1. s \in Seq(Symbols) /\ n \in Nat /\ Len(x) \in Nat /\ Len(s) = n + Len(x) /\ \A k \in 1..n : s[k] = a[k]
  BY Both
<1>2. PlainProse(a) /\ \A i \in 1..n : i \in RealBoundaries(a) <=> i \in RealBoundaries(s)
  BY PlainBeginning
<1> HIDE DEF s
<1>3. C[0] = None /\ \A i \in 1..n : C[i] = ClosedStep(a, C[i - 1], i)
  BY ClosedAtIs
<1>4. D[0] = None /\ \A i \in 1..Len(s) : D[i] = ClosedStep(s, D[i - 1], i)
  BY <1>1, ClosedAtIs
<1>5. \A i \in 0..n : C[i] \in Opened /\ C[i].start \in 0..i
  BY ClosedKeeps
<1>6. 0 \in T
  BY <1>3, <1>4
<1>7. ASSUME NEW k \in Nat, k \in T PROVE k + 1 \in T
  <2> DEFINE i == k + 1
             b == C[k]
             h == Strip(SubSeq(a, b.start + 1, i))
             g == Strip(SubSeq(s, b.start + 1, i))
  <2> SUFFICES ASSUME i <= n PROVE D[i] = C[i]
    OBVIOUS
  <2>1. i \in 1..n /\ i \in 1..Len(s) /\ i - 1 = k /\ k \in 0..n /\ D[k] = b
    BY <1>1, <1>7
  <2>2. b \in Opened /\ b.start \in 0..k /\ b.start \in Nat /\ b.start <= i
    BY <1>5, <2>1
  <2>3. C[i] = ClosedStep(a, b, i) /\ D[i] = ClosedStep(s, b, i)
    BY <1>3, <1>4, <2>1
  <2> HIDE DEF C, D
  <2>4. C[i] = IF i \in RealBoundaries(a) THEN [sentences |-> Append(b.sentences, h), start |-> i] ELSE b
    <3> HIDE DEF b, i
    <3> QED BY <1>2, <2>1, <2>2, <2>3, PlainStep
  <2>5. D[i] = IF i \in RealBoundaries(s) THEN [sentences |-> Append(b.sentences, g), start |-> i] ELSE b
    <3>1. PlainProse(s)
      BY DEF s
    <3> HIDE DEF b, i
    <3> QED BY <1>1, <2>1, <2>2, <2>3, <3>1, PlainStep
  <2>6. g = h
    <3> DEFINE m == b.start + 1
               p == SubSeq(a, m, i)
               q == SubSeq(s, m, i)
    <3>0. Len(a) \in Nat /\ \A e \in 1..n : a[e] \in Symbols
      BY LenProperties, ElementOfSeq
    <3>1. m \in Int /\ i \in Int /\ m >= 1 /\ \A e \in m..i : e \in 1..n
      BY <1>1, <2>1, <2>2
    <3>2. (\A e \in m..i : a[e] \in Symbols) /\ \A e \in m..i : s[e] \in Symbols
      BY <1>1, <3>0, <3>1
    <3> HIDE DEF m, i
    <3>3. /\ p \in Seq(Symbols) /\ Len(p) = IF m <= i THEN i - m + 1 ELSE 0
          /\ \A e \in 1..(i - m + 1) : p[e] = a[m + e - 1]
      BY <3>1, <3>2, SubSeqProperties
    <3>4. /\ q \in Seq(Symbols) /\ Len(q) = IF m <= i THEN i - m + 1 ELSE 0
          /\ \A e \in 1..(i - m + 1) : q[e] = s[m + e - 1]
      BY <3>1, <3>2, SubSeqProperties
    <3> HIDE DEF p, q
    <3>5. \A e \in 1..Len(p) : p[e] = q[e]
      <4> TAKE e \in 1..Len(p)
      <4>1. e \in 1..(i - m + 1) /\ m + e - 1 \in m..i
        BY <3>1, <3>3
      <4> QED BY <1>1, <3>1, <3>3, <3>4, <4>1
    <3>6. p = q
      BY <3>3, <3>4, <3>5, SeqEqual
    <3> QED BY <3>6 DEF p, q, m
  <2> HIDE DEF g, h
  <2> QED BY <1>2, <2>1, <2>4, <2>5, <2>6
<1> HIDE DEF T
<1>8. Nat \subseteq T
  BY <1>6, <1>7, Counting
<1>9. \A i \in 0..n : i \in Nat /\ i <= n
  BY <1>1
<1>10. \A i \in 0..n : D[i] = C[i]
  <2> HIDE DEF n, C, D
  <2> QED BY <1>8, <1>9 DEF T
<1> QED BY <1>10 DEF s

\* What a push takes from plain prose: its closed sentences.
LEMMA PlainTake ==
    ASSUME NEW s \in Seq(Symbols), PlainProse(s)
    PROVE  LET c == Closed(s)
           IN  /\ c \in Opened /\ c.start \in 0..Len(s)
               /\ Take(s).sentences = c.sentences /\ Take(s).rest = From(s, c.start + 1) /\ Take(s).recut = FALSE
<1> DEFINE c == Closed(s)
           d == c.start
           tail == From(s, d + 1)
           p == Split(s)
<1>0. Len(s) \in Nat /\ HardFlush \in Nat /\ HardFlush # 0 /\ DOMAIN s = 1..Len(s)
  BY LenProperties, SegmenterAssumption
<1>1. /\ c \in Opened /\ d \in 0..Len(s) /\ (d = 0 => c = None) /\ (d # 0 => d \in RealBoundaries(s))
      /\ \A j \in (d + 1)..Len(s) : j \notin RealBoundaries(s)
  <2>1. Len(s) \in 0..Len(s)
    BY <1>0
  <2>2. c = ClosedAt(s)[Len(s)]
    BY ClosedAtIs
  <2> HIDE DEF c
  <2> QED BY <2>1, <2>2, PlainClosed
<1>2. tail \in Seq(Symbols) /\ Len(tail) = Len(s) - d /\ \A k \in 1..(Len(s) - d) : tail[k] = s[d + k]
  <2> HIDE DEF d
  <2> QED BY <1>1, Beginning
<1>3. Prose(s) /\ NeverLong(s)
  BY PlainIs
<1>4. ~OddFences(s)
  <2>1. {k \in DOMAIN s : s[k] = "F"} = {}
    BY <1>0, <1>3 DEF Prose
  <2>2. Cardinality({}) = 0 /\ 0 % 2 # 1
    BY FS_EmptySet
  <2> QED BY <2>1, <2>2 DEF OddFences
<1>5. p.sentences = c.sentences /\ p.rest = tail
  <2>1. CASE Blank(s)
    <3>1. p.sentences = <<>> /\ p.rest = s
      BY <2>1 DEF Split
    <3>2. d = 0
      <4> SUFFICES ASSUME d # 0 PROVE FALSE
        OBVIOUS
      <4> HIDE DEF d
      <4>1. d \in 1..Len(s) /\ s[d] = "."
        BY <1>1, EndsAreDots
      <4> QED BY <1>0, <2>1, <4>1 DEF Blank, Blanks
    <3>3. c.sentences = <<>>
      BY <1>1, <3>2 DEF None
    <3>4. tail = s
      <4>1. SubSeq(s, 1, Len(s)) = s
        BY SubSeqFull
      <4>2. d + 1 = 1
        BY <3>2
      <4> HIDE DEF d
      <4> QED BY <4>1, <4>2 DEF From
    <3> QED BY <3>1, <3>3, <3>4
  <2>2. CASE ~Blank(s)
    <3> DEFINE line == LastOf(tail, "P")
               title == Strip(Upto(tail, line - 1))
    <3>1. p = [sentences |-> IF line = 0 \/ title = <<>> THEN c.sentences ELSE Append(c.sentences, title),
               rest |-> From(tail, line + 1)]
      BY <1>4, <2>2 DEF Split
    <3> HIDE DEF p, title
    <3>2. line = 0
      <4> DEFINE I == {i \in DOMAIN tail : tail[i] = "P"}
      <4>1. DOMAIN tail = 1..(Len(s) - d)
        <5> HIDE DEF tail, d
        <5> QED BY <1>2, LenProperties
      <4>2. \A k \in 1..(Len(s) - d) : tail[k] # "P"
        <5> HIDE DEF tail, d
        <5> TAKE k \in 1..(Len(s) - d)
        <5>1. d + k \in 1..Len(s)
          BY <1>0, <1>1
        <5> QED BY <1>2, <1>3, <5>1 DEF Prose
      <4>3. I = {}
        <5> HIDE DEF tail, d
        <5> QED BY <4>1, <4>2
      <4>4. line = Max(I \cup {0})
        BY DEF LastOf
      <4> HIDE DEF I, line
      <4>5. Max(I \cup {0}) \in 0..0
        BY <4>3, LastPlace
      <4> QED BY <4>4, <4>5
    <3>3. From(tail, line + 1) = tail
      <4>1. SubSeq(tail, 1, Len(tail)) = tail
        <5> HIDE DEF tail
        <5> QED BY <1>2, SubSeqFull
      <4>2. line + 1 = 1
        BY <3>2
      <4> HIDE DEF tail, line
      <4> QED BY <4>1, <4>2 DEF From
    <3> HIDE DEF tail, line
    <3> QED BY <3>1, <3>2, <3>3
  <2> QED BY <2>1, <2>2
<1>6. Uncut(tail)
  <2> SUFFICES ASSUME ~(Len(tail) < HardFlush) PROVE FALSE
    BY DEF Uncut
  <2> DEFINE i == d + 1
  <2> HIDE DEF tail, d
  <2>1. i \in 1..Len(s) /\ i + HardFlush - 1 <= Len(s)
    BY <1>0, <1>1, <1>2
  <2> HIDE DEF i
  <2>2. PICK j \in i..(i + HardFlush - 2) : j \in RealBoundaries(s)
    BY <1>3, <2>1 DEF NeverLong
  <2>3. j \in (d + 1)..Len(s)
    BY <1>0, <1>1, <2>1 DEF i
  <2> QED BY <1>1, <2>2, <2>3
<1> DEFINE l == CutLong[tail]
<1>7. l = [sentences |-> <<>>, rest |-> tail, recut |-> FALSE]
  <2> HIDE DEF tail
  <2>1. l = CutStep(CutLong, tail)
    BY <1>2, CutLongIs
  <2> QED BY <1>6, <2>1, CutNone
<1>8. Take(s) = [l EXCEPT !.sentences = p.sentences \o @]
  <2>1. Take(s) = [CutLong[p.rest] EXCEPT !.sentences = p.sentences \o @]
    BY DEF Take
  <2> HIDE DEF p, tail
  <2> QED BY <1>5, <2>1
<1>9. c.sentences \o <<>> = c.sentences
  <2>1. c.sentences \in Seq(Seq(Symbols))
    BY <1>1 DEF Opened
  <2> DEFINE Y == Seq(Symbols)
             q == c.sentences
  <2>2. q \in Seq(Y)
    BY <2>1
  <2> HIDE DEF Y, q
  <2>3. q \o <<>> = q
    BY <2>2, ConcatEmptySeq
  <2> QED BY <2>3 DEF q
<1> HIDE DEF l, p, tail, c
<1>10. Take(s).sentences = c.sentences /\ Take(s).rest = tail /\ Take(s).recut = FALSE
  BY <1>5, <1>7, <1>8, <1>9
<1> QED BY <1>1, <1>10 DEF tail, c

\* An end behind a place is an end of the rest.
LEMMA WithinRest ==
    ASSUME NEW s \in Seq(Symbols), NEW d \in 0..Len(s), NEW m \in Nat \ {0}, NEW i \in 0..(Len(s) - d)
    PROVE  SubSeq(From(s, d + 1), m, i) = SubSeq(s, d + m, d + i)
<1> DEFINE r == From(s, d + 1)
           e == d + m
           j == d + i
           p == SubSeq(r, m, i)
           q == SubSeq(s, e, j)
<1>0. Len(s) \in Nat /\ \A k \in 1..Len(s) : s[k] \in Symbols
  BY LenProperties, ElementOfSeq
<1>1. Len(r) = Len(s) - d /\ \A k \in 1..(Len(s) - d) : r[k] = s[d + k]
  BY Beginning
<1> HIDE DEF r
<1>2. m \in Int /\ i \in Int /\ m >= 1 /\ e \in Int /\ j \in Int /\ e >= 1 /\ j - e = i - m /\ (e <= j <=> m <= i)
  BY <1>0
<1>3. \A k \in m..i : r[k] \in Symbols
  <2> TAKE k \in m..i
  <2>1. k \in 1..(Len(s) - d) /\ d + k \in 1..Len(s)
    BY <1>0
  <2> QED BY <1>0, <1>1, <2>1
<1>4. \A k \in e..j : s[k] \in Symbols
  <2> TAKE k \in e..j
  <2>1. k \in 1..Len(s)
    BY <1>0
  <2> QED BY <1>0, <2>1
<1> HIDE DEF e, j
<1>5. /\ p \in Seq(Symbols) /\ Len(p) = IF m <= i THEN i - m + 1 ELSE 0
      /\ \A k \in 1..(i - m + 1) : p[k] = r[m + k - 1]
  BY <1>2, <1>3, SubSeqProperties
<1>6. /\ q \in Seq(Symbols) /\ Len(q) = IF e <= j THEN j - e + 1 ELSE 0
      /\ \A k \in 1..(j - e + 1) : q[k] = s[e + k - 1]
  BY <1>2, <1>4, SubSeqProperties
<1> HIDE DEF p, q
<1>7. Len(p) = Len(q)
  BY <1>2, <1>5, <1>6
<1>8. \A k \in 1..Len(p) : p[k] = q[k]
  <2> TAKE k \in 1..Len(p)
  <2>1. k \in 1..(i - m + 1) /\ k \in 1..(j - e + 1)
    BY <1>2, <1>5
  <2>2. m + k - 1 \in 1..(Len(s) - d) /\ d + (m + k - 1) = e + k - 1
    BY <1>0, <1>2, <2>1 DEF e
  <2> QED BY <1>1, <1>5, <1>6, <2>1, <2>2
<1>9. p = q
  BY <1>5, <1>6, <1>7, <1>8, SeqEqual
<1> QED BY <1>9 DEF p, q, r, e, j

\* What closes after a place of plain prose is what closes in its open rest.
LEMMA PlainGoesOn ==
    ASSUME NEW s \in Seq(Symbols), PlainProse(s), NEW e \in 0..Len(s)
    PROVE  LET c == ClosedAt(s)[e]
               r == From(s, c.start + 1)
           IN  /\ c \in Opened /\ c.start \in 0..e /\ r \in Seq(Symbols) /\ Len(r) = Len(s) - c.start /\ PlainProse(r)
               /\ \A i \in e..Len(s) :
                     /\ ClosedAt(s)[i].sentences = c.sentences \o ClosedAt(r)[i - c.start].sentences
                     /\ ClosedAt(s)[i].start = c.start + ClosedAt(r)[i - c.start].start
<1> DEFINE n == Len(s)
           C == ClosedAt(s)
           c == C[e]
           d == c.start
           r == From(s, d + 1)
           R == ClosedAt(r)
           Is(i) == /\ C[i].sentences = c.sentences \o R[i - d].sentences
                    /\ C[i].start = d + R[i - d].start
           T == {k \in Nat : e + k <= n => Is(e + k)}
<1>0. n \in Nat /\ e \in Nat /\ e <= n
  BY LenProperties
<1>1. /\ c \in Opened /\ d \in 0..e /\ (d # 0 => d \in RealBoundaries(s))
      /\ \A j \in (d + 1)..e : j \notin RealBoundaries(s)
  BY PlainClosed
<1>2. C[0] = None /\ \A i \in 1..n : C[i] = ClosedStep(s, C[i - 1], i)
  BY ClosedAtIs
<1>3. \A i \in 0..n : C[i] \in Opened /\ C[i].start \in 0..i
  BY ClosedKeeps
<1> HIDE DEF C, d
<1>4. d \in 0..n /\ d \in Nat /\ d <= e
  BY <1>0, <1>1
<1>5. /\ r \in Seq(Symbols) /\ Len(r) = n - d /\ PlainProse(r)
      /\ \A j \in 1..(n - d) : j \in RealBoundaries(r) <=> d + j \in RealBoundaries(s)
  BY <1>1, <1>4, PlainRest
<1> HIDE DEF r
<1>6. /\ \A i \in 1..(n - d) : R[i] = ClosedStep(r, R[i - 1], i)
      /\ \A i \in 0..(n - d) : R[i] \in Opened /\ R[i].start \in 0..i /\ (R[i].start = 0 => R[i] = None)
                               /\ (R[i].start # 0 => R[i].start \in RealBoundaries(r))
  <2>1. \A i \in 1..(n - d) : R[i] = ClosedStep(r, R[i - 1], i)
    BY <1>5, ClosedAtIs
  <2>2. \A i \in 0..(n - d) : R[i] \in Opened /\ R[i].start \in 0..i /\ (R[i].start = 0 => R[i] = None)
                               /\ (R[i].start # 0 => R[i].start \in RealBoundaries(r))
    BY <1>5, PlainClosed
  <2> QED BY <2>1, <2>2
<1> HIDE DEF R
<1>7. 0 \in T
  <2> DEFINE m == e - d
             b == R[m].start
  <2>1. m \in 0..(n - d) /\ m \in Nat
    BY <1>0, <1>4
  <2>2. b \in 0..m
    BY <1>6, <2>1
  <2>3. b = 0
    <3> SUFFICES ASSUME b # 0 PROVE FALSE
      OBVIOUS
    <3>1. b \in RealBoundaries(r)
      BY <1>6, <2>1
    <3> HIDE DEF b
    <3>2. b \in 1..(n - d) /\ d + b \in (d + 1)..e
      BY <1>0, <1>4, <2>1, <2>2
    <3> HIDE DEF c, n
    <3> QED BY <1>1, <1>5, <3>1, <3>2
  <2>4. R[m] = None
    BY <1>6, <2>1, <2>3
  <2>5. c.sentences \o <<>> = c.sentences
    <3>1. c.sentences \in Seq(Seq(Symbols))
      BY <1>1 DEF Opened
    <3> DEFINE Y == Seq(Symbols)
               q == c.sentences
    <3>2. q \in Seq(Y)
      BY <3>1
    <3> HIDE DEF Y, q
    <3>3. q \o <<>> = q
      BY <3>2, ConcatEmptySeq
    <3> QED BY <3>3 DEF q
  <2>6. c.start = d + 0
    BY <1>4 DEF d
  <2>7. e + 0 = e
    BY <1>0
  <2>8. Is(e)
    <3> HIDE DEF c
    <3>1. c = C[e]
      BY DEF c
    <3>2. R[e - d].sentences = <<>> /\ R[e - d].start = 0
      BY <2>4 DEF None
    <3>3. C[e].sentences = c.sentences \o R[e - d].sentences
      BY <2>5, <3>1, <3>2
    <3>4. C[e].start = d + R[e - d].start
      BY <2>6, <3>1, <3>2
    <3> QED BY <3>3, <3>4
  <2> HIDE DEF Is
  <2> QED BY <2>7, <2>8
<1>8. ASSUME NEW k \in Nat, k \in T PROVE k + 1 \in T
  <2> DEFINE l == e + k
             i == l + 1
             j == i - d
             b == C[l]
             g == R[j - 1]
             h == Strip(SubSeq(s, b.start + 1, i))
             f == Strip(SubSeq(r, g.start + 1, j))
  <2>0. e + (k + 1) = i
    BY <1>0
  <2> SUFFICES ASSUME i <= n PROVE Is(i)
    <3>1. k + 1 \in Nat
      OBVIOUS
    <3> HIDE DEF Is, i, n
    <3> QED BY <2>0, <3>1 DEF T
  <2>1. i \in 1..n /\ i - 1 = l /\ l \in 0..n /\ l <= n /\ j \in 1..(n - d) /\ j - 1 = l - d /\ j - 1 \in 0..(n - d) /\ d + j = i
    BY <1>0, <1>4
  <2>2. b.sentences = c.sentences \o g.sentences /\ b.start = d + g.start
    BY <1>8, <2>1
  <2>3. b \in Opened /\ b.start \in 0..l /\ g \in Opened /\ g.start \in 0..(j - 1)
    BY <1>3, <1>6, <2>1
  <2>4. C[i] = ClosedStep(s, b, i) /\ R[j] = ClosedStep(r, g, j)
    BY <1>2, <1>6, <2>1
  <2>5. b.start <= i /\ g.start <= j /\ g.start \in Nat
    <3> DEFINE v == b.start
               w == g.start
    <3>1. v \in 0..l /\ w \in 0..(j - 1)
      BY <2>3
    <3> HIDE DEF v, w
    <3>2. l \in Nat /\ j \in Nat
      BY <1>0, <1>4
    <3> HIDE DEF l, j
    <3>3. v <= l + 1 /\ w <= j /\ w \in Nat
      BY <3>1, <3>2
    <3> QED BY <3>3 DEF v, w
  <2> HIDE DEF c, n
  <2>6. C[i] = IF i \in RealBoundaries(s) THEN [sentences |-> Append(b.sentences, h), start |-> i] ELSE b
    <3> HIDE DEF b, i
    <3> QED BY <2>1, <2>3, <2>4, <2>5, PlainStep DEF n
  <2>7. R[j] = IF j \in RealBoundaries(r) THEN [sentences |-> Append(g.sentences, f), start |-> j] ELSE g
    <3>1. j \in 1..Len(r)
      BY <1>5, <2>1
    <3> HIDE DEF g, j
    <3> QED BY <1>5, <2>3, <2>4, <2>5, <3>1, PlainStep
  <2>8. i \in RealBoundaries(s) <=> j \in RealBoundaries(r)
    BY <1>5, <2>1
  <2>9. f = h
    <3> DEFINE m == g.start + 1
    <3>1. m \in Nat \ {0} /\ j \in 0..(n - d) /\ d + m = b.start + 1
      <4> DEFINE w == g.start
      <4>1. w \in Nat /\ b.start = d + w
        BY <2>2, <2>5
      <4>2. j \in 0..(n - d)
        BY <2>1
      <4> HIDE DEF w, b, j
      <4>3. w + 1 \in Nat \ {0} /\ d + (w + 1) = b.start + 1
        BY <1>4, <4>1
      <4> QED BY <4>2, <4>3 DEF w
    <3> HIDE DEF m, j
    <3>2. SubSeq(From(s, d + 1), m, j) = SubSeq(s, d + m, d + j)
      BY <1>4, <3>1, WithinRest DEF n
    <3>3. SubSeq(r, m, j) = SubSeq(s, b.start + 1, i)
      BY <2>1, <3>1, <3>2 DEF r
    <3> QED BY <3>3 DEF m
  <2>10. CASE i \in RealBoundaries(s)
    <3>1. C[i].sentences = Append(b.sentences, h) /\ C[i].start = i
      BY <2>6, <2>10
    <3>2. R[j].sentences = Append(g.sentences, h) /\ R[j].start = j
      BY <2>7, <2>8, <2>9, <2>10
    <3>3. c.sentences \o Append(g.sentences, h) = Append(b.sentences, h)
      <4>1. c.sentences \in Seq(Seq(Symbols)) /\ g.sentences \in Seq(Seq(Symbols))
        BY <1>1, <2>3 DEF Opened
      <4>2. h \in Seq(Symbols)
        <5>1. SubSeq(s, b.start + 1, i) \in Seq(Symbols)
          <6>1. b.start \in Nat /\ i \in 0..n
            BY <2>1, <2>3
          <6> HIDE DEF b, i
          <6> QED BY <6>1, Between DEF n
        <5> HIDE DEF b, i
        <5> QED BY <5>1, StripKeeps
      <4> HIDE DEF g, h
      <4>3. c.sentences \o Append(g.sentences, h) = Append(c.sentences \o g.sentences, h)
        <5> DEFINE Y == Seq(Symbols)
                   o == c.sentences
                   p == g.sentences
        <5>1. o \in Seq(Y) /\ p \in Seq(Y) /\ h \in Y
          BY <4>1, <4>2
        <5> HIDE DEF Y, o, p
        <5>2. o \o Append(p, h) = Append(o \o p, h)
          BY <5>1, AppendAfterConcat
        <5> QED BY <5>2 DEF o, p
      <4> QED BY <2>2, <4>3
    <3> HIDE DEF b, g, h, f, i, j
    <3>4. C[i].sentences = c.sentences \o R[j].sentences
      BY <3>1, <3>2, <3>3
    <3>5. C[i].start = d + R[j].start
      BY <2>1, <3>1, <3>2
    <3> QED BY <3>4, <3>5 DEF j
  <2>11. CASE i \notin RealBoundaries(s)
    <3>1. C[i] = b /\ R[j] = g
      BY <2>6, <2>7, <2>8, <2>11
    <3> HIDE DEF b, g
    <3> QED BY <2>2, <3>1
  <2> QED BY <2>10, <2>11
<1> HIDE DEF T
<1>9. Nat \subseteq T
  BY <1>7, <1>8, Counting
<1>10. ASSUME NEW i \in e..n PROVE Is(i)
  <2> DEFINE k == i - e
  <2>1. k \in Nat /\ e + k = i /\ e + k <= n
    BY <1>0
  <2> HIDE DEF k, Is
  <2> QED BY <1>9, <2>1 DEF T
<1> QED BY <1>1, <1>5, <1>10 DEF R, C, r, d

\* Without the mark of a tag everything is answer.
LEMMA NoOpening ==
    ASSUME NEW s \in Seq(Symbols), \A k \in 1..Len(s) : s[k] # "<"
    PROVE  LET r == Separate[s][FALSE]
           IN  r.answer = s /\ r.carry = <<>> /\ r.inside = FALSE
<1> DEFINE r == Separate[s][FALSE]
           i == PartialFrom(s)
<1>0. Len(s) \in Nat
  BY LenProperties
<1>1. NoTag(s, FALSE)
  <2> SUFFICES ASSUME NEW j \in 1..Len(s), NEW l \in 1..Len(s), TagOn(s, j, l, FALSE) PROVE FALSE
    BY DEF NoTag
  <2>1. FALSE \in BOOLEAN
    OBVIOUS
  <2>2. Marked(s, j, l)
    BY <2>1, TagOnHas
  <2> QED BY <2>2 DEF Marked
<1>2. i \in 1..(Len(s) + 1) /\ ~(i <= Len(s))
  <2>1. i \in 1..(Len(s) + 1) /\ (i <= Len(s) => s[i] = "<")
    BY HeldBack
  <2> HIDE DEF i
  <2> QED BY <1>0, <2>1
<1>3. r.inside = FALSE /\ r.carry = From(s, i) /\ Part(r, FALSE) = Upto(s, i - 1)
  <2>1. FALSE \in BOOLEAN
    OBVIOUS
  <2> QED BY <1>1, <2>1, NoneSeparated
<1>4. From(s, i) = <<>> /\ Upto(s, i - 1) = s
  <2> HIDE DEF i
  <2>1. i = Len(s) + 1 /\ i - 1 = Len(s) /\ Len(s) - i + 1 = 0
    BY <1>0, <1>2
  <2>2. From(s, i) \in Seq(Symbols) /\ Len(From(s, i)) = Len(s) - i + 1
    BY <1>2, Pieces
  <2>3. From(s, i) = <<>>
    BY <2>1, <2>2, EmptySeq
  <2>4. SubSeq(s, 1, Len(s)) = s
    BY SubSeqFull
  <2>5. Upto(s, i - 1) = s
    BY <2>1, <2>4 DEF Upto
  <2> QED BY <2>3, <2>5
<1>5. r.answer = s
  BY <1>3, <1>4 DEF Part
<1> QED BY <1>3, <1>4, <1>5

\* No part of plain prose holds the mark of a tag.
LEMMA PlainHasNoMark ==
    ASSUME NEW a \in Seq(Symbols), NEW x \in Seq(Symbols), PlainProse(a \o x)
    PROVE  \A k \in 1..Len(x) : x[k] # "<"
<1> DEFINE s == a \o x
<1>1. s \in Seq(Symbols) /\ Len(a) \in Nat /\ Len(x) \in Nat /\ Len(s) = Len(a) + Len(x) /\ \A k \in 1..Len(x) : s[Len(a) + k] = x[k]
  BY Both
<1> HIDE DEF s
<1>2. Prose(s)
  BY <1>1, PlainIs DEF s
<1> TAKE k \in 1..Len(x)
<1>3. Len(a) + k \in 1..Len(s)
  BY <1>1
<1>4. s[Len(a) + k] # "<"
  BY <1>2, <1>3 DEF Prose
<1> QED BY <1>1, <1>4

\* The sentences of plain prose, and what is left open, as one text.
WithRest(o, l) == o \o (IF l = <<>> THEN <<>> ELSE <<l>>)
OpenIn(s) == From(s, Closed(s).start + 1)

\* Plain prose cut in one piece: its closed sentences and the rest.
LEMMA PlainWhole ==
    ASSUME NEW s \in Seq(Symbols), PlainProse(s)
    PROVE  /\ Closed(s) \in Opened /\ OpenIn(s) \in Seq(Symbols)
           /\ CutWhole(s) = WithRest(Closed(s).sentences, Strip(OpenIn(s)))
<1> DEFINE p == Separate[s][FALSE]
           t == IF p.answer = <<>> THEN [sentences |-> <<>>, rest |-> <<>>] ELSE Take(p.answer)
           c == Closed(s)
<1>0. Len(s) \in Nat
  BY LenProperties
<1>1. p.answer = s /\ p.carry = <<>>
  <2>1. \A k \in 1..Len(s) : s[k] # "<"
    BY PlainIs DEF Prose
  <2> QED BY <2>1, NoOpening
<1>2. /\ c \in Opened /\ c.start \in 0..Len(s)
      /\ Take(s).sentences = c.sentences /\ Take(s).rest = From(s, c.start + 1)
  BY PlainTake
<1>3. OpenIn(s) \in Seq(Symbols) /\ Len(OpenIn(s)) = Len(s) - c.start
  <2> DEFINE d == c.start
  <2>1. d \in 0..Len(s)
    BY <1>2
  <2> HIDE DEF d
  <2>2. From(s, d + 1) \in Seq(Symbols) /\ Len(From(s, d + 1)) = Len(s) - d
    BY <2>1, Beginning
  <2> QED BY <2>2 DEF OpenIn, d
<1>4. CutWhole(s) = t.sentences \o (IF Strip(p.carry \o t.rest) = <<>> THEN <<>> ELSE <<Strip(p.carry \o t.rest)>>)
  BY DEF CutWhole
<1> HIDE DEF p
<1>5. t.sentences = c.sentences /\ t.rest = OpenIn(s)
  <2>1. CASE s = <<>>
    <3>1. t = [sentences |-> <<>>, rest |-> <<>>]
      BY <1>1, <2>1
    <3>2. Len(s) = 0
      BY <2>1, EmptySeq
    <3>3. c = None
      BY <3>2, ClosedAtIs
    <3> HIDE DEF c, t
    <3>4. Len(OpenIn(s)) = 0
      BY <1>3, <3>2, <3>3 DEF None
    <3>5. OpenIn(s) = <<>>
      BY <1>3, <3>4, EmptySeq
    <3> QED BY <3>1, <3>3, <3>5 DEF None
  <2>2. CASE s # <<>>
    <3>1. t = Take(s)
      BY <1>1, <2>2
    <3> HIDE DEF t
    <3> QED BY <1>2, <3>1 DEF OpenIn
  <2> QED BY <2>1, <2>2
<1>6. p.carry \o t.rest = OpenIn(s)
  <2> DEFINE o == OpenIn(s)
  <2>1. <<>> \o o = o
    <3>1. o \in Seq(Symbols)
      BY <1>3
    <3> HIDE DEF o
    <3> QED BY <3>1, ConcatEmptySeq
  <2> HIDE DEF t, o
  <2>2. p.carry \o t.rest = <<>> \o o
    BY <1>1, <1>5 DEF o
  <2> QED BY <2>1, <2>2 DEF o
<1> HIDE DEF c, t
<1>7. CutWhole(s) = WithRest(c.sentences, Strip(OpenIn(s)))
  BY <1>4, <1>5, <1>6 DEF WithRest
<1> QED BY <1>2, <1>3, <1>7 DEF c

\* Where the text is plain, the segmenter has handed over what is closed in all
\* that was pushed, and holds the rest of it.
ProseIs ==
    IF finished THEN out = CutWhole(text)
    ELSE /\ carry = <<>> /\ inside = FALSE
         /\ out = Closed(text).sentences /\ buffer = OpenIn(text)

\* The inductive invariant for PlainProseIsStable, and so for all three parts.
ProseInv == TextInv /\ (PlainProse(text) => ProseIs)

\* It holds at the beginning.
LEMMA ProseInvInit == SegmenterInit => ProseInv
<1> SUFFICES ASSUME SegmenterInit PROVE ProseInv
  OBVIOUS
<1>1. text = <<>> /\ finished = FALSE /\ carry = <<>> /\ inside = FALSE /\ out = <<>> /\ buffer = <<>>
  BY DEF SegmenterInit
<1>2. text \in Seq(Symbols) /\ Len(text) = 0
  BY <1>1, EmptySeq
<1>3. Closed(text) = None
  BY <1>2, ClosedAtIs
<1>4. OpenIn(text) = <<>>
  <2> DEFINE o == 0
  <2>0. o \in 0..Len(text)
    BY <1>2
  <2> HIDE DEF o
  <2>a. From(text, o + 1) \in Seq(Symbols) /\ Len(From(text, o + 1)) = Len(text) - o
    BY <1>2, <2>0, Beginning
  <2>1. From(text, 0 + 1) \in Seq(Symbols) /\ Len(From(text, 0 + 1)) = Len(text) - 0
    BY <2>a DEF o
  <2>2. Len(From(text, 0 + 1)) = 0
    BY <1>2, <2>1
  <2>3. From(text, 0 + 1) = <<>>
    BY <2>1, <2>2, EmptySeq
  <2> QED BY <1>3, <2>3 DEF OpenIn, None
<1>5. ProseIs
  BY <1>1, <1>3, <1>4 DEF ProseIs, None
<1> QED BY <1>5, TextInvInit DEF ProseInv

\* What a push adds to plain prose.
LEMMA PlainPush ==
    ASSUME NEW a \in Seq(Symbols), NEW x \in Seq(Symbols), PlainProse(a \o x)
    PROVE  LET r == OpenIn(a) \o x
           IN  /\ Closed(a).sentences \o Take(r).sentences = Closed(a \o x).sentences
               /\ Take(r).rest = OpenIn(a \o x)
<1> DEFINE s == a \o x
           e == Len(a)
           c == Closed(a)
           d == c.start
           r == From(s, d + 1)
           q == Closed(r)
<1>1. s \in Seq(Symbols) /\ e \in Nat /\ Len(x) \in Nat /\ Len(s) = e + Len(x)
  BY Both
<1>2. c = ClosedAt(s)[e]
  <2>1. e \in 0..e
    BY <1>1
  <2>2. ClosedAt(s)[e] = ClosedAt(a)[e]
    BY <2>1, PlainClosedStays
  <2> QED BY <2>2, ClosedAtIs
<1>3. d \in 0..e /\ r \in Seq(Symbols) /\ Len(r) = Len(s) - d /\ PlainProse(r)
      /\ \A i \in e..Len(s) :
            /\ ClosedAt(s)[i].sentences = c.sentences \o ClosedAt(r)[i - d].sentences
            /\ ClosedAt(s)[i].start = d + ClosedAt(r)[i - d].start
  <2>1. e \in 0..Len(s)
    BY <1>1
  <2> HIDE DEF s, e, c
  <2>2. PlainProse(s)
    BY DEF s
  <2> QED BY <1>1, <1>2, <2>1, <2>2, PlainGoesOn
<1>4. OpenIn(a) \o x = r
  <2> DEFINE m == d + 1
  <2>1. m \in 1..(e + 1)
    <3> HIDE DEF d, e
    <3> QED BY <1>1, <1>3
  <2> HIDE DEF m
  <2>2. From(a \o x, m) = From(a, m) \o x
    BY <2>1, PiecesOfBoth
  <2> QED BY <2>2 DEF OpenIn, m
<1>5. /\ q \in Opened /\ q.start \in 0..Len(r)
      /\ Take(r).sentences = q.sentences /\ Take(r).rest = From(r, q.start + 1)
  <2> HIDE DEF r
  <2> QED BY <1>3, PlainTake
<1>6. Closed(s).sentences = c.sentences \o q.sentences /\ Closed(s).start = d + q.start
  <2>1. Len(s) \in e..Len(s)
    BY <1>1
  <2>2. Closed(s) = ClosedAt(s)[Len(s)]
    BY <1>1, ClosedAtIs
  <2>3. q = ClosedAt(r)[Len(r)]
    <3> HIDE DEF r
    <3> QED BY <1>3, ClosedAtIs
  <2> HIDE DEF s, r, q, c, d, e
  <2> QED BY <1>3, <2>1, <2>2, <2>3
<1>7. From(r, q.start + 1) = OpenIn(s)
  <2> DEFINE i == d + 1
             k == q.start
             j == k + 1
  <2>1. d \in 0..e /\ k \in 0..Len(r) /\ Len(r) = Len(s) - d
    BY <1>3, <1>5
  <2> HIDE DEF d, k, s, r, e
  <2>2. i \in 1..(Len(s) + 1) /\ j \in 1..(Len(s) - i + 2) /\ i + j - 1 = d + k + 1
    BY <1>1, <2>1 DEF i, j
  <2> HIDE DEF i, j
  <2>3. From(From(s, i), j) = From(s, i + j - 1)
    BY <1>1, <2>2, RestOfRest
  <2>4. OpenIn(s) = From(s, d + k + 1)
    BY <1>6 DEF OpenIn, k
  <2>5. From(s, i) = r
    BY DEF r, i
  <2> QED BY <2>2, <2>3, <2>4, <2>5 DEF j, k
<1> HIDE DEF r, q, c, d
<1>8. c.sentences \o Take(r).sentences = Closed(s).sentences /\ Take(r).rest = OpenIn(s)
  BY <1>5, <1>6, <1>7
<1> QED BY <1>4, <1>8 DEF c

\* A push keeps it.
LEMMA ProseInvPush ==
    ASSUME ProseInv, ~finished, NEW chunk \in Chunks, Push(chunk), PlainProse(text')
    PROVE  ProseIs'
<1> DEFINE parts == Separate[carry \o chunk][inside]
           taken == Take(buffer \o parts.answer)
<1>1. alphabet \subseteq Symbols /\ text \in Seq(Symbols)
  BY DEF ProseInv, TextInv, TagInv, TagTypes
<1>2. chunk \in Seq(Symbols) /\ chunk # <<>>
  BY <1>1, ChunkIs
<1>3. /\ text' = text \o chunk /\ finished' = FALSE /\ carry' = parts.carry /\ inside' = parts.inside
      /\ IF parts.answer = <<>> THEN UNCHANGED <<buffer, out, recut>>
         ELSE buffer' = taken.rest /\ out' = out \o taken.sentences
  BY DEF Push
<1>4. PlainProse(text \o chunk)
  BY <1>3
<1>5. PlainProse(text)
  BY <1>1, <1>2, <1>4, PlainBeginning
<1>6. carry = <<>> /\ inside = FALSE /\ out = Closed(text).sentences /\ buffer = OpenIn(text)
  BY <1>5 DEF ProseInv, ProseIs
<1>7. parts.answer = chunk /\ parts.carry = <<>> /\ parts.inside = FALSE
  <2>1. carry \o chunk = chunk
    <3>1. <<>> \o chunk = chunk
      BY <1>2, ConcatEmptySeq
    <3> QED BY <1>6, <3>1
  <2>2. \A k \in 1..Len(chunk) : chunk[k] # "<"
    BY <1>1, <1>2, <1>4, PlainHasNoMark
  <2>3. parts = Separate[chunk][FALSE]
    BY <1>6, <2>1
  <2> HIDE DEF parts
  <2> QED BY <1>2, <2>2, <2>3, NoOpening
<1> HIDE DEF parts
<1>8. taken = Take(OpenIn(text) \o chunk)
  BY <1>6, <1>7
<1>9. buffer' = taken.rest /\ out' = out \o taken.sentences
  <2> HIDE DEF taken
  <2> QED BY <1>2, <1>3, <1>7
<1> HIDE DEF taken
<1>10. out' = Closed(text \o chunk).sentences /\ buffer' = OpenIn(text \o chunk)
  <2>1. /\ Closed(text).sentences \o Take(OpenIn(text) \o chunk).sentences = Closed(text \o chunk).sentences
        /\ Take(OpenIn(text) \o chunk).rest = OpenIn(text \o chunk)
    BY <1>1, <1>2, <1>4, PlainPush
  <2> QED BY <1>6, <1>8, <1>9, <2>1
<1>11. OpenIn(text)' = OpenIn(text \o chunk) /\ Closed(text)' = Closed(text \o chunk)
  BY <1>3 DEF OpenIn
<1> QED BY <1>3, <1>7, <1>10, <1>11 DEF ProseIs

\* The flush keeps it.
LEMMA ProseInvFlush ==
    ASSUME ProseInv, Flush, PlainProse(text)
    PROVE  ProseIs'
<1>1. text \in Seq(Symbols) /\ buffer \in Seq(Symbols) /\ out \in Seq(Seq(Symbols))
  BY DEF ProseInv, TextInv, TagInv, TagTypes
<1>2. ~finished /\ finished' = TRUE /\ text' = text /\ out' = IF Remaining = <<>> THEN out ELSE Append(out, Remaining)
  BY DEF Flush, textVars
<1>3. carry = <<>> /\ out = Closed(text).sentences /\ buffer = OpenIn(text)
  BY <1>2 DEF ProseInv, ProseIs
<1>4. Remaining = Strip(OpenIn(text))
  <2>1. <<>> \o buffer = buffer
    BY <1>1, ConcatEmptySeq
  <2> QED BY <1>3, <2>1 DEF Remaining
<1>5. CutWhole(text) = WithRest(Closed(text).sentences, Strip(OpenIn(text)))
  BY <1>1, PlainWhole
<1>6. out' = WithRest(out, Remaining)
  <2> DEFINE Y == Seq(Symbols)
             l == Remaining
  <2>1. out \in Seq(Y) /\ l \in Y
    <3>1. OpenIn(text) = buffer
      BY <1>3
    <3>2. Strip(buffer) \in Seq(Symbols)
      BY <1>1, StripKeeps
    <3> QED BY <1>1, <1>4, <3>1, <3>2
  <2>2. out' = IF l = <<>> THEN out ELSE Append(out, l)
    BY <1>2
  <2> HIDE DEF Y, l
  <2>3. out \o <<>> = out
    BY <2>1, ConcatEmptySeq
  <2>4. Append(out, l) = out \o <<l>>
    BY <2>1, AppendIsConcat
  <2>5. out' = WithRest(out, l)
    BY <2>2, <2>3, <2>4 DEF WithRest
  <2> QED BY <2>5 DEF l
<1>7. out' = CutWhole(text)
  BY <1>3, <1>4, <1>5, <1>6
<1>8. CutWhole(text)' = CutWhole(text')
  OBVIOUS
<1> QED BY <1>2, <1>7, <1>8 DEF ProseIs

\* Every step keeps it.
LEMMA ProseInvStep == ProseInv /\ [SegmenterNext]_segmenterVars => ProseInv'
<1> SUFFICES ASSUME ProseInv, [SegmenterNext]_segmenterVars PROVE ProseInv'
  OBVIOUS
<1>1. TextInv'
  BY TextInvStep DEF ProseInv
<1>2. ASSUME PlainProse(text') PROVE ProseIs'
  <2>1. CASE ~finished /\ \E chunk \in Chunks : Push(chunk)
    BY <1>2, <2>1, ProseInvPush
  <2>2. CASE Flush
    <3>1. text' = text
      BY <2>2 DEF Flush, textVars
    <3>2. PlainProse(text)
      BY <1>2, <3>1
    <3> QED BY <2>2, <3>2, ProseInvFlush
  <2>3. CASE UNCHANGED segmenterVars
    <3>1. /\ text' = text /\ finished' = finished /\ carry' = carry /\ inside' = inside
          /\ out' = out /\ buffer' = buffer
      BY <2>3 DEF segmenterVars, textVars, tagVars
    <3>2. PlainProse(text)
      BY <1>2, <3>1
    <3>3. ProseIs
      BY <3>2 DEF ProseInv
    <3> QED BY <3>1, <3>3 DEF ProseIs, OpenIn
  <2> QED BY <2>1, <2>2, <2>3 DEF SegmenterNext
<1> QED BY <1>1, <1>2 DEF ProseInv

\* Theorem: what a reader gets of a streamed answer depends on the chunks in
\* nothing but the exceptions the three properties name: reasoning is separated
\* as by one push, no text is lost or repeated, plain prose is cut the same way.
THEOREM SegmentationStaysSound == SegmenterSpec => []SegmentationIsSound
<1>1. ProseInv => SegmentationIsSound
  <2> SUFFICES ASSUME ProseInv PROVE SegmentationIsSound
    OBVIOUS
  <2>1. ReasoningIsSeparated
    BY TagInvSeparates DEF ProseInv, TextInv
  <2>2. TextIsKept
    BY DEF ProseInv, TextInv
  <2>3. PlainProseIsStable
    BY DEF ProseInv, ProseIs, PlainProseIsStable
  <2> QED BY <2>1, <2>2, <2>3 DEF SegmentationIsSound
<1> QED BY <1>1, ProseInvInit, ProseInvStep, PTL DEF SegmenterSpec
=============================================================================
