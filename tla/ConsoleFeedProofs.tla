-------------------------- MODULE ConsoleFeedProofs --------------------------
(***************************************************************************)
(* The console's feed is exact for every buffer, transport, number of      *)
(* events and restarts: whatever order replay, recovery, live events and   *)
(* lost connections come in, a browser shows what the hub keeps, once.     *)
(*                                                                         *)
(* The argument: what the hub sends over one socket is one run of          *)
(* consecutive events, spread over what the client set aside, the wire and *)
(* the queue; the run starts where the hub's buffer starts or right behind *)
(* the cursor; and a client that accepts such a run skips nothing.         *)
(***************************************************************************)
EXTENDS ConsoleFeed, TLAPS, SequenceTheorems

Numbered == [stream : Nat, seq : Nat]

\* A run of n consecutive events of stream s, the first with number b.
IsRun(es, s, b, n) ==
    /\ es \in Seq(Numbered) /\ Len(es) = n
    /\ \A k \in 1..n : es[k] = Event(s, b + k - 1)

\* A run that leaves no kept event between the cursor and its first event.
Starts(c, s, b) ==
    s = stream => b <= Oldest \/ (c.cursor.stream = stream /\ b <= c.cursor.seq + 1)

\* The last event of a run is at most the hub's.
Ends(s, b, n) == s = stream => b + n <= seq + 1

Shown == [stream : 1..stream, seq : Nat]

\* A client that skipped nothing and, before any restart, repeated nothing.
ClientIsExact(c) ==
    /\ c \in [cursor : [stream : 0..stream, seq : Nat], applied : SUBSET Shown, again : SUBSET Shown]
    /\ c.cursor.stream = stream => c.cursor.seq <= seq
    /\ \A e \in Retained : Before(e, c.cursor) => e \in c.applied
    /\ stream = 1 => c.again = {} /\ \A e \in c.applied : Before(e, c.cursor)

HubInv == stream \in Nat \ {0} /\ seq \in Nat

\* What the socket brought, brings and will bring is one run, from b on: a
\* events set aside, w on the wire and q in the queue.
Chain(s, b, a, w, q) ==
    /\ IsRun(wire, s, b + a, w) /\ IsRun(queue, s, b + a + w, q)
    /\ IF recovering THEN IsRun(aside, s, b, a) ELSE a = 0
    /\ IF recovering THEN s = stream => b <= Oldest ELSE Starts(client, s, b)
    /\ b >= 1 /\ Ends(s, b, a + w + q)
    /\ server = "joined" => s = stream /\ b + a + w + q = seq + 1

ChainInv == \E s \in 1..stream, b, a, w, q \in Nat : Chain(s, b, a, w, q)

SocketInv ==
    /\ server \in {"none", "accepted", "joined"}
    /\ recovering \in BOOLEAN
    /\ server = "accepted" => wire = <<>> /\ queue = <<>> /\ (recovering => aside = <<>>)
    /\ server = "none" => queue = <<>>
    /\ socket = "timer" => wire = <<>> /\ server = "none"

\* While a recovery is under way the cursor stays where it asked from, and the
\* response is a run that starts there.
ResponseIsRun(r) ==
    /\ r.stream \in 1..stream /\ r.latest \in Nat
    /\ r.stream = stream => r.latest <= seq
    /\ \E b, n \in Nat :
          /\ b >= 1 /\ IsRun(r.events, r.stream, b, n)
          /\ Starts(client, r.stream, b)
          /\ b + n = r.latest + 1 \/ (n = 0 /\ b > r.latest)

RecoveryInv ==
    /\ recovery.pc \in {"none", "asked", "answered"}
    /\ recovering <=> recovery.pc # "none"
    /\ recovery.pc = "asked" => recovery.after = client.cursor
    /\ recovery.pc = "answered" => ResponseIsRun(recovery.response)

Inv == HubInv /\ ClientIsExact(client) /\ ChainInv /\ SocketInv /\ RecoveryInv

-----------------------------------------------------------------------------
(* Runs                                                                     *)

LEMMA EmptyRun == ASSUME NEW s, NEW b PROVE IsRun(<<>>, s, b, 0)
BY EmptySeq DEF IsRun

\* A run of none is the empty sequence.
LEMMA NoRun == ASSUME NEW es, NEW s, NEW b, IsRun(es, s, b, 0) PROVE es = <<>>
<1>1. es \in Seq(Numbered) /\ Len(es) = 0
  BY DEF IsRun
<1> QED BY <1>1, EmptySeq

LEMMA RunGrows ==
    ASSUME NEW es, NEW s \in Nat, NEW b \in Nat, NEW n \in Nat, IsRun(es, s, b, n)
    PROVE  IsRun(Append(es, Event(s, b + n)), s, b, n + 1)
<1> DEFINE e == Event(s, b + n)
           fs == Append(es, e)
<1>1. e \in Numbered /\ es \in Seq(Numbered) /\ Len(es) = n
  BY DEF IsRun, Event, Numbered
<1> HIDE DEF e
<1>2. fs \in Seq(Numbered) /\ Len(fs) = n + 1 /\ fs[n + 1] = e
      /\ \A k \in 1..n : fs[k] = es[k]
  BY <1>1, AppendProperties
<1> HIDE DEF fs
<1>3. \A k \in 1..(n + 1) : fs[k] = Event(s, b + k - 1)
  <2> SUFFICES ASSUME NEW k \in 1..(n + 1) PROVE fs[k] = Event(s, b + k - 1)
    OBVIOUS
  <2>1. CASE k = n + 1
    <3>1. b + k - 1 = b + n
      BY <2>1
    <3> QED BY <1>2, <2>1, <3>1 DEF e
  <2>2. CASE k \in 1..n
    BY <1>2, <2>2 DEF IsRun
  <2> QED BY <2>1, <2>2
<1> QED BY <1>2, <1>3 DEF IsRun, fs, e

LEMMA RunShrinks ==
    ASSUME NEW es, NEW s \in Nat, NEW b \in Nat, NEW n \in Nat, IsRun(es, s, b, n), es # <<>>
    PROVE  /\ n >= 1
           /\ Head(es) = Event(s, b)
           /\ IsRun(Tail(es), s, b + 1, n - 1)
<1> DEFINE ts == Tail(es)
<1>1. es \in Seq(Numbered) /\ Len(es) = n /\ n >= 1
  BY EmptySeq DEF IsRun
<1>2. ts \in Seq(Numbered) /\ Len(ts) = n - 1 /\ \A k \in 1..(n - 1) : ts[k] = es[k + 1]
  BY <1>1, HeadTailProperties
<1> HIDE DEF ts
<1>3. \A k \in 1..(n - 1) : ts[k] = Event(s, b + 1 + k - 1)
  <2> SUFFICES ASSUME NEW k \in 1..(n - 1) PROVE ts[k] = Event(s, b + 1 + k - 1)
    OBVIOUS
  <2>1. k + 1 \in 1..n /\ b + (k + 1) - 1 = b + 1 + k - 1
    BY <1>1
  <2> QED BY <1>2, <2>1 DEF IsRun
<1>4. es[1] = Event(s, b)
  <2>1. 1 \in 1..n /\ b + 1 - 1 = b
    BY <1>1
  <2> QED BY <2>1 DEF IsRun
<1> QED BY <1>1, <1>2, <1>3, <1>4 DEF IsRun, ts

LEMMA SameLength == ASSUME NEW m \in Nat, NEW n \in Nat, 1..m = 1..n PROVE m = n
<1>1. m > 0 => m \in 1..n
  OBVIOUS
<1>2. n > 0 => n \in 1..m
  OBVIOUS
<1> QED BY <1>1, <1>2

LEMMA RunMade ==
    ASSUME NEW s \in Nat, NEW b \in Nat, b >= 1, NEW n \in Nat
    PROVE  IsRun([k \in 1..n |-> Event(s, b + k - 1)], s, b, n)
<1> DEFINE es == [k \in 1..n |-> Event(s, b + k - 1)]
<1>1. \A k \in 1..n : Event(s, b + k - 1) \in Numbered
  BY DEF Event, Numbered
<1>2. es \in [1..n -> Numbered]
  BY <1>1
<1>3. es \in Seq(Numbered) /\ Len(es) = n
  <2>1. es \in Seq(Numbered)
    BY <1>2, SeqDef
  <2>2. Len(es) \in Nat /\ DOMAIN es = 1..Len(es)
    BY <2>1, LenProperties
  <2> HIDE DEF es
  <2>3. 1..Len(es) = 1..n
    BY <1>2, <2>2
  <2>4. Len(es) = n
    BY <2>2, <2>3, SameLength
  <2> QED BY <2>1, <2>4
<1> QED BY <1>3 DEF IsRun

-----------------------------------------------------------------------------
(* The client                                                               *)

\* The buffer starts at most one behind the newest event.
LEMMA OldestIsClose == ASSUME HubInv PROVE Oldest \in Nat /\ 1 <= Oldest /\ Oldest <= seq + 1
BY FeedAssumption DEF HubInv, Oldest

\* What accept() of a run makes of client c: nothing is new to it, ...
FindsNothing(c, d, s, b, n) == d = c /\ (n = 0 \/ Before(Event(s, b + n - 1), c.cursor))

\* ... or what is new is applied, and the cursor is at the run's last event.
Applies(c, d, s, b, n, new) ==
    /\ n > 0 /\ ~Before(Event(s, b + n - 1), c.cursor)
    /\ \A k \in Nat : Event(s, k) \in new <=>
           b <= k /\ k < b + n /\ ~Before(Event(s, k), c.cursor)
    /\ \A e \in new : e.stream = s /\ b <= e.seq /\ e.seq < b + n /\ ~Before(e, c.cursor)
    /\ d = [cursor |-> Event(s, b + n - 1), applied |-> c.applied \cup new,
            again |-> c.again \cup (new \cap c.applied)]

\* accept() of a run does one or the other.
LEMMA AcceptOfRun ==
    ASSUME NEW c, NEW es, NEW s \in Nat, NEW b \in Nat, NEW n \in Nat, IsRun(es, s, b, n),
           c.cursor \in [stream : Nat, seq : Nat]
    PROVE  \/ FindsNothing(c, Accept(c, es), s, b, n)
           \/ \E new \in SUBSET Numbered : Applies(c, Accept(c, es), s, b, n, new)
<1> DEFINE new == {es[k] : k \in {j \in DOMAIN es : ~Before(es[j], c.cursor)}}
<1>1. /\ DOMAIN es = 1..n /\ Len(es) = n /\ es \in Seq(Numbered)
      /\ \A k \in 1..n : es[k] = Event(s, b + k - 1)
  BY LenProperties DEF IsRun
<1>2. Accept(c, es) = IF new = {} THEN c
                      ELSE [cursor |-> es[Len(es)], applied |-> c.applied \cup new,
                            again |-> c.again \cup (new \cap c.applied)]
  BY DEF Accept
<1>3. \A e \in new : \E j \in 1..n : e = es[j] /\ ~Before(e, c.cursor)
  BY <1>1
<1>4. \A j \in 1..n : ~Before(es[j], c.cursor) => es[j] \in new
  BY <1>1
<1> HIDE DEF new
<1>5. \A k \in Nat : Event(s, k) \in new <=> b <= k /\ k < b + n /\ ~Before(Event(s, k), c.cursor)
  <2> SUFFICES ASSUME NEW k \in Nat
               PROVE  Event(s, k) \in new <=> b <= k /\ k < b + n /\ ~Before(Event(s, k), c.cursor)
    OBVIOUS
  <2>1. ASSUME Event(s, k) \in new
        PROVE  b <= k /\ k < b + n /\ ~Before(Event(s, k), c.cursor)
    <3>1. PICK j \in 1..n : Event(s, k) = es[j] /\ ~Before(Event(s, k), c.cursor)
      BY <1>3, <2>1
    <3>2. k = b + j - 1
      BY <1>1, <3>1 DEF Event
    <3> QED BY <3>1, <3>2
  <2>2. ASSUME b <= k, k < b + n, ~Before(Event(s, k), c.cursor)
        PROVE  Event(s, k) \in new
    <3>1. k - b + 1 \in 1..n /\ b + (k - b + 1) - 1 = k
      BY <2>2
    <3>2. es[k - b + 1] = Event(s, k)
      BY <1>1, <3>1
    <3> QED BY <1>4, <2>2, <3>1, <3>2
  <2> QED BY <2>1, <2>2
<1>6. \A e \in new : e.stream = s /\ b <= e.seq /\ e.seq < b + n /\ ~Before(e, c.cursor)
  <2> SUFFICES ASSUME NEW e \in new
               PROVE  e.stream = s /\ b <= e.seq /\ e.seq < b + n /\ ~Before(e, c.cursor)
    OBVIOUS
  <2>1. PICK j \in 1..n : e = es[j] /\ ~Before(e, c.cursor)
    BY <1>3
  <2>2. e = Event(s, b + j - 1)
    BY <1>1, <2>1
  <2> QED BY <2>1, <2>2 DEF Event
<1>7. new \in SUBSET Numbered
  BY <1>1, <1>3, ElementOfSeq
<1>8. CASE new = {}
  <2>1. n = 0 \/ Before(Event(s, b + n - 1), c.cursor)
    <3>1. n # 0 => n \in 1..n
      OBVIOUS
    <3> QED BY <1>1, <1>4, <1>8, <3>1
  <2> QED BY <1>2, <1>8, <2>1 DEF FindsNothing
<1>9. CASE new # {}
  <2>1. PICK e \in new : TRUE
    BY <1>9
  <2>2. n > 0
    <3>1. e.seq \in Nat /\ b <= e.seq /\ e.seq < b + n
      BY <1>6, <1>7, <2>1 DEF Numbered
    <3> QED BY <3>1
  <2>3. es[Len(es)] = Event(s, b + n - 1)
    BY <1>1, <2>2
  <2>4. ~Before(Event(s, b + n - 1), c.cursor)
    <3>1. e.stream = s /\ e.seq \in Nat /\ e.seq <= b + n - 1
      BY <1>6, <1>7, <2>1 DEF Numbered
    <3>2. ~(e.stream = c.cursor.stream /\ e.seq <= c.cursor.seq)
      BY <1>6, <2>1 DEF Before
    <3> QED BY <2>2, <3>1, <3>2 DEF Before, Event
  <2>5. Applies(c, Accept(c, es), s, b, n, new)
    BY <1>2, <1>5, <1>6, <1>9, <2>2, <2>3, <2>4 DEF Applies
  <2> QED BY <1>7, <2>5
<1> QED BY <1>8, <1>9

\* A run that starts at the buffer or right behind the cursor skips nothing,
\* and the next one starts behind it.
LEMMA AcceptIsExact ==
    ASSUME HubInv, NEW c, ClientIsExact(c), NEW es, NEW s \in 1..stream, NEW b \in Nat, b >= 1,
           NEW n \in Nat, IsRun(es, s, b, n), Starts(c, s, b), Ends(s, b, n)
    PROVE  ClientIsExact(Accept(c, es)) /\ Starts(Accept(c, es), s, b + n)
<1> DEFINE d == Accept(c, es)
<1>1. /\ c.cursor \in [stream : Nat, seq : Nat] /\ s \in Nat /\ s >= 1 /\ s <= stream
      /\ c.cursor.stream \in 0..stream
      /\ c.applied \in SUBSET Shown /\ c.again \in SUBSET Shown
  BY DEF ClientIsExact, HubInv
<1>0. FindsNothing(c, d, s, b, n) \/ \E new \in SUBSET Numbered : Applies(c, d, s, b, n, new)
  BY <1>1, AcceptOfRun
<1>2. CASE FindsNothing(c, d, s, b, n)
  <2>1. Starts(c, s, b + n)
    <3>1. CASE n = 0
      BY <3>1
    <3>2. CASE n # 0
      BY <1>1, <1>2, <3>2 DEF FindsNothing, Starts, Before, Event, HubInv
    <3> QED BY <3>1, <3>2
  <2> QED BY <1>2, <2>1 DEF FindsNothing
<1>3. ASSUME NEW new \in SUBSET Numbered, Applies(c, d, s, b, n, new)
      PROVE  ClientIsExact(d) /\ Starts(d, s, b + n)
  <2> HIDE DEF d
  <2> USE DEF Applies
  <2>1. /\ d.cursor.stream = s /\ d.cursor.seq = b + n - 1 /\ d.cursor.seq \in Nat
        /\ d.applied = c.applied \cup new /\ d.again = c.again \cup (new \cap c.applied)
    BY <1>3 DEF Event
  <2>2. new \in SUBSET Shown
    <3> SUFFICES ASSUME NEW e \in new PROVE e \in Shown
      OBVIOUS
    <3>1. e \in Numbered /\ e.stream = s
      BY <1>3
    <3> QED BY <3>1 DEF Numbered, Shown, HubInv
  <2>3. d \in [cursor : [stream : 0..stream, seq : Nat], applied : SUBSET Shown, again : SUBSET Shown]
    <3>1. Event(s, b + n - 1) \in [stream : 0..stream, seq : Nat]
      BY <1>1, <1>3 DEF Event, HubInv
    <3>2. c.applied \cup new \in SUBSET Shown /\ c.again \cup (new \cap c.applied) \in SUBSET Shown
      BY <1>1, <2>2
    <3> QED BY <1>3, <3>1, <3>2
  <2>4. d.cursor.stream = stream => d.cursor.seq <= seq
    BY <2>1 DEF Ends, HubInv
  <2>5. \A e \in Retained : Before(e, d.cursor) => e \in d.applied
    <3> SUFFICES ASSUME NEW x \in Oldest..seq, Before(Event(stream, x), d.cursor)
                 PROVE  Event(stream, x) \in d.applied
      BY DEF Retained
    <3>1. s = stream /\ x <= b + n - 1 /\ x \in Nat /\ x >= Oldest
      BY <2>1, OldestIsClose DEF Before, Event, HubInv
    <3>2. CASE Before(Event(stream, x), c.cursor)
      <4>1. Event(stream, x) \in Retained
        BY DEF Retained
      <4> QED BY <2>1, <3>2, <4>1 DEF ClientIsExact
    <3>3. CASE ~Before(Event(stream, x), c.cursor)
      <4>1. b <= x
        BY <1>1, <3>1, <3>3, OldestIsClose DEF Starts, Before, Event, HubInv
      <4>2. Event(s, x) \in new
        BY <1>3, <3>1, <3>3, <4>1
      <4> QED BY <2>1, <3>1, <4>2
    <3> QED BY <3>2, <3>3
  <2>6. ASSUME stream = 1 PROVE d.again = {} /\ \A e \in d.applied : Before(e, d.cursor)
    <3>1. s = 1 /\ c.again = {} /\ \A e \in c.applied : Before(e, c.cursor)
      BY <1>1, <2>6 DEF ClientIsExact
    <3>2. new \cap c.applied = {}
      BY <1>3, <3>1
    <3>3. \A e \in new : Before(e, d.cursor)
      <4> SUFFICES ASSUME NEW e \in new PROVE Before(e, d.cursor)
        OBVIOUS
      <4>1. e.stream = s /\ e.seq < b + n /\ e.seq \in Nat
        BY <1>3 DEF Numbered
      <4> QED BY <2>1, <4>1 DEF Before
    <3>4. \A e \in c.applied : Before(e, d.cursor)
      <4> SUFFICES ASSUME NEW e \in c.applied PROVE Before(e, d.cursor)
        OBVIOUS
      <4>1. e.stream = 1 /\ e.seq \in Nat
        BY <1>1, <2>6 DEF Shown
      <4>2. e.stream = c.cursor.stream /\ e.seq <= c.cursor.seq
        BY <3>1 DEF Before
      <4>3. ~(s = c.cursor.stream /\ b + n - 1 <= c.cursor.seq)
        BY <1>3 DEF Before, Event
      <4> QED BY <1>1, <2>1, <3>1, <4>1, <4>2, <4>3 DEF Before
    <3> QED BY <2>1, <3>1, <3>2, <3>3, <3>4
  <2>7. Starts(d, s, b + n)
    BY <1>1, <2>1 DEF Starts, HubInv
  <2> QED BY <2>3, <2>4, <2>5, <2>6, <2>7 DEF ClientIsExact
<1> HIDE DEF d
<1> QED BY <1>0, <1>2, <1>3 DEF d

\* The cursor moves on to the snapshot's last number when the hub keeps nothing
\* before it that the snapshot did not bring.
LEMMA CatchUpIsExact ==
    ASSUME HubInv, NEW c, ClientIsExact(c), NEW r, r.stream \in 1..stream, r.latest \in Nat,
           r.stream = stream => r.latest <= seq,
           Starts(c, r.stream, r.latest + 1)
    PROVE  ClientIsExact(CatchUp(c, r))
<1> DEFINE d == [c EXCEPT !.cursor = Event(r.stream, r.latest)]
<1>1. CASE CatchUp(c, r) = c
  BY <1>1
<1>2. CASE CatchUp(c, r) # c
  <2>1. CatchUp(c, r) = d /\ (c.cursor.stream # r.stream \/ r.latest > c.cursor.seq)
    BY <1>2 DEF CatchUp
  <2>2. c \in [cursor : [stream : 0..stream, seq : Nat], applied : SUBSET Shown, again : SUBSET Shown]
    BY DEF ClientIsExact
  <2>3. /\ d.cursor.stream = r.stream /\ d.cursor.seq = r.latest
        /\ d.applied = c.applied /\ d.again = c.again
        /\ d \in [cursor : [stream : 0..stream, seq : Nat], applied : SUBSET Shown, again : SUBSET Shown]
    BY <2>2 DEF Event, HubInv
  <2> HIDE DEF d
  <2>4. \A e \in Retained : Before(e, d.cursor) => e \in d.applied
    <3> SUFFICES ASSUME NEW x \in Oldest..seq, Before(Event(stream, x), d.cursor)
                 PROVE  Event(stream, x) \in d.applied
      BY DEF Retained
    <3>1. r.stream = stream /\ x <= r.latest /\ x \in Nat /\ Event(stream, x) \in Retained
      BY <2>3, OldestIsClose DEF Before, Event, HubInv, Retained
    <3>2. Before(Event(stream, x), c.cursor)
      BY <2>1, <2>2, <3>1, OldestIsClose DEF Starts, Before, Event, HubInv
    <3> QED BY <2>3, <3>1, <3>2 DEF ClientIsExact
  <2>5. ASSUME stream = 1 PROVE d.again = {} /\ \A e \in d.applied : Before(e, d.cursor)
    <3> SUFFICES ASSUME NEW e \in c.applied PROVE Before(e, d.cursor)
      BY <2>3, <2>5 DEF ClientIsExact
    <3>1. e.stream = 1 /\ e.seq \in Nat /\ Before(e, c.cursor)
      BY <2>2, <2>5 DEF Shown, ClientIsExact
    <3> QED BY <2>1, <2>2, <2>3, <2>5, <3>1 DEF Before
  <2> QED BY <2>1, <2>3, <2>4, <2>5 DEF ClientIsExact
<1> QED BY <1>1, <1>2

-----------------------------------------------------------------------------
(* The steps                                                                *)

\* Nothing set aside that counts, nothing sent: an empty run from the start.
LEMMA NoChain ==
    ASSUME HubInv, wire' = <<>>, queue' = <<>>, recovering' = TRUE => aside' = <<>>,
           recovering' \in BOOLEAN, server' # "joined", stream' \in Nat \ {0}, seq' \in Nat
    PROVE  ChainInv'
<1>1. Oldest' >= 1
  BY FeedAssumption DEF Oldest
<1>2. IsRun(wire', 1, 1 + 0, 0) /\ IsRun(queue', 1, 1 + 0 + 0, 0)
  BY EmptyRun
<1>3. recovering' = TRUE => IsRun(aside', 1, 1, 0)
  BY EmptyRun
<1>4. Chain(1, 1, 0, 0, 0)'
  <2>1. Starts(client, 1, 1)' /\ 1 <= Oldest'
    BY <1>1 DEF Starts
  <2>2. PICK n \in Nat : n = seq'
    OBVIOUS
  <2>3. Ends(1, 1, 0 + 0 + 0)'
    <3>1. 1 + (0 + 0 + 0) <= n + 1
      OBVIOUS
    <3> QED BY <2>2, <3>1 DEF Ends
  <2>4. /\ IF recovering' THEN IsRun(aside', 1, 1, 0) ELSE 0 = 0
        /\ IF recovering' THEN 1 = stream' => 1 <= Oldest' ELSE Starts(client, 1, 1)'
    BY <1>3, <2>1
  <2>5. (server = "joined")' = FALSE /\ 1 >= 1
    OBVIOUS
  <2> QED BY <1>2, <2>3, <2>4, <2>5 DEF Chain
<1>5. 1 \in 1..stream' /\ 1 \in Nat /\ 0 \in Nat
  OBVIOUS
<1> QED BY <1>4, <1>5 DEF ChainInv

\* What a recovery waits for does not depend on the socket.
LEMMA RecoveryKeeps ==
    ASSUME Inv, UNCHANGED <<hubVars, recovery, recovering, client>>
    PROVE  HubInv' /\ ClientIsExact(client)' /\ RecoveryInv'
<1>1. HubInv' /\ ClientIsExact(client)'
  BY DEF Inv, HubInv, ClientIsExact, hubVars, Retained, Oldest, Shown
<1>2. RecoveryInv'
  BY DEF Inv, RecoveryInv, ResponseIsRun, Starts, Oldest, hubVars
<1> QED BY <1>1, <1>2

LEMMA JoinStep == ASSUME Inv, Join PROVE Inv'
<1>1. HubInv' /\ ClientIsExact(client)' /\ RecoveryInv'
  BY RecoveryKeeps DEF Join, recoverVars
<1>2. SocketInv'
  BY DEF Join, Inv, SocketInv, recoverVars
<1> DEFINE n == seq + 1 - Oldest
<1>3. Oldest \in Nat /\ 1 <= Oldest /\ n \in Nat /\ seq \in Nat /\ stream \in Nat \ {0}
  BY OldestIsClose DEF Inv, HubInv
<1>4. IsRun(queue', stream, Oldest, n)
  <2>1. queue' = [k \in 1..n |-> Event(stream, Oldest + k - 1)]
    <3>1. Recent(NoCursor) = [k \in 1..(IF Oldest > seq THEN 0 ELSE seq + 1 - Oldest) |->
                                 Event(stream, Oldest + k - 1)]
      BY <1>3 DEF Recent, NoCursor, Event
    <3>2. (IF Oldest > seq THEN 0 ELSE seq + 1 - Oldest) = n
      BY <1>3, OldestIsClose DEF Inv
    <3> QED BY <3>1, <3>2 DEF Join
  <2> QED BY <1>3, <2>1, RunMade
<1>5. wire' = <<>> /\ (recovering => aside = <<>>) /\ UNCHANGED <<hubVars, recovering, aside>>
  BY DEF Join, Inv, SocketInv, recoverVars
<1>6. Chain(stream, Oldest, 0, 0, n)'
  <2>1. \/ IsRun(wire', stream, Oldest, 0) /\ IsRun(aside', stream, Oldest, 0)
        \/ recovering' = FALSE
    BY <1>5, EmptyRun DEF Inv, SocketInv
  <2>2. IsRun(wire', stream, Oldest, 0)
    BY <1>5, EmptyRun
  <2>3. Oldest' = Oldest /\ stream' = stream /\ seq' = seq
    BY <1>5 DEF hubVars, Oldest
  <2> QED BY <1>3, <1>4, <2>1, <2>2, <2>3 DEF Chain, Starts, Ends
<1>7. ChainInv'
  <2>1. stream' = stream /\ Oldest' = Oldest /\ n' = n
    BY <1>5 DEF hubVars, Oldest
  <2>2. stream' \in 1..stream' /\ Oldest' \in Nat /\ n' \in Nat /\ 0 \in Nat
    BY <1>3, <2>1
  <2> HIDE DEF n
  <2> QED BY <1>6, <2>2 DEF ChainInv
<1> QED BY <1>1, <1>2, <1>7 DEF Inv

LEMMA DeliverStep == ASSUME Inv, Deliver PROVE Inv'
<1>1. HubInv' /\ ClientIsExact(client)' /\ RecoveryInv'
  BY RecoveryKeeps DEF Deliver, recoverVars
<1>2. SocketInv'
  BY DEF Deliver, Inv, SocketInv, recoverVars
<1>3. PICK s \in 1..stream, b \in Nat, a \in Nat, w \in Nat, q \in Nat : Chain(s, b, a, w, q)
  BY DEF Inv, ChainInv
<1>4. s \in Nat /\ seq \in Nat /\ b + a \in Nat /\ b + a + w \in Nat
  BY DEF Inv, HubInv
<1>5. /\ q >= 1 /\ Head(queue) = Event(s, b + a + w)
      /\ IsRun(queue', s, b + a + w + 1, q - 1)
  BY <1>3, <1>4, RunShrinks DEF Chain, Deliver
<1>6. IsRun(wire', s, b + a, w + 1)
  BY <1>3, <1>4, <1>5, RunGrows DEF Chain, Deliver
<1>7. UNCHANGED <<stream, seq, server, recovering, aside, client>> /\ Oldest' = Oldest
  BY DEF Deliver, hubVars, recoverVars, Oldest
<1>8. b + a + w + 1 = b + a + (w + 1) /\ a + w + q = a + (w + 1) + (q - 1) /\ q - 1 \in Nat
  BY <1>5
<1>9. Chain(s, b, a, w + 1, q - 1)'
  BY <1>3, <1>4, <1>5, <1>6, <1>7, <1>8 DEF Chain, Starts, Ends
<1>10. ChainInv'
  BY <1>3, <1>7, <1>8, <1>9 DEF ChainInv
<1> QED BY <1>1, <1>2, <1>10 DEF Inv

\* The buffer moves on, and what it keeps is kept or newer than any cursor.
LEMMA HubGrows ==
    ASSUME Inv, seq' = seq + 1, UNCHANGED <<stream, client, recovery, recovering>>
    PROVE  HubInv' /\ ClientIsExact(client)' /\ RecoveryInv' /\ Oldest <= Oldest' /\ Oldest' \in Nat
<1>1. HubInv /\ HubInv' /\ seq \in Nat
  BY DEF Inv, HubInv
<1>2. Oldest \in Nat /\ Oldest' \in Nat /\ Oldest <= Oldest'
  <2>1. PICK n \in Nat : n = seq + 1 /\ n = seq'
    BY <1>1
  <2>2. Oldest' = IF n > ReplayBuffer THEN n - ReplayBuffer + 1 ELSE 1
    BY <2>1 DEF Oldest
  <2> QED BY <1>1, <2>1, <2>2, FeedAssumption DEF Oldest
<1>3. ClientIsExact(client)'
  <2>1. ClientIsExact(client)
    BY DEF Inv
  <2>2. ASSUME NEW x \in Oldest'..seq', Before(Event(stream, x), client.cursor)
        PROVE  Event(stream, x) \in client.applied
    <3>1. x \in Nat /\ x >= Oldest /\ x <= client.cursor.seq /\ client.cursor.stream = stream
      BY <1>1, <1>2, <2>1, <2>2 DEF Before, Event, ClientIsExact
    <3>2. x \in Oldest..seq
      BY <1>1, <1>2, <2>1, <3>1 DEF ClientIsExact
    <3> QED BY <2>1, <2>2, <3>2 DEF ClientIsExact, Retained
  <2>3. \A e \in Retained' : Before(e, client.cursor) => e \in client.applied
    BY <2>2 DEF Retained
  <2>4. client.cursor.stream = stream => client.cursor.seq <= seq + 1
    BY <1>1, <2>1 DEF ClientIsExact
  <2> QED BY <2>1, <2>3, <2>4 DEF ClientIsExact, Shown
<1>4. ASSUME NEW s \in Nat, NEW b \in Nat, Starts(client, s, b)
      PROVE  Starts(client, s, b)'
  BY <1>2, <1>4 DEF Starts
<1>5. ASSUME NEW r, ResponseIsRun(r) PROVE ResponseIsRun(r)'
  <2>1. PICK b \in Nat, n \in Nat :
           /\ b >= 1 /\ IsRun(r.events, r.stream, b, n)
           /\ Starts(client, r.stream, b)
           /\ b + n = r.latest + 1 \/ (n = 0 /\ b > r.latest)
    BY <1>5 DEF ResponseIsRun
  <2>2. r.stream \in 1..stream /\ r.latest \in Nat /\ (r.stream = stream => r.latest <= seq)
    BY <1>5 DEF ResponseIsRun
  <2>3. r.stream \in Nat /\ (r.stream = stream => r.latest <= seq + 1)
    BY <1>1, <2>2 DEF HubInv
  <2>4. Starts(client, r.stream, b)'
    BY <1>4, <2>1, <2>3
  <2> QED BY <2>1, <2>2, <2>3, <2>4 DEF ResponseIsRun
<1>6. RecoveryInv'
  BY <1>5 DEF Inv, RecoveryInv
<1> QED BY <1>1, <1>2, <1>3, <1>6

LEMMA PublishStep == ASSUME Inv, Publish PROVE Inv'
<1>1. /\ seq' = seq + 1
      /\ UNCHANGED <<stream, wire, socket, client, recovery, recovering, aside>>
  BY DEF Publish, recoverVars
<1>2. HubInv' /\ ClientIsExact(client)' /\ RecoveryInv' /\ Oldest <= Oldest' /\ Oldest' \in Nat
  BY <1>1, HubGrows
<1>3. PICK s \in 1..stream, b \in Nat, a \in Nat, w \in Nat, q \in Nat : Chain(s, b, a, w, q)
  BY DEF Inv, ChainInv
<1>4. s \in Nat /\ seq \in Nat /\ b + a \in Nat /\ b + a + w \in Nat /\ Oldest \in Nat
  BY OldestIsClose DEF Inv, HubInv
<1>5. /\ IsRun(wire', s, b + a, w)
      /\ IF recovering' THEN IsRun(aside', s, b, a) ELSE a = 0
      /\ IF recovering' THEN s = stream' => b <= Oldest' ELSE Starts(client, s, b)'
      /\ b >= 1
  BY <1>1, <1>2, <1>3, <1>4 DEF Chain, Starts
<1>6. CASE server = "joined" /\ Len(queue) < 2 * ReplayBuffer
  <2>1. queue' = Append(queue, Event(stream, seq + 1)) /\ server' = server
    BY <1>1, <1>6 DEF Publish
  <2>2. s = stream /\ b + a + w + q = seq + 1 /\ IsRun(queue, s, b + a + w, q)
    BY <1>3, <1>6 DEF Chain
  <2>3. IsRun(queue', s, b + a + w, q + 1)
    BY <1>4, <2>1, <2>2, RunGrows
  <2>4. b + (a + w + (q + 1)) <= seq + 1 + 1 /\ b + a + w + (q + 1) = seq + 1 + 1
    BY <1>4, <2>2
  <2>5. Chain(s, b, a, w, q + 1)'
    BY <1>1, <1>5, <2>2, <2>3, <2>4 DEF Chain, Ends
  <2>6. ChainInv'
    BY <1>1, <2>5 DEF ChainInv
  <2>7. SocketInv'
    BY <1>1, <1>6, <2>1 DEF Inv, SocketInv
  <2> QED BY <1>2, <2>6, <2>7 DEF Inv
<1>7. CASE server # "joined"
  <2>1. queue' = queue /\ server' = server
    BY <1>7 DEF Publish
  <2>2. Ends(s, b, a + w + q)'
    <3>1. s = stream => b + (a + w + q) <= seq + 1
      BY <1>3 DEF Chain, Ends
    <3>2. s = stream => b + (a + w + q) <= seq + 1 + 1
      BY <1>4, <3>1
    <3> QED BY <1>1, <3>2 DEF Ends
  <2>3. Chain(s, b, a, w, q)'
    BY <1>3, <1>5, <1>7, <2>1, <2>2 DEF Chain
  <2>4. ChainInv'
    BY <1>1, <2>3 DEF ChainInv
  <2>5. SocketInv'
    BY <1>1, <2>1 DEF Inv, SocketInv
  <2> QED BY <1>2, <2>4, <2>5 DEF Inv
<1>8. CASE server = "joined" /\ ~(Len(queue) < 2 * ReplayBuffer)
  <2>1. queue' = <<>> /\ server' = "none"
    BY <1>8 DEF Publish
  <2>2. Ends(s, b, a + w + 0)'
    <3>1. s = stream => b + (a + w + q) <= seq + 1
      BY <1>3 DEF Chain, Ends
    <3>2. s = stream => b + (a + w + 0) <= seq + 1 + 1
      BY <1>4, <3>1
    <3> QED BY <1>1, <3>2 DEF Ends
  <2>3. Chain(s, b, a, w, 0)'
    BY <1>5, <2>1, <2>2, EmptyRun DEF Chain
  <2>4. ChainInv'
    BY <1>1, <2>3 DEF ChainInv
  <2>5. SocketInv'
    BY <1>1, <1>8, <2>1 DEF Inv, SocketInv
  <2> QED BY <1>2, <2>4, <2>5 DEF Inv
<1> QED BY <1>6, <1>7, <1>8

\* A restart makes everything that is under way a matter of an old stream.
LEMMA RestartStep == ASSUME Inv, Restart PROVE Inv'
<1>1. /\ stream' = stream + 1 /\ seq' = 0 /\ server' = "none" /\ queue' = <<>>
      /\ UNCHANGED <<wire, socket, recovery, recovering, aside, client>>
  BY DEF Restart, recoverVars
<1>2. stream \in Nat /\ stream >= 1 /\ seq \in Nat
  BY DEF Inv, HubInv
<1>3. HubInv' /\ Oldest' = 1
  BY <1>1, <1>2, FeedAssumption DEF HubInv, Oldest
<1>4. 1..stream \subseteq 1..stream' /\ 0..stream \subseteq 0..stream' /\ stream' \notin 0..stream
      /\ stream' # 1
  BY <1>1, <1>2
<1>5. ClientIsExact(client)'
  <2>1. client \in [cursor : [stream : 0..stream, seq : Nat], applied : SUBSET Shown, again : SUBSET Shown]
    BY DEF Inv, ClientIsExact
  <2>2. Shown \subseteq Shown'
    BY <1>4 DEF Shown
  <2>3. client' \in [cursor : [stream : 0..stream', seq : Nat], applied : SUBSET Shown', again : SUBSET Shown']
    BY <1>1, <1>4, <2>1, <2>2
  <2>4. client'.cursor.stream # stream'
    BY <1>1, <1>4, <2>1
  <2>5. Retained' = {}
    BY <1>1, <1>3 DEF Retained
  <2> QED BY <1>4, <2>3, <2>4, <2>5 DEF ClientIsExact
<1>6. RecoveryInv'
  <2>1. ASSUME NEW r, ResponseIsRun(r) PROVE ResponseIsRun(r)'
    <3>1. r.stream \in 1..stream' /\ r.stream # stream' /\ r.latest \in Nat
      BY <1>4, <2>1 DEF ResponseIsRun
    <3> QED BY <2>1, <3>1 DEF ResponseIsRun, Starts
  <2> QED BY <1>1, <2>1 DEF Inv, RecoveryInv
<1>7. PICK s \in 1..stream, b \in Nat, a \in Nat, w \in Nat, q \in Nat : Chain(s, b, a, w, q)
  BY DEF Inv, ChainInv
<1>8. s \in 1..stream' /\ s # stream'
  BY <1>4
<1>9. Chain(s, b, a, w, 0)'
  BY <1>1, <1>7, <1>8, EmptyRun DEF Chain, Starts, Ends
<1>10. ChainInv'
  BY <1>8, <1>9 DEF ChainInv
<1>11. SocketInv'
  BY <1>1 DEF Inv, SocketInv
<1> QED BY <1>3, <1>5, <1>6, <1>10, <1>11 DEF Inv

\* A socket that closes leaves what the client had set aside.
LEMMA CloseStep == ASSUME Inv, Closed \/ ConnectionLost PROVE Inv'
<1>1. /\ UNCHANGED <<hubVars, recovery, recovering, aside, client>>
      /\ wire' = <<>> /\ queue' = <<>> /\ server' = "none"
  BY DEF Closed, ConnectionLost, OnClose, recoverVars
<1>2. HubInv' /\ ClientIsExact(client)' /\ RecoveryInv'
  BY <1>1, RecoveryKeeps
<1>3. SocketInv'
  BY <1>1 DEF Inv, SocketInv
<1>4. PICK s \in 1..stream, b \in Nat, a \in Nat, w \in Nat, q \in Nat : Chain(s, b, a, w, q)
  BY DEF Inv, ChainInv
<1>5. Ends(s, b, a + 0 + 0)'
  <2>1. s = stream => b + (a + w + q) <= seq + 1
    BY <1>4 DEF Chain, Ends
  <2>2. s = stream => b + (a + 0 + 0) <= seq + 1
    BY <2>1 DEF Inv, HubInv
  <2> QED BY <1>1, <2>2 DEF Ends, hubVars
<1>6. /\ IF recovering' THEN IsRun(aside', s, b, a) ELSE a = 0
      /\ IF recovering' THEN s = stream' => b <= Oldest' ELSE Starts(client, s, b)'
      /\ b >= 1
  BY <1>1, <1>4 DEF Chain, Starts, Oldest, hubVars
<1>7. Chain(s, b, a, 0, 0)'
  BY <1>1, <1>5, <1>6, EmptyRun DEF Chain
<1>8. ChainInv'
  BY <1>1, <1>7 DEF ChainInv, hubVars
<1> QED BY <1>2, <1>3, <1>8 DEF Inv

\* A new socket, and a page that goes away, start from nothing.
LEMMA OpenStep == ASSUME Inv, OnOpen \/ Reconnect \/ Stop PROVE Inv'
<1>1. /\ UNCHANGED <<hubVars, client>>
      /\ wire' = <<>> /\ queue' = <<>> /\ server' \in {"none", "accepted"}
      /\ server' = "accepted" => socket' # "timer"
      /\ recovering' \in BOOLEAN /\ (recovering' = TRUE => aside' = <<>>)
      /\ \/ recovering' = TRUE /\ recovery' = [pc |-> "asked", after |-> client.cursor]
         \/ recovering' = FALSE /\ recovery' = NoRecovery
  <2>1. CASE OnOpen
    BY <2>1 DEF OnOpen
  <2>2. CASE Reconnect
    BY <2>2 DEF Reconnect, linkVars, Inv, SocketInv
  <2>3. CASE Stop
    BY <2>3 DEF Stop
  <2> QED BY <2>1, <2>2, <2>3
<1>2. HubInv /\ HubInv' /\ ClientIsExact(client)'
  BY <1>1 DEF Inv, HubInv, ClientIsExact, hubVars, Retained, Oldest, Shown
<1>3. RecoveryInv'
  BY <1>1 DEF RecoveryInv, NoRecovery
<1>4. SocketInv'
  BY <1>1 DEF SocketInv
<1>5. ChainInv'
  <2>1. server' # "joined" /\ stream' \in Nat \ {0} /\ seq' \in Nat
    BY <1>1, <1>2 DEF HubInv
  <2> QED BY <1>1, <1>2, <2>1, NoChain
<1> QED BY <1>2, <1>3, <1>4, <1>5 DEF Inv

LEMMA ReceiveStep == ASSUME Inv, Receive PROVE Inv'
<1>1. /\ UNCHANGED <<hubVars, server, queue, socket, recovery, recovering>>
      /\ wire # <<>> /\ wire' = Tail(wire) /\ socket = "open"
  BY DEF Receive
<1>2. PICK s \in 1..stream, b \in Nat, a \in Nat, w \in Nat, q \in Nat : Chain(s, b, a, w, q)
  BY DEF Inv, ChainInv
<1>3. s \in Nat /\ seq \in Nat /\ b + a \in Nat /\ b + a + w \in Nat
  BY DEF Inv, HubInv
<1>4. w >= 1 /\ Head(wire) = Event(s, b + a) /\ IsRun(wire', s, b + a + 1, w - 1)
  BY <1>1, <1>2, <1>3, RunShrinks DEF Chain
<1>5. w - 1 \in Nat /\ b + (a + 1) = b + a + 1 /\ b + a + 1 + (w - 1) = b + a + w
  BY <1>3, <1>4
<1>6. SocketInv'
  BY <1>1, EmptySeq DEF Inv, SocketInv
<1>7. Oldest' = Oldest /\ stream' = stream /\ seq' = seq
  BY <1>1 DEF Oldest, hubVars
<1>8. CASE recovering
  <2>1. aside' = Append(aside, Event(s, b + a)) /\ client' = client
    BY <1>4, <1>8 DEF Receive
  <2>2. HubInv' /\ ClientIsExact(client)' /\ RecoveryInv'
    BY <1>1, <2>1, RecoveryKeeps
  <2>3. IsRun(aside', s, b, a + 1)
    BY <1>2, <1>3, <1>8, <2>1, RunGrows DEF Chain
  <2>4. b + (a + 1) + (w - 1) = b + a + w /\ a + 1 + (w - 1) + q = a + w + q
        /\ b + (a + 1) + (w - 1) + q = b + a + w + q
    BY <1>3, <1>4
  <2>5. Chain(s, b, a + 1, w - 1, q)'
    BY <1>1, <1>2, <1>4, <1>5, <1>7, <1>8, <2>3, <2>4 DEF Chain, Ends
  <2>6. ChainInv'
    BY <1>5, <1>7, <2>5 DEF ChainInv
  <2> QED BY <1>6, <2>2, <2>6 DEF Inv
<1>9. CASE ~recovering
  <2>1. a = 0 /\ Starts(client, s, b) /\ b >= 1 /\ b + a = b
    BY <1>2, <1>9 DEF Chain
  <2>2. client' = Accept(client, <<Head(wire)>>)
    BY <1>9 DEF Receive
  <2>3. IsRun(<<Head(wire)>>, s, b, 1)
    <3>1. IsRun(Append(<<>>, Event(s, b + 0)), s, b, 0 + 1)
      BY <1>3, EmptyRun, RunGrows
    <3>2. <<Head(wire)>> = Append(<<>>, Event(s, b + 0)) /\ 0 + 1 = 1
      BY <1>4, <2>1
    <3> QED BY <3>1, <3>2
  <2>4. Ends(s, b, 1)
    <3>1. s = stream => b + (a + w + q) <= seq + 1
      BY <1>2 DEF Chain, Ends
    <3>2. s = stream => b + 1 <= seq + 1
      BY <1>3, <1>4, <2>1, <3>1
    <3> QED BY <3>2 DEF Ends
  <2>5. ClientIsExact(client') /\ Starts(client', s, b + 1)
    BY <2>1, <2>2, <2>3, <2>4, AcceptIsExact DEF Inv
  <2>6. ClientIsExact(client)' /\ Starts(client, s, b + 1)' /\ HubInv'
    BY <1>7, <2>5 DEF ClientIsExact, Starts, Retained, Shown, Inv, HubInv
  <2>7. RecoveryInv'
    BY <1>1, <1>9 DEF Inv, RecoveryInv
  <2>8. /\ IsRun(wire', s, b + 1 + 0, w - 1) /\ IsRun(queue', s, b + 1 + 0 + (w - 1), q)
        /\ b + 1 >= 1 /\ b + 1 \in Nat
        /\ b + 1 + (0 + (w - 1) + q) = b + (a + w + q) /\ b + 1 + 0 + (w - 1) + q = b + a + w + q
    <3>1. b + 1 + 0 = b + a + 1 /\ b + 1 + 0 + (w - 1) = b + a + w
      BY <1>3, <1>4, <2>1
    <3>2. /\ b + 1 >= 1 /\ b + 1 \in Nat
          /\ b + 1 + (0 + (w - 1) + q) = b + (a + w + q) /\ b + 1 + 0 + (w - 1) + q = b + a + w + q
      BY <1>3, <1>4, <2>1
    <3> QED BY <1>1, <1>2, <1>4, <3>1, <3>2 DEF Chain
  <2>9. Chain(s, b + 1, 0, w - 1, q)'
    BY <1>1, <1>2, <1>7, <1>9, <2>6, <2>8 DEF Chain, Ends
  <2>10. ChainInv'
    BY <1>5, <1>7, <2>8, <2>9 DEF ChainInv
  <2> QED BY <1>6, <2>6, <2>7, <2>10 DEF Inv
<1> QED BY <1>8, <1>9

\* recent() is a run that starts at the buffer or right behind the cursor.
LEMMA RecentIsRun ==
    ASSUME HubInv, NEW after \in [stream : Nat, seq : Nat]
    PROVE  \E b, n \in Nat :
              /\ b >= 1 /\ IsRun(Recent(after), stream, b, n)
              /\ b <= Oldest \/ (after.stream = stream /\ b <= after.seq + 1)
              /\ b + n = seq + 1 \/ (n = 0 /\ b > seq)
<1> DEFINE from == IF after.stream = stream THEN after.seq + 1 ELSE 1
           b == IF from > Oldest THEN from ELSE Oldest
           n == IF b > seq THEN 0 ELSE seq + 1 - b
<1>1. seq \in Nat /\ stream \in Nat /\ Oldest \in Nat /\ 1 <= Oldest
  BY OldestIsClose DEF HubInv
<1>2. from \in Nat /\ from >= 1
  OBVIOUS
<1>3. Recent(after) = [k \in 1..n |-> Event(stream, b + k - 1)]
  BY DEF Recent
<1>4. b = from \/ b = Oldest
  OBVIOUS
<1>5. b \in Nat /\ b >= 1
  BY <1>1, <1>2, <1>4
<1>6. b <= Oldest \/ (after.stream = stream /\ b <= after.seq + 1)
  <2>1. CASE b = Oldest
    BY <1>1, <2>1
  <2>2. CASE b = from
    BY <1>1, <2>2
  <2> QED BY <1>4, <2>1, <2>2
<1> HIDE DEF b
<1>7. n \in Nat /\ (b + n = seq + 1 \/ (n = 0 /\ b > seq))
  BY <1>1, <1>5
<1> HIDE DEF n
<1>8. IsRun(Recent(after), stream, b, n)
  BY <1>1, <1>3, <1>5, <1>7, RunMade
<1> QED BY <1>5, <1>6, <1>7, <1>8

\* What does not touch the socket's way keeps the chain.
LEMMA ChainKeeps ==
    ASSUME Inv, UNCHANGED <<hubVars, linkVars, recovering, aside, client>>
    PROVE  ChainInv'
<1>1. UNCHANGED <<stream, seq, wire, queue, server, recovering, aside, client>> /\ Oldest' = Oldest
  BY DEF hubVars, linkVars, Oldest
<1>2. PICK s \in 1..stream, b \in Nat, a \in Nat, w \in Nat, q \in Nat : Chain(s, b, a, w, q)
  BY DEF Inv, ChainInv
<1>3. Chain(s, b, a, w, q)'
  BY <1>1, <1>2 DEF Chain, Starts, Ends
<1> QED BY <1>1, <1>3 DEF ChainInv

LEMMA AnswerStep == ASSUME Inv, Answer PROVE Inv'
<1> DEFINE r == [stream |-> stream, latest |-> seq, events |-> Recent(recovery.after)]
<1>1. /\ recovery.pc = "asked" /\ recovery' = [pc |-> "answered", response |-> r]
      /\ UNCHANGED <<hubVars, linkVars, socket, recovering, aside, client>>
  BY DEF Answer
<1>2. ChainInv'
  BY <1>1, ChainKeeps
<1>3. HubInv' /\ ClientIsExact(client)'
  BY <1>1 DEF Inv, HubInv, ClientIsExact, hubVars, Retained, Oldest, Shown
<1>4. SocketInv'
  BY <1>1 DEF Inv, SocketInv, linkVars
<1>5. ResponseIsRun(r)
  <2>1. recovery.after = client.cursor /\ client.cursor \in [stream : Nat, seq : Nat] /\ HubInv
    BY <1>1 DEF Inv, RecoveryInv, ClientIsExact, HubInv
  <2>2. PICK b \in Nat, n \in Nat :
           /\ b >= 1 /\ IsRun(Recent(recovery.after), stream, b, n)
           /\ b <= Oldest \/ (client.cursor.stream = stream /\ b <= client.cursor.seq + 1)
           /\ b + n = seq + 1 \/ (n = 0 /\ b > seq)
    BY <2>1, RecentIsRun
  <2>3. r.stream = stream /\ r.latest = seq /\ r.events = Recent(recovery.after)
    OBVIOUS
  <2>4. stream \in 1..stream /\ seq \in Nat
    BY <2>1 DEF HubInv
  <2> HIDE DEF r
  <2> QED BY <2>2, <2>3, <2>4 DEF ResponseIsRun, Starts
<1>6. PICK x : x = r
  OBVIOUS
<1>7. ResponseIsRun(x)'
  <2>1. ResponseIsRun(x)
    BY <1>5, <1>6
  <2> QED BY <1>1, <2>1 DEF ResponseIsRun, Starts, Oldest, hubVars
<1>8. RecoveryInv'
  <2>1. recovery'.pc = "answered" /\ recovery'.response = x /\ recovering' = recovering
    BY <1>1, <1>6
  <2>2. recovering
    BY <1>1 DEF Inv, RecoveryInv
  <2> QED BY <1>7, <2>1, <2>2 DEF RecoveryInv
<1> QED BY <1>2, <1>3, <1>4, <1>8 DEF Inv

\* The end of a recovery, on top of a client that skipped nothing.
LEMMA FinishStep ==
    ASSUME Inv, recovering, NEW c, ClientIsExact(c), FinishRecovery(c),
           UNCHANGED <<hubVars, linkVars, socket>>
    PROVE  Inv'
<1>1. /\ client' = Accept(c, aside) /\ recovering' = FALSE /\ recovery' = NoRecovery /\ aside' = <<>>
      /\ UNCHANGED <<stream, seq, wire, queue, server, socket>> /\ Oldest' = Oldest
  BY DEF FinishRecovery, hubVars, linkVars, Oldest
<1>2. PICK s \in 1..stream, b \in Nat, a \in Nat, w \in Nat, q \in Nat : Chain(s, b, a, w, q)
  BY DEF Inv, ChainInv
<1>3. s \in Nat /\ seq \in Nat /\ b + a \in Nat /\ b + a + w \in Nat /\ HubInv /\ HubInv'
  BY <1>1 DEF Inv, HubInv
<1>4. IsRun(aside, s, b, a) /\ Starts(c, s, b) /\ b >= 1
  BY <1>2 DEF Chain, Starts
<1>5. Ends(s, b, a)
  <2>1. s = stream => b + (a + w + q) <= seq + 1
    BY <1>2 DEF Chain, Ends
  <2>2. s = stream => b + a <= seq + 1
    BY <1>3, <2>1
  <2> QED BY <2>2 DEF Ends
<1>6. ClientIsExact(client') /\ Starts(client', s, b + a)
  BY <1>1, <1>3, <1>4, <1>5, AcceptIsExact
<1>7. ClientIsExact(client)' /\ Starts(client, s, b + a)'
  BY <1>1, <1>6 DEF ClientIsExact, Starts, Retained, Shown
<1>8. /\ IsRun(wire', s, b + a + 0, w) /\ IsRun(queue', s, b + a + 0 + w, q)
      /\ b + a >= 1 /\ b + a + (0 + w + q) = b + (a + w + q)
      /\ b + a + 0 + w + q = b + a + w + q
  <2>1. b + a + 0 = b + a /\ b + a + 0 + w = b + a + w
    BY <1>3
  <2>2. b + a >= 1 /\ b + a + (0 + w + q) = b + (a + w + q) /\ b + a + 0 + w + q = b + a + w + q
    BY <1>4
  <2> QED BY <1>1, <1>2, <2>1, <2>2 DEF Chain
<1>9. Chain(s, b + a, 0, w, q)'
  BY <1>1, <1>2, <1>7, <1>8 DEF Chain, Ends
<1>10. ChainInv'
  BY <1>1, <1>3, <1>9 DEF ChainInv
<1>11. SocketInv' /\ RecoveryInv'
  BY <1>1 DEF Inv, SocketInv, RecoveryInv, NoRecovery
<1> QED BY <1>3, <1>7, <1>10, <1>11 DEF Inv

LEMMA RecoveredStep == ASSUME Inv, Recovered PROVE Inv'
<1> DEFINE r  == recovery.response
           c1 == Accept(client, r.events)
           c2 == CatchUp(c1, r)
<1>1. /\ recovery.pc = "answered" /\ FinishRecovery(c2) /\ UNCHANGED <<hubVars, linkVars, socket>>
  BY DEF Recovered
<1>2. recovering /\ ResponseIsRun(r) /\ HubInv /\ ClientIsExact(client)
  BY <1>1 DEF Inv, RecoveryInv
<1> HIDE DEF r
<1>3. PICK b \in Nat, n \in Nat :
         /\ b >= 1 /\ IsRun(r.events, r.stream, b, n)
         /\ Starts(client, r.stream, b)
         /\ b + n = r.latest + 1 \/ (n = 0 /\ b > r.latest)
  BY <1>2 DEF ResponseIsRun
<1>4. /\ r.stream \in 1..stream /\ r.latest \in Nat /\ (r.stream = stream => r.latest <= seq)
      /\ seq \in Nat /\ Oldest \in Nat /\ Oldest <= seq + 1
  BY <1>2, OldestIsClose DEF ResponseIsRun, HubInv
<1>5. Ends(r.stream, b, n)
  <2> SUFFICES ASSUME r.stream = stream PROVE b + n <= seq + 1
    BY DEF Ends
  <2>1. client.cursor.stream = stream => client.cursor.seq \in Nat /\ client.cursor.seq <= seq
    BY <1>2 DEF ClientIsExact
  <2>2. b <= Oldest \/ (client.cursor.stream = stream /\ b <= client.cursor.seq + 1)
    BY <1>3 DEF Starts
  <2> QED BY <1>3, <1>4, <2>1, <2>2
<1>6. ClientIsExact(c1) /\ Starts(c1, r.stream, b + n)
  BY <1>2, <1>3, <1>4, <1>5, AcceptIsExact
<1> HIDE DEF c1
<1>7. Starts(c1, r.stream, r.latest + 1)
  <2>1. c1.cursor.seq \in Nat /\ r.latest + 1 <= b + n
    BY <1>3, <1>4, <1>6 DEF ClientIsExact
  <2> QED BY <1>4, <1>6, <2>1 DEF Starts
<1>8. ClientIsExact(c2)
  BY <1>2, <1>4, <1>6, <1>7, CatchUpIsExact
<1> HIDE DEF c2
<1> QED BY <1>1, <1>2, <1>8, FinishStep

LEMMA FailsStep == ASSUME Inv, RecoveryFails PROVE Inv'
<1>1. recovery.pc # "none" /\ FinishRecovery(client) /\ UNCHANGED <<hubVars, linkVars, socket>>
  BY DEF RecoveryFails
<1>2. recovering /\ ClientIsExact(client)
  BY <1>1 DEF Inv, RecoveryInv
<1> QED BY <1>1, <1>2, FinishStep

-----------------------------------------------------------------------------
(* The theorems                                                             *)

LEMMA Begins == Init => Inv
<1> SUFFICES ASSUME Init PROVE Inv
  OBVIOUS
<1>1. HubInv /\ stream = 1 /\ seq = 0
  BY DEF Init, HubInv
<1>2. ClientIsExact(client)
  <2>1. client = [cursor |-> [stream |-> 0, seq |-> 0], applied |-> {}, again |-> {}]
    BY DEF Init, NoCursor, Event
  <2>2. client.cursor.stream # stream
    BY <1>1, <2>1
  <2>3. \A e \in Retained : ~Before(e, client.cursor)
    BY <2>2 DEF Retained, Before, Event
  <2> QED BY <1>1, <2>1, <2>2, <2>3 DEF ClientIsExact
<1>3. Chain(1, 1, 0, 0, 0)
  <2>1. Oldest = 1
    BY <1>1, FeedAssumption DEF Oldest
  <2> QED BY <1>1, <2>1, EmptyRun DEF Init, Chain, Starts, Ends
<1>4. ChainInv
  BY <1>1, <1>3 DEF ChainInv
<1>5. SocketInv /\ RecoveryInv
  BY DEF Init, SocketInv, RecoveryInv, NoRecovery
<1> QED BY <1>1, <1>2, <1>4, <1>5 DEF Inv

LEMMA Keeps == Inv /\ [Next]_vars => Inv'
<1> SUFFICES ASSUME Inv, [Next]_vars PROVE Inv'
  OBVIOUS
<1>1. CASE Next
  BY <1>1, JoinStep, DeliverStep, PublishStep, RestartStep, CloseStep, OpenStep, ReceiveStep,
     AnswerStep, RecoveredStep, FailsStep
     DEF Next, Progress
<1>2. CASE UNCHANGED vars
  <2>1. UNCHANGED <<hubVars, linkVars, socket, recovery, recovering, aside, client>>
    BY <1>2 DEF vars, recoverVars
  <2>2. ChainInv' /\ HubInv' /\ ClientIsExact(client)' /\ RecoveryInv'
    BY <2>1, ChainKeeps, RecoveryKeeps
  <2>3. SocketInv'
    BY <2>1 DEF Inv, SocketInv, linkVars
  <2> QED BY <2>2, <2>3 DEF Inv
<1> QED BY <1>1, <1>2

\* The inductive invariant holds in every state: what a socket brings is one run
\* behind the cursor, and a recovery starts where the cursor stands
\* (ConsoleHub.connect and publish, ProjectionConnection.recoverRecent).
THEOREM FeedInvariant == Spec => []Inv
BY Begins, Keeps, PTL DEF Spec

\* All that the hub keeps is applied before the cursor passes it, and nothing is
\* applied twice before a restart, for every buffer, number of events, lost
\* connection and order of replay and recovery (projectionClient.ts,
\* console_ws.py).
THEOREM FeedStaysExact == Spec => []FeedIsExact
<1>1. Inv => FeedIsExact
  <2> SUFFICES ASSUME Inv PROVE FeedIsExact
    OBVIOUS
  <2>1. NothingKeptIsSkipped
    BY DEF Inv, ClientIsExact, NothingKeptIsSkipped
  <2>2. AppliedOnce
    BY DEF Inv, HubInv, ClientIsExact, AppliedOnce
  <2> QED BY <2>1, <2>2 DEF FeedIsExact
<1> QED BY <1>1, FeedInvariant, PTL
=============================================================================
