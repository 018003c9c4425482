--------------------------- MODULE HoldLedgerProofs ---------------------------
(***************************************************************************)
(* The promises of the ledger and of the review holds, proved for every    *)
(* number of requests, reviewers, rows, queue places and faults.           *)
(*                                                                         *)
(* The inductive invariant Inv has five parts: what values the variables   *)
(* take, who holds the write lock, how the shared connection may differ    *)
(* from the committed rows, what the history of a batch says of its rows,  *)
(* and what a reviewer was told.                                           *)
(***************************************************************************)
EXTENDS HoldLedger, TLAPS

-----------------------------------------------------------------------------
(* The inductive invariant                                                  *)

Db == [rows : [Requests -> 0..Rows], holds : [Requests -> HoldState]]

StreamPc   == {"live", "wait", "insert", "held", "over"}
ResolverPc == {"idle", "wait", "update"}
Fates      == {"none", "accepted", "written", "dropped", "lost"}
ResolverState == [pc : ResolverPc, hold : Requests \cup {"none"}, want : Final \cup {"none"}]

TypeInv ==
    /\ disk \in Db /\ view \in Db
    /\ up \in {"up", "stopping", "down"}
    /\ queue \in Seq(Requests)
    /\ wpc \in {"get", "lock", "rows"}
    /\ IF wpc = "get" THEN batch = "none" ELSE batch \in Requests
    /\ stream \in [Requests -> StreamPc]
    /\ orphans \in SUBSET Requests /\ sweep \in SUBSET Requests
    /\ overdue \in SUBSET Requests
    /\ resolver \in [Resolvers -> ResolverState]
    /\ \A p \in Resolvers : resolver[p].pc # "idle" =>
          resolver[p].hold \in Requests /\ resolver[p].want \in Final
    /\ announced \in SUBSET Requests
    /\ told \in [Operators -> {"none", "ok", "refused"}]
    /\ fate \in [Requests -> Fates]

\* Whoever is among its statements under the write lock is its holder.
LockInv ==
    /\ lock = Writer <=> wpc = "rows"
    /\ \A r \in Requests : lock = r <=> stream[r] = "insert"
    /\ \A p \in Resolvers : lock = p <=> resolver[p].pc = "update"

\* Only the writer's open transaction parts the connection from the disk, and
\* only in the rows of its batch and in holds that orphaned INSERTs bring.
ViewInv ==
    /\ wpc # "rows" => view = disk
    /\ \A r \in Requests :
        /\ r # batch => view.rows[r] = disk.rows[r]
        /\ view.holds[r] # disk.holds[r] =>
              view.holds[r] = "pending" /\ disk.holds[r] = "absent"
        /\ stream[r] \in {"live", "wait", "insert"} \/ r \in orphans =>
              view.holds[r] = "absent"
    /\ \A r \in orphans : stream[r] = "over"

\* A request is recorded once, waits in one place, and its rows are on disk
\* exactly if the history says so.
BatchInv ==
    /\ \A i \in 1..Len(queue) : fate[queue[i]] = "accepted" /\ queue[i] # batch
    /\ \A i, j \in 1..Len(queue) : queue[i] = queue[j] => i = j
    /\ wpc # "get" => fate[batch] = "accepted"
    /\ \A r \in Requests :
        /\ fate[r] # "none" => stream[r] = "over"
        /\ fate[r] = "accepted" => r = batch \/ \E i \in 1..Len(queue) : queue[i] = r
        /\ disk.rows[r] = IF fate[r] = "written" THEN Rows ELSE 0
    /\ up = "down" => queue = <<>> /\ wpc = "get"
    /\ up # "up" => \A r \in Requests : stream[r] \in {"live", "over"}

\* A reviewer who got an answer is done, and one who prevailed finds the answer
\* on disk.
ToldInv ==
    \A o \in Operators : told[o] # "none" =>
        /\ resolver[o].pc = "idle" /\ resolver[o].want \in Final
        /\ told[o] = "ok" =>
              /\ resolver[o].hold \in Requests
              /\ disk.holds[resolver[o].hold] = resolver[o].want

\* A hold that was announced is on disk.
HeldInv == \A h \in announced : disk.holds[h] # "absent"

Inv == TypeInv /\ LockInv /\ ViewInv /\ BatchInv /\ ToldInv /\ HeldInv


-----------------------------------------------------------------------------
(* The steps that several parts of the invariant depend on                  *)

\* Setting the state of one hold changes that hold and nothing else.
LEMMA SetHoldEffect ==
  ASSUME TypeInv, NEW h \in Requests, NEW s \in HoldState
  PROVE  /\ SetHold(h, s) \in Db
         /\ SetHold(h, s).rows = view.rows
         /\ SetHold(h, s).holds = [view.holds EXCEPT ![h] = s]
  BY DEF SetHold, TypeInv, Db

\* The INSERT of a hold, by its stream or by an orphaned thread, meets no earlier
\* row of that hold, and is on disk unless the writer's transaction is open.
LEMMA InsertHoldEffect ==
  ASSUME Inv, NEW r \in Requests, HoldPersisted(r) \/ OrphanInserts(r)
  PROVE  /\ view' \in Db /\ disk' \in Db
         /\ view'.rows = view.rows /\ disk'.rows = disk.rows
         /\ view'.holds[r] = "pending" /\ disk.holds[r] = "absent"
         /\ \A h \in Requests : h # r => /\ view'.holds[h] = view.holds[h]
                                        /\ disk'.holds[h] = disk.holds[h]
         /\ disk' = IF wpc = "rows" THEN disk ELSE view'
         /\ HoldPersisted(r) => wpc # "rows"
  <1>0. ASSUME HoldPersisted(r) PROVE wpc # "rows"
    <2>1. lock = r
      BY <1>0 DEF HoldPersisted, Inv, LockInv
    <2>2. r # Writer
      BY NamesAssumption
    <2> QED
      BY <2>1, <2>2 DEF Inv, LockInv
  <1>1. view.holds[r] = "absent" /\ Execute(SetHold(r, "pending"))
    BY DEF HoldPersisted, OrphanInserts, Inv, ViewInv
  <1>2. disk.holds[r] = "absent"
    BY <1>1 DEF Inv, ViewInv
  <1>3. /\ view' = SetHold(r, "pending")
        /\ disk' = IF wpc = "rows" THEN disk ELSE view'
        /\ wpc # "rows" => view = disk
    BY <1>1 DEF Execute, InTransaction, Inv, ViewInv
  <1>4. /\ view' \in Db /\ view'.rows = view.rows
        /\ view'.holds = [view.holds EXCEPT ![r] = "pending"]
    BY <1>3, SetHoldEffect DEF Inv, HoldState
  <1>5. view.holds \in [Requests -> HoldState] /\ disk \in Db
    BY DEF Inv, TypeInv, Db
  <1> QED
    BY <1>0, <1>2, <1>3, <1>4, <1>5

\* An UPDATE under the write lock meets no open transaction: it is on disk at
\* once, and changes its hold only if that is pending (resolve_hold).
LEMMA DecisionEffect ==
  ASSUME Inv, NEW p \in Resolvers, resolver[p].pc = "update",
         IF Hit(p) THEN Execute(Want(p)) ELSE UNCHANGED dbVars
  PROVE  /\ view = disk /\ view' = disk' /\ disk' \in Db
         /\ disk'.rows = disk.rows
         /\ \A h \in Requests : disk'.holds[h] # disk.holds[h] =>
               disk.holds[h] = "pending" /\ disk'.holds[h] \in Final
         /\ Hit(p) => disk'.holds[resolver[p].hold] = resolver[p].want
  <1> DEFINE hold == resolver[p].hold
             want == resolver[p].want
  <1>1. view = disk /\ ~InTransaction
    BY NamesAssumption
    DEF Inv, LockInv, ViewInv, InTransaction, Writer, Resolvers, Sweeper
  <1>2. hold \in Requests /\ want \in Final
    BY DEF Inv, TypeInv
  <1>3. CASE Hit(p)
    <2>1. disk' = Want(p) /\ view' = Want(p)
      BY <1>1, <1>3 DEF Execute
    <2>2. /\ Want(p) \in Db /\ Want(p).rows = view.rows
          /\ Want(p).holds = [view.holds EXCEPT ![hold] = want]
      BY <1>2, SetHoldEffect DEF Want, Inv, HoldState
    <2>3. view.holds[hold] = "pending"
      BY <1>3 DEF Hit
    <2> QED
      BY <1>1, <1>2, <2>1, <2>2, <2>3 DEF Inv, TypeInv, Db
  <1>4. CASE ~Hit(p)
    BY <1>1, <1>4 DEF dbVars, Inv, TypeInv
  <1> QED
    BY <1>3, <1>4

\* Moving one resolver on leaves what it asked for, and every other resolver.
LEMMA ResolverMoves ==
  ASSUME TypeInv, NEW p \in Resolvers, NEW s \in ResolverPc,
         resolver' = [resolver EXCEPT ![p].pc = s]
  PROVE  /\ resolver' \in [Resolvers -> ResolverState]
         /\ resolver'[p].pc = s
         /\ resolver'[p].hold = resolver[p].hold /\ resolver'[p].want = resolver[p].want
         /\ \A q \in Resolvers : q # p => resolver'[q] = resolver[q]
  <1>1. resolver \in [Resolvers -> ResolverState]
    BY DEF TypeInv, ResolverState
  <1>2. [resolver[p] EXCEPT !.pc = s] \in ResolverState
    BY <1>1 DEF ResolverState
  <1> QED
    BY <1>1, <1>2 DEF ResolverState

\* A resolver that leaves the lock is idle; an operator keeps what it asked for.
LEMMA ReleasedEffect ==
  ASSUME TypeInv, NEW p \in Resolvers, Released(p)
  PROVE  /\ resolver' \in [Resolvers -> ResolverState]
         /\ resolver'[p].pc = "idle" /\ lock' = NoOne
         /\ p # Sweeper => /\ resolver'[p].hold = resolver[p].hold
                           /\ resolver'[p].want = resolver[p].want
         /\ \A q \in Resolvers : q # p => resolver'[q] = resolver[q]
  <1>1. CASE p = Sweeper
    BY <1>1 DEF Released, Idle, TypeInv, ResolverState, ResolverPc
  <1>2. CASE p # Sweeper
    <2>1. resolver' = [resolver EXCEPT ![p].pc = "idle"]
      BY <1>2 DEF Released
    <2> QED
      BY <1>2, <2>1, ResolverMoves DEF Released, ResolverPc
  <1> QED
    BY <1>1, <1>2

\* record() puts the batch at the end of the queue or drops it, and decides
\* nothing about any other batch.
LEMMA RecordedEffect ==
  ASSUME TypeInv, NEW r \in Requests, Recorded(r)
  PROVE  /\ queue' \in Seq(Requests) /\ fate' \in [Requests -> Fates]
         /\ \A q \in Requests : q # r => fate'[q] = fate[q]
         /\ \/ /\ fate'[r] = "accepted"
               /\ Len(queue') = Len(queue) + 1 /\ queue'[Len(queue) + 1] = r
               /\ \A i \in 1..Len(queue) : queue'[i] = queue[i]
            \/ fate'[r] = "dropped" /\ queue' = queue
  <1> USE DEF TypeInv, Recorded, Fates
  <1>1. CASE Len(queue) < MaxQueue
    <2>1. /\ queue' = Append(queue, r)
          /\ fate' = [fate EXCEPT ![r] = "accepted"]
      BY <1>1
    <2>2. /\ queue' \in Seq(Requests)
          /\ Len(queue') = Len(queue) + 1 /\ queue'[Len(queue) + 1] = r
          /\ \A i \in 1..Len(queue) : queue'[i] = queue[i]
      BY <2>1
    <2> QED
      BY <2>1, <2>2
  <1>2. CASE ~(Len(queue) < MaxQueue)
    BY <1>2
  <1> QED
    BY <1>1, <1>2

\* The writer takes the oldest batch; the others move up.
LEMMA GetsEffect ==
  ASSUME TypeInv, WriterGets
  PROVE  /\ queue' \in Seq(Requests) /\ Len(queue) > 0
         /\ Len(queue) = Len(queue') + 1
         /\ batch' = queue[1] /\ batch' \in Requests
         /\ \A i \in 1..Len(queue') : queue'[i] = queue[i + 1]
  <1>1. queue \in Seq(Requests) /\ queue # <<>> /\ batch' = Head(queue) /\ queue' = Tail(queue)
    BY DEF WriterGets, TypeInv
  <1> QED
    BY <1>1

\* An INSERT of a row is seen by the connection only, and changes one count.
LEMMA InsertEffect ==
  ASSUME TypeInv, InsertRow
  PROVE  /\ view' \in Db /\ disk' = disk /\ view'.holds = view.holds
         /\ \A r \in Requests : r # batch => view'.rows[r] = view.rows[r]
  <1>1. wpc = "rows" /\ batch \in Requests /\ view.rows[batch] < Rows
    BY DEF InsertRow, TypeInv
  <1>2. view.rows[batch] + 1 \in 0..Rows
    BY <1>1, LedgerAssumption DEF TypeInv, Db
  <1>3. disk' = disk /\ view' = [view EXCEPT !.rows = [view.rows EXCEPT ![batch] = view.rows[batch] + 1]]
    BY <1>1 DEF InsertRow, Execute, InTransaction
  <1>4. /\ view'.rows = [view.rows EXCEPT ![batch] = view.rows[batch] + 1]
        /\ view'.holds = view.holds /\ view' \in Db
    BY <1>1, <1>2, <1>3 DEF TypeInv, Db
  <1> QED
    BY <1>1, <1>3, <1>4 DEF TypeInv, Db

-----------------------------------------------------------------------------
(* The steps preserve the invariant                                         *)

\* Every step leaves every variable among its values.
LEMMA NextTypeInv == Inv /\ [Next]_vars => TypeInv'
  <1> SUFFICES ASSUME Inv, [Next]_vars PROVE TypeInv'
    OBVIOUS
  <1> USE NamesAssumption DEF dbVars, wrVars, stVars, rvVars
  <1>0. CASE UNCHANGED vars
    BY <1>0 DEF vars, Inv, TypeInv
  <1>1. ASSUME NEW r \in Requests, HoldRequested(r) PROVE TypeInv'
    BY <1>1 DEF HoldRequested, Inv, TypeInv, StreamPc
  <1>2. ASSUME NEW r \in Requests, HoldLocks(r) PROVE TypeInv'
    BY <1>2 DEF HoldLocks, Inv, TypeInv, StreamPc
  <1>3. ASSUME NEW r \in Requests, HoldPersisted(r) PROVE TypeInv'
    BY <1>3, InsertHoldEffect DEF HoldPersisted, Inv, TypeInv, HoldState, StreamPc
  <1>4. ASSUME NEW r \in Requests, StreamEnds(r) PROVE TypeInv'
    BY <1>4, RecordedEffect DEF StreamEnds, Inv, TypeInv, StreamPc
  <1>5. ASSUME NEW r \in Requests, HoldInterrupted(r) PROVE TypeInv'
    BY <1>5, RecordedEffect DEF HoldInterrupted, Fault, Inv, TypeInv, StreamPc
  <1>6. ASSUME NEW r \in Requests, OrphanInserts(r) PROVE TypeInv'
    BY <1>6, InsertHoldEffect DEF OrphanInserts, Inv, TypeInv, HoldState
  <1>7. ASSUME NEW r \in Requests, SweepNext(r) PROVE TypeInv'
    BY <1>7
    DEF SweepNext, Inv, TypeInv, Resolvers, ResolverState, ResolverPc, Final,
        Sweeper
  <1>8. ASSUME NEW r \in Requests, DeadlinePasses(r) PROVE TypeInv'
    BY <1>8 DEF DeadlinePasses, Inv, TypeInv
  <1>9. ASSUME WriterGets PROVE TypeInv'
    BY <1>9, GetsEffect DEF WriterGets, Inv, TypeInv
  <1>10. ASSUME WriterLocks PROVE TypeInv'
    BY <1>10 DEF WriterLocks, Inv, TypeInv
  <1>11. ASSUME InsertRow PROVE TypeInv'
    BY <1>11, InsertEffect DEF InsertRow, Execute, InTransaction, Inv, TypeInv
  <1>12. ASSUME Commit PROVE TypeInv'
    BY <1>12 DEF Commit, WriterDone, Inv, TypeInv, Fates
  <1>13. ASSUME WriteFails PROVE TypeInv'
    BY <1>13 DEF WriteFails, WriterDone, Fault, Inv, TypeInv, Fates
  <1>14. ASSUME NEW o \in Operators, NEW h \in Requests,
               NEW want \in {"approved", "rejected"}, OperatorTries(o, h, want) PROVE TypeInv'
    BY <1>14
    DEF OperatorTries, Inv, TypeInv, Resolvers, ResolverState, ResolverPc, Final
  <1>15. ASSUME SweepBegins PROVE TypeInv'
    BY <1>15 DEF SweepBegins, Inv, TypeInv
  <1>16. ASSUME NEW p \in Resolvers, ResolverLocks(p) PROVE TypeInv'
    BY <1>16, ResolverMoves DEF ResolverLocks, Inv, TypeInv, ResolverPc, Resolvers
  <1>17. ASSUME NEW p \in Resolvers, Update(p) PROVE TypeInv'
    BY <1>17, DecisionEffect, ReleasedEffect
    DEF Update, Inv, TypeInv, Tell, Resolvers
  <1>18. ASSUME NEW p \in Resolvers, ResolveFails(p) PROVE TypeInv'
    BY <1>18, ReleasedEffect DEF ResolveFails, Fault, Inv, TypeInv, Tell, Resolvers
  <1>19. ASSUME StopBegins PROVE TypeInv'
    BY <1>19, DecisionEffect
    DEF StopBegins, Inv, TypeInv, Idle, Resolvers, ResolverState, ResolverPc,
        Sweeper
  <1>20. ASSUME StopEnds PROVE TypeInv'
    BY <1>20 DEF StopEnds, Inv, TypeInv
  <1>21. ASSUME Kill PROVE TypeInv'
    BY <1>21
    DEF Kill, Fault, Idle, Inv, TypeInv, StreamPc, Fates, Resolvers, ResolverState,
        ResolverPc
  <1>22. ASSUME Restart PROVE TypeInv'
    BY <1>22 DEF Restart, Execute, InTransaction, Inv, TypeInv, Db, HoldState, Final
  <1> QED
    BY <1>0, <1>1, <1>2, <1>3, <1>4, <1>5, <1>6, <1>7, <1>8, <1>9, <1>10, <1>11,
       <1>12, <1>13, <1>14, <1>15, <1>16, <1>17, <1>18, <1>19, <1>20, <1>21, <1>22
    DEF Next, vars

\* The write lock has one holder, the task whose statements run under it.
LEMMA NextLockInv == Inv /\ [Next]_vars => LockInv'
  <1> SUFFICES ASSUME Inv, [Next]_vars PROVE LockInv'
    OBVIOUS
  <1> USE NamesAssumption DEF dbVars, wrVars, stVars, rvVars
  <1>0. CASE UNCHANGED <<lock, wpc, stream, resolver>>
    BY <1>0 DEF Inv, LockInv
  <1>1. ASSUME NEW r \in Requests, HoldRequested(r) PROVE LockInv'
    BY <1>1 DEF HoldRequested, Inv, LockInv, TypeInv
  <1>2. ASSUME NEW r \in Requests, HoldLocks(r) PROVE LockInv'
    BY <1>2 DEF HoldLocks, Inv, LockInv, TypeInv, Writer, NoOne, Sweeper, Resolvers
  <1>3. ASSUME NEW r \in Requests, HoldPersisted(r) PROVE LockInv'
    BY <1>3
    DEF HoldPersisted, Execute, InTransaction, Inv, LockInv, TypeInv, Writer, NoOne,
        Sweeper, Resolvers
  <1>4. ASSUME NEW r \in Requests, StreamEnds(r) PROVE LockInv'
    BY <1>4 DEF StreamEnds, Inv, LockInv, TypeInv
  <1>5. ASSUME NEW r \in Requests, HoldInterrupted(r) PROVE LockInv'
    BY <1>5
    DEF HoldInterrupted, Fault, Inv, LockInv, TypeInv, Writer, NoOne, Sweeper,
        Resolvers
  <1>6. ASSUME NEW r \in Requests, SweepNext(r) PROVE LockInv'
    BY <1>6
    DEF SweepNext, Inv, LockInv, TypeInv, Writer, NoOne, Sweeper, Resolvers, Idle,
        ResolverState
  <1>7. ASSUME WriterGets PROVE LockInv'
    BY <1>7 DEF WriterGets, Inv, LockInv
  <1>8. ASSUME WriterLocks PROVE LockInv'
    BY <1>8 DEF WriterLocks, Inv, LockInv, Writer, NoOne, Sweeper, Resolvers
  <1>9. ASSUME Commit PROVE LockInv'
    BY <1>9 DEF Commit, WriterDone, Inv, LockInv, Writer, NoOne, Sweeper, Resolvers
  <1>10. ASSUME WriteFails PROVE LockInv'
    BY <1>10
    DEF WriteFails, WriterDone, Fault, Inv, LockInv, Writer, NoOne, Sweeper,
        Resolvers
  <1>11. ASSUME NEW o \in Operators, NEW h \in Requests,
               NEW want \in {"approved", "rejected"}, OperatorTries(o, h, want) PROVE LockInv'
    BY <1>11 DEF OperatorTries, Inv, LockInv, TypeInv, Resolvers, Idle
  <1>12. ASSUME NEW p \in Resolvers, ResolverLocks(p) PROVE LockInv'
    BY <1>12, ResolverMoves
    DEF ResolverLocks, Inv, LockInv, TypeInv, ResolverPc, Writer, NoOne, Sweeper,
        Resolvers
  <1>13. ASSUME NEW p \in Resolvers, Update(p) PROVE LockInv'
    BY <1>13, ReleasedEffect
    DEF Update, Inv, LockInv, TypeInv, Writer, NoOne, Sweeper, Resolvers
  <1>14. ASSUME NEW p \in Resolvers, ResolveFails(p) PROVE LockInv'
    BY <1>14, ReleasedEffect
    DEF ResolveFails, Fault, Inv, LockInv, Writer, NoOne, Sweeper, Resolvers
  <1>15. ASSUME StopBegins PROVE LockInv'
    BY <1>15
    DEF StopBegins, Inv, LockInv, TypeInv, Idle, Writer, NoOne, Sweeper, Resolvers
  <1>16. ASSUME Kill PROVE LockInv'
    BY <1>16
    DEF Kill, Fault, Idle, Inv, LockInv, TypeInv, ToldInv, Writer, NoOne, Sweeper,
        Resolvers
  <1> QED
    BY <1>0, <1>1, <1>2, <1>3, <1>4, <1>5, <1>6, <1>7, <1>8, <1>9, <1>10, <1>11,
       <1>12, <1>13, <1>14, <1>15, <1>16
    DEF Next, vars, OrphanInserts, DeadlinePasses, InsertRow, SweepBegins, StopEnds,
        Restart, Execute, InTransaction

\* Outside the writer's transaction the connection sees what is on disk.
LEMMA NextViewInv == Inv /\ [Next]_vars => ViewInv'
  <1> SUFFICES ASSUME Inv, [Next]_vars PROVE ViewInv'
    OBVIOUS
  <1> USE NamesAssumption DEF dbVars, wrVars, stVars, rvVars
  <1>0. CASE UNCHANGED <<disk, view, wpc, batch, stream, orphans>>
    BY <1>0 DEF Inv, ViewInv
  <1>1. ASSUME NEW r \in Requests, HoldRequested(r) PROVE ViewInv'
    BY <1>1 DEF HoldRequested, Inv, ViewInv, TypeInv
  <1>2. ASSUME NEW r \in Requests, HoldLocks(r) PROVE ViewInv'
    BY <1>2 DEF HoldLocks, Inv, ViewInv, TypeInv
  <1>3. ASSUME NEW r \in Requests, HoldPersisted(r) PROVE ViewInv'
    <2>1. /\ view' \in Db /\ disk' = view' /\ wpc # "rows"
          /\ view'.rows = view.rows /\ disk'.rows = disk.rows
          /\ view'.holds[r] = "pending" /\ disk.holds[r] = "absent"
          /\ \A h \in Requests : h # r => disk'.holds[h] = disk.holds[h]
      BY <1>3, InsertHoldEffect
    <2> QED
      BY <1>3, <2>1 DEF HoldPersisted, Inv, ViewInv, TypeInv
  <1>4. ASSUME NEW r \in Requests, StreamEnds(r) PROVE ViewInv'
    BY <1>4 DEF StreamEnds, Inv, ViewInv, TypeInv
  <1>5. ASSUME NEW r \in Requests, HoldInterrupted(r) PROVE ViewInv'
    BY <1>5 DEF HoldInterrupted, Fault, Inv, ViewInv, TypeInv
  <1>6. ASSUME NEW r \in Requests, OrphanInserts(r) PROVE ViewInv'
    BY <1>6, InsertHoldEffect
    DEF OrphanInserts, Inv, ViewInv, TypeInv, HoldState, Db
  <1>7. ASSUME WriterGets PROVE ViewInv'
    BY <1>7 DEF WriterGets, Inv, ViewInv
  <1>8. ASSUME WriterLocks PROVE ViewInv'
    BY <1>8 DEF WriterLocks, Inv, ViewInv
  <1>9. ASSUME InsertRow PROVE ViewInv'
    BY <1>9, InsertEffect DEF InsertRow, Execute, InTransaction, Inv, ViewInv
  <1>10. ASSUME Commit PROVE ViewInv'
    BY <1>10 DEF Commit, WriterDone, Inv, ViewInv, TypeInv, Db
  <1>11. ASSUME WriteFails PROVE ViewInv'
    BY <1>11 DEF WriteFails, WriterDone, Fault, Inv, ViewInv, TypeInv, Db
  <1>12. ASSUME NEW p \in Resolvers, Update(p) PROVE ViewInv'
    BY <1>12, DecisionEffect
    DEF Update, Inv, ViewInv, LockInv, Writer, Resolvers, Sweeper
  <1>13. ASSUME StopBegins PROVE ViewInv'
    BY <1>13, DecisionEffect
    DEF StopBegins, Inv, ViewInv, LockInv, Writer, Resolvers, Sweeper
  <1>14. ASSUME StopEnds PROVE ViewInv'
    BY <1>14 DEF StopEnds, Inv, ViewInv
  <1>15. ASSUME Kill PROVE ViewInv'
    BY <1>15 DEF Kill, Fault, Idle, Inv, ViewInv, TypeInv, Db
  <1>16. ASSUME Restart PROVE ViewInv'
    BY <1>16
    DEF Restart, Execute, InTransaction, Inv, ViewInv, TypeInv, Db, BatchInv
  <1> QED
    BY <1>0, <1>1, <1>2, <1>3, <1>4, <1>5, <1>6, <1>7, <1>8, <1>9, <1>10, <1>11,
       <1>12, <1>13, <1>14, <1>15, <1>16
    DEF Next, vars, SweepNext, DeadlinePasses, OperatorTries, SweepBegins,
        ResolverLocks, ResolveFails, Fault

\* The end of a stream records its batch: at the end of the queue, or as dropped.
LEMMA RecordingKeepsBatches ==
  ASSUME Inv, NEW r \in Requests, up = "up", stream[r] # "over",
         stream' = [stream EXCEPT ![r] = "over"],
         Recorded(r), UNCHANGED <<disk, wpc, batch, up>>
  PROVE  BatchInv'
  <1>1. fate[r] = "none"
    BY DEF Inv, BatchInv
  <1>2. \A i \in 1..Len(queue) : queue[i] # r
    BY <1>1 DEF Inv, BatchInv, TypeInv
  <1>3. batch # r
    BY NamesAssumption DEF Inv, BatchInv, TypeInv
  <1>4. CASE queue' = queue /\ fate'[r] = "dropped"
    <2>1. /\ fate'[r] = "dropped" /\ queue' = queue
          /\ \A q \in Requests : q # r => fate'[q] = fate[q]
      BY <1>4, RecordedEffect DEF Inv
    <2>2. /\ stream'[r] = "over" /\ batch' = batch /\ wpc' = wpc /\ disk' = disk /\ up' = up
          /\ \A q \in Requests : q # r => stream'[q] = stream[q]
      BY DEF Inv, TypeInv
    <2>3. /\ \A i \in 1..Len(queue) : queue[i] \in Requests /\ queue[i] # r
          /\ wpc # "get" => batch \in Requests /\ batch # r
      BY <1>2, <1>3 DEF Inv, TypeInv, BatchInv
    <2>4. /\ \A i \in 1..Len(queue') : fate'[queue'[i]] = "accepted" /\ queue'[i] # batch'
          /\ \A i, j \in 1..Len(queue') : queue'[i] = queue'[j] => i = j
          /\ wpc' # "get" => fate'[batch'] = "accepted"
      BY <2>1, <2>2, <2>3 DEF Inv, BatchInv
    <2>5. ASSUME NEW q \in Requests
          PROVE  /\ fate'[q] # "none" => stream'[q] = "over"
                 /\ fate'[q] = "accepted" =>
                        q = batch' \/ \E i \in 1..Len(queue') : queue'[i] = q
                 /\ disk'.rows[q] = IF fate'[q] = "written" THEN Rows ELSE 0
      BY <1>1, <2>1, <2>2 DEF Inv, BatchInv
    <2> QED
      BY <2>2, <2>4, <2>5 DEF BatchInv
  <1>5. CASE /\ fate'[r] = "accepted"
             /\ Len(queue') = Len(queue) + 1 /\ queue'[Len(queue) + 1] = r
             /\ \A i \in 1..Len(queue) : queue'[i] = queue[i]
    <2> DEFINE n == Len(queue)
    <2>1. n \in Nat /\ Len(queue') = n + 1 /\ queue'[n + 1] = r
          /\ \A i \in 1..(n + 1) : i = n + 1 \/ (i \in 1..n /\ queue'[i] = queue[i])
      <3>1. n \in Nat
        BY DEF Inv, TypeInv
      <3>2. \A i \in 1..(n + 1) : i = n + 1 \/ i \in 1..n
        BY <3>1
      <3>3. \A i \in 1..n : queue'[i] = queue[i]
        BY <1>5
      <3>4. Len(queue') = n + 1 /\ queue'[n + 1] = r
        BY <1>5
      <3> HIDE DEF n
      <3> QED
        BY <3>1, <3>2, <3>3, <3>4
    <2>2. \A q \in Requests : q # r => fate'[q] = fate[q] /\ stream'[q] = stream[q]
      BY RecordedEffect DEF Inv, TypeInv
    <2>3. \A i \in 1..n : queue[i] \in Requests
      BY DEF Inv, TypeInv
    <2>4. \A i \in 1..(n + 1) : fate'[queue'[i]] = "accepted" /\ queue'[i] # batch'
      BY <1>2, <1>3, <1>5, <2>1, <2>2, <2>3 DEF Inv, BatchInv
    <2>5. \A i, j \in 1..(n + 1) : queue'[i] = queue'[j] => i = j
      BY <1>2, <2>1 DEF Inv, BatchInv
    <2>6. \A q \in Requests : fate'[q] = "accepted" =>
             q = batch' \/ \E i \in 1..(n + 1) : queue'[i] = q
      <3> SUFFICES ASSUME NEW q \in Requests, fate'[q] = "accepted", q # batch'
                   PROVE  \E i \in 1..(n + 1) : queue'[i] = q
        OBVIOUS
      <3>1. CASE q = r
        BY <2>1, <3>1
      <3>2. CASE q # r
        BY <2>1, <2>2, <3>2 DEF Inv, BatchInv
      <3> QED
        BY <3>1, <3>2
    <2>7. \A q \in Requests : /\ fate'[q] # "none" => stream'[q] = "over"
                             /\ disk'.rows[q] = IF fate'[q] = "written" THEN Rows ELSE 0
      BY <1>5, <2>2 DEF Inv, BatchInv, TypeInv
    <2>8. /\ wpc' # "get" => fate'[batch'] = "accepted"
          /\ up' = "up"
      BY <1>1, <1>3, <2>2 DEF Inv, BatchInv, TypeInv
    <2> QED
      BY <2>1, <2>4, <2>5, <2>6, <2>7, <2>8 DEF BatchInv
  <1> QED
    BY <1>4, <1>5, RecordedEffect DEF Inv

\* Every batch is in one place, and its rows are where the history says.
LEMMA NextBatchInv == Inv /\ [Next]_vars => BatchInv'
  <1> SUFFICES ASSUME Inv, [Next]_vars PROVE BatchInv'
    OBVIOUS
  <1> USE NamesAssumption DEF dbVars, wrVars, stVars, rvVars
  <1>0. CASE UNCHANGED <<queue, fate, batch, wpc, stream, disk, up>>
    BY <1>0 DEF Inv, BatchInv
  <1>1. ASSUME NEW r \in Requests, HoldRequested(r) PROVE BatchInv'
    BY <1>1 DEF HoldRequested, Inv, BatchInv, TypeInv
  <1>2. ASSUME NEW r \in Requests, HoldLocks(r) PROVE BatchInv'
    BY <1>2 DEF HoldLocks, Inv, BatchInv, TypeInv
  <1>3. ASSUME NEW r \in Requests, HoldPersisted(r) PROVE BatchInv'
    <2>1. /\ view' \in Db /\ disk' = view' /\ wpc # "rows"
          /\ view'.rows = view.rows /\ disk'.rows = disk.rows
          /\ view'.holds[r] = "pending" /\ disk.holds[r] = "absent"
          /\ \A h \in Requests : h # r => disk'.holds[h] = disk.holds[h]
      BY <1>3, InsertHoldEffect
    <2> QED
      BY <1>3, <2>1 DEF HoldPersisted, Inv, BatchInv, TypeInv, LockInv
  <1>4. ASSUME NEW r \in Requests, StreamEnds(r) PROVE BatchInv'
    <2>1. /\ up = "up" /\ stream[r] # "over"
          /\ stream' = [stream EXCEPT ![r] = "over"]
          /\ Recorded(r) /\ UNCHANGED <<disk, wpc, batch, up>>
      BY <1>4 DEF StreamEnds, Inv, BatchInv, TypeInv
    <2> QED
      BY <2>1, RecordingKeepsBatches
  <1>5. ASSUME NEW r \in Requests, HoldInterrupted(r) PROVE BatchInv'
    <2>1. /\ up = "up" /\ stream[r] # "over"
          /\ stream' = [stream EXCEPT ![r] = "over"]
          /\ Recorded(r) /\ UNCHANGED <<disk, wpc, batch, up>>
      BY <1>5 DEF HoldInterrupted, Inv, BatchInv, TypeInv
    <2> QED
      BY <2>1, RecordingKeepsBatches
  <1>6. ASSUME NEW r \in Requests, OrphanInserts(r) PROVE BatchInv'
    BY <1>6, InsertHoldEffect
    DEF OrphanInserts, Inv, BatchInv, TypeInv, ViewInv, HoldState
  <1>7. ASSUME WriterGets PROVE BatchInv'
    <2> DEFINE n == Len(queue')
    <2>1. /\ n \in Nat /\ Len(queue) = n + 1 /\ batch' = queue[1] /\ batch' \in Requests
          /\ \A i \in 1..n : i + 1 \in 1..(n + 1) /\ queue'[i] = queue[i + 1]
          /\ 1 \in 1..(n + 1)
      BY <1>7, GetsEffect DEF Inv
    <2>2. wpc' = "lock" /\ wpc = "get" /\ up # "down" /\ UNCHANGED <<fate, stream, disk, up>>
      BY <1>7 DEF WriterGets
    <2>3. \A i \in 1..n : fate'[queue'[i]] = "accepted" /\ queue'[i] # batch'
      BY <2>1, <2>2 DEF Inv, BatchInv
    <2>4. \A i, j \in 1..n : queue'[i] = queue'[j] => i = j
      BY <2>1 DEF Inv, BatchInv
    <2>5. \A q \in Requests : fate'[q] = "accepted" =>
             q = batch' \/ \E i \in 1..n : queue'[i] = q
      <3> SUFFICES ASSUME NEW q \in Requests, fate'[q] = "accepted", q # batch'
                   PROVE  \E i \in 1..n : queue'[i] = q
        OBVIOUS
      <3>1. PICK i \in 1..(n + 1) : queue[i] = q
        BY <2>1, <2>2, NamesAssumption DEF Inv, BatchInv, TypeInv
      <3>2. i - 1 \in 1..n /\ queue'[i - 1] = q
        BY <2>1, <3>1
      <3> QED
        BY <3>2
    <2>6. fate'[batch'] = "accepted"
      BY <2>1, <2>2 DEF Inv, BatchInv
    <2> QED
      BY <2>1, <2>2, <2>3, <2>4, <2>5, <2>6 DEF Inv, BatchInv
  <1>8. ASSUME WriterLocks PROVE BatchInv'
    BY <1>8 DEF WriterLocks, Inv, BatchInv
  <1>9. ASSUME InsertRow PROVE BatchInv'
    BY <1>9, InsertEffect DEF InsertRow, Inv, BatchInv, TypeInv
  <1>10. ASSUME Commit PROVE BatchInv'
    BY <1>10 DEF Commit, WriterDone, Inv, BatchInv, TypeInv, ViewInv
  <1>11. ASSUME WriteFails PROVE BatchInv'
    <2>1. /\ wpc = "rows" /\ batch \in Requests /\ batch' = "none" /\ wpc' = "get"
          /\ fate' = [fate EXCEPT ![batch] = "dropped"]
          /\ UNCHANGED <<disk, queue, stream, up>>
      BY <1>11 DEF WriteFails, WriterDone, Inv, TypeInv
    <2>2. fate[batch] = "accepted" /\ up # "down"
      BY <2>1 DEF Inv, BatchInv
    <2>3. \A q \in Requests : q # batch => fate'[q] = fate[q]
      BY <2>1 DEF Inv, TypeInv
    <2>4. fate'[batch] = "dropped"
      BY <2>1 DEF Inv, TypeInv
    <2> QED
      BY <2>1, <2>2, <2>3, <2>4, NamesAssumption DEF Inv, BatchInv, TypeInv
  <1>12. ASSUME NEW p \in Resolvers, Update(p) PROVE BatchInv'
    BY <1>12, DecisionEffect DEF Update, Inv, BatchInv
  <1>13. ASSUME StopBegins PROVE BatchInv'
    BY <1>13, DecisionEffect
    DEF StopBegins, Inv, BatchInv, LockInv, Resolvers, Sweeper
  <1>14. ASSUME StopEnds PROVE BatchInv'
    BY <1>14 DEF StopEnds, Inv, BatchInv, TypeInv
  <1>15. ASSUME Kill PROVE BatchInv'
    BY <1>15 DEF Kill, Fault, Idle, Inv, BatchInv, TypeInv, Fates
  <1>16. ASSUME Restart PROVE BatchInv'
    BY <1>16
    DEF Restart, Execute, InTransaction, Inv, BatchInv, TypeInv, Db, ViewInv
  <1> QED
    BY <1>0, <1>1, <1>2, <1>3, <1>4, <1>5, <1>6, <1>7, <1>8, <1>9, <1>10, <1>11,
       <1>12, <1>13, <1>14, <1>15, <1>16
    DEF Next, vars, SweepNext, DeadlinePasses, OperatorTries, SweepBegins,
        ResolverLocks, ResolveFails, Fault

\* What a reviewer was told stays on disk.
LEMMA NextToldInv == Inv /\ [Next]_vars => ToldInv'
  <1> SUFFICES ASSUME Inv, [Next]_vars PROVE ToldInv'
    OBVIOUS
  <1> USE NamesAssumption DEF dbVars, wrVars, stVars, rvVars
  <1>0. CASE UNCHANGED <<told, resolver, disk>>
    BY <1>0 DEF Inv, ToldInv
  <1>1. ASSUME NEW r \in Requests, HoldPersisted(r) PROVE ToldInv'
    <2>1. /\ view' \in Db /\ disk' = view' /\ wpc # "rows"
          /\ view'.rows = view.rows /\ disk'.rows = disk.rows
          /\ view'.holds[r] = "pending" /\ disk.holds[r] = "absent"
          /\ \A h \in Requests : h # r => disk'.holds[h] = disk.holds[h]
      BY <1>1, InsertHoldEffect
    <2> QED
      BY <1>1, <2>1 DEF HoldPersisted, Inv, ToldInv, TypeInv, Final
  <1>2. ASSUME NEW r \in Requests, OrphanInserts(r) PROVE ToldInv'
    BY <1>2, InsertHoldEffect
    DEF OrphanInserts, Inv, ToldInv, TypeInv, ViewInv, HoldState, Final
  <1>3. ASSUME NEW r \in Requests, SweepNext(r) PROVE ToldInv'
    BY <1>3 DEF SweepNext, Inv, ToldInv, TypeInv, Resolvers, Sweeper
  <1>4. ASSUME Commit PROVE ToldInv'
    BY <1>4 DEF Commit, WriterDone, Inv, ToldInv, ViewInv, Final
  <1>5. ASSUME NEW o \in Operators, NEW h \in Requests,
               NEW want \in {"approved", "rejected"}, OperatorTries(o, h, want) PROVE ToldInv'
    BY <1>5 DEF OperatorTries, Inv, ToldInv, TypeInv, Resolvers, Idle, Final
  <1>6. ASSUME NEW p \in Resolvers, ResolverLocks(p) PROVE ToldInv'
    BY <1>6, ResolverMoves
    DEF ResolverLocks, Inv, ToldInv, TypeInv, Resolvers, ResolverPc
  <1>7. ASSUME NEW p \in Resolvers, Update(p) PROVE ToldInv'
    BY <1>7, DecisionEffect, ReleasedEffect
    DEF Update, Inv, ToldInv, TypeInv, Tell, Resolvers, Sweeper, Final
  <1>8. ASSUME NEW p \in Resolvers, ResolveFails(p) PROVE ToldInv'
    BY <1>8, ReleasedEffect
    DEF ResolveFails, Fault, Inv, ToldInv, TypeInv, Tell, Resolvers, Sweeper
  <1>9. ASSUME StopBegins PROVE ToldInv'
    BY <1>9, DecisionEffect
    DEF StopBegins, Inv, ToldInv, TypeInv, Resolvers, Sweeper, Final
  <1>10. ASSUME Kill PROVE ToldInv'
    BY <1>10 DEF Kill, Fault, Idle, Inv, ToldInv, TypeInv, Resolvers
  <1>11. ASSUME Restart PROVE ToldInv'
    BY <1>11
    DEF Restart, Execute, InTransaction, Inv, ToldInv, TypeInv, ViewInv, Final, Db,
        BatchInv
  <1> QED
    BY <1>0, <1>1, <1>2, <1>3, <1>4, <1>5, <1>6, <1>7, <1>8, <1>9, <1>10, <1>11
    DEF Next, vars, HoldRequested, HoldLocks, StreamEnds, HoldInterrupted,
        DeadlinePasses, WriterGets, WriterLocks, InsertRow, WriteFails, SweepBegins,
        StopEnds, Fault, Execute, InTransaction, WriterDone

\* Nothing takes a hold off the disk.
LEMMA NextHeldInv == Inv /\ [Next]_vars => HeldInv'
  <1> SUFFICES ASSUME Inv, [Next]_vars PROVE HeldInv'
    OBVIOUS
  <1> USE NamesAssumption DEF dbVars, wrVars, stVars, rvVars
  <1>0. CASE UNCHANGED <<announced, disk>>
    BY <1>0 DEF Inv, HeldInv
  <1>1. ASSUME NEW r \in Requests, HoldPersisted(r) PROVE HeldInv'
    <2>1. /\ view' \in Db /\ disk' = view' /\ wpc # "rows"
          /\ view'.rows = view.rows /\ disk'.rows = disk.rows
          /\ view'.holds[r] = "pending" /\ disk.holds[r] = "absent"
          /\ \A h \in Requests : h # r => disk'.holds[h] = disk.holds[h]
      BY <1>1, InsertHoldEffect
    <2> QED
      BY <1>1, <2>1 DEF HoldPersisted, Inv, HeldInv, TypeInv
  <1>2. ASSUME NEW r \in Requests, OrphanInserts(r) PROVE HeldInv'
    BY <1>2, InsertHoldEffect
    DEF OrphanInserts, Inv, HeldInv, TypeInv, ViewInv, HoldState
  <1>3. ASSUME Commit PROVE HeldInv'
    BY <1>3 DEF Commit, WriterDone, Inv, HeldInv, ViewInv, TypeInv
  <1>4. ASSUME NEW p \in Resolvers, Update(p) PROVE HeldInv'
    <2>1. /\ resolver[p].pc = "update" /\ announced' = announced
          /\ IF Hit(p) THEN Execute(Want(p)) ELSE UNCHANGED dbVars
      BY <1>4 DEF Update
    <2>2. \A h \in Requests : disk'.holds[h] # disk.holds[h] => disk'.holds[h] \in Final
      BY <2>1, DecisionEffect
    <2> QED
      BY <2>1, <2>2 DEF Inv, HeldInv, TypeInv, Final
  <1>5. ASSUME StopBegins PROVE HeldInv'
    BY <1>5, DecisionEffect
    DEF StopBegins, Inv, HeldInv, TypeInv, Resolvers, Sweeper, Final
  <1>6. ASSUME Restart PROVE HeldInv'
    BY <1>6
    DEF Restart, Execute, InTransaction, Inv, HeldInv, TypeInv, ViewInv, Db,
        BatchInv
  <1> QED
    BY <1>0, <1>1, <1>2, <1>3, <1>4, <1>5, <1>6
    DEF Next, vars, HoldRequested, HoldLocks, StreamEnds, HoldInterrupted,
        SweepNext, DeadlinePasses, WriterGets, WriterLocks, InsertRow, WriteFails,
        OperatorTries, SweepBegins, ResolverLocks, ResolveFails, StopEnds, Kill,
        Fault, Execute, InTransaction, WriterDone

-----------------------------------------------------------------------------
(* The theorems                                                             *)

\* A ledger that starts empty satisfies the invariant.
LEMMA InitInv == Init => Inv
  <1> SUFFICES ASSUME Init PROVE Inv
    OBVIOUS
  <1> USE LedgerAssumption, NamesAssumption DEF Init, Empty
  <1>1. TypeInv
    BY DEF TypeInv, Db, HoldState, StreamPc, Fates, Idle, ResolverState, ResolverPc
  <1>2. LockInv
    BY DEF LockInv, NoOne, Writer, Resolvers, Sweeper, Idle
  <1>3. ViewInv
    BY DEF ViewInv
  <1>4. BatchInv
    BY DEF BatchInv
  <1>5. ToldInv /\ HeldInv
    BY DEF ToldInv, HeldInv
  <1> QED
    BY <1>1, <1>2, <1>3, <1>4, <1>5 DEF Inv

\* The invariant holds in every state of every behaviour.
THEOREM LedgerInvariant == Spec => []Inv
  <1>1. Inv /\ [Next]_vars => Inv'
    BY NextTypeInv, NextLockInv, NextViewInv, NextBatchInv, NextToldInv, NextHeldInv
    DEF Inv
  <1> QED
    BY InitInv, <1>1, PTL DEF Spec

\* A reviewer who was told that the answer stands finds it on disk for good,
\* whatever other reviewers, the sweeper, failures and restarts do.
THEOREM ToldStaysTrue == Spec => []ToldIsTrue
  <1>1. Inv => ToldIsTrue
    BY DEF Inv, ToldInv, ToldIsTrue
  <1> QED
    BY <1>1, LedgerInvariant, PTL

\* A hold whose token went out is on disk from then on.
THEOREM HoldsSurvive == Spec => []AnnouncedHoldsSurvive
  <1>1. Inv => AnnouncedHoldsSurvive
    BY DEF Inv, HeldInv, AnnouncedHoldsSurvive
  <1> QED
    BY <1>1, LedgerInvariant, PTL

\* A batch is on disk whole or not at all, as the ledger's counts say, and a
\* ledger that is down has left none undecided.
THEOREM BatchesWhole == Spec => []BatchesAreAccountedFor
  <1>1. Inv => BatchesAreAccountedFor
    <2> SUFFICES ASSUME Inv, NEW r \in Requests
                 PROVE  /\ disk.rows[r] \in {0, Rows}
                        /\ fate[r] = "written" => disk.rows[r] = Rows
                        /\ fate[r] \in {"dropped", "lost"} => disk.rows[r] = 0
                        /\ up = "down" => fate[r] # "accepted"
      BY DEF BatchesAreAccountedFor
    <2>1. disk.rows[r] = IF fate[r] = "written" THEN Rows ELSE 0
      BY DEF Inv, BatchInv
    <2>2. up = "down" => queue = <<>> /\ batch = "none"
      BY DEF Inv, BatchInv, TypeInv
    <2>3. up = "down" => fate[r] # "accepted"
      BY <2>2, NamesAssumption DEF Inv, BatchInv
    <2> QED
      BY <2>1, <2>3
  <1> QED
    BY <1>1, LedgerInvariant, PTL

\* No step of anybody changes a hold that is resolved on disk.
LEMMA StepResolvesOnce ==
  Inv /\ [Next]_vars =>
     \A h \in Requests : disk.holds[h] \in Final => disk'.holds[h] = disk.holds[h]
  <1> DEFINE Kept == \A h \in Requests : disk.holds[h] \in Final => disk'.holds[h] = disk.holds[h]
  <1> SUFFICES ASSUME Inv, [Next]_vars PROVE Kept
    OBVIOUS
  <1> USE DEF dbVars
  <1>0. CASE UNCHANGED disk
    BY <1>0
  <1>1. ASSUME NEW r \in Requests, HoldPersisted(r) \/ OrphanInserts(r) PROVE Kept
    BY <1>1, InsertHoldEffect DEF Final
  <1>2. ASSUME InsertRow PROVE Kept
    BY <1>2, InsertEffect DEF Inv
  <1>3. ASSUME Commit PROVE Kept
    BY <1>3 DEF Commit, Inv, ViewInv, Final
  <1>4. ASSUME NEW p \in Resolvers, Update(p) PROVE Kept
    BY <1>4, DecisionEffect DEF Update, Final
  <1>5. ASSUME StopBegins PROVE Kept
    BY <1>5, DecisionEffect DEF StopBegins, Resolvers, Final
  <1>6. ASSUME Restart PROVE Kept
    <2>1. view = disk /\ disk' = [view EXCEPT !.holds = [h \in Requests |->
             IF view.holds[h] = "pending" /\ h \in overdue THEN "expired" ELSE view.holds[h]]]
      BY <1>6 DEF Restart, Execute, InTransaction, Inv, ViewInv, BatchInv
    <2> QED
      BY <2>1 DEF Final, Inv, TypeInv, Db
  <1> QED
    BY <1>0, <1>1, <1>2, <1>3, <1>4, <1>5, <1>6
    DEF Next, vars, HoldRequested, HoldLocks, StreamEnds, HoldInterrupted,
        SweepNext, DeadlinePasses, WriterGets, WriterLocks, WriteFails,
        OperatorTries, SweepBegins, ResolverLocks, ResolveFails, StopEnds, Kill

\* A review ends once, on every behaviour.
THEOREM ResolvedOnce == Spec => HoldsResolveOnce
  <1> QED
    BY StepResolvesOnce, LedgerInvariant, PTL DEF Spec, HoldsResolveOnce
===============================================================================
