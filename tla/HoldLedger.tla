----------------------------- MODULE HoldLedger -----------------------------
(***************************************************************************)
(* The ledger of interlock/ledger/writer.py and the review holds of        *)
(* interlock/interlock_tools/holds.py.                                     *)
(*                                                                         *)
(* One SQLite connection is shared by everybody.  Request batches go       *)
(* through a bounded queue to one writer task, one transaction each;       *)
(* holds are written at once by whoever awaits persist_hold or             *)
(* resolve_hold.  Writers take the asyncio write lock and run their        *)
(* statements in a thread; readers use the connection without the lock.    *)
(* The process may be killed and restarted.                                *)
(***************************************************************************)
EXTENDS Naturals, Sequences, FiniteSets

CONSTANTS
    Requests,   \* streamed requests; each records one batch
    Reviewed,   \* those among them that freeze something for a reviewer: one hold
    Operators,  \* reviewers, each resolving one hold
    Rows,       \* rows of a request's batch
    MaxQueue,   \* Ledger.max_queue
    MaxFaults   \* bound: failing statements, cancelled clients and kills together

ASSUME LedgerAssumption ==
    /\ Reviewed \subseteq Requests
    /\ Rows \in Nat \ {0, 1}
    /\ MaxQueue \in Nat \ {0}
    /\ MaxFaults \in Nat

Sweeper   == "sweeper"
Resolvers == Operators \cup {Sweeper}
Final     == {"approved", "rejected", "expired"}
HoldState == {"absent", "pending"} \cup Final
NoOne     == "free"
Writer    == "writer"

\* A task of the event loop is one of a request, a reviewer, the sweeper or the
\* writer, and none of them is nobody.
ASSUME NamesAssumption ==
    /\ Requests \cap Operators = {}
    /\ {NoOne, Writer, Sweeper, "none"} \cap (Requests \cup Operators) = {}

VARIABLES
    disk,      \* committed rows: [rows : Requests -> 0..Rows, holds : Requests -> HoldState]
    view,      \* what the shared connection sees: disk plus its open transaction
    up,        \* "up", "stopping" or "down"
    queue,     \* Ledger._queue
    lock,      \* holder of Ledger._write_lock
    wpc,       \* _drain: "get", "lock", "rows" (inside _write)
    batch,     \* the request whose batch _drain holds
    stream,    \* per request: where its generator is with hold and batch
    orphans,   \* INSERTs whose awaiting stream was cancelled; their threads still run
    resolver,  \* per resolver: [pc, hold, want]
    sweep,     \* overdue holds the current sweep has still to expire
    overdue,   \* holds whose review window has passed
    told,      \* per operator: what its HTTP response said
    announced, \* holds whose token a client was sent
    fate,      \* history: what became of each recorded batch
    faults     \* faults so far

dbVars   == <<disk, view>>
wrVars   == <<queue, wpc, batch, fate>>
stVars   == <<stream, orphans, announced>>
rvVars   == <<resolver, sweep, told>>
vars     == <<dbVars, up, lock, wrVars, stVars, rvVars, overdue, faults>>

Idle == [pc |-> "idle", hold |-> "none", want |-> "none"]

Empty == [rows |-> [r \in Requests |-> 0], holds |-> [r \in Requests |-> "absent"]]

Init ==
    /\ disk = Empty /\ view = Empty
    /\ up = "up" /\ queue = <<>> /\ lock = NoOne
    /\ wpc = "get" /\ batch = "none"
    /\ stream = [r \in Requests |-> "live"] /\ orphans = {}
    /\ resolver = [p \in Resolvers |-> Idle] /\ sweep = {}
    /\ overdue = {} /\ announced = {}
    /\ told = [o \in Operators |-> "none"]
    /\ fate = [r \in Requests |-> "none"] /\ faults = 0

-----------------------------------------------------------------------------
(* Statements on the shared connection                                      *)

InTransaction == wpc = "rows"

\* A statement outside a transaction commits by itself; within one it is only
\* seen by this connection until the COMMIT.
Execute(next) ==
    /\ view' = next
    /\ disk' = IF InTransaction THEN disk ELSE next

SetHold(h, s) == [view EXCEPT !.holds[h] = s]

Fault == faults < MaxFaults /\ faults' = faults + 1

-----------------------------------------------------------------------------
(* A stream: persist_hold, then record                                      *)

\* persist_hold waits for the write lock ...
HoldRequested(r) ==
    /\ up = "up" /\ r \in Reviewed /\ stream[r] = "live"
    /\ stream' = [stream EXCEPT ![r] = "wait"]
    /\ UNCHANGED <<dbVars, up, lock, wrVars, orphans, announced, rvVars, overdue, faults>>

\* Mutant: the token is sent before the hold is durable.
HoldLocksAnnounces(r) ==
    /\ stream[r] = "wait" /\ lock = NoOne
    /\ lock' = r
    /\ stream' = [stream EXCEPT ![r] = "insert"]
    /\ announced' = announced \cup {r}
    /\ UNCHANGED <<dbVars, up, wrVars, orphans, rvVars, overdue, faults>>

HoldLocks(r) ==
    /\ stream[r] = "wait" /\ lock = NoOne
    /\ lock' = r
    /\ stream' = [stream EXCEPT ![r] = "insert"]
    /\ UNCHANGED <<dbVars, up, wrVars, orphans, announced, rvVars, overdue, faults>>

\* ... and returns once its INSERT is committed; only then is the hold announced.
HoldPersisted(r) ==
    /\ stream[r] = "insert"
    /\ Execute(SetHold(r, "pending"))
    /\ lock' = NoOne
    /\ stream' = [stream EXCEPT ![r] = "held"]
    /\ announced' = announced \cup {r}
    /\ UNCHANGED <<up, wrVars, orphans, rvVars, overdue, faults>>

\* record() never waits: a full queue drops the batch and counts it.
Recorded(r) ==
    IF Len(queue) < MaxQueue
    THEN /\ queue' = Append(queue, r)
         /\ fate' = [fate EXCEPT ![r] = "accepted"]
    ELSE /\ UNCHANGED queue
         /\ fate' = [fate EXCEPT ![r] = "dropped"]

StreamEnds(r) ==
    /\ up = "up" /\ stream[r] \in {"live", "held"}
    /\ stream' = [stream EXCEPT ![r] = "over"]
    /\ Recorded(r)
    /\ UNCHANGED <<dbVars, up, lock, wpc, batch, orphans, announced, rvVars, overdue, faults>>

\* The INSERT fails, or the client disconnects while the stream awaits it: the
\* lock is released and the finally block records the batch.  The thread of a
\* cancelled INSERT is not stopped.
HoldInterrupted(r) ==
    /\ stream[r] \in {"wait", "insert"}
    /\ Fault
    /\ stream' = [stream EXCEPT ![r] = "over"]
    /\ lock' = IF lock = r THEN NoOne ELSE lock
    /\ \/ stream[r] = "insert" /\ orphans' = orphans \cup {r}
       \/ UNCHANGED orphans
    /\ Recorded(r)
    /\ UNCHANGED <<dbVars, up, wpc, batch, announced, rvVars, overdue>>

OrphanInserts(r) ==
    /\ r \in orphans
    /\ orphans' = orphans \ {r}
    /\ Execute(SetHold(r, "pending"))
    /\ UNCHANGED <<up, lock, wrVars, stream, announced, rvVars, overdue, faults>>

-----------------------------------------------------------------------------
(* The writer task: _drain and _write                                       *)

WriterGets ==
    /\ up # "down" /\ wpc = "get" /\ queue # <<>>
    /\ batch' = Head(queue) /\ queue' = Tail(queue)
    /\ wpc' = "lock"
    /\ UNCHANGED <<dbVars, up, lock, fate, stVars, rvVars, overdue, faults>>

\* BEGIN IMMEDIATE is its first statement under the lock.
WriterLocks ==
    /\ wpc = "lock" /\ lock = NoOne
    /\ lock' = Writer
    /\ wpc' = "rows"
    /\ UNCHANGED <<dbVars, up, queue, batch, fate, stVars, rvVars, overdue, faults>>

InsertRow ==
    /\ wpc = "rows" /\ view.rows[batch] < Rows
    /\ Execute([view EXCEPT !.rows[batch] = @ + 1])
    /\ UNCHANGED <<up, lock, wrVars, stVars, rvVars, overdue, faults>>

WriterDone(outcome) ==
    /\ fate' = [fate EXCEPT ![batch] = outcome]
    /\ wpc' = "get" /\ batch' = "none"
    /\ lock' = NoOne
    /\ UNCHANGED <<up, queue, stVars, rvVars, overdue>>

Commit ==
    /\ wpc = "rows" /\ view.rows[batch] = Rows
    /\ disk' = view
    /\ WriterDone("written")
    /\ UNCHANGED <<view, faults>>

\* Any statement of the batch fails: ROLLBACK, and the batch counts as dropped.
WriteFails ==
    /\ wpc = "rows"
    /\ Fault
    /\ view' = disk
    /\ WriterDone("dropped")
    /\ UNCHANGED disk

-----------------------------------------------------------------------------
(* Reviewers and the sweeper: resolve and sweep_expired                     *)

\* resolve(): the hold must be listed as pending, and an approval must come
\* before the deadline (its token is the right one); then it awaits the lock.
\* A try that fails these checks is refused and changes nothing.
OperatorTries(o, h, want) ==
    /\ up = "up" /\ resolver[o] = Idle
    /\ view.holds[h] = "pending"
    /\ want = "approved" => h \notin overdue
    /\ resolver' = [resolver EXCEPT ![o] = [pc |-> "wait", hold |-> h, want |-> want]]
    /\ UNCHANGED <<dbVars, up, lock, wrVars, stVars, sweep, told, overdue, faults>>

\* sweep_expired() lists the overdue holds once ...
SweepBegins ==
    /\ up = "up" /\ resolver[Sweeper] = Idle /\ sweep = {}
    /\ sweep' = {h \in overdue : view.holds[h] = "pending"}
    /\ sweep' # {}
    /\ UNCHANGED <<dbVars, up, lock, wrVars, stVars, resolver, told, overdue, faults>>

\* ... and expires them one by one.
SweepNext(h) ==
    /\ up = "up" /\ resolver[Sweeper] = Idle /\ h \in sweep
    /\ sweep' = sweep \ {h}
    /\ resolver' = [resolver EXCEPT ![Sweeper] = [pc |-> "wait", hold |-> h, want |-> "expired"]]
    /\ UNCHANGED <<dbVars, up, lock, wrVars, stVars, told, overdue, faults>>

ResolverLocks(p) ==
    /\ resolver[p].pc = "wait" /\ lock = NoOne
    /\ lock' = p
    /\ resolver' = [resolver EXCEPT ![p].pc = "update"]
    /\ UNCHANGED <<dbVars, up, wrVars, stVars, sweep, told, overdue, faults>>

\* Leaving the lock; the operator keeps in mind what it asked for.
Released(p) ==
    /\ resolver' = [resolver EXCEPT ![p] = IF p = Sweeper THEN Idle ELSE [@ EXCEPT !.pc = "idle"]]
    /\ lock' = NoOne

\* An operator's HTTP response; the sweeper only counts.
Tell(p, answer) == told' = IF p \in Operators THEN [told EXCEPT ![p] = answer] ELSE told

Want(p) == SetHold(resolver[p].hold, resolver[p].want)
Hit(p)  == view.holds[resolver[p].hold] = "pending"

\* Mutant: the row count of the UPDATE is ignored.
UpdateUncounted(p) ==
    /\ resolver[p].pc = "update"
    /\ IF Hit(p) THEN Execute(Want(p)) ELSE UNCHANGED dbVars
    /\ Tell(p, "ok")
    /\ Released(p)
    /\ UNCHANGED <<up, wrVars, stVars, sweep, overdue, faults>>

\* Mutant: the UPDATE lacks AND state = 'pending'.
UpdateAnyState(p) ==
    /\ resolver[p].pc = "update"
    /\ Execute(Want(p))
    /\ Tell(p, "ok")
    /\ Released(p)
    /\ UNCHANGED <<up, wrVars, stVars, sweep, overdue, faults>>

\* resolve_hold: UPDATE ... WHERE hold_id = ? AND state = 'pending'.
Update(p) ==
    /\ resolver[p].pc = "update"
    /\ IF Hit(p) THEN Execute(Want(p)) ELSE UNCHANGED dbVars
    /\ Tell(p, IF Hit(p) THEN "ok" ELSE "refused")
    /\ Released(p)
    /\ UNCHANGED <<up, wrVars, stVars, sweep, overdue, faults>>

\* Mutant: the lock is not released when the UPDATE raises.
ResolveFailsLocked(p) ==
    /\ resolver[p].pc = "update"
    /\ Fault
    /\ resolver' = [resolver EXCEPT ![p].pc = "idle"]
    /\ Tell(p, "refused")
    /\ UNCHANGED <<dbVars, up, lock, wrVars, stVars, sweep, overdue>>

\* The UPDATE raises: the operator gets an error, the sweeper gives up this
\* sweep and retries with the next one.
ResolveFails(p) ==
    /\ resolver[p].pc = "update"
    /\ Fault
    /\ Released(p)
    /\ Tell(p, "refused")
    /\ sweep' = IF p = Sweeper THEN {} ELSE sweep
    /\ UNCHANGED <<dbVars, up, wrVars, stVars, overdue>>

-----------------------------------------------------------------------------
(* Time, shutdown, kill and restart                                         *)

DeadlinePasses(h) ==
    /\ h \notin overdue /\ view.holds[h] # "absent"
    /\ overdue' = overdue \cup {h}
    /\ UNCHANGED <<dbVars, up, lock, wrVars, stVars, rvVars, faults>>

\* The lifespan ends once no request is being served: the sweeper is cancelled
\* (an UPDATE in its thread still happens or does not) ...
StopBegins ==
    /\ up = "up"
    /\ \A r \in Requests : stream[r] \in {"live", "over"}
    /\ \A o \in Operators : resolver[o].pc = "idle"
    /\ up' = "stopping"
    /\ \/ UNCHANGED dbVars
       \/ resolver[Sweeper].pc = "update" /\ Hit(Sweeper) /\ Execute(Want(Sweeper))
    /\ resolver' = [resolver EXCEPT ![Sweeper] = Idle]
    /\ sweep' = {}
    /\ lock' = IF lock = Sweeper THEN NoOne ELSE lock
    /\ UNCHANGED <<wrVars, stVars, told, overdue, faults>>

\* Mutant: the connection is closed without joining the queue.
StopEndsUnjoined ==
    /\ up = "stopping"
    /\ up' = "down"
    /\ orphans' = {}
    /\ UNCHANGED <<dbVars, lock, wrVars, stream, announced, rvVars, overdue, faults>>

\* ... and Ledger.stop() joins the queue before it closes the connection.
StopEnds ==
    /\ up = "stopping"
    /\ queue = <<>> /\ wpc = "get"
    /\ up' = "down"
    /\ orphans' = {}
    /\ UNCHANGED <<dbVars, lock, wrVars, stream, announced, rvVars, overdue, faults>>

\* The process is killed: memory and the open transaction are gone.
Kill ==
    /\ up # "down" /\ Fault
    /\ up' = "down"
    /\ view' = disk
    /\ queue' = <<>> /\ wpc' = "get" /\ batch' = "none" /\ lock' = NoOne
    /\ fate' = [r \in Requests |-> IF fate[r] = "accepted" THEN "lost" ELSE fate[r]]
    /\ stream' = [r \in Requests |-> IF stream[r] = "live" THEN "live" ELSE "over"]
    /\ orphans' = {}
    /\ resolver' = [p \in Resolvers |->
                       IF p \in Operators /\ told[p] # "none" THEN resolver[p] ELSE Idle]
    /\ sweep' = {}
    /\ UNCHANGED <<disk, told, announced, overdue>>

\* Startup reads the pending holds and expires the overdue ones before serving.
Restart ==
    /\ up = "down"
    /\ up' = "up"
    /\ Execute([view EXCEPT !.holds = [h \in Requests |->
                   IF @[h] = "pending" /\ h \in overdue THEN "expired" ELSE @[h]]])
    /\ UNCHANGED <<lock, wrVars, stVars, rvVars, overdue, faults>>

-----------------------------------------------------------------------------
Next ==
    \/ \E r \in Requests :
          \/ HoldRequested(r) \/ HoldLocks(r) \/ HoldPersisted(r) \/ StreamEnds(r)
          \/ HoldInterrupted(r) \/ OrphanInserts(r) \/ SweepNext(r) \/ DeadlinePasses(r)
    \/ WriterGets \/ WriterLocks \/ InsertRow \/ Commit \/ WriteFails
    \/ \E o \in Operators, h \in Requests, want \in {"approved", "rejected"} :
          OperatorTries(o, h, want)
    \/ SweepBegins
    \/ \E p \in Resolvers : ResolverLocks(p) \/ Update(p) \/ ResolveFails(p)
    \/ StopBegins \/ StopEnds \/ Kill \/ Restart

\* Whoever holds the write lock ends its statements and gives it back.
HolderRuns == \/ \E r \in Requests : HoldPersisted(r)
              \/ InsertRow \/ Commit
              \/ \E p \in Resolvers : Update(p)

\* Threads end; the sweeper's timer fires, and asyncio.Lock, first come first
\* served, is its in the end; a stopping process drains its queue and a dead one
\* is restarted.  Streams, reviewers, time and faults are free.
Fairness ==
    /\ WF_vars(HolderRuns)
    /\ WF_vars(SweepBegins) /\ WF_vars(\E h \in Requests : SweepNext(h))
    /\ SF_vars(ResolverLocks(Sweeper))
    /\ WF_vars(WriterGets) /\ WF_vars(WriterLocks) /\ WF_vars(StopEnds)
    /\ WF_vars(Restart)

Spec == Init /\ [][Next]_vars /\ Fairness

-----------------------------------------------------------------------------
(* Properties                                                               *)

\* A review ends once: whichever of two reviewers, the sweeper and a restart
\* comes first, a resolved hold never changes again on disk.
HoldsResolveOnce ==
    [][\A h \in Requests : disk.holds[h] \in Final => disk'.holds[h] = disk.holds[h]]_vars

\* What a reviewer was told is what is on disk: an accepted answer is the hold's
\* state for good, so two reviewers are never both told that they prevailed
\* with different answers.
ToldIsTrue ==
    \A o \in Operators :
        told[o] = "ok" => disk.holds[resolver[o].hold] = resolver[o].want

\* A hold whose token a client was sent is on disk, and stays there across
\* failing writes, kills and restarts.
AnnouncedHoldsSurvive ==
    \A h \in announced : disk.holds[h] # "absent"

\* One transaction per request: on disk a batch is there entirely or not at
\* all, and none vanishes unseen: what the ledger counts as written is on
\* disk, what it counts as dropped is not, and an orderly stop leaves none
\* undecided.
BatchesAreAccountedFor ==
    \A r \in Requests :
        /\ disk.rows[r] \in {0, Rows}
        /\ fate[r] = "written" => disk.rows[r] = Rows
        /\ fate[r] \in {"dropped", "lost"} => disk.rows[r] = 0
        /\ up = "down" => fate[r] # "accepted"

\* Nobody's silence keeps a hold open: once its window has passed, a hold on
\* disk is resolved in the end, through failures and restarts.
OverdueHoldsExpire ==
    \A h \in Requests :
        disk.holds[h] = "pending" /\ h \in overdue ~> disk.holds[h] # "pending"

\* writer.py:9 says that the console never renders a half-written request.  The
\* console reads through the shared connection.
NoHalfWrittenRequest == \A r \in Requests : view.rows[r] \in {0, Rows}
=============================================================================
