------------------------------ MODULE JudgeRun ------------------------------
(***************************************************************************)
(* The paid judge audit: run_judgments of interlock/eval/judge_run.py, the *)
(* retries of interlock/eval/openrouter_judge.py, and the command          *)
(* scripts/eval_manual_anchors.py, which runs one plan per judge model     *)
(* under one cost cap.                                                     *)
(*                                                                         *)
(* A plan appends its records to a file and keeps a metadata file that     *)
(* names the batch in flight.  The command may be killed, and the machine  *)
(* may lose power, anywhere; the next command resumes from the two files.  *)
(* Money is counted in units; an attempt is projected to cost one for the  *)
(* prompt and one for each item.                                           *)
(***************************************************************************)
EXTENDS Naturals, Sequences, FiniteSets, FiniteSetsExt

CONSTANTS
    Plans,        \* number of judge models, each with its own output file
    Items,        \* number of rows of the anchor set, in stratified order
    MaxAttempts,  \* judge.max_attempts
    Cap,          \* --max-cost-usd
    Sizes,        \* values of --batch-size
    MaxCommands,  \* bound: commands started
    MaxFaults     \* bound: kills and power losses

ASSUME JudgeAssumption ==
    /\ {Plans, Items, MaxAttempts} \subseteq Nat \ {0}
    /\ {Cap, MaxCommands, MaxFaults} \subseteq Nat
    /\ Sizes \subseteq Nat \ {0}

VARIABLES
    file,       \* per plan: the records of its JSONL file
    synced,     \* per plan: how many of them fsync has covered
    torn,       \* per plan: the last line is incomplete
    inFlight,   \* per plan: the batch its metadata names
    pc,         \* where the command is, "idle" when none runs
    plan,       \* the plan it is at
    config,     \* its limit and batch size
    budget,     \* remaining_new_budget, and max_cost_usd of the plan's run
    cost,       \* _RunState.cost_usd
    batch,      \* the batch at the judge, its attempts and its accounted cost
    spent,      \* history: what the provider has charged
    overrun,    \* history: an attempt was charged more than projected
    paid,       \* history: per plan, items sent to the judge, and sent again
    trusted,    \* history: a batch was reconciled from records not yet synced
    commands, faults

diskVars    == <<file, synced, torn, inFlight>>
processVars == <<plan, config, budget, cost, batch>>
historyVars == <<spent, overrun, paid, trusted>>
vars        == <<diskVars, pc, processVars, historyVars, commands, faults>>

PlanIds == 1..Plans
ItemIds == 1..Items
NoBatch == [items |-> {}, number |-> 0]

\* A batch is known by a hash of its items and of how many batches came before.
BatchIds == [items : SUBSET ItemIds, number : Nat]

NoConfig == [size |-> 0, limit |-> 0]
NoBudget == [remaining |-> 0, max |-> 0]
NoWork   == [id |-> NoBatch, attempts |-> 0, cost |-> 0]

Projected(b) == 1 + Cardinality(b.items)
Reserved(b)  == IF b = NoBatch THEN 0 ELSE Projected(b) * MaxAttempts

Init ==
    /\ file = [m \in PlanIds |-> <<>>] /\ synced = [m \in PlanIds |-> 0]
    /\ torn = [m \in PlanIds |-> FALSE] /\ inFlight = [m \in PlanIds |-> NoBatch]
    /\ pc = "idle" /\ plan = 1 /\ config = NoConfig
    /\ budget = NoBudget /\ cost = 0 /\ batch = NoWork
    /\ spent = 0 /\ overrun = FALSE /\ trusted = FALSE
    /\ paid = [once |-> [m \in PlanIds |-> {}], again |-> [m \in PlanIds |-> {}]]
    /\ commands = 0 /\ faults = 0

-----------------------------------------------------------------------------
(* What the files say                                                       *)

Records(m)   == {file[m][k] : k \in DOMAIN file[m]}
Completed(m) == {r.item : r \in Records(m)}
Batches(m)   == {r.batch : r \in Records(m)}

\* f[1] + ... + f[n]
SumOf(f, n) == LET sum[k \in 0..n] == IF k = 0 THEN 0 ELSE sum[k - 1] + f[k] IN sum[n]

\* _load_state() counts the cost of a batch once, at its first record.
IsFirst(records, k) == \A j \in 1..(k - 1) : records[j].batch # records[k].batch
CostOf(records) ==
    SumOf([k \in DOMAIN records |-> IF IsFirst(records, k) THEN records[k].cost ELSE 0], Len(records))

Cost(m)  == CostOf(file[m])
Existing == SumOf([m \in PlanIds |-> Cost(m)], Plans)

\* Nothing in flight, or all of its records are in the file.
Resolved(m) ==
    /\ ~torn[m]
    /\ inFlight[m].items = {r.item : r \in {q \in Records(m) : q.batch = inFlight[m]}}

\* The rows of the stratified prefix without a record, of which the next batch
\* takes the first.
Pending(m) == (1..config.limit) \ Completed(m)

NextBatch(m) ==
    [items  |-> {i \in Pending(m) : Cardinality({j \in Pending(m) : j < i}) < config.size},
     number |-> Cardinality(Batches(m))]

-----------------------------------------------------------------------------
(* The command                                                              *)

Command(size, limit) ==
    /\ pc = "idle" /\ commands < MaxCommands
    /\ commands' = commands + 1
    /\ pc' = "loading" /\ plan' = 1
    /\ config' = [size |-> size, limit |-> limit]
    /\ UNCHANGED <<diskVars, budget, cost, batch, historyVars, faults>>

\* A command that has ended remembers nothing.
Exit ==
    /\ pc' = "idle" /\ plan' = 1 /\ config' = NoConfig
    /\ budget' = NoBudget /\ cost' = 0 /\ batch' = NoWork

\* run_judgments() for a plan, given what is left of the cap.
StartPlan(m, remaining) ==
    /\ pc' = "batch" /\ plan' = m
    /\ cost' = Cost(m)
    /\ budget' = [remaining |-> remaining, max |-> Cost(m) + remaining]
    /\ batch' = NoWork
    /\ UNCHANGED config

\* _validate_metadata() drops a batch in flight whose records are all there.
Reconcile(m) ==
    /\ inFlight' = [inFlight EXCEPT ![m] = NoBatch]
    /\ trusted' = (trusted \/ (inFlight[m] # NoBatch /\ synced[m] < Len(file[m])))

\* Mutant: a batch in flight is dropped whatever the file says.
LoadAlways ==
    /\ pc = "loading" /\ ~torn[plan]
    /\ Reconcile(plan)
    /\ IF plan < Plans
       THEN plan' = plan + 1 /\ UNCHANGED <<pc, config, budget, cost, batch>>
       ELSE Existing <= Cap /\ StartPlan(1, Cap - Existing)
    /\ UNCHANGED <<file, synced, torn, spent, overrun, paid, commands, faults>>

\* load_run_cost() of one plan after the other, then the first one starts.
Load ==
    /\ pc = "loading" /\ Resolved(plan)
    /\ Reconcile(plan)
    /\ IF plan < Plans
       THEN plan' = plan + 1 /\ UNCHANGED <<pc, config, budget, cost, batch>>
       ELSE Existing <= Cap /\ StartPlan(1, Cap - Existing)
    /\ UNCHANGED <<file, synced, torn, spent, overrun, paid, commands, faults>>

\* A batch in flight without its records, a torn line, or the cap is exceeded.
Refuse ==
    /\ pc = "loading"
    /\ \/ ~Resolved(plan) /\ UNCHANGED <<inFlight, trusted>>
       \/ Resolved(plan) /\ plan = Plans /\ Existing > Cap /\ Reconcile(plan)
    /\ Exit
    /\ UNCHANGED <<file, synced, torn, spent, overrun, paid, commands, faults>>

\* Mutant: the next plan gets the whole budget again.
PlanEndsUncharged ==
    IF plan < Plans THEN StartPlan(plan + 1, budget.remaining)
    ELSE Exit

\* The next plan gets what this one has left.
PlanEnds ==
    LET new == cost - (budget.max - budget.remaining)
    IN  IF plan < Plans
        THEN StartPlan(plan + 1, IF new < budget.remaining THEN budget.remaining - new ELSE 0)
        ELSE Exit

-----------------------------------------------------------------------------
(* run_judgments()                                                          *)

Fits(b) == cost + Reserved(b) <= budget.max

Exhausted ==
    /\ pc = "batch"
    /\ Pending(plan) = {} \/ ~Fits(NextBatch(plan))
    /\ PlanEnds
    /\ UNCHANGED <<diskVars, historyVars, commands, faults>>

\* Mutant: one attempt is reserved, not the full retry ceiling.
DispatchOneAttempt ==
    /\ pc = "batch" /\ Pending(plan) # {}
    /\ LET b == NextBatch(plan)
       IN  /\ cost + Projected(b) <= budget.max
           /\ inFlight' = [inFlight EXCEPT ![plan] = b]
           /\ batch' = [id |-> b, attempts |-> 0, cost |-> 0]
    /\ pc' = "judging"
    /\ UNCHANGED <<file, synced, torn, plan, config, budget, cost, historyVars, commands, faults>>

\* The metadata names the batch before the first request goes out.
Dispatch ==
    /\ pc = "batch" /\ Pending(plan) # {}
    /\ LET b == NextBatch(plan)
       IN  /\ Fits(b)
           /\ inFlight' = [inFlight EXCEPT ![plan] = b]
           /\ batch' = [id |-> b, attempts |-> 0, cost |-> 0]
    /\ pc' = "judging"
    /\ UNCHANGED <<file, synced, torn, plan, config, budget, cost, historyVars, commands, faults>>

\* The provider charges for one attempt, answered or not.
Charge(charged) ==
    /\ spent' = spent + charged
    /\ overrun' = (overrun \/ charged > Projected(batch.id))
    /\ paid' = [paid EXCEPT
          !.once[plan]  = @ \cup batch.id.items,
          !.again[plan] = IF batch.attempts = 0 THEN @ \cup (paid.once[plan] \cap batch.id.items) ELSE @]

\* A timeout, a rate limit or a server error with an attempt left: judge() retries.
Retry ==
    /\ pc = "judging" /\ batch.attempts + 1 < MaxAttempts
    /\ \E charged \in {0, Projected(batch.id)} : Charge(charged)
    /\ batch' = [batch EXCEPT !.attempts = @ + 1]
    /\ UNCHANGED <<diskVars, pc, plan, config, budget, cost, trusted, commands, faults>>

\* _accounted_cost(): the reported cost, and the projection for the attempts before.
Answered(charged) ==
    /\ pc = "judging"
    /\ Charge(charged)
    /\ batch' = [batch EXCEPT !.attempts = @ + 1,
                              !.cost = charged + Projected(batch.id) * batch.attempts]
    /\ pc' = "recording"
    /\ UNCHANGED <<diskVars, plan, config, budget, cost, trusted, commands, faults>>

\* Failed for good, or answered without a cost: every attempt counts in full.
Unanswered ==
    /\ pc = "judging"
    /\ \E charged \in {0, Projected(batch.id)} : Charge(charged)
    /\ batch' = [batch EXCEPT !.attempts = @ + 1,
                              !.cost = Projected(batch.id) * (batch.attempts + 1)]
    /\ pc' = "recording"
    /\ UNCHANGED <<diskVars, plan, config, budget, cost, trusted, commands, faults>>

Judged == Unanswered \/ \E charged \in {0} \cup {Projected(batch.id) + k : k \in 0..1} : Answered(charged)

Unwritten == batch.id.items \ Completed(plan)

\* One record per result, each flushed.
Record ==
    /\ pc = "recording" /\ Unwritten # {}
    /\ file' = [file EXCEPT ![plan] = Append(@,
                   [item |-> Min(Unwritten), batch |-> batch.id, cost |-> batch.cost])]
    /\ UNCHANGED <<synced, torn, inFlight, pc, processVars, historyVars, commands, faults>>

\* Mutant: no fsync after the records.
SyncSkipped ==
    /\ pc = "recording" /\ Unwritten = {}
    /\ cost' = cost + batch.cost
    /\ pc' = "progress"
    /\ UNCHANGED <<diskVars, plan, config, budget, batch, historyVars, commands, faults>>

Sync ==
    /\ pc = "recording" /\ Unwritten = {}
    /\ synced' = [synced EXCEPT ![plan] = Len(file[plan])]
    /\ cost' = cost + batch.cost
    /\ pc' = "progress"
    /\ UNCHANGED <<file, torn, inFlight, plan, config, budget, batch, historyVars, commands, faults>>

\* The metadata lets go of the batch; a run that crossed its cap stops.
Progress ==
    /\ pc = "progress"
    /\ inFlight' = [inFlight EXCEPT ![plan] = NoBatch]
    /\ IF cost > budget.max
       THEN PlanEnds
       ELSE pc' = "batch" /\ batch' = NoWork /\ UNCHANGED <<plan, config, cost, budget>>
    /\ UNCHANGED <<file, synced, torn, historyVars, commands, faults>>

-----------------------------------------------------------------------------
(* Faults                                                                   *)

Fault == faults < MaxFaults /\ faults' = faults + 1

\* Killed, interrupted, or ended by an exception; a line may be half written.
Kill ==
    /\ pc # "idle" /\ Fault
    /\ Exit
    /\ torn' \in {torn} \cup (IF pc = "recording" /\ Unwritten # {}
                              THEN {[torn EXCEPT ![plan] = TRUE]} ELSE {})
    /\ UNCHANGED <<file, synced, inFlight, historyVars, commands>>

\* What no fsync has covered may be gone, from some line on.  The metadata
\* file, written anew, synced and renamed, is taken to survive.
PowerLoss ==
    /\ Fault
    /\ Exit
    /\ \E kept \in [PlanIds -> 0..Items] :
          /\ \A m \in PlanIds : kept[m] \in synced[m]..Len(file[m])
          /\ file' = [m \in PlanIds |-> SubSeq(file[m], 1, kept[m])]
          /\ synced' = kept
          /\ \E cut \in SUBSET {m \in PlanIds : kept[m] < Len(file[m])} :
                torn' = [m \in PlanIds |-> torn[m] \/ m \in cut]
    /\ UNCHANGED <<inFlight, historyVars, commands>>

Step == \/ Load \/ Refuse \/ Exhausted \/ Dispatch \/ Retry \/ Judged
        \/ Record \/ Sync \/ Progress

Next == \/ Step \/ Kill \/ PowerLoss
        \/ \E size \in Sizes, limit \in 1..Items : Command(size, limit)

Spec == Init /\ [][Next]_vars

-----------------------------------------------------------------------------
(* Properties                                                               *)

\* Every unit the provider charged is in the records of a finished batch or in
\* the reservation of one the metadata still names, at every moment a kill or a
\* power loss could choose.
ChargesAreOnDisk ==
    overrun \/ trusted \/ spent <= Existing + SumOf([m \in PlanIds |-> Reserved(inFlight[m])], Plans)

\* All plans and all commands together stay under the cap, retries included, as
\* long as no attempt costs more than projected.
SpendStaysUnderCap == overrun \/ trusted \/ spent <= Cap

\* No row is sent to the same judge again by a later batch or a resumed command.
RowsArePaidOnce == trusted \/ \A m \in PlanIds : paid.again[m] = {}

\* And when the provider did charge too much, nothing more is spent beyond the
\* cap, by the next plan or the next command either.
NothingMoreAboveCap == [][spent > Cap => trusted \/ spent' = spent]_vars

\* judge_run.py:5 says that the run stops before a worst-case retry reservation
\* could cross the paid-run cap: it is crossed only if an attempt costs too much.
StopsBeforeCap == overrun \/ spent <= Cap
=============================================================================
