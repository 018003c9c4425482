----------------------------- MODULE JudgeCall -----------------------------
(***************************************************************************)
(* One batch at the paid judge, and what is kept of it: OpenRouterJudge in *)
(* interlock/eval/openrouter_judge.py, with the records judge_run.py makes *)
(* of its results and the checks it makes when it reads them again.        *)
(* JudgeRun has the audit around it, in which an answered batch is one     *)
(* step.                                                                   *)
(*                                                                         *)
(* Items are numbers.  Money is in whole units; an attempt that is made    *)
(* costs at most Projected.                                                *)
(***************************************************************************)
EXTENDS Integers, FiniteSets, SequencesExt, FiniteSetsExt

CONSTANTS
    BatchItems,  \* items of the batch: a set of numbers
    Attempts,    \* max_attempts
    Projected,   \* projected_single_attempt
    Wordings,    \* what the judge may say of an item: label, and whether the rest is in order
    MaxEntries   \* bound: entries in the judge's list

Unknown == -1
Other   == 0                                      \* an item nobody asked about
Absent  == "none"                                 \* no label; no ending yet
Taxonomy == {"clean", "ungrounded", "contradicted"}   \* _VALID_LABELS

ASSUME JudgeCallAssumption ==
    /\ BatchItems \subseteq Nat \ {0} /\ BatchItems # {}
    /\ Attempts \in 1..5 /\ Projected \in Nat /\ MaxEntries \in Nat
    /\ Wordings \subseteq [label : STRING, confident : BOOLEAN, reasoned : BOOLEAN]

VARIABLE call   \* the call to judge(): attempts made, how the earlier and the last one ended

CallInit ==
    call = [stage |-> "posting", attempts |-> 0, earlier |-> {}, last |-> Absent, charged |-> 0,
            delay |-> 0, usage |-> [cost |-> Unknown, worth |-> 0], list |-> <<>>,
            results |-> <<>>, records |-> {}]

-----------------------------------------------------------------------------
(* Responses of the provider                                                *)

Entries == [id : BatchItems \cup {Other}, what : Wordings]
Lists   == UNION {[1..n -> Entries] : n \in 0..MaxEntries}

\* How an attempt may end: in the transport, with an HTTP error, with an envelope
\* that is no completion, or with a completion that is cut, refused, no JSON or a list.
Transient == {"timeout", "429", "5xx"}
Answered  == {"length", "refusal", "prose", "list"}
Endings   == Transient \cup Answered \cup {"transport", "400", "401", "garbled"}

\* Usage may report a cost, tokens that are worth more than projected, or nothing.
Usages == {[cost |-> c, worth |-> 0] : c \in {0, Projected}} \cup {[cost |-> Unknown, worth |-> w] : w \in {0, Projected + 1}}

\* Retry-After is absent (or no number), or a number of seconds.
Waits == {Unknown, 0 - 5, 7, 90}

-----------------------------------------------------------------------------
(* judge()                                                                  *)

Failed(status) == [status |-> status, label |-> Absent, confident |-> FALSE, reasoned |-> FALSE, error |-> TRUE]

\* What fails the whole batch, and the status each of its items gets.
Failure == [e \in Endings \ {"list"} |->
               CASE e = "timeout" -> "timeout"
                 [] e \in {"transport", "garbled", "400", "5xx"} -> "provider_error"
                 [] e = "401"     -> "auth_error"
                 [] e = "429"     -> "rate_limited"
                 [] e = "length"  -> "truncated"
                 [] e = "refusal" -> "refused"
                 [] e = "prose"   -> "invalid_json"]

\* The confidence is a number from 0 to 1, and there is a reason.
WellFormed(w) == w.confident /\ w.reasoned

\* The first entry for an item counts.
Judgment(i, list) ==
    LET k == SelectInSeq(list, LAMBDA e : e.id = i)
        w == list[k].what
    IN  CASE k = 0 -> Failed("missing_item")
          [] k # 0 /\ w.label \notin Taxonomy -> [Failed("invalid_label") EXCEPT !.reasoned = w.reasoned]
          [] k # 0 /\ w.label \in Taxonomy /\ ~ WellFormed(w) ->
                [Failed("invalid_result") EXCEPT !.reasoned = w.reasoned]
          [] OTHER -> [status |-> "valid", label |-> w.label, confident |-> TRUE,
                       reasoned |-> TRUE, error |-> FALSE]

\* Mutant: a list that was cut off is read as far as it came.
ResultsOfCut(ending, list) ==
    [i \in BatchItems |-> IF ending \in {"list", "length"} THEN Judgment(i, list) ELSE Failed(Failure[ending])]

ResultsOf(ending, list) ==
    [i \in BatchItems |-> IF ending = "list" THEN Judgment(i, list) ELSE Failed(Failure[ending])]

\* Retry-After within bounds, else two to the number of the attempt; the jitter
\* is left out.
BackoffDelay(attempt, wait) ==
    IF wait = Unknown THEN <<1, 2, 4, 8, 16>>[attempt + 1] ELSE Min({30, Max({0, wait})})

\* One attempt: sent, perhaps charged, and answered or not.
Post ==
    /\ call.stage = "posting"
    /\ \E ending \in Endings, charge \in 0..Projected :
       \E usage \in IF ending \in Answered THEN Usages ELSE {[cost |-> Unknown, worth |-> 0]},
          list  \in IF ending \in {"list", "length"} THEN Lists ELSE {<<>>},
          wait  \in IF ending \in {"429", "5xx"} THEN Waits ELSE {Unknown} :
          LET n     == call.attempts + 1
              again == ending \in Transient /\ n < Attempts
          IN  /\ usage.cost # Unknown => charge = usage.cost
              /\ call' = [call EXCEPT !.attempts = n, !.last = ending, !.charged = @ + charge,
                            !.earlier = IF again THEN @ \cup {ending} ELSE @,
                            !.usage   = usage,
                            !.list    = list,
                            !.stage   = IF again THEN "sleeping" ELSE "judged",
                            !.delay   = IF again THEN BackoffDelay(n - 1, wait) ELSE 0,
                            !.results = IF again THEN <<>> ELSE ResultsOf(ending, list)]

Sleep ==
    /\ call.stage = "sleeping"
    /\ call' = [call EXCEPT !.stage = "posting", !.delay = 0]

-----------------------------------------------------------------------------
(* The records: run_judgments() and _validate_record()                      *)

\* A reported cost is one of the last attempt only: the others at their worst.
AccountedCost(usage, attempts) ==
    IF usage.cost # Unknown THEN usage.cost + Projected * (attempts - 1)
    ELSE Max({usage.worth, Projected}) * attempts

WriteRecords ==
    /\ call.stage = "judged"
    /\ call' = [call EXCEPT !.stage = "recorded",
                  !.records = {[item |-> i, result |-> call.results[i], attempts |-> call.attempts,
                                cost |-> call.usage.cost,
                                accounted |-> AccountedCost(call.usage, call.attempts)] :
                               i \in BatchItems}]

\* What a resumed run accepts; it refuses the whole file for one that it does not.
Acceptable(record) ==
    LET r == record.result
    IN  /\ r.status \in {"valid", "invalid_label", "invalid_result", "missing_item"}
                         \cup {Failure[e] : e \in DOMAIN Failure}
        /\ r.status = "valid" => r.label \in Taxonomy /\ r.confident /\ r.reasoned /\ ~ r.error
        /\ r.status # "valid" => r.label = Absent /\ ~ r.confident /\ r.error
        /\ record.cost # Unknown => record.cost >= 0
        /\ record.attempts >= 1 /\ record.accounted >= 0

CallNext == Post \/ Sleep \/ WriteRecords

-----------------------------------------------------------------------------
(* Properties                                                               *)

\* "Reporting code never mistakes malformed output for a clean label": an item
\* has a label exactly when the last response was a whole answer, not refused,
\* whose first word on that item was well formed, and that word is the label.
LabelsAreTheJudges ==
    call.stage \in {"judged", "recorded"} =>
        LET Said(i, l) == \E k \in DOMAIN call.list :
                             /\ call.list[k].id = i
                             /\ call.list[k].what = [label |-> l, confident |-> TRUE, reasoned |-> TRUE]
                             /\ \A j \in 1..(k - 1) : call.list[j].id # i
        IN  \A i \in BatchItems : \A l \in Taxonomy :
                call.results[i].label = l <=> call.last = "list" /\ Said(i, l)

\* Only what may pass is tried again, at most Attempts times, and never after
\* an answer that may have been charged and read.
RetriesAreForTransients ==
    /\ call.earlier \subseteq Transient
    /\ call.attempts <= Attempts /\ call.delay \in 0..30
    /\ call.stage = "judged" /\ call.last \in Transient => call.attempts = Attempts

\* What is accounted for a batch is never less than what its attempts were charged.
ChargesAreAccounted ==
    \A r \in call.records : call.charged <= r.accounted

\* Whatever the provider sent, the run can be resumed from what was written.
RecordsAreReadable == \A r \in call.records : Acceptable(r)

\* The judge's transport (openrouter_judge.py, judge_run.py): one judgment per
\* item and only where the judge gave one, paid for in the books.
JudgmentsAreSound ==
    /\ LabelsAreTheJudges /\ RetriesAreForTransients /\ ChargesAreAccounted /\ RecordsAreReadable
=============================================================================
