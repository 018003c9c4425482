------------------------------- MODULE Accounts -----------------------------
(***************************************************************************)
(* The money: interlock/ledger/pricing.py, rework.py, regret.py, the       *)
(* evidence pack, and economics_snapshot of writer.py.                     *)
(*                                                                         *)
(* Amounts are integers of some small unit, confidences are hundredths.    *)
(* The gateway writes no spend rows, so the spend of a request is always   *)
(* imputed from its tokens.  The bootstrap draws at random: its interval   *)
(* is any two means of resamples, in order.                                *)
(***************************************************************************)
EXTENDS Integers, FiniteSets, FiniteSetsExt, SequencesExt

CONSTANTS
    Prices,      \* the price book: [model, prompt, completion], in its order
    Fallback,    \* the price of a model that is not in it
    Strong,      \* the model the routing is compared with
    Models,      \* names a provider may report, as sequences of pieces
    Tokens,      \* tokens of a prompt or a completion
    Savings,     \* what a shadow run may have saved
    Review,      \* what a human review costs
    RetryWindow, \* seconds in which a repeated question is a retry
    Terms,       \* content words of a question
    MaxRequests, \* bound: requests of a ledger
    MaxTurns     \* bound: turns of a session

ASSUME AccountsAssumption ==
    /\ Len(Prices) \in Nat /\ DOMAIN Prices = 1..Len(Prices)
    /\ \A i \in DOMAIN Prices : Prices[i].prompt \in Nat /\ Prices[i].completion \in Nat
    /\ Fallback.prompt \in Nat /\ Fallback.completion \in Nat
    /\ Tokens \subseteq Nat /\ Savings \subseteq Int
    /\ Review \in Nat /\ RetryWindow \in Nat /\ IsFiniteSet(Terms)

VARIABLE account   \* a ledger, a session's turns, a shadow sample or a pack

Total(f) ==
    LET sum[i \in 0..Len(f)] == IF i = 0 THEN 0 ELSE sum[i - 1] + f[i]
    IN  sum[Len(f)]

-----------------------------------------------------------------------------
(* Prices                                                                   *)

\* The exact name, else the first name in the book that it starts with.
PriceFor(model) ==
    LET exact == {i \in DOMAIN Prices : Prices[i].model = model}
        known == {i \in DOMAIN Prices : IsPrefix(Prices[i].model, model)}
    IN  IF exact # {} THEN Prices[Min(exact)] ELSE IF known # {} THEN Prices[Min(known)] ELSE Fallback

Cost(model, r) == PriceFor(model).prompt * r.prompt + PriceFor(model).completion * r.completion

-----------------------------------------------------------------------------
(* The snapshot the console is shown                                        *)

Rework(a) == Total(a.edges)

\* Signed: routing to a dearer model counts against the gateway.
Saved(requests) ==
    Total([i \in DOMAIN requests |-> Cost(Strong, requests[i]) - Cost(requests[i].model, requests[i])])

\* What switching would have saved; a loss counts as nothing.
Regret(a) == Total([i \in DOMAIN a.shadow |-> Max({0, a.shadow[i]})])

Measured(a) == a.requests # <<>> /\ a.shadow # <<>> /\ a.edges # <<>>

NetValue(a) == Saved(a.requests) - Rework(a) - Regret(a)

\* A figure that was not measured is shown as none, and not as zero.
Figure(measured, x) == IF measured THEN <<x>> ELSE <<>>

EconomicsSnapshot(a) ==
    [requests |-> Len(a.requests),
     regret |-> Figure(a.shadow # <<>>, Regret(a)),
     rework |-> Figure(a.edges # <<>>, Rework(a)),
     net |-> Figure(Measured(a), NetValue(a)),
     samples |-> Len(a.requests)]

\* What the console is told of the snapshot: that it may be shown, or what is missing.
EconomicsCapability(snapshot) ==
    LET missing == IF snapshot.requests = 0 THEN {"samples"}
                   ELSE {f \in {"regret", "rework"} : snapshot[f] = <<>>}
    IN  IF missing # {} THEN missing
        ELSE IF snapshot.samples > 0 /\ snapshot.net # <<>> THEN {} ELSE {"samples"}

\* What each request contributes, times the number of requests: regret and
\* rework are shared evenly.
Contributions(a) ==
    [i \in DOMAIN a.requests |->
        Len(a.requests) * (Cost(Strong, a.requests[i]) - Cost(a.requests[i].model, a.requests[i]))
        - Rework(a) - Regret(a)]

\* Sums of resamples of n values: what the means of the bootstrap may be, times n.
Resamples(values) ==
    {Total([i \in DOMAIN values |-> values[pick[i]]]) : pick \in [DOMAIN values -> DOMAIN values]}

\* The interval of the mean contribution, times the square of the requests.
NetInterval(a) ==
    LET means == Resamples(Contributions(a))
    IN  {p \in means \X means : p[1] <= p[2]}

-----------------------------------------------------------------------------
(* Rework: which turns repeat, regenerate or resolve an earlier one         *)

Similar(a, b) ==
    LET both == Cardinality(a \cap b)
    IN  a # {} /\ b # {} /\ 100 * both * both >= 81 * Cardinality(a) * Cardinality(b)

\* From one half at the threshold to 90 for the same words.
RetryConfidence(a, b) == IF a = b THEN 90 ELSE 50

Edge(child, parent, kind, charged) ==
    [child |-> child.id, parent |-> parent.id, kind |-> kind, charged |-> charged]

\* The last turn that raised the hold.
Raiser(turns, hold) ==
    LET raisers == {i \in DOMAIN turns : turns[i].raised = hold}
    IN  IF raisers = {} THEN 0 ELSE Max(raisers)

\* Mutant: a regeneration is looked at as a retry as well.
EdgesOfBoth(turns, i) ==
    LET turn == turns[i]
        last == turns[i - 1]
        raiser == IF turn.resolves = "none" THEN 0 ELSE Raiser(turns, turn.resolves)
        escalated == raiser \notin {0, i}
    IN  (IF escalated THEN {Edge(turn, turns[raiser], "human_escalation", 100 * (turn.cost + Review))} ELSE {})
        \cup (IF ~ escalated /\ i > 1 /\ turn.regenerate THEN {Edge(turn, last, "regenerate", 95 * turn.cost)} ELSE {})
        \cup (IF ~ escalated /\ i > 1 /\ turn.at - last.at <= RetryWindow /\ Similar(turn.words, last.words)
              THEN {Edge(turn, last, "retry", RetryConfidence(turn.words, last.words) * turn.cost)} ELSE {})

\* At most one edge: the resolved hold, else an explicit regeneration, else the
\* same question soon after.  Charges in hundredths.
EdgesOf(turns, i) ==
    LET turn == turns[i]
        last == turns[i - 1]
        raiser == IF turn.resolves = "none" THEN 0 ELSE Raiser(turns, turn.resolves)
    IN  IF raiser \notin {0, i}
        THEN {Edge(turn, turns[raiser], "human_escalation", 100 * (turn.cost + Review))}
        ELSE IF i = 1 THEN {}
        ELSE IF turn.regenerate THEN {Edge(turn, last, "regenerate", 95 * turn.cost)}
        ELSE IF turn.at - last.at <= RetryWindow /\ Similar(turn.words, last.words)
        THEN {Edge(turn, last, "retry", RetryConfidence(turn.words, last.words) * turn.cost)}
        ELSE {}

\* All edges of a session, its turns in order of time.
Attribution(turns) == UNION {EdgesOf(turns, i) : i \in DOMAIN turns}

-----------------------------------------------------------------------------
(* Regret: what the strong tier did not need to cost                        *)

RegretOf(run) == IF run.sufficed THEN Max({0, run.served - run.cheap}) ELSE 0

\* The mean and its interval, both scaled to the population: times the sample.
Estimate(a) ==
    LET regrets == [i \in DOMAIN a.runs |-> RegretOf(a.runs[i])]
        population == Max({a.seen, Len(a.runs)})
        means == Resamples(regrets)
    IN  [total |-> Total(regrets) * population,
         intervals |-> {<<p[1] * population, p[2] * population>> :
                          p \in {m \in means \X means : m[1] <= m[2]}}]

-----------------------------------------------------------------------------
(* The evidence pack                                                        *)

DecisionRows == [loss_table : BOOLEAN, policy_version : BOOLEAN, calib_version : BOOLEAN,
                 inputs_digest : BOOLEAN]

\* What the pack says is missing.  One complaint for a decision's versions.
Missing(rows) ==
    (IF rows.request THEN {} ELSE {"request"})
    \cup (IF rows.decisions = {} THEN {"decisions"}
          ELSE IF \A d \in rows.decisions : d.loss_table THEN {} ELSE {"loss_table"})
    \cup (IF rows.policy THEN {} ELSE {"policy.yaml"})
    \cup (IF rows.calibration THEN {} ELSE {"calibration.json"})
    \cup {IF d.policy_version THEN "calib_version" ELSE "policy_version" :
            d \in {x \in rows.decisions : ~ (x.policy_version /\ x.calib_version)}}

-----------------------------------------------------------------------------
AccountInit ==
    \/ account = [kind |-> "ledger", requests |-> <<>>, shadow |-> <<>>, edges |-> <<>>]
    \/ account = [kind |-> "session", turns |-> <<>>, live |-> {}]
    \/ account = [kind |-> "sample", seen |-> 0, runs |-> <<>>]
    \/ account = [kind |-> "export"]

RecordRequest ==
    /\ account.kind = "ledger" /\ Len(account.requests) < MaxRequests
    /\ \E m \in Models, p, c \in Tokens :
          account' = [account EXCEPT !.requests = Append(@, [model |-> m, prompt |-> p, completion |-> c])]

PersistShadow ==
    /\ account.kind = "ledger" /\ Len(account.shadow) < Len(account.requests)
    /\ \E saved \in Savings : account' = [account EXCEPT !.shadow = Append(@, saved)]

RecordRework ==
    /\ account.kind = "ledger" /\ Len(account.edges) < Len(account.requests) - 1
    /\ \E charged \in Savings : account' = [account EXCEPT !.edges = Append(@, charged)]

\* The gateway compares a turn with the one before, and knows of no hold.
TakeTurn ==
    /\ account.kind = "session" /\ Len(account.turns) < MaxTurns
    /\ \E words \in SUBSET Terms, wait \in {RetryWindow, RetryWindow + 1}, regenerate \in BOOLEAN,
          resolves, raised \in {"none", "h1"} :
          LET n == Len(account.turns)
              at == IF n = 0 THEN wait ELSE account.turns[n].at + wait
              turn == [id |-> n + 1, at |-> at, words |-> words, cost |-> n + 1,
                       regenerate |-> regenerate, resolves |-> resolves, raised |-> raised]
              blind(t) == [t EXCEPT !.resolves = "none", !.raised = "none"]
          IN  account' = [account EXCEPT
                 !.turns = Append(@, turn),
                 !.live = @ \cup (IF n = 0 THEN {} ELSE Attribution(<<blind(account.turns[n]), blind(turn)>>))]

\* A strong-tier request goes by; a sampled one is replayed on the cheap tier.
SeeStrong ==
    /\ account.kind = "sample" /\ account.seen < MaxRequests + 1
    /\ account' = [account EXCEPT !.seen = @ + 1]

RecordShadow ==
    /\ account.kind = "sample" /\ Len(account.runs) < account.seen
    /\ \E served, cheap \in Tokens, sufficed \in BOOLEAN :
          account' = [account EXCEPT
             !.runs = Append(@, [served |-> served, cheap |-> cheap, sufficed |-> sufficed])]

Export ==
    /\ account = [kind |-> "export"]
    /\ \E rows \in [request : BOOLEAN, policy : BOOLEAN, calibration : BOOLEAN,
                    decisions : {D \in SUBSET DecisionRows : Cardinality(D) <= 2}] :
          account' = [kind |-> "pack", rows |-> rows, missing |-> Missing(rows)]

AccountNext ==
    RecordRequest \/ PersistShadow \/ RecordRework \/ TakeTurn \/ SeeStrong \/ RecordShadow \/ Export

-----------------------------------------------------------------------------
(* Properties                                                               *)

\* The point estimate is what the requests contribute together: nothing is
\* counted twice or clipped, all rework and regret is shared out.  A scaled
\* regret lies where its interval, scaled alike, may lie.
EstimatesAddUp ==
    /\ account.kind = "ledger" /\ account.requests # <<>> =>
          Total(Contributions(account)) = Len(account.requests) * NetValue(account)
    /\ account.kind = "sample" /\ account.runs # <<>> =>
          \E i \in Estimate(account).intervals :
             i[1] <= Estimate(account).total /\ Estimate(account).total <= i[2]

\* The console calls the economics available exactly when the net value and all it is
\* made of were measured, and a part that was measured is never reported missing
\* (writer.py economics_snapshot, console_ws.py _economics_capability).
NetValueIsNeverGuessed ==
    account.kind = "ledger" =>
        LET shown == EconomicsSnapshot(account)
            missing == EconomicsCapability(shown)
        IN  /\ missing = {} <=> shown.net # <<>>
            /\ missing = {} => shown.net[1] = Saved(account.requests) - shown.rework[1] - shown.regret[1]
            /\ "regret" \in missing => account.shadow = <<>>
            /\ "rework" \in missing => account.edges = <<>>

\* A turn is charged to one earlier turn at most, never above its own cost and
\* one review; and what the gateway attributed as the turns came, knowing only
\* the turn before, is what the whole session says of every turn that resolves
\* no hold.
ReworkIsChargedOnce ==
    account.kind = "session" =>
        LET edges == Attribution(account.turns)
        IN  /\ \A e, f \in edges : e.child = f.child => e = f
            /\ \A e \in edges : /\ e.charged <= 100 * (account.turns[e.child].cost + Review)
                                /\ e.child # e.parent
                                /\ e.kind # "human_escalation" => e.charged < 100 * account.turns[e.child].cost
                                                                  /\ e.parent + 1 = e.child
            /\ {e \in edges : e.kind # "human_escalation"} \subseteq account.live

\* writer.py, of the net value: clipping "could place a one-sample estimate
\* outside its own confidence interval".  When all requests contribute the same
\* the interval is a point, and the estimate is that point.
EstimateInsideItsInterval ==
    account.kind = "ledger" /\ Measured(account) /\ Cardinality(Range(Contributions(account))) = 1 =>
        LET n == Len(account.requests)
        IN  \A i \in NetInterval(account) : i[1] <= n * n * NetValue(account) /\ n * n * NetValue(account) <= i[2]

\* pricing.py: a version suffix prices as the model it is a version of.
SuffixPricesAsItsModel ==
    account.kind = "ledger" => \A i \in DOMAIN account.requests :
        LET name == account.requests[i].model
            known == {p \in Range(Prices) : IsPrefix(p.model, name)}
        IN  \A p \in known : Len(PriceFor(name).model) >= Len(p.model)

\* evidence.py: "Fields whose absence makes the pack materially weaker.
\* Reported, never fabricated."
RequiredFieldsAreReported ==
    account.kind = "pack" /\ account.missing = {} =>
        \A d \in account.rows.decisions :
            d.loss_table /\ d.policy_version /\ d.calib_version /\ d.inputs_digest

\* The books close: contributions, regret and rework add up, and nothing is
\* charged twice (writer.py economics_snapshot, regret.py, rework.py).
AccountsAddUp == EstimatesAddUp /\ ReworkIsChargedOnce /\ NetValueIsNeverGuessed
=============================================================================
