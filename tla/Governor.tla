------------------------------ MODULE Governor ------------------------------
(***************************************************************************)
(* The load governor of gateway/governor.py: a circuit breaker over the    *)
(* observer, and the ladder of states in which the gateway gives up work   *)
(* as its own overhead grows.                                              *)
(*                                                                         *)
(* Times are kept as ages, in units of a tick, and grow no further than    *)
(* the longest the code compares them with. Callers of the breaker ask     *)
(* allow(), are in flight, and report how their call ended.                *)
(***************************************************************************)
EXTENDS Integers, Sequences, FiniteSets, FiniteSetsExt, SequencesExt

CONSTANTS
    FailureThreshold,  \* failure_threshold
    FailureWindow,     \* window_s
    OpenFor,           \* open_for_s
    Window,            \* window: the samples that are kept
    MinSamples,        \* min_samples
    Percent,           \* 95, the rank of the sample that counts
    ThinAt, ShallowAt, ProbeOnlyAt, BypassAt,   \* the ladder
    Overheads,         \* overheads a request may have
    MaxCalls           \* bound: calls of the observer in flight

\* GovernorState, an IntEnum: 0 NORMAL, 1 THIN, 2 SHALLOW, 3 PROBE_ONLY, 4 BYPASS
Normal  == 0
Shallow == 2
Bypass  == 4
States  == Normal..Bypass

\* The p95 at which each degraded state engages.
Threshold == <<ThinAt, ShallowAt, ProbeOnlyAt, BypassAt>>

ASSUME GovernorAssumption ==
    /\ FailureThreshold \in Nat \ {0} /\ FailureWindow \in Nat /\ OpenFor \in Nat \ {0}
    /\ Window \in Nat \ {0} /\ MinSamples \in Nat
    /\ Percent \in 0..100
    /\ Threshold \in [1..Bypass -> Nat]
    /\ \A s, t \in 1..Bypass : s < t => Threshold[s] <= Threshold[t]
    /\ Overheads \subseteq Nat /\ MaxCalls \in Nat

None == -1
NotYet  == -1

VARIABLES
    failures,   \* _failures: their ages, the oldest first
    opened,     \* _opened_at: its age, or None
    probing,    \* _half_open_probe
    calls,      \* calls that were allowed and have not ended
    admitted,   \* history: calls allowed since the breaker opened
    samples,    \* _samples
    state,      \* _state
    calm        \* environment: the overhead of every request from now on

breakerVars == <<failures, opened, probing, calls, admitted>>
ladderVars  == <<samples, state>>
vars        == <<breakerVars, ladderVars, calm>>

Init ==
    /\ failures = <<>> /\ opened = None /\ probing = FALSE
    /\ calls = 0 /\ admitted = 0
    /\ samples = <<>> /\ state = Normal /\ calm = NotYet

-----------------------------------------------------------------------------
(* The breaker                                                              *)

BreakerState ==
    CASE opened = None     -> "closed"
      [] opened \in 0..(OpenFor - 1) -> "open"
      [] OTHER             -> "half_open"

\* (mutant: the probe is not noted)
AllowUnnoted ==
    /\ calls < MaxCalls /\ calls' = calls + 1
    /\ \/ BreakerState = "closed" /\ UNCHANGED <<probing, admitted>>
       \/ BreakerState = "half_open" /\ ~probing
          /\ UNCHANGED probing /\ admitted' = admitted + 1
    /\ UNCHANGED <<failures, opened, ladderVars, calm>>

\* allow() answers True; when it answers False it changes nothing.
Allow ==
    /\ calls < MaxCalls /\ calls' = calls + 1
    /\ \/ BreakerState = "closed" /\ UNCHANGED <<probing, admitted>>
       \/ BreakerState = "half_open" /\ ~probing
          /\ probing' = TRUE /\ admitted' = admitted + 1
    /\ UNCHANGED <<failures, opened, ladderVars, calm>>

Recent(ages) == SelectSeq(ages, LAMBDA a : a <= FailureWindow)

RecordFailure ==
    LET recent == Recent(Append(failures, 0))
    IN  IF Len(recent) >= FailureThreshold
        THEN /\ opened' = 0 /\ failures' = <<>> /\ probing' = FALSE /\ admitted' = 0
        ELSE /\ failures' = recent /\ UNCHANGED <<opened, probing, admitted>>

RecordSuccess ==
    /\ failures' = <<>>
    /\ IF BreakerState = "half_open"
       THEN opened' = None /\ probing' = FALSE /\ admitted' = 0
       ELSE UNCHANGED <<opened, probing, admitted>>

CallFails ==
    /\ calls > 0 /\ calls' = calls - 1 /\ calm = NotYet
    /\ RecordFailure
    /\ UNCHANGED <<ladderVars, calm>>

CallSucceeds ==
    /\ calls > 0 /\ calls' = calls - 1
    /\ RecordSuccess
    /\ UNCHANGED <<ladderVars, calm>>

\* wall_time
Tick ==
    /\ failures' = [i \in DOMAIN failures |-> Min({failures[i] + 1, FailureWindow + 1})]
    /\ opened' = IF opened = None THEN None ELSE Min({opened + 1, OpenFor})
    /\ <<failures', opened'>> # <<failures, opened>>
    /\ UNCHANGED <<probing, calls, admitted, ladderVars, calm>>

-----------------------------------------------------------------------------
(* The ladder                                                               *)

\* round(n / d) of Python: halves go to the even neighbour.
Round(n, d) ==
    LET q == n \div d
        r == 2 * (n % d)
    IN  IF r > d \/ (r = d /\ q % 2 = 1) THEN q + 1 ELSE q

\* The sample at the index that p95 reads from the sorted samples.
P95(s) ==
    LET index == Min({Len(s) - 1, Round(Percent * (Len(s) - 1), 100)})
    IN  CHOOSE v \in Range(s) :
            /\ Cardinality({i \in DOMAIN s : s[i] < v}) <= index
            /\ Cardinality({i \in DOMAIN s : s[i] <= v}) > index

Target(p95) == Max({Normal} \cup {s \in 1..Bypass : p95 >= Threshold[s]})

\* (mutant: the threshold of the state to go to)
WellInsideNext(p95) ==
    4 * p95 <= 3 * (IF state - 1 = Normal THEN 0 ELSE Threshold[state - 1])

\* RECOVERY_MARGIN = 0.75 of the threshold of the current state
WellInside(p95) == 4 * p95 <= 3 * Threshold[state]

\* n samples, and their p95
Reassessed(n, p95) ==
    CASE BreakerState = "open" -> Shallow
      [] BreakerState # "open" /\ n < MinSamples -> state
      [] OTHER ->
            IF Target(p95) > state THEN Target(p95)
            ELSE IF Target(p95) < state /\ WellInside(p95) THEN state - 1
            ELSE state

\* Every request reports its overhead when it ends (app.py).
Observe(overhead) ==
    /\ calm \in {NotYet, overhead}
    /\ \E s \in {IF Len(samples) = Window THEN Tail(samples) ELSE samples} :
          samples' = Append(s, overhead)
    /\ \E s \in {samples'} : \E p95 \in {P95(s)} : state' = Reassessed(Len(s), p95)
    /\ UNCHANGED <<breakerVars, calm>>

\* force: an operator or a drill sets the state.
ForceState(s) ==
    /\ calm = NotYet /\ s # state
    /\ state' = s
    /\ UNCHANGED <<breakerVars, samples, calm>>

\* bypass_action, asked with the impact of a request: fail open below the
\* threshold from which answers are held, and closed at or above it.
BypassAction(impact, holdAbove) == IF impact >= holdAbove THEN "L4_hold" ELSE "L0_pass"

\* The environment: from now on no call fails, nobody forces a state, and every
\* request has the same overhead.
CalmDown(overhead) ==
    /\ calm = NotYet /\ calm' = overhead
    /\ UNCHANGED <<breakerVars, ladderVars>>

Next ==
    \/ Allow \/ CallFails \/ CallSucceeds \/ Tick
    \/ \E x \in Overheads : Observe(x) \/ CalmDown(x)
    \/ \E s \in States : ForceState(s)

\* Time passes, and requests keep coming.
Fairness == WF_vars(Tick) /\ WF_vars(\E x \in Overheads : Observe(x))

Spec == Init /\ [][Next]_vars /\ Fairness

-----------------------------------------------------------------------------
(* Properties                                                               *)

\* From the moment the breaker opens until a success closes it, one call at most
\* is allowed, whatever calls of before are still ending (Breaker.allow).
OneProbePerOpening == admitted <= 1

\* Whatever happened before, a steady overhead leads to one state and stays
\* there: not below the last threshold it reaches, and no higher than recovery
\* can leave it (Governor._reassess, the ladder and its margin).
Settled(s, x) ==
    /\ s < Bypass => x < Threshold[s + 1]
    /\ s > Normal => 4 * x > 3 * Threshold[s]

FollowsSteadyLoad == <>[](calm # NotYet => Settled(state, calm))

\* A half-open breaker that has given away its probe is waiting for a call that
\* is in flight: "thirty seconds later it half-opens and one success closes it".
ProbeIsInFlight == BreakerState = "half_open" /\ probing => calls > 0
=============================================================================
