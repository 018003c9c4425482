---------------------------- MODULE MCBackground ----------------------------
(***************************************************************************)
(* The parts that run beside the answers, each on a small instance of its  *)
(* own: the load governor and its breaker, the observer service, the       *)
(* monitors of Lane C, the accounts drawn up from the ledger, the fitting  *)
(* of the calibrators, the evaluation that selects a policy, a batch at    *)
(* the paid judge, and the console's websocket.  They share no state: a    *)
(* behaviour runs one of them.                                             *)
(***************************************************************************)
EXTENDS Governor, ObserverService, LaneC, Accounts, Calibration, JudgeCall, ConsoleProxy, Evaluation

VARIABLE part

backgroundVars == <<vars, observerVars, lane, account, calibrationVars, call, relay, evalVars, part>>

Others ==
    /\ part # "governor" => UNCHANGED vars
    /\ part # "observer" => UNCHANGED observerVars
    /\ part # "lane"     => UNCHANGED lane
    /\ part # "accounts" => UNCHANGED account
    /\ part # "calibration" => UNCHANGED calibrationVars
    /\ part # "judge"    => UNCHANGED call
    /\ part # "console"  => UNCHANGED relay
    /\ part # "evaluation" => UNCHANGED evalVars
    /\ UNCHANGED part

\* A part that does not run stays in one of its initial states.
BackgroundInit ==
    /\ part \in {"governor", "observer", "lane", "accounts", "calibration", "judge", "console", "evaluation"}
    /\ Init /\ ObserverInit /\ LaneInit /\ AccountInit /\ CalibrationInit /\ CallInit /\ RelayInit /\ EvalInit
    /\ part # "lane" => lane.kind = "question"
    /\ part # "accounts" => account.kind = "export"
    /\ part # "console"  => relay.origin = <<>> /\ relay.scheme = "ws"
    /\ part # "evaluation" => domainOf = CHOOSE f \in [Documents -> DocDomains] : TRUE

BackgroundNext ==
    \/ part = "governor" /\ Next         /\ Others
    \/ part = "observer" /\ ObserverNext /\ Others
    \/ part = "lane"     /\ LaneNext     /\ Others
    \/ part = "accounts" /\ AccountNext  /\ Others
    \/ part = "calibration" /\ CalibrationNext /\ Others
    \/ part = "judge"    /\ CallNext     /\ Others
    \/ part = "console"  /\ RelayNext    /\ Others
    \/ part = "evaluation" /\ EvalNext   /\ Others

\* Governor's Fairness, ObserverFairness and RelayFairness, for the part that runs.
BackgroundFairness ==
    /\ WF_vars(part = "governor" /\ Tick)
    /\ WF_vars(part = "governor" /\ \E x \in Overheads : Observe(x))
    /\ \A c \in Observers : WF_observerVars(part = "observer" /\ Works(c))
    /\ WF_relay(part = "console" /\ Handler)
    /\ \A p \in Peers : WF_relay(part = "console" /\ Pump(p))

BackgroundSpec == BackgroundInit /\ [][BackgroundNext]_backgroundVars /\ BackgroundFairness

\* What was begun ends: an observation with its lock released and its model loaded
\* or failed, a relay with both its connections closed and nothing left unread
\* (observer_service.py, console/app.py).
WorkEnds == EveryObservationEnds /\ EveryRelayEnds

-----------------------------------------------------------------------------
(* The instances                                                            *)

MCContexts == {{}, {[text |-> "a", trusted |-> TRUE]}, {[text |-> "a", trusted |-> FALSE]}}

MCWords == {<<"he">>, <<"s", "he">>, <<"me">>}
MCAnswers == [grants : BOOLEAN, refuses : BOOLEAN, amounts : {<<>>, <<1>>}, percentages : {<<9>>},
              hedges : {0, 2}, action : {"L0_pass"}]
             \cup [grants : {TRUE}, refuses : {FALSE}, amounts : {<<>>}, percentages : {<<>>, <<9>>},
                   hedges : {1}, action : {"L0_pass", "L4_hold"}]

MCPrices == <<[model |-> <<"small">>, prompt |-> 1, completion |-> 2],
              [model |-> <<"large">>, prompt |-> 2, completion |-> 6],
              [model |-> <<"large", "mini">>, prompt |-> 1, completion |-> 1]>>
MCFallback == [model |-> <<>>, prompt |-> 2, completion |-> 7]
MCStrong == <<"large">>
MCWordings == {[label |-> "clean", confident |-> TRUE, reasoned |-> TRUE],
               [label |-> "contradicted", confident |-> TRUE, reasoned |-> TRUE],
               [label |-> "clean", confident |-> FALSE, reasoned |-> TRUE],
               [label |-> "unsafe_action", confident |-> TRUE, reasoned |-> FALSE]}

MCOrigins == {<<>>, <<"http", "console">>, <<"https", "console">>, <<"http", "elsewhere">>}

MCModels == {<<"small">>, <<"large">>, <<"large", "mini", "2024">>, <<"other">>}

MCCounts == [clean |-> 1, missing_retrieval |-> 1, poisoned_document |-> 1,
             canary_pii |-> 1, demographic_twin |-> 0, agent_loop |-> 0]
=============================================================================
