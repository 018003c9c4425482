------------------------------ MODULE MCRepair ------------------------------
EXTENDS Repair
MCCompletions == SeqOf(Tokens, 4)
MCOriginals == {<<>>, <<"claim">>, <<"certain", "claim", "stop">>, <<"claim", "certain", "claim", "stop">>}
MCClauseLists == {<<10>>, <<30, 10>>, <<10, 30, 40>>}
MCRetrieved == {<<>>, <<[trusted |-> TRUE, blank |-> TRUE], [trusted |-> FALSE, blank |-> FALSE]>>,
    <<[trusted |-> FALSE, blank |-> FALSE], [trusted |-> TRUE, blank |-> FALSE]>>}
=============================================================================
