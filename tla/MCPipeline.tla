----------------------------- MODULE MCPipeline -----------------------------
(***************************************************************************)
(* The parts an answer passes on its way, each on a small instance of its  *)
(* own: the index it is retrieved from, the signals measured on it, the    *)
(* segmenter that cuts it, the decision taken on a sentence, its repair,   *)
(* and the taint of its tool calls.  They share no state: a behaviour runs *)
(* one of them.                                                            *)
(***************************************************************************)
EXTENDS Segmenter, RiskDecision, ToolTaint, Signals, Retrieval, MCRepair

VARIABLE part

Parts == {"segmenter", "risk", "taint", "signals", "retrieval", "repair"}

Others ==
    /\ part # "segmenter"  => UNCHANGED segmenterVars
    /\ part # "risk"       => UNCHANGED riskVars
    /\ part # "taint"      => UNCHANGED taintVars
    /\ part # "signals"    => UNCHANGED seen
    /\ part # "retrieval"  => UNCHANGED retrievalVars
    /\ part # "repair"     => UNCHANGED repairVars
    /\ UNCHANGED part

\* A part that does not run stays in one of its initial states.
PipelineInit ==
    /\ part \in Parts
    /\ SegmenterInit /\ RiskInit /\ TaintInit /\ SignalInit /\ RetrievalInit /\ RepairInit
    /\ part # "segmenter"  => alphabet = CHOOSE a \in Alphabets : TRUE
    /\ part # "retrieval"  => corpus = CHOOSE c \in Corpora : ~LoadCorpus(c)

PipelineNext ==
    \/ part = "segmenter"  /\ SegmenterNext /\ Others
    \/ part = "risk"       /\ RiskNext      /\ Others
    \/ part = "taint"      /\ TaintNext     /\ Others
    \/ part = "signals"    /\ SignalNext    /\ Others
    \/ part = "retrieval"  /\ RetrievalNext /\ Others
    \/ part = "repair"     /\ RepairNext    /\ Others

PipelineSpec == PipelineInit /\ [][PipelineNext]_<<segmenterVars, riskVars, taintVars, seen, retrievalVars, repairVars, part>>

-----------------------------------------------------------------------------
(* The instances                                                            *)

\* A block with text around it needs 8 symbols.
TagAlphabet == {"<", "/", "t", ">"}
MCAlphabets == {TagAlphabet, {"w", ".", "_", "<", "t", ">"}, {"w", "W", "r", "1", ".", "_"}, {"w", ".", "_", "P", "F"}}
MCMaxText   == [a \in MCAlphabets |-> IF a = TagAlphabet THEN 8 ELSE 6]

MCPolicy ==
    [nuisance   |-> [a \in 0..5 |-> IF a = 0 THEN 0 ELSE IF a = 5 THEN 6 ELSE a],
     tokens     |-> [a \in 0..5 |-> IF a \in {2, 3} THEN 2 ELSE 0],
     latency    |-> [a \in 0..5 |-> IF a \in {2, 3, 4} THEN 1 ELSE 0],
     efficacy   |-> [a \in 0..5 |->
        CASE a = 0 -> <<>> [] a = 1 -> [ungrounded |-> 1] [] a = 2 -> [ungrounded |-> 2, contradicted |-> 3]
          [] a = 3 -> [ungrounded |-> 4, contradicted |-> 2] [] a = 4 -> [ungrounded |-> 4, contradicted |-> 4]
          [] a = 5 -> [ungrounded |-> 4, contradicted |-> 4]],
     defect     |-> [ungrounded |-> 1, contradicted |-> 5, unsafe_action |-> 3, canary_leak |-> 4],
     reversibility |-> [reversible |-> 1, costly |-> 2],
     tokenPrice |-> 1, timePrice |-> 1, review |-> 9, deadband |-> 1, scale |-> 3, multiplier |-> 2]

MCPassages == {[label |-> 2, tokens |-> <<"a", "b", "of", "c">>],
               [label |-> 3, tokens |-> <<"c", "a", "of">>],
               [label |-> 4, tokens |-> <<"d">>]}
MCTools == [default |-> [class |-> "irreversible", cap |-> -1], look |-> [class |-> "reversible", cap |-> 5],
            pay |-> [class |-> "costly", cap |-> 5]]
MCCalls == {[tool |-> "look", pieces |-> <<<<"of">>, <<>>>>, arguments |-> <<<< <<"of">> >>>>, amount |-> 6],
            [tool |-> "pay", pieces |-> <<<<"a", "b">>, <<"c">>>>, arguments |-> <<<< <<"a", "b">>, <<"c">> >>>>, amount |-> 5],
            [tool |-> "mail", pieces |-> <<<<"of", "c">>, <<"a">>>>, arguments |-> <<<< <<"of", "c", "a">> >>>>, amount |-> -1]}

MCFigures == {[text |-> "25,000", value |-> 25], [text |-> "25000", value |-> 25], [text |-> "30", value |-> 30]}
MCDomains == [general |-> [impact |-> 1, class |-> "reversible"], fees |-> [impact |-> 3, class |-> "costly"],
              payments |-> [impact |-> 9, class |-> "irreversible"]]
MCBands == [b \in {10, 100} |-> IF b = 10 THEN 6 ELSE 12]

Doc(n, h, ps, p, on) == [doc |-> n, heading |-> h, title |-> "t", paragraphs |-> ps,
    domain |-> "loans", provenance |-> p, listed |-> on, onDisk |-> TRUE]
MCCorpora == {
    << Doc("a", "h", << <<1>>, <<2, 1>>, <<4, 3, 2>> >>, "retrieved_verified", TRUE),
       Doc("b", "h", << <<2>> >>, "retrieved_untrusted", TRUE) >>,
    << Doc("a", "", << <<9>>, <<3, 2, 1, 1>> >>, "retrieved_verified", TRUE),
       Doc("b", "h", <<>>, "retrieved_untrusted", TRUE) >>,
    << Doc("a", "h", << <<1>>, <<1>> >>, "retrieved_verified", TRUE),
       Doc("c", "h", << <<1>> >>, "retrieved_verified", FALSE) >> }
MCEmbedders == { [name |-> "hashing", dim |-> 256, semantic |-> FALSE],
                 [name |-> "bge", dim |-> 384, semantic |-> TRUE] }

=============================================================================
