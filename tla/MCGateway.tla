----------------------------- MODULE MCGateway ------------------------------
(* Prompts for the model checker: two that ask the same, below and at the        *)
(* ceiling, and one above it that brings its context and names its model.      *)
EXTENDS Gateway

Prompt(question, impact, which, attached, role) ==
    [question |-> question, impact |-> impact, model |-> which,
     attached |-> attached, role |-> role]

MCPrompts == {Prompt({}, 0, "auto", FALSE, "customer"),
              Prompt({}, 1, "auto", FALSE, "agent"),
              Prompt({"conditional", "comparative"}, 2, "other", TRUE, "customer")}

Symmetric == Permutations(Requests) \cup Permutations(Sessions)
=============================================================================
