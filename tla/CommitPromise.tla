---------------------------- MODULE CommitPromise ---------------------------
(***************************************************************************)
(* What a commit gate promises the reader of an answer, with no word on    *)
(* how: the sentences are dealt with in order, each reaches the reader at  *)
(* most once, what was passed over never appears later, and when the       *)
(* answer is over nothing more is added.                                   *)
(***************************************************************************)
EXTENDS Naturals

CONSTANT MaxSentences   \* bound: sentences one answer may hold

VARIABLES
    dealt,    \* the sentences 1..dealt have met their fate
    copies,   \* how often the reader has been sent (text for) each sentence
    over      \* the answer has ended

promiseVars == <<dealt, copies, over>>

PromiseInit ==
    /\ dealt = 0
    /\ copies = [i \in 1..MaxSentences |-> 0]
    /\ over = FALSE

\* Some sentences more are dealt with: each is sent once or never.
Deal ==
    /\ ~over
    /\ dealt' \in dealt..MaxSentences
    /\ \E sent \in SUBSET ((dealt + 1)..dealt') :
          copies' = [i \in 1..MaxSentences |-> IF i \in sent THEN 1 ELSE copies[i]]
    /\ over' \in BOOLEAN

PromiseSpec == PromiseInit /\ [][Deal]_promiseVars
=============================================================================
