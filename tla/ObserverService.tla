--------------------------- MODULE ObserverService --------------------------
(***************************************************************************)
(* The observer service: observer/server.py, observer/encoder.py,          *)
(* observer/verifier.py and signals/probe_signal.py.                       *)
(*                                                                         *)
(* Calls are taken in by one event loop, which keeps the contexts it was   *)
(* sent; the scoring of each runs in a thread of its own.  The threads     *)
(* share the cache of premises and the encoder, which the first of them    *)
(* loads behind a double-checked lock.                                     *)
(***************************************************************************)
EXTENDS Integers, FiniteSets, SequencesExt

CONSTANTS
    Observers,  \* calls of POST /v1/observe
    Contexts,   \* retrieved contexts: sets of [text, trusted]
    Room        \* both caches hold this many contexts

NoThread == "nobody"

ASSUME ObserverAssumption ==
    Room \in Nat \ {0} /\ IsFiniteSet(Contexts) /\ NoThread \notin Observers

Fresh == [pc |-> "new", context |-> {}, premise |-> {}, layers |-> FALSE, value |-> "open"]

VARIABLES
    threads,   \* call -> its thread: what it scores and how far it is
    contexts,  \* contexts by key, least recently used first
    premises,  \* <<key, trusted texts>>, likewise
    encoder,   \* which of its fields are assigned, and how often it was loaded
    lock       \* ObserverEncoder._lock

observerVars == <<threads, contexts, premises, encoder, lock>>

ObserverInit ==
    /\ threads = [c \in Observers |-> Fresh]
    /\ contexts = <<>> /\ premises = <<>>
    /\ encoder = [model |-> FALSE, layers |-> FALSE, loads |-> 0]
    /\ lock = NoThread

Goes(c, pc) == threads' = [threads EXCEPT ![c].pc = pc]

\* An error of the scorer is a missing signal; any other degrades the answer.
Fails(c, value) == threads' = [threads EXCEPT ![c].pc = "answer", ![c].value = value]

-----------------------------------------------------------------------------
(* The event loop                                                           *)

\* Mutant: the key is made of the texts alone.
KeyOfText(context) == {f.text : f \in context}

\* The key is made of provenance and text of every fragment.
KeyOf(context) == context

\* move_to_end() of the entry at place k
Used(order, k) == Append(RemoveAt(order, k), order[k])
Trimmed(order) == IF Len(order) > Room THEN Tail(order) ELSE order

\* A call comes in, with its context or with its key alone: unknown keys
\* leave it without a context.
TakeIn(c) ==
    /\ threads[c].pc = "new"
    /\ \E context \in Contexts, sent \in BOOLEAN :
          LET known == context \in Range(contexts)
          IN  /\ contexts' = IF known THEN Used(contexts, CHOOSE k \in DOMAIN contexts : contexts[k] = context)
                             ELSE IF sent /\ context # {} THEN Trimmed(Append(contexts, context))
                             ELSE contexts
              /\ threads' = [threads EXCEPT ![c].pc = "premise",
                             ![c].context = IF known \/ sent THEN context ELSE {}]
    /\ UNCHANGED <<premises, encoder, lock>>

-----------------------------------------------------------------------------
(* The premise, from the cache the threads share                            *)

Trusted(context) == {f.text : f \in {g \in context : g.trusted}}
Cached(key) == {k \in DOMAIN premises : premises[k][1] = key}

\* Without a bundle, or a sentence too short: no score.
NotScored(c) ==
    /\ threads[c].pc = "premise" /\ Fails(c, "none")
    /\ UNCHANGED <<contexts, premises, encoder, lock>>

LookUp(c) ==
    /\ threads[c].pc = "premise"
    /\ LET hits == Cached(KeyOf(threads[c].context))
       IN  threads' = [threads EXCEPT ![c].pc = IF hits = {} THEN "store" ELSE "touch",
                       ![c].premise = IF hits = {} THEN Trusted(threads[c].context)
                                      ELSE premises[CHOOSE k \in hits : TRUE][2]]
    /\ UNCHANGED <<contexts, premises, encoder, lock>>

\* The entry it found may have been evicted since: then move_to_end raises.
Touch(c) ==
    /\ threads[c].pc = "touch"
    /\ LET hits == Cached(KeyOf(threads[c].context))
       IN  IF hits = {} THEN Fails(c, "degraded") /\ UNCHANGED premises
           ELSE /\ premises' = Used(premises, CHOOSE k \in hits : TRUE)
                /\ Goes(c, "load")
    /\ UNCHANGED <<contexts, encoder, lock>>

Store(c) ==
    /\ threads[c].pc = "store"
    /\ premises' = LET key == KeyOf(threads[c].context) IN
                   IF Cached(key) # {} THEN premises
                   ELSE Append(premises, <<key, threads[c].premise>>)
    /\ Goes(c, "measure")
    /\ UNCHANGED <<contexts, encoder, lock>>

Measure(c) ==
    /\ threads[c].pc = "measure"
    /\ Goes(c, IF Len(premises) > Room THEN "evict" ELSE "load")
    /\ UNCHANGED <<contexts, premises, encoder, lock>>

Evict(c) ==
    /\ threads[c].pc = "evict"
    /\ IF premises = <<>> THEN Fails(c, "degraded") /\ UNCHANGED premises
       ELSE premises' = Tail(premises) /\ Goes(c, "load")
    /\ UNCHANGED <<contexts, encoder, lock>>

-----------------------------------------------------------------------------
(* The encoder, loaded by the first that needs it                           *)

\* Nothing trusted, nothing to compare with; else the check without the lock.
CheckLoaded(c) ==
    /\ threads[c].pc = "load"
    /\ IF threads[c].premise = {} THEN Fails(c, "none")
       ELSE Goes(c, IF encoder.model THEN "prepare" ELSE "wait")
    /\ UNCHANGED <<contexts, premises, encoder, lock>>

\* Another thread won the race.
Won == encoder.model

LockToLoad(c) ==
    /\ threads[c].pc = "wait" /\ lock = NoThread
    /\ IF Won THEN Goes(c, "prepare") /\ UNCHANGED lock
       ELSE lock' = c /\ Goes(c, "loading")
    /\ UNCHANGED <<contexts, premises, encoder>>

\* The model is assigned, and with it load() is over for everyone else ...
Load(c) ==
    /\ threads[c].pc = "loading"
    /\ encoder' = [encoder EXCEPT !.model = TRUE, !.loads = @ + 1]
    /\ Goes(c, "loaded")
    /\ UNCHANGED <<contexts, premises, lock>>

\* ... and then the number of its layers.
Finish(c) ==
    /\ threads[c].pc = "loaded"
    /\ encoder' = [encoder EXCEPT !.layers = TRUE]
    /\ lock' = NoThread /\ Goes(c, "prepare")
    /\ UNCHANGED <<contexts, premises>>

\* Mutant: the lock is not given back.
LoadFailsLocked(c) ==
    /\ threads[c].pc = "loading"
    /\ Fails(c, "failed")
    /\ UNCHANGED <<contexts, premises, encoder, lock>>

\* No weights, no memory: a missing signal, and the next call tries again.
LoadFails(c) ==
    /\ threads[c].pc = "loading"
    /\ lock' = NoThread /\ Fails(c, "failed")
    /\ UNCHANGED <<contexts, premises, encoder>>

\* The lists for the layers are made before the lock is taken.
Prepare(c) ==
    /\ threads[c].pc = "prepare"
    /\ threads' = [threads EXCEPT ![c].pc = "encode", ![c].layers = encoder.layers]
    /\ UNCHANGED <<contexts, premises, encoder, lock>>

\* The forward pass: with lists for no layers it raises.
Encode(c) ==
    /\ threads[c].pc = "encode" /\ lock = NoThread
    /\ Fails(c, IF threads[c].layers THEN "scored" ELSE "failed")
    /\ UNCHANGED <<contexts, premises, encoder, lock>>

\* Claims, when asked for and a verifier is there, and the answer: always 200.
Answer(c) ==
    /\ threads[c].pc = "answer"
    /\ Goes(c, "done")
    /\ UNCHANGED <<contexts, premises, encoder, lock>>

Works(c) ==
    \/ NotScored(c) \/ LookUp(c) \/ Touch(c) \/ Store(c) \/ Measure(c) \/ Evict(c)
    \/ CheckLoaded(c) \/ LockToLoad(c) \/ Load(c) \/ Finish(c) \/ LoadFails(c)
    \/ Prepare(c) \/ Encode(c) \/ Answer(c)

ObserverNext == \E c \in Observers : TakeIn(c) \/ Works(c)

\* Threads run to their end; whether anybody calls is not the service's business.
ObserverFairness == \A c \in Observers : WF_observerVars(Works(c))

-----------------------------------------------------------------------------
(* Properties                                                               *)

\* What a sentence is compared with is the trusted part of its own context,
\* also when the same texts were cached under another trust.
PremiseIsTrusted ==
    \A c \in Observers :
        threads[c].pc \notin {"new", "premise"} =>
            threads[c].value = "none" \/ threads[c].premise = Trusted(threads[c].context)

\* However many threads find the encoder missing, it is loaded once.
LoadedOnce == encoder.loads <= 1

\* A call that was taken in is answered, whatever fails in the others.
EveryObservationEnds ==
    \A c \in Observers : threads[c].pc # "new" ~> threads[c].pc = "done"

\* encoder.py: "Safe to call repeatedly."  A call that found the encoder
\* loaded does not fail.
LoadIsSafeToRepeat ==
    \A c \in Observers : threads[c].pc = "encode" => threads[c].layers

\* What requests share, the two caches and the encoder, serves each as if it
\* were alone (server.py context_for, probe_signal.py _premise, encoder.py load).
SharedStateIsSound == PremiseIsTrusted /\ LoadedOnce
=============================================================================
