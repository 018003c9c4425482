------------------------------ MODULE ToolTaint -----------------------------
(***************************************************************************)
(* Which context moved a tool call: interlock/interlock_tools.             *)
(*                                                                         *)
(* A conversation is a run of turns, each a request of its own.  A turn    *)
(* brings retrieved passages with their labels (provenance.py); the model  *)
(* streams tool calls in pieces that interleave (streaming.py); when the   *)
(* stream ends the calls are put together, each is given the taint of what *)
(* influenced it, and the policy's matrix and caps release or hold it      *)
(* (reversibility.py, holds.py).  Tokens stand for the words of passages   *)
(* and arguments.                                                          *)
(***************************************************************************)
EXTENDS Integers, FiniteSets, FiniteSetsExt, SequencesExt

CONSTANTS
    Passages,   \* what retrieval may bring: [label, tokens]
    Tools,      \* the policy's tools: name -> [class, cap], "default" among them
    Calls,      \* what the model may call: see TaintAssumption
    Short,      \* tokens of fewer than four characters
    MaxTurns,   \* bound: turns of the conversation
    MaxCalls,   \* bound: calls of a turn
    MaxPassages \* bound: passages a turn brings

System == 0  User == 1  Verified == 2  Untrusted == 3  External == 4
Labels == System..External
NoAmount == -1
Unnamed  == ""

\* pieces: the wire text of the arguments, as two token sequences; arguments:
\* per argument the strings it flattens to; amount: of the named keys, if any.
ASSUME TaintAssumption ==
    /\ \A p \in Passages : p.label \in Labels
    /\ "default" \in DOMAIN Tools /\ MaxTurns \in Nat \ {0} /\ MaxCalls \in Nat \ {0}
    /\ \A t \in DOMAIN Tools : Tools[t].cap \in Nat \cup {NoAmount}
    /\ \A c \in Calls : c.tool # Unnamed /\ Len(c.pieces) = 2 /\ c.amount \in Nat \cup {NoAmount}

VARIABLES
    turn,      \* the request under way, or NoTurn: what was retrieved and sent
    partials,  \* index -> call under construction
    running,   \* request -> running taint (ToolInterlock._taint)
    judged,    \* the decisions of the turn that is ending
    heard      \* the most tainted label of the conversation (history)

taintVars == <<turn, partials, running, judged, heard>>

NoTurn == [n |-> 0, over |-> TRUE]

TaintInit ==
    turn = NoTurn /\ partials = <<>> /\ running = <<>> /\ judged = <<>> /\ heard = System

-----------------------------------------------------------------------------
(* Putting calls together: streaming.py                                     *)

\* The map f with v at x.
With(f, x, v) == [y \in DOMAIN f \cup {x} |-> IF y = x THEN v ELSE f[y]]

IndexOf(entry) == IF entry.index # -1 THEN entry.index ELSE 0

\* A piece joins the call of its index; a name replaces the name before it,
\* and arguments that come as an object replace what there was of them.
AbsorbOne(entry) ==
    LET i    == IndexOf(entry)
        call == IF i \in DOMAIN partials THEN partials[i] ELSE [name |-> Unnamed, text |-> <<>>]
    IN  With(partials, i,
             [name |-> IF entry.name = Unnamed THEN call.name ELSE entry.name,
              text |-> IF Len(entry.text) = 2 THEN entry.text ELSE call.text \o entry.text])

\* Text that is not the whole of one call's arguments does not parse: the raw
\* text is kept, as the one argument there is.
Parsed(name, text) ==
    LET whole == {c \in Calls : text = <<<<c, 1>>, <<c, 2>>>>}
        raw   == FlattenSeq([k \in DOMAIN text |-> text[k][1].pieces[text[k][2]]])
    IN  IF whole # {} THEN LET c == CHOOSE c \in whole : TRUE
                           IN  [tool |-> name, arguments |-> c.arguments, amount |-> c.amount]
        ELSE [tool |-> name, arguments |-> IF raw = <<>> THEN <<>> ELSE <<<<raw>>>>,
              amount |-> NoAmount]

\* The members of a set of numbers, the k-th smallest at place k.
InOrder(S) == [k \in 1..Cardinality(S) |-> CHOOSE i \in S : Cardinality({j \in S : j < i}) = k - 1]

\* Named calls in the order of their index; what never had a name is only reported.
Assemble ==
    LET named == {i \in DOMAIN partials : partials[i].name # Unnamed}
        order == InOrder(named)
    IN  [k \in DOMAIN order |-> Parsed(partials[order[k]].name, partials[order[k]].text)]

-----------------------------------------------------------------------------
(* Attribution: provenance.py                                               *)

MaxProvenance(labels) == Max(labels \cup {System})

\* As a phrase, whatever its length, or nine tenths of three words or more.
Matches(argument, passage) ==
    /\ argument # <<>>
    /\ ~ (Len(argument) = 1 /\ argument[1] \in Short)
    /\ \/ \E from \in 1..(Len(passage) - Len(argument) + 1) :
             SubSeq(passage, from, from + Len(argument) - 1) = argument
       \/ /\ Len(argument) >= 3
          /\ 10 * Cardinality({k \in DOMAIN argument : argument[k] \in Range(passage)})
                >= 9 * Len(argument)

\* Passages the first traceable string of each argument is found in.
Traced(call, retrieved) ==
    LET Hits(s) == {p \in retrieved : Matches(s, p.tokens)}
        First(a) == SelectInSeq(call.arguments[a], LAMBDA s : Hits(s) # {})
    IN  UNION {IF First(a) = 0 THEN {} ELSE Hits(call.arguments[a][First(a)])
               : a \in DOMAIN call.arguments}

\* Only the labels that end in "untrusted" count as such in tier 2; the
\* highest label present stands in for them.
InfluencingTaint(call, retrieved, prior) ==
    LET traced    == Traced(call, retrieved)
        untrusted == {p \in retrieved : p.label = Untrusted}
        from      == IF traced # {} THEN traced
                     ELSE IF untrusted # {} THEN untrusted ELSE retrieved
    IN  [taint |-> MaxProvenance({p.label : p \in from} \cup {prior}),
         tier  |-> IF traced # {} THEN 1 ELSE 2]

UntrustedFloor == Untrusted

\* A tool nobody has classified is the default one.
ToolOf(name) == IF name \in DOMAIN Tools THEN Tools[name] ELSE Tools["default"]

\* First the cap, whatever the taint; then taint against reversibility.
Allowed(call, taint) ==
    LET tool == ToolOf(call.tool)
    IN  /\ ~ (tool.cap # NoAmount /\ call.amount # NoAmount /\ call.amount > tool.cap)
        /\ tool.class = "reversible" \/ taint < UntrustedFloor

Verdict(call, retrieved, prior) ==
    LET v == InfluencingTaint(call, retrieved, prior)
    IN  [call |-> call, taint |-> v.taint, tier |-> v.tier, allowed |-> Allowed(call, v.taint)]

\* The calls of a turn in order, up to the first that is held.
Judge(calls, retrieved, prior) ==
    LET verdicts == [k \in DOMAIN calls |-> Verdict(calls[k], retrieved, prior)]
        held     == SelectInSeq(verdicts, LAMBDA v : ~ v.allowed)
    IN  IF held = 0 THEN verdicts ELSE SubSeq(verdicts, 1, held)

-----------------------------------------------------------------------------
(* Turns: holds.py and the stream handler of app.py                         *)

Prior(request) == IF request \in DOMAIN running THEN running[request] ELSE System

\* Mutant: what a turn retrieved is not folded in.
ObserveLess(request, retrieved) == With(running, request, Prior(request))

Observe(request, retrieved) ==
    With(running, request, MaxProvenance({p.label : p \in retrieved} \cup {Prior(request)}))

\* A turn begins: context is observed, and the model makes up its calls.  A
\* provider that numbers nothing sends one call.
TurnBegins ==
    /\ turn.n < MaxTurns /\ turn.over
    /\ \E retrieved \in {s \in SUBSET Passages : Cardinality(s) <= MaxPassages},
          sent \in SeqOf(Calls, MaxCalls), numbered \in BOOLEAN :
          /\ Len(sent) > 0 /\ (numbered \/ Len(sent) = 1)
          /\ turn' = [n |-> turn.n + 1, retrieved |-> retrieved, sent |-> sent,
                      numbered |-> numbered, next |-> [i \in DOMAIN sent |-> 0], over |-> FALSE]
          /\ running' = Observe(turn.n + 1, retrieved)
          /\ heard' = MaxProvenance({p.label : p \in retrieved} \cup {heard})
    /\ partials' = <<>>
    /\ UNCHANGED judged

\* The next piece of some call: its name, then its arguments in two pieces or
\* as one object.
DeltaArrives ==
    /\ ~ turn.over /\ judged = <<>>
    /\ \E i \in DOMAIN turn.sent, whole \in BOOLEAN :
          LET k    == turn.next[i]
              last == IF whole THEN 2 ELSE k
          IN
          /\ k < 3 /\ (whole => k = 1)
          /\ partials' = AbsorbOne([index |-> IF turn.numbered THEN i - 1 ELSE -1,
                                    name  |-> IF k = 0 THEN turn.sent[i].tool ELSE Unnamed,
                                    text  |-> IF k = 0 THEN <<>>
                                              ELSE [j \in 1..(last - k + 1) |-> <<turn.sent[i], k + j - 1>>]])
          /\ turn' = [turn EXCEPT !.next[i] = last + 1]
    /\ UNCHANGED <<running, judged, heard>>

\* The stream ends, early perhaps: the calls are judged.
CallsJudged ==
    /\ ~ turn.over /\ judged = <<>> /\ Assemble # <<>>
    /\ judged' = Judge(Assemble, turn.retrieved, Prior(turn.n))
    /\ UNCHANGED <<turn, partials, running, heard>>

\* The request is over and its taint forgotten.
TurnEnds ==
    /\ ~ turn.over
    /\ turn' = [turn EXCEPT !.over = TRUE]
    /\ running' = [r \in DOMAIN running \ {turn.n} |-> running[r]]
    /\ partials' = <<>> /\ judged' = <<>>
    /\ UNCHANGED heard

TaintNext == TurnBegins \/ DeltaArrives \/ CallsJudged \/ TurnEnds

-----------------------------------------------------------------------------
(* Properties                                                               *)

\* The calls that are judged are the calls the model sent, however their
\* pieces interleaved and whether or not they were numbered.
AssemblyIgnoresInterleaving ==
    ~ turn.over /\ (\A i \in DOMAIN turn.next : turn.next[i] = 3) =>
        Assemble = [i \in DOMAIN turn.sent |->
                      [tool |-> turn.sent[i].tool, arguments |-> turn.sent[i].arguments,
                       amount |-> turn.sent[i].amount]]

\* No call is given a label below that of any passage of its turn, traced or
\* not: a match with a trusted passage must not hide the untrusted one beside it.
TaintCoversTheTurn ==
    \A k \in DOMAIN judged : \A p \in turn.retrieved : judged[k].taint >= p.label

\* What is released was safe to release: below the cap of its tool, and
\* reversible unless nothing untrusted was in the room.
ReleaseIsJustified ==
    judged # <<>> /\ (\A k \in DOMAIN judged : judged[k].allowed) =>
        \A k \in DOMAIN judged :
            LET call == judged[k].call
                tool == ToolOf(call.tool)
            IN  /\ tool.cap = NoAmount \/ call.amount <= tool.cap
                /\ \/ tool.class = "reversible"
                   \/ \A p \in turn.retrieved : p.label \notin {Untrusted, External}

\* provenance.py: "Taint does not expire at a turn boundary".
TaintOutlivesTurn == \A k \in DOMAIN judged : judged[k].taint >= heard

\* A tool call is judged as the model sent it and by all that was in the room
\* when it did (streaming.py, provenance.py, reversibility.py together).
CallsAreJudgedWhole == AssemblyIgnoresInterleaving /\ TaintCoversTheTurn /\ ReleaseIsJustified
=============================================================================
