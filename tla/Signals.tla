------------------------------- MODULE Signals ------------------------------
(***************************************************************************)
(* The deterministic detectors: interlock/signals.                         *)
(*                                                                         *)
(* grounding.py compares one sentence with the retrieved passages;         *)
(* stakes.py prices a request; canary.py looks for planted tokens and      *)
(* injection.py distrusts passages; pii.py checks the digits of            *)
(* identifiers.  All are functions of what they read, so a state of this   *)
(* module is one thing read and what the detector made of it.  Two keep    *)
(* something between calls: the register of canaries, whose matcher is     *)
(* rebuilt when it is out of date, and a number whose digits are read.     *)
(***************************************************************************)
EXTENDS Integers, FiniteSets, FiniteSetsExt, SequencesExt

CONSTANTS
    Figures,     \* figures as written: [text, value]
    Clauses,     \* clause numbers
    Words,       \* content words
    Domains,     \* policy domains: name -> [impact, class], "general" among them
    Bands,       \* monetary bands of the policy: amount -> multiplier, in quarters
    Amounts,     \* rupees a message may mention; 0 is none
    ToolClasses, \* the policy's reversibility of each tool
    Canaries     \* tokens that can be registered

ClassOrder == <<"reversible", "costly", "irreversible">>

\* Bands multiply by at least one, and by more the larger the amount.
ASSUME SignalsAssumption ==
    /\ Amounts \subseteq Nat /\ ToolClasses \subseteq Range(ClassOrder)
    /\ "general" \in DOMAIN Domains
    /\ \A d \in DOMAIN Domains : Domains[d].impact \in Nat /\ Domains[d].class \in Range(ClassOrder)
    /\ DOMAIN Bands \subseteq Nat
    /\ \A b \in DOMAIN Bands : Bands[b] \in Nat /\ Bands[b] >= 4
    /\ \A b, c \in DOMAIN Bands : b <= c => Bands[b] <= Bands[c]

VARIABLE seen   \* what a detector read and what it made of it

Unseen == [kind |-> "nothing"]

SignalInit == seen = Unseen

-----------------------------------------------------------------------------
(* Grounding: one sentence against its context                               *)

\* A figure or a clause makes a claim, however the sentence opens.
ClaimBearing(s) ==
    \/ s.figures # <<>> \/ s.clauses # <<>>
    \/ ~ s.asks /\ ~ s.procedural /\ Len(s.words) + s.hedges >= 4

\* Mutant: every passage must have it.
FoundInAll(figure, context) ==
    \A p \in context : \E f \in p.figures : f = figure \/ f.value = figure.value

\* As written or by value: 25,000 and 25000, 25.0 and 25.
Found(figure, context) ==
    \E p \in context : \E f \in p.figures : f = figure \/ f.value = figure.value

\* Shares of what the sentence says that no passage does, as <<part, whole>>.
Share(said, known) == <<Cardinality({i \in DOMAIN said : said[i] \notin known}), Len(said)>>

NumericUnsupported(s, context)  == Share(s.figures, {f \in Range(s.figures) : Found(f, context)})
CitationUnsupported(s, context) == Share(s.clauses, UNION {p.clauses : p \in context})
ContentUnsupported(s, context)  == Share(s.words, UNION {p.words : p \in context})

Values(p) == {f.value : f \in p.figures}

\* Pairs of passages of one domain whose figures differ, out of all such pairs.
ContextConflict(context) ==
    LET pairs == {pair \in kSubset(2, {p \in context : p.figures # {}}) :
                    \A p, q \in pair : p.domain = q.domain}
    IN  <<Cardinality({pair \in pairs : \E p, q \in pair : Values(p) # Values(q)}),
          Cardinality(pairs)>>

QuestionDrift(question, s) ==
    <<Cardinality(question \ Range(s.words)), Cardinality(question)>>

Hedged(s) == Min({3, s.hedges})     \* in thirds

\* A sentence that claims nothing has nothing to be unsupported.
GroundingSignals(s, context, question) ==
    LET bearing == ClaimBearing(s)
        Unless(share) == IF bearing THEN share ELSE <<0, 0>>
    IN  [bearing |-> bearing, numeric |-> Unless(NumericUnsupported(s, context)),
         citation |-> Unless(CitationUnsupported(s, context)),
         content |-> Unless(ContentUnsupported(s, context)),
         conflict |-> ContextConflict(context), drift |-> Unless(QuestionDrift(question, s)),
         confidence |-> 3 - Hedged(s)]

Statements ==
    [figures : SeqOf(Figures, 1), clauses : SeqOf(Clauses, 1), words : SeqOf(Words, 2),
     hedges : {0, 4}, procedural : BOOLEAN, asks : BOOLEAN]

PassagesOf(domains) ==
    [figures : {F \in SUBSET Figures : Cardinality(F) <= 1}, clauses : {{}, Clauses},
     words : {{w} : w \in Words}, domain : domains]

Score ==
    /\ seen = Unseen
    /\ \E s \in Statements, p \in PassagesOf({"fees"}), question \in {{}, Words} :
       \E context \in {{}, {p}} :
          seen' = [kind |-> "sentence", s |-> s, context |-> context, question |-> question,
                   scores |-> GroundingSignals(s, context, question)]

-----------------------------------------------------------------------------
(* Stakes: what a wrong answer may cost                                     *)

Rank(class) == CHOOSE k \in DOMAIN ClassOrder : ClassOrder[k] = class

\* The highest band the amount clears, in quarters.
Multiplier(amount) ==
    LET cleared == {b \in DOMAIN Bands : amount >= b}
    IN  IF cleared = {} THEN 4 ELSE Bands[Max(cleared)]

Roles == <<"customer", "agent", "underwriter", "admin">>
RoleTenths(role) == CASE role = "customer" -> 10 [] role = "agent" -> 12
                      [] role = "underwriter" -> 15 [] role = "admin" -> 20

\* The last user message decides the amount, and if it has none all the text.
LargestAmount(r) == IF r.asked > 0 THEN r.asked ELSE r.elsewhere

\* The domain of most retrieved documents, else of the keywords, else general.
Alike(domains, i) == Cardinality({j \in DOMAIN domains : domains[j] = domains[i]})

DomainOf(retrieved, keyword) ==
    LET most == {i \in DOMAIN retrieved : \A j \in DOMAIN retrieved : Alike(retrieved, i) >= Alike(retrieved, j)}
    IN  IF retrieved # <<>> THEN retrieved[Min(most)]
        ELSE IF keyword # "none" THEN keyword ELSE "general"

Domain(r) == DomainOf(r.retrieved, r.keyword)

WorstClass(entry, tools) == Max(tools \cup {entry})

\* Domain, amount, tools, role and depth; impact in 1/160 rupees.
Estimate(r) ==
    LET entry == Domains[Domain(r)]
        tools == {Rank(c) : c \in r.tools}
    IN  [impact |-> entry.impact * Multiplier(LargestAmount(r)) * RoleTenths(r.role)
                       * (IF r.depth >= 3 THEN 5 ELSE 4),
         class  |-> WorstClass(Rank(entry.class), tools),
         confidence |-> IF Len(r.retrieved) >= 2 THEN 90 ELSE IF r.retrieved # <<>> THEN 75
                        ELSE IF r.keyword # "none" THEN 55 ELSE 25]

StakesRequests ==
    [asked : Amounts, elsewhere : Amounts, retrieved : SeqOf(DOMAIN Domains, 2),
     keyword : {"none"} \cup DOMAIN Domains, tools : SUBSET ToolClasses,
     role : Range(Roles), depth : 2..3]

Price ==
    /\ seen = Unseen
    /\ \E r \in StakesRequests : seen' = [kind |-> "request", r |-> r, stakes |-> Estimate(r)]

-----------------------------------------------------------------------------
(* Canaries: the register and its matcher                                   *)

Register == [kind |-> "register", planted |-> {}, matcher |-> {}, dirty |-> TRUE]

OpenRegister == seen = Unseen /\ seen' = Register

Registered(register, canary) == [register EXCEPT !.planted = @ \cup {canary}, !.dirty = TRUE]

RegisterCanary ==
    /\ seen.kind = "register"
    /\ \E c \in Canaries \ seen.planted : seen' = Registered(seen, c)

\* Generated text is scanned: the matcher is rebuilt first when it must be.
\* Any tenant's canary in the text is an L5 stop.
ScanEgress ==
    /\ seen.kind = "register" /\ seen.planted # {}
    /\ seen' = [seen EXCEPT !.matcher = IF seen.dirty THEN seen.planted ELSE @, !.dirty = FALSE]

-----------------------------------------------------------------------------
(* Injection: every passage is looked at on its own                         *)

\* What a passage may show, and how much it weighs, in hundredths.
Weight == [instruction_override |-> 95, role_reassignment |-> 75, exfiltration |-> 90,
           exfiltration_url |-> 85, authority_claim |-> 60, secret_disclosure |-> 90,
           compliance_bait |-> 70, hidden_text |-> 80, invisible_characters |-> 70]

Doubtful == 3     \* retrieved_untrusted in system < user < verified < untrusted < external

\* The heaviest signature, and a little for each of the others.
InjectionScore(found) ==
    IF found = {} THEN 0
    ELSE Min({100, Max({Weight[f] : f \in found}) + 5 * (Cardinality(found) - 1)})

\* At the threshold or above, every label but system's becomes untrusted.
Distrusted(label, found) ==
    IF InjectionScore(found) >= 60 /\ label # 0 THEN Doubtful ELSE label

Distrust ==
    /\ seen = Unseen
    /\ \E label \in 0..4, found \in {F \in SUBSET DOMAIN Weight : Cardinality(F) <= 2} :
          seen' = [kind |-> "passage", label |-> label, found |-> found,
                   flagged |-> InjectionScore(found) >= 60, relabelled |-> Distrusted(label, found)]

-----------------------------------------------------------------------------
(* Checksums: pii.py                                                        *)

DTable == <<<<0, 1, 2, 3, 4, 5, 6, 7, 8, 9>>, <<1, 2, 3, 4, 0, 6, 7, 8, 9, 5>>,
            <<2, 3, 4, 0, 1, 7, 8, 9, 5, 6>>, <<3, 4, 0, 1, 2, 8, 9, 5, 6, 7>>,
            <<4, 0, 1, 2, 3, 9, 5, 6, 7, 8>>, <<5, 9, 8, 7, 6, 0, 4, 3, 2, 1>>,
            <<6, 5, 9, 8, 7, 1, 0, 4, 3, 2>>, <<7, 6, 5, 9, 8, 2, 1, 0, 4, 3>>,
            <<8, 7, 6, 5, 9, 3, 2, 1, 0, 4>>, <<9, 8, 7, 6, 5, 4, 3, 2, 1, 0>>>>

PTable == <<<<0, 1, 2, 3, 4, 5, 6, 7, 8, 9>>, <<1, 5, 7, 6, 2, 8, 3, 0, 9, 4>>,
            <<5, 8, 0, 3, 7, 9, 6, 1, 4, 2>>, <<8, 9, 1, 6, 0, 4, 3, 5, 2, 7>>,
            <<9, 4, 5, 3, 1, 2, 6, 8, 7, 0>>, <<4, 2, 8, 6, 5, 7, 3, 9, 0, 1>>,
            <<2, 7, 9, 3, 8, 0, 6, 4, 1, 5>>, <<7, 0, 4, 6, 9, 1, 3, 2, 5, 8>>>>

\* One digit more, from the right.
Verhoeff(checksum, position, digit) ==
    DTable[checksum + 1][PTable[(position % 8) + 1][digit + 1] + 1]

StartDigits == seen = Unseen /\ seen' = [kind |-> "digits", n |-> 0, checksum |-> 0]

\* The checksum after each of the digits of an Aadhaar number.
ReadDigit ==
    /\ seen.kind = "digits" /\ seen.n < 12
    /\ \E digit \in 0..9 :
          seen' = [seen EXCEPT !.n = @ + 1, !.checksum = Verhoeff(@, seen.n, digit)]

SignalNext ==
    Score \/ Price \/ OpenRegister \/ RegisterCanary \/ ScanEgress \/ Distrust
    \/ StartDigits \/ ReadDigit

SignalSpec == SignalInit /\ [][SignalNext]_seen

-----------------------------------------------------------------------------
(* Properties                                                               *)

\* A figure that no passage has, in any spelling, is seen however the sentence
\* opens and whatever it asks; one that some passage has is not held against it.
InventedFigureIsSeen ==
    seen.kind = "sentence" =>
        LET figures  == seen.s.figures
            invented == {i \in DOMAIN figures : \A p \in seen.context : figures[i].value \notin Values(p)}
        IN  seen.scores.numeric[1] = Cardinality(invented)

\* More context never hurts an answer: with one more passage no share of what
\* it says unsupported is larger.
MoreContextNeverHurts ==
    seen.kind = "sentence" =>
        \A p \in PassagesOf({"fees"}) :
            LET more == GroundingSignals(seen.s, seen.context \cup {p}, seen.question)
            IN  /\ more.numeric[1] <= seen.scores.numeric[1]
                /\ more.citation[1] <= seen.scores.citation[1]
                /\ more.content[1] <= seen.scores.content[1]

\* Nothing that makes a request more serious lowers its stakes: a larger amount
\* in the question, one tool more, a role of more weight, a longer thread.
SeriousNeverCheaper ==
    seen.kind = "request" =>
        LET worse == {[seen.r EXCEPT !.asked = a] : a \in {x \in Amounts : x > LargestAmount(seen.r)}}
                     \cup {[seen.r EXCEPT !.tools = @ \cup {c}] : c \in ToolClasses}
                     \cup {[seen.r EXCEPT !.role = "admin"], [seen.r EXCEPT !.depth = 3]}
        IN  \A r \in worse : /\ Estimate(r).impact >= seen.stakes.impact
                             /\ Estimate(r).class >= seen.stakes.class

\* A scan that comes after a registration finds what was registered.
RegisteredIsFound ==
    seen.kind = "register" /\ ~ seen.dirty => seen.matcher = seen.planted

\* A single signature is enough: what makes the preflight buffer the answer
\* makes the tool interlock distrust the passage, and distrust is never undone.
SignaturesDistrust ==
    seen.kind = "passage" =>
        /\ (seen.flagged /\ seen.label # 0) \/ seen.label >= Doubtful <=> seen.relabelled >= Doubtful
        /\ seen.flagged <=> seen.found # {}

\* "Catches all single-digit errors and all adjacent transpositions": a wrong
\* digit, or two that changed places, leave another checksum, and digits read
\* after it never make the two meet again.
ChecksumCatchesTypos ==
    seen.kind = "digits" => \A a, b \in 0..9 : a # b =>
        LET At(p, x) == Verhoeff(seen.checksum, p, x)
        IN  /\ At(seen.n, a) # At(seen.n, b)
            /\ \A c \in 0..9 : Verhoeff(a, seen.n, c) # Verhoeff(b, seen.n, c)
            /\ Verhoeff(At(seen.n, a), seen.n + 1, b) # Verhoeff(At(seen.n, b), seen.n + 1, a)

\* policies/banking.yaml: "Applied on the largest monetary amount detected in
\* the request or the answer."
LargestAmountCounts ==
    seen.kind = "request" => LargestAmount(seen.r) = Max({seen.r.asked, seen.r.elsewhere})

\* Each signal means what the decision takes it for: more support never counts
\* against an answer, more danger never for it, and nothing planted is missed.
SignalsAreSound ==
    /\ InventedFigureIsSeen /\ MoreContextNeverHurts /\ SeriousNeverCheaper
    /\ RegisteredIsFound /\ SignaturesDistrust /\ ChecksumCatchesTypos
=============================================================================
