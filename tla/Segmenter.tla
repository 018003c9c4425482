----------------------------- MODULE Segmenter -----------------------------
(***************************************************************************)
(* The streaming sentence segmenter of gate/segmenter.py: chunks of text   *)
(* go through the removal of reasoning blocks into a buffer, from which    *)
(* closed sentences are handed to the commit gate.                         *)
(*                                                                         *)
(* Text is a sequence of symbols, one for each class of characters the     *)
(* code tells apart:                                                       *)
(*   "w" "W"  a lower-case and an upper-case letter                        *)
(*   "r"      an abbreviation of the list ("rs", "approx")                 *)
(*   "1"      a digit           "."  a terminator                          *)
(*   "_"      a blank           "P"  a blank line                          *)
(*   "F"      a code fence      "<" "/" ">"  the marks of a tag            *)
(*   "t"      the name of a reasoning tag ("think")                        *)
(* A chunk that ends within a name is as one that ends before it: with no  *)
(* blank after it even the longest name is held back.                      *)
(***************************************************************************)
EXTENDS Integers, Sequences, FiniteSets, SequencesExt, FiniteSetsExt

CONSTANTS
    Alphabets,   \* sets of symbols; a text is written in one of them
    MaxText,     \* bound: symbols in a text, for each alphabet
    MaxChunk,    \* bound: symbols in a chunk
    HardFlush,   \* HARD_FLUSH_CHARS
    MaxTag       \* _MAX_TAG_LEN: the longest partial tag that is held back

Symbols == {"w", "W", "r", "1", ".", "_", "P", "F", "<", "/", ">", "t"}

\* A tag up to its name; blanks may follow, and ">".
OpenTag  == <<"<", "t">>
CloseTag == <<"<", "/", "t">>

\* What is held back has room for a tag up to its name.
ASSUME SegmenterAssumption ==
    /\ Alphabets \subseteq SUBSET Symbols
    /\ MaxText \in [Alphabets -> Nat] /\ MaxChunk \in Nat \ {0}
    /\ HardFlush \in Nat \ {0}
    /\ MaxTag \in Nat /\ MaxTag >= Len(CloseTag)

VARIABLES
    alphabet,
    text,        \* history: all that was pushed
    answer,      \* history: what _strip_reasoning let through
    buffer,      \* _buffer
    carry,       \* _carry
    inside,      \* _in_reasoning
    reasoning,   \* _reasoning
    out,         \* the sentences handed over, flush included
    recut,       \* history: a hard cut began at a blank
    finished,    \* _finished
    held         \* history: the carry that flush put before the open sentence

textVars == <<alphabet, text>>
tagVars  == <<carry, inside, reasoning, answer, held>>
segmenterVars == <<textVars, tagVars, buffer, out, recut, finished>>

Blanks == {"_", "P"}
Upper  == {"W"}
Lower  == {"w", "r", "t"}

SegmenterInit ==
    /\ alphabet \in Alphabets
    /\ text = <<>> /\ answer = <<>>
    /\ buffer = <<>> /\ carry = <<>> /\ inside = FALSE /\ reasoning = <<>> /\ held = <<>>
    /\ out = <<>> /\ recut = FALSE /\ finished = FALSE

-----------------------------------------------------------------------------
(* Reasoning blocks                                                         *)

From(s, i) == SubSeq(s, i, Len(s))
Upto(s, i) == SubSeq(s, 1, i)

\* Where the last c of s is, or 0.
LastOf(s, c) == Max({i \in DOMAIN s : s[i] = c} \cup {0})

\* From i to j stands a tag.
TagAt(s, i, j, tag) ==
    /\ i + Len(tag) <= j
    /\ \A k \in DOMAIN tag : s[i + k - 1] = tag[k]
    /\ \A k \in (i + Len(tag))..(j - 1) : s[k] \in Blanks
    /\ s[j] = ">"

Occurrences(tag, s) == {p \in (DOMAIN s) \X (DOMAIN s) : TagAt(s, p[1], p[2], tag)}

\* Mutant: nothing is held back.
PartialFromNever(s) == Len(s) + 1
\* What follows the last "<" is held back if a tag may begin there.
PartialFrom(s) ==
    LET i == LastOf(s, "<")
    IN  IF \/ i = 0
           \/ Len(s) - i + 1 > MaxTag
           \/ \E tag \in {OpenTag, CloseTag} : TagAt(s, i, Len(s), tag)
        THEN Len(s) + 1 ELSE i

\* Text outside the tags goes to the answer, text inside is set aside.
Separate[s \in Seq(Symbols)] ==
    [isInside \in BOOLEAN |->
        LET at    == Occurrences(IF isInside THEN CloseTag ELSE OpenTag, s)
            first == CHOOSE p \in at : \A q \in at : p[1] <= q[1]
            i     == IF at = {} THEN PartialFrom(s) ELSE first[1]
            here  == Upto(s, i - 1)
            rest  == IF at = {} THEN [answer |-> <<>>, aside |-> <<>>,
                                      carry |-> From(s, i), inside |-> isInside]
                                ELSE Separate[From(s, first[2] + 1)][~isInside]
        IN  IF isInside THEN [rest EXCEPT !.aside  = here \o @]
                        ELSE [rest EXCEPT !.answer = here \o @]]

-----------------------------------------------------------------------------
(* Sentences                                                                *)

Blank(s) == \A i \in DOMAIN s : s[i] \in Blanks

\* str.lstrip and str.strip
LStrip(s) == From(s, Min({i \in DOMAIN s : s[i] \notin Blanks} \cup {Len(s) + 1}))
RStrip(s) == Upto(s, Max({i \in DOMAIN s : s[i] \notin Blanks} \cup {0}))
Strip(s)  == RStrip(LStrip(s))

OddFences(s) == Cardinality({i \in DOMAIN s : s[i] = "F"}) % 2 = 1

\* The longest suffix of s in the given symbols.
SuffixIn(s, set) ==
    From(s, 1 + Max({i \in DOMAIN s : s[i] \notin set} \cup {0}))

WithoutDots(s) == SelectSeq(s, LAMBDA c : c # ".")

\* "4" of "Rs. 4.5", "4 per cent" or the marker of a list item
PartOfANumber(s, end) ==
    LET head  == Upto(s, end - Len(SuffixIn(Upto(s, end), {"."})))
        after == From(s, end + 1)
        next  == LStrip(after)
        line  == Strip(SuffixIn(head, Symbols \ {"P"}))
    IN  /\ head # <<>> /\ Last(head) = "1"
        /\ \/ after = <<>> \/ Head(after) \notin Blanks
           \/ next # <<>> /\ Head(next) \in Lower \cup {"1"}
           \/ \A i \in DOMAIN line : line[i] = "1"

\* "Rs", "J"
ShortWord(head) ==
    LET word == SuffixIn(head, Upper \cup Lower \cup {"."})
        dots == SelectInSeq(word, LAMBDA c : c # ".")
    IN  dots # 0 /\ \/ WithoutDots(word) = <<"r">>
                    \/ From(word, dots) \in {<<c>> : c \in Upper}

AbbreviationOrInitial(s, end) ==
    ShortWord(Upto(s, end - Len(SuffixIn(Upto(s, end), {"."}))))

\* A terminator at the end of the text, or before a blank ...
Boundaries(s) ==
    {i \in DOMAIN s : s[i] = "." /\ (i = Len(s) \/ s[i + 1] \in Blanks)}

\* ... that ends no number, abbreviation or initial.
RealBoundaries(s) ==
    {i \in Boundaries(s) : ~PartOfANumber(s, i) /\ ~AbbreviationOrInitial(s, i)}

\* The sentences closed in s, and how far they go: a boundary between the marks
\* of a code fence is passed over.
Closed(s) ==
    LET ends == RealBoundaries(s)
        closed[i \in 0..Len(s)] ==
            IF i = 0 THEN [sentences |-> <<>>, start |-> 0]
            ELSE LET before == closed[i - 1]
                     here   == SubSeq(s, before.start + 1, i)
                 IN  IF i \in ends /\ ~OddFences(here)
                     THEN [sentences |-> Append(before.sentences, Strip(here)), start |-> i]
                     ELSE before
    IN  closed[Len(s)]

\* split_sentences: the closed sentences and what remains open. A blank line
\* closes what stands before it.
Split(s) ==
    IF Blank(s) \/ OddFences(s) THEN [sentences |-> <<>>, rest |-> s]
    ELSE LET closed == Closed(s)
             tail   == From(s, closed.start + 1)
             line   == LastOf(tail, "P")
             title  == Strip(Upto(tail, line - 1))
         IN  [sentences |-> IF line = 0 \/ title = <<>> THEN closed.sentences
                            ELSE Append(closed.sentences, title),
              rest      |-> From(tail, line + 1)]

\* _hard_cut: at the last blank of the window if that is past its half.
HardCut(s) ==
    LET window == Upto(s, HardFlush)
        space  == LastOf(window, "_")
    IN  Strip(IF space - 1 > HardFlush \div 2 THEN Upto(window, space - 1) ELSE window)

\* The loop of push over a buffer that is too long. What is dropped from the
\* buffer is as long as the cut, whose own blanks were stripped.
CutLong[s \in Seq(Symbols)] ==
    LET cut == HardCut(s)
    IN  IF Len(s) < HardFlush \/ cut = <<>>
        THEN [sentences |-> <<>>, rest |-> s, recut |-> FALSE]
        ELSE LET more == CutLong[LStrip(From(s, Len(cut) + 1))]
             IN  [more EXCEPT !.sentences = <<cut>> \o @,
                              !.recut = @ \/ Head(s) \in Blanks]

\* push: what it hands over and what it keeps, for a buffer that grew.
Take(s) ==
    LET split == Split(s)
        long  == CutLong[split.rest]
    IN  [long EXCEPT !.sentences = split.sentences \o @]

-----------------------------------------------------------------------------

Chunks == UNION {[1..n -> alphabet] : n \in 1..MaxChunk}

Push(chunk) ==
    /\ Len(text) + Len(chunk) <= MaxText[alphabet]
    /\ finished' = FALSE
    /\ text' = text \o chunk
    /\ LET parts == Separate[carry \o chunk][inside]
           taken == Take(buffer \o parts.answer)
       IN  /\ carry' = parts.carry /\ inside' = parts.inside
           /\ reasoning' = reasoning \o parts.aside
           /\ answer' = answer \o parts.answer
           /\ IF parts.answer = <<>> THEN UNCHANGED <<buffer, out, recut>>
              ELSE /\ buffer' = taken.rest
                   /\ out' = out \o taken.sentences
                   /\ recut' = (recut \/ taken.recut)
    /\ UNCHANGED <<alphabet, held>>

\* flush: once. The text held back for a tag goes before the open sentence.
Remaining == Strip(carry \o buffer)

Flush ==
    /\ ~finished /\ finished' = TRUE
    /\ out' = IF Remaining = <<>> THEN out ELSE Append(out, Remaining)
    /\ buffer' = <<>> /\ carry' = <<>> /\ held' = carry
    /\ UNCHANGED <<textVars, inside, reasoning, answer, recut>>

\* The gate flushes at the end of the answer and pushes nothing after it.
SegmenterNext == (~finished /\ \E chunk \in Chunks : Push(chunk)) \/ Flush

SegmenterSpec == SegmenterInit /\ [][SegmenterNext]_segmenterVars

-----------------------------------------------------------------------------
(* Properties                                                               *)

\* Before its ">" no tag of s is longer than what is held back.
TagsFit(s) ==
    \A i, j \in DOMAIN s :
        (\E tag \in {OpenTag, CloseTag} : TagAt(s, i, j, tag)) => j - i <= MaxTag

\* What is reasoning and what is answer depends on the text alone: wherever the
\* chunks were cut, inside a tag too, the parts are those of one single push,
\* what was held back at the end with them (_strip_reasoning and its carry). A
\* tag with more blanks than the carry has room for is excepted: cut before its
\* ">" it is let out as text.
ReasoningIsSeparated ==
    TagsFit(text) =>
        LET whole == Separate[text][FALSE]
            last  == IF finished THEN held ELSE carry
            heldBack(isInside, c) == IF isInside THEN [answer |-> <<>>, aside |-> c]
                                                 ELSE [answer |-> c, aside |-> <<>>]
        IN  /\ inside = whole.inside
            /\ answer \o heldBack(inside, last).answer
                   = whole.answer \o heldBack(whole.inside, whole.carry).answer
            /\ reasoning \o heldBack(inside, last).aside
                   = whole.aside \o heldBack(whole.inside, whole.carry).aside

Visible(s) == FlattenSeq([i \in DOMAIN s |-> IF s[i] \in Blanks THEN <<>> ELSE <<s[i]>>])

\* The answer's text, blanks aside, is in the sentences and the open one, in
\* order, without loss or repetition, as long as no hard cut began at a blank.
\* What was still held back for a tag at the end is in it once, at some place
\* (flush puts it before the open sentence): it is a piece of reasoning if the
\* text ended with "<" and little more inside a block.
TextIsKept ==
    ~recut =>
        LET kept == Visible(answer)
        IN  \E n \in 0..Len(kept) :
                Visible(FlattenSeq(out) \o buffer)
                    = Upto(kept, n) \o Visible(held) \o From(kept, n + 1)

\* The sentences of a text that arrives in one piece.
CutWhole(s) ==
    LET parts == Separate[s][FALSE]
        taken == IF parts.answer = <<>> THEN [sentences |-> <<>>, rest |-> <<>>]
                 ELSE Take(parts.answer)
        last  == Strip(parts.carry \o taken.rest)
    IN  taken.sentences \o (IF last = <<>> THEN <<>> ELSE <<last>>)

\* Prose that never leaves the segmenter in doubt: a terminator is followed by
\* a blank, no number stands before one, and no sentence is longer than a cut.
PlainProse(s) ==
    /\ \A i \in DOMAIN s :
          /\ s[i] \notin {"1", "P", "F", "<"}
          /\ s[i] = "." => i = Len(s) \/ s[i + 1] = "_"
          /\ i + HardFlush - 1 <= Len(s) =>
                \E j \in i..(i + HardFlush - 2) : j \in RealBoundaries(s)

\* Plain prose is cut into the same sentences however its chunks were cut.
PlainProseIsStable == (finished /\ PlainProse(text)) => out = CutWhole(text)

\* The segmentation depends on the text alone, whatever the text and its chunks
\* (the module's documentation: "the invariant that matters most").
ChunksDoNotMatter == finished => out = CutWhole(text)

\* What leaves the segmenter is the answer's text in its order: no reasoning, no
\* repetition, nothing moved (flush: "Emit whatever is left ... once").
NothingInvented ==
    finished =>
        LET whole == Separate[text][FALSE]
        IN  Visible(FlattenSeq(out))
                = Visible(whole.answer \o IF whole.inside THEN <<>> ELSE whole.carry)

\* What a reader gets of a streamed answer: all of it once, and nothing of a
\* reasoning block but what was held back at the end of the text, cut where one
\* push would cut it unless a chunk left the segmenter in doubt.
SegmentationIsSound == ReasoningIsSeparated /\ TextIsKept /\ PlainProseIsStable
=============================================================================
