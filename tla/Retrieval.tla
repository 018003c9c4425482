----------------------------- MODULE Retrieval -----------------------------
(* src/interlock/retrieval and scripts/build_index.py: the corpus on disk is
   loaded strictly, split into citable passages and indexed offline in one
   SQLite file; the gateway opens that file read-only at start and answers
   questions by fusing a lexical and a dense ranking.  The rankings themselves
   (BM25, KNN) are any order the two arms can return.  A sentence is its
   length, a document a sequence of paragraphs of sentences. *)
EXTENDS Naturals, Sequences, FiniteSets, SequencesExt

CONSTANTS
    MaxChars, MinChars,   \* chunk sizes
    Corpora,              \* the corpora an operator may put on disk: sets of documents
    Embedders,            \* records [name, dim, semantic]
    ArmDepth, TopK,       \* how deep each arm goes, how many hits a question asks for
    MaxBuilds             \* bound: builds in a behaviour

ASSUME RetrievalAssumption ==
    /\ MinChars \in Nat /\ MaxChars \in Nat /\ MinChars <= MaxChars
    /\ ArmDepth \in Nat \ {0} /\ TopK \in Nat \ {0}

\* A corpus is a sequence of documents, a document one of paragraphs, of sentences.
ASSUME CorpusAssumption ==
    \A c \in Corpora : /\ c \in Seq(Range(c))
                      /\ \A d \in Range(c) : d.paragraphs \in Seq(Seq(Nat))

\* A name is that of one model, which has one width and one kind of vectors.
ASSUME EmbedderAssumption ==
    \A e, f \in Embedders : e.name = f.name /\ e.dim = f.dim => e = f

VARIABLES
    corpus,      \* the documents under corpus/ and what the manifest says of them
    indexFile,   \* data/corpus.db: "absent", "empty", "schema" or "built", its rows and its maker
    builder,     \* scripts/build_index.py: "idle" or the step it is at, with what it read
    reader,      \* the gateway's retriever: "down", "null" or "open", with what it opened
    reply,       \* the last question's two rankings and what was answered
    builds

retrievalVars == <<corpus, indexFile, builder, reader, reply, builds>>

RrfK == 60
NoMaker == [name |-> "none", dim |-> 0, semantic |-> FALSE]
NoReply == [lexical |-> <<>>, dense |-> <<>>, hits |-> <<>>, evidence |-> <<>>]
NoFile == [state |-> "absent", rows |-> <<>>, maker |-> NoMaker]

-----------------------------------------------------------------------------
(* Chunking. *)

CharsIn(sentences) ==
    LET chars[i \in 0..Len(sentences)] == IF i = 0 THEN 0 ELSE chars[i - 1] + sentences[i]
    IN  chars[Len(sentences)] + Len(sentences) - 1

Paragraphs(d) ==
    [i \in DOMAIN d.paragraphs |->
        [body |-> d.paragraphs[i], chars |-> CharsIn(d.paragraphs[i])]]

\* A short passage takes the next paragraph in, when both still fit.
TakeParagraph(out, p) ==
    IF out # <<>> /\ Last(out).chars < MinChars
                  /\ Last(out).chars + p.chars + 2 <= MaxChars
    THEN Append(Front(out), [body  |-> Last(out).body \o p.body,
                             chars |-> Last(out).chars + p.chars + 2])
    ELSE Append(out, p)

MergeShort(paragraphs) ==
    LET merged[i \in 0..Len(paragraphs)] ==
            IF i = 0 THEN <<>> ELSE TakeParagraph(merged[i - 1], paragraphs[i])
    IN  merged[Len(paragraphs)]

\* An oversized paragraph breaks between sentences, never inside one.
TakeSentence(acc, s) ==
    IF acc.current # <<>> /\ CharsIn(Append(acc.current, s)) > MaxChars
    THEN [out |-> Append(acc.out, acc.current), current |-> <<s>>]
    ELSE [out |-> acc.out, current |-> Append(acc.current, s)]

SplitLong(p) ==
    LET cut[i \in 0..Len(p.body)] ==
            IF i = 0 THEN [out |-> <<>>, current |-> <<>>] ELSE TakeSentence(cut[i - 1], p.body[i])
        end == cut[Len(p.body)]
    IN  IF p.chars <= MaxChars THEN <<p.body>>
        ELSE IF end.current # <<>> THEN Append(end.out, end.current) ELSE end.out

\* The document's first heading, or the manifest's title; the body has no heading left.
Heading(d) == IF d.heading # "" THEN d.heading ELSE d.title

ChunkMarkdown(d) ==
    LET passages == FlattenSeq([i \in DOMAIN MergeShort(Paragraphs(d)) |->
                                    SplitLong(MergeShort(Paragraphs(d))[i])])
        kept == IF passages = <<>> /\ Heading(d) # "" THEN << <<>> >> ELSE passages
    IN  [i \in DOMAIN kept |->
            [doc |-> d.doc, ordinal |-> i - 1, heading |-> Heading(d), body |-> kept[i],
             domain |-> d.domain, provenance |-> d.provenance]]

CorpusChunks(documents) == FlattenSeq([i \in DOMAIN documents |-> ChunkMarkdown(documents[i])])

\* Strict loading: every listed file exists, every file is listed.
LoadCorpus(documents) == \A i \in DOMAIN documents : documents[i].listed /\ documents[i].onDisk

-----------------------------------------------------------------------------
(* The offline build: unlink, connect, schema, one transaction. *)

BuildStarts(e) ==
    /\ builder.state = "idle" /\ builds < MaxBuilds
    /\ LoadCorpus(corpus)
    /\ builder' = [state |-> "unlinked", rows |-> CorpusChunks(corpus), maker |-> e]
    /\ indexFile' = [NoFile EXCEPT !.state = "empty"]
    /\ builds' = builds + 1
    /\ UNCHANGED <<corpus, reader, reply>>

BuildSchema ==
    /\ builder.state = "unlinked"
    /\ builder' = [builder EXCEPT !.state = "schema"]
    /\ indexFile' = [indexFile EXCEPT !.state = "schema"]
    /\ UNCHANGED <<corpus, reader, reply, builds>>

\* Plausible bug: rows are committed one by one, without the transaction.
BuildCommitsUnbracketed ==
    /\ builder.state = "schema"
    /\ \E n \in 0..Len(builder.rows) :
        indexFile' = [state |-> "built", rows |-> SubSeq(builder.rows, 1, n), maker |-> builder.maker]
    /\ builder' = [builder EXCEPT !.state = "idle"]
    /\ UNCHANGED <<corpus, reader, reply, builds>>

\* chunks, chunks_fts, vec_chunks and index_meta become visible together.
BuildCommits ==
    /\ builder.state = "schema"
    /\ indexFile' = [state |-> "built", rows |-> builder.rows, maker |-> builder.maker]
    /\ builder' = [builder EXCEPT !.state = "idle"]
    /\ UNCHANGED <<corpus, reader, reply, builds>>

\* The embedder raises, its vectors have another width, or the process is killed.
BuildDies ==
    /\ builder.state # "idle"
    /\ builder' = [builder EXCEPT !.state = "idle"]
    /\ UNCHANGED <<corpus, indexFile, reader, reply, builds>>

\* Documents are edited between builds.
EditCorpus ==
    /\ builder.state = "idle" /\ builds < MaxBuilds
    /\ corpus' \in Corpora \ {corpus}
    /\ UNCHANGED <<indexFile, builder, reader, reply, builds>>

-----------------------------------------------------------------------------
(* The gateway's read side.  The metadata is read once, when the file is opened. *)

CheckCompatible(e) ==
    indexFile.state = "built" => indexFile.maker.dim = e.dim /\ indexFile.maker.name = e.name

\* A file without its tables, or made by another embedder, gives the null retriever.
OpenRetriever(e) ==
    /\ reader.state = "down"
    /\ reader' = IF indexFile.state \in {"schema", "built"} /\ CheckCompatible(e)
                 THEN [state |-> "open", rows |-> indexFile.rows, maker |-> e, made |-> indexFile.maker]
                 ELSE [state |-> "null", rows |-> <<>>, maker |-> e, made |-> NoMaker]
    /\ UNCHANGED <<corpus, indexFile, builder, reply, builds>>

CloseRetriever ==
    /\ reader.state # "down"
    /\ reader' = [reader EXCEPT !.state = "down"]
    /\ reply' = NoReply
    /\ UNCHANGED <<corpus, indexFile, builder, builds>>

\* Reciprocal rank fusion, in half votes: a stand-in dense arm has one, a real arm two.
Votes(arm, semantic) == IF arm = "lexical" \/ semantic THEN 2 ELSE 1

RankOf(arm, row) == (CHOOSE i \in DOMAIN arm : arm[i] = row) - 1

FusedScore(lexical, dense, semantic, row) ==
    LET a == RrfK + 1 + RankOf(lexical, row)
        b == RrfK + 1 + RankOf(dense, row)
        inA == row \in Range(lexical)
        inB == row \in Range(dense)
    IN  CASE inA /\ inB -> [over |-> a * b, votes |-> Votes("lexical", semantic) * b
                                                     + Votes("dense", semantic) * a]
          [] inA /\ ~inB -> [over |-> a, votes |-> Votes("lexical", semantic)]
          [] OTHER -> [over |-> b, votes |-> Votes("dense", semantic)]

\* Higher scores first; equal scores in chunk order (a row is its place in the index).
Before(lexical, dense, semantic, r, s) ==
    LET a == FusedScore(lexical, dense, semantic, r)
        b == FusedScore(lexical, dense, semantic, s)
    IN  \/ a.votes * b.over > b.votes * a.over
        \/ a.votes * b.over = b.votes * a.over /\ r < s

\* The members of S from first to last, by the pairs of R.
Ranked(S, R) ==
    [k \in 1..Cardinality(S) |-> CHOOSE r \in S : Cardinality({s \in S : <<s, r>> \in R}) = k - 1]

Fuse(lexical, dense, semantic) ==
    LET rows == Range(lexical) \cup Range(dense)
    IN  Ranked(rows, {p \in rows \X rows : Before(lexical, dense, semantic, p[1], p[2])})

FirstOf(hits, k) == SubSeq(hits, 1, IF k < Len(hits) THEN k ELSE Len(hits))

IsUntrusted(rows, r) == rows[r].provenance = "retrieved_untrusted"

\* What a repair may rewrite against: the trusted ones of the first 2k hits.
EvidenceFor(rows, hits, k) ==
    LET trusted == {i \in DOMAIN FirstOf(hits, 2 * k) : ~IsUntrusted(rows, hits[i])}
        places  == Ranked(trusted, {p \in trusted \X trusted : p[1] < p[2]})
    IN  FirstOf([n \in DOMAIN places |-> hits[places[n]]], k)

Rankings(S, n) == {q \in SeqOf(S, n) : IsInjective(q)}

\* The dense arm returns the nearest rows it was asked for, the lexical arm those
\* that match; an index of no rows, or one opened before its rows, answers nothing.
Search ==
    /\ reader.state = "open" /\ reader.rows # <<>> /\ reader.made # NoMaker
    /\ reply = NoReply
    /\ LET ids == DOMAIN reader.rows
           nearest == IF Len(reader.rows) < ArmDepth THEN Len(reader.rows) ELSE ArmDepth
       IN  \E lexical \in Rankings(ids, ArmDepth), dense \in Rankings(ids, nearest) :
            /\ Len(dense) = nearest
            /\ LET fused == Fuse(lexical, dense, reader.maker.semantic)
               IN  reply' = [lexical |-> lexical, dense |-> dense, hits |-> FirstOf(fused, TopK),
                             evidence |-> EvidenceFor(reader.rows, fused, 1)]
    /\ UNCHANGED <<corpus, indexFile, builder, reader, builds>>

Answered == reply # NoReply /\ reply' = NoReply /\ UNCHANGED <<corpus, indexFile, builder, reader, builds>>

-----------------------------------------------------------------------------
RetrievalInit ==
    /\ corpus \in Corpora
    /\ indexFile = NoFile
    /\ builder = [state |-> "idle", rows |-> <<>>, maker |-> NoMaker]
    /\ reader = [state |-> "down", rows |-> <<>>, maker |-> NoMaker, made |-> NoMaker]
    /\ reply = NoReply
    /\ builds = 0

RetrievalNext ==
    \/ \E e \in Embedders : BuildStarts(e) \/ OpenRetriever(e)
    \/ BuildSchema \/ BuildCommits \/ BuildDies \/ EditCorpus
    \/ CloseRetriever \/ Search \/ Answered

RetrievalSpec == RetrievalInit /\ [][RetrievalNext]_retrievalVars

-----------------------------------------------------------------------------
\* Whatever build was interrupted, replaced or opened half-way, the gateway answers
\* from all the passages of one corpus that loaded strictly, embedded as it embeds
\* its questions, or from none: never from a part of a corpus (retrieval/store.py:
\* build's single transaction and _check_compatible).
ServesWholeCorpora ==
    reader.rows # <<>> =>
        /\ reader.made = reader.maker
        /\ \E c \in Corpora : LoadCorpus(c) /\ reader.rows = CorpusChunks(c)

\* Every sentence of every document is in exactly one passage, in its order; a passage
\* is over-long only when it is one sentence; each carries its document's heading and
\* labels (retrieval/chunker.py).
EverySentenceIsCitable ==
    \A i \in DOMAIN corpus :
        LET d == corpus[i]  chunks == ChunkMarkdown(d)
        IN  /\ FlattenSeq([n \in DOMAIN chunks |-> chunks[n].body]) = FlattenSeq(d.paragraphs)
            /\ \A n \in DOMAIN chunks :
                /\ chunks[n].heading = Heading(d) /\ chunks[n].provenance = d.provenance
                /\ Len(chunks[n].body) > 1 => CharsIn(chunks[n].body) <= MaxChars
            /\ Heading(d) # "" => chunks # <<>>

\* The order of the hits is a function of the two rankings that respects both: a passage
\* ahead in one arm and not behind in the other stays ahead, a passage both arms found
\* is ahead of one that only one arm found no better, and nothing the repair may rewrite
\* against is untrusted (retrieval/store.py _fuse, retriever.py evidence_for).
FusionIsFair ==
    LET behind(arm, r, s) == s \in Range(arm) => r \in Range(arm) /\ RankOf(arm, r) <= RankOf(arm, s)
        dominates(r, s) == behind(reply.lexical, r, s) /\ behind(reply.dense, r, s) /\ r # s
    IN  /\ \A m, n \in DOMAIN reply.hits :
            dominates(reply.hits[m], reply.hits[n]) => m < n
        /\ \A r \in Range(reply.lexical) \cup Range(reply.dense), n \in DOMAIN reply.hits :
            dominates(r, reply.hits[n]) => r \in Range(reply.hits)
        /\ \A n \in DOMAIN reply.evidence : ~IsUntrusted(reader.rows, reply.evidence[n])

\* An answer's sources: one whole corpus, every sentence of it, fairly ranked.
RetrievalIsSound == ServesWholeCorpora /\ EverySentenceIsCitable /\ FusionIsFair
=============================================================================
