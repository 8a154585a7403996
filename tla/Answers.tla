------------------------------ MODULE Answers ------------------------------
(***************************************************************************)
(* One search or one chat answer: hybrid_search ranks chunks in two        *)
(* statements and loads the best in a third; for a chat the prompt numbers *)
(* them, the provider streams an answer, and its markers are resolved to   *)
(* citations.  Documents are ingested anew, renamed and deleted between    *)
(* any two statements.                                                     *)
(*                                                                         *)
(* What a rank statement finds is any sequence of current chunks: distance *)
(* and text match are not modelled, the fusion of the ranks is.            *)
(***************************************************************************)
EXTENDS Order, Sequences

CONSTANTS
    Docs,        \* documents of the tenant
    PerDoc,      \* chunks of a document
    CandidateK,  \* retrieval_candidate_k
    RrfK,        \* rrf_k
    Limit,       \* hits asked for
    MaxRuns,     \* bound: ingestions, the first of each document counted as one
    MaxTitles,   \* bound: titles a document has
    MaxTokens    \* bound: tokens of an answer

ASSUME AnswersAssumption ==
    /\ PerDoc \in Nat
    /\ CandidateK \in Nat
    /\ RrfK \in Nat
    /\ CandidateK < RrfK + 2
    /\ Limit \in Nat \ {0}
    /\ MaxRuns \in Nat \ {0}
    /\ MaxTitles \in Nat \ {0}
    /\ MaxTokens \in Nat

\* The id of a chunk, which a new ingestion never gives out again.
Chunk == [doc : Docs, run : 1 .. MaxRuns, index : 0 .. PerDoc - 1]

Hit == [chunk : Chunk, title : 1 .. MaxTitles]

Mode == {"hybrid", "vector", "lexical"}

\* When a provider tells its token counts: before the first token (stub), at
\* the end (Anthropic, OpenAI) or with every chunk so far (Gemini).  A search
\* asks none.
Provider == {"before", "end", "running", "none"}

Stage == {"idle", "vector", "lexical", "load", "stream", "cite", "done", "failed"}

VARIABLES
    title,      \* documents: a title, by number (0: deleted)
    indexed,    \* the ingestion whose chunks a document has (0: none)
    runs,       \* the number of the last ingestion (1: the first of each document)
    stage,      \* where the question is
    mode,       \* of a search; a chat's is hybrid
    provider,   \* what get_llm_provider returned
    vec,        \* the ids _vector_ranked_ids returned
    lex,        \* and _lexical_ranked_ids
    hits,       \* what hybrid_search returned
    shown,      \* the sources of the system prompt, by number
    answer,     \* the tokens so far: each is a marker it holds (0: none)
    usage,      \* output_tokens of the UsageAccumulator
    citations,
    moved       \* history: documents whose chunks changed between ranking and load

dbVars == <<title, indexed, runs, moved>>
vars == <<title, indexed, runs, moved, stage, mode, provider, vec, lex, hits,
          shown, answer, usage, citations>>

Init ==
    /\ title = [d \in Docs |-> 1]
    /\ indexed = [d \in Docs |-> 1]
    /\ runs = 1
    /\ stage = "idle"
    /\ mode \in Mode
    /\ provider = "none"
    /\ vec = <<>> /\ lex = <<>> /\ hits = <<>>
    /\ shown = <<>> /\ answer = <<>> /\ usage = 0 /\ citations = <<>>
    /\ moved = {}

-----------------------------------------------------------------------------
(* The documents                                                           *)

askVars == <<stage, mode, provider, vec, lex, hits, shown, answer, usage, citations>>

Move(d) ==
    moved' = IF stage = "load" \/ (stage = "lexical" /\ mode = "hybrid")
               THEN moved \cup {d} ELSE moved

\* The second transaction of run_ingestion: new chunks for the old.
Ingest(d) ==
    /\ title[d] # 0
    /\ runs < MaxRuns
    /\ runs' = runs + 1
    /\ indexed' = [indexed EXCEPT ![d] = runs + 1]
    /\ Move(d)
    /\ UNCHANGED <<title, askVars>>

\* PATCH /documents/{id}.
Rename(d) ==
    /\ title[d] \in 1 .. MaxTitles - 1
    /\ title' = [title EXCEPT ![d] = @ + 1]
    /\ UNCHANGED <<indexed, runs, moved, askVars>>

\* DELETE /documents/{id}, with its chunks.
Delete(d) ==
    /\ title[d] # 0
    /\ title' = [title EXCEPT ![d] = 0]
    /\ indexed' = [indexed EXCEPT ![d] = 0]
    /\ Move(d)
    /\ UNCHANGED <<runs, askVars>>

-----------------------------------------------------------------------------
(* hybrid_search                                                           *)

Current == {c \in Chunk : c.run = indexed[c.doc]}

\* What a rank statement may return.
Rankings ==
    UNION {{s \in [1 .. n -> Current] : \A i, j \in 1 .. n : i # j => s[i] # s[j]} :
             n \in 0 .. CandidateK}

Elements(s) == {s[i] : i \in 1 .. Len(s)}

PositionOf(s, c) == CHOOSE i \in 1 .. Len(s) : s[i] = c

\* 1 / (rrf_k + position), as a fraction.
Share(s, c) ==
    IF c \in Elements(s) THEN [num |-> 1, den |-> RrfK + PositionOf(s, c)]
                         ELSE [num |-> 0, den |-> 1]

Score(v, l, c) ==
    LET x == Share(v, c)
        y == Share(l, c)
    IN [num |-> x.num * y.den + y.num * x.den, den |-> x.den * y.den]

Exceeds(x, y) == x.num * y.den > y.num * x.den

\* The keys of the dict of scores, and the order they came into it.
Found(v, l) == Elements(v) \cup Elements(l)
Arrival(v, l, c) ==
    IF c \in Elements(v) THEN PositionOf(v, c) ELSE Len(v) + PositionOf(l, c)

\* Mutant: the sort is not reversed.
WorstFirst(v, l) ==
    {r \in Chunk \X Chunk :
        LET x == Score(v, l, r[1])
            y == Score(v, l, r[2])
        IN Exceeds(y, x) \/ (~Exceeds(x, y) /\ Arrival(v, l, r[1]) <= Arrival(v, l, r[2]))}

\* sorted() by score, reversed, which leaves equal scores as they came.
ByScore(v, l) ==
    {r \in Chunk \X Chunk :
        LET x == Score(v, l, r[1])
            y == Score(v, l, r[2])
        IN Exceeds(x, y) \/ (~Exceeds(y, x) /\ Arrival(v, l, r[1]) <= Arrival(v, l, r[2]))}

\* reciprocal_rank_fusion.
Fused(v, l) == InOrder(Found(v, l), ByScore(v, l))

Best(v, l) ==
    [i \in 1 .. (IF Len(Fused(v, l)) < Limit THEN Len(Fused(v, l)) ELSE Limit) |->
        Fused(v, l)[i]]

\* The query is embedded, unless only the lexical arm is asked for.
Ask ==
    /\ stage = "idle"
    /\ stage' = IF mode = "lexical" THEN "lexical" ELSE "vector"
    /\ UNCHANGED <<dbVars, mode, provider, vec, lex, hits, shown, answer, usage,
                   citations>>

RankVector ==
    /\ stage = "vector"
    /\ vec' \in Rankings
    /\ stage' = IF mode = "vector" THEN "load" ELSE "lexical"
    /\ UNCHANGED <<dbVars, mode, provider, lex, hits, shown, answer, usage,
                   citations>>

RankLexical ==
    /\ stage = "lexical"
    /\ lex' \in Rankings
    /\ stage' = "load"
    /\ UNCHANGED <<dbVars, mode, provider, vec, hits, shown, answer, usage,
                   citations>>

HitOf(c) == [chunk |-> c, title |-> title[c.doc]]

\* Mutant: an outer join, whose rows may lack a document.
OuterJoined(c) == TRUE

\* The join of document_chunks and documents.
Loadable(c) == c \in Current

\* build_system_prompt numbers the hits from 1.
Numbered(h) == [i \in 1 .. Len(h) |-> h[i]]

\* Mutant: every hit is loaded by a statement of its own.
LoadEach ==
    LET ids == Best(vec, lex)
        rows == InOrder({p \in 1 .. Len(ids) : Loadable(ids[p])}, Upward)
        got == Len(hits)
    IN
    /\ stage = "load"
    /\ IF got < Len(rows)
         THEN /\ hits' = Append(hits, HitOf(ids[rows[got + 1]]))
              /\ UNCHANGED <<stage, shown, provider>>
         ELSE /\ shown' = Numbered(hits)
              /\ provider' \in Provider \ {"none"}
              /\ stage' = "stream"
              /\ UNCHANGED hits
    /\ UNCHANGED <<dbVars, mode, vec, lex, answer, usage, citations>>

\* The third statement and the sort of its rows into the fused order.  A chat
\* renders its prompt and asks its provider, a search is answered.
Load ==
    LET ids == Best(vec, lex)
        rows == InOrder({p \in 1 .. Len(ids) : Loadable(ids[p])}, Upward)
    IN
    /\ stage = "load"
    /\ hits' = [i \in 1 .. Len(rows) |-> HitOf(ids[rows[i]])]
    /\ \/ /\ mode = "hybrid"
          /\ shown' = Numbered(hits')
          /\ provider' \in Provider \ {"none"}
          /\ stage' = "stream"
       \/ /\ stage' = "done"
          /\ UNCHANGED <<shown, provider>>
    /\ UNCHANGED <<dbVars, mode, vec, lex, answer, usage, citations>>

-----------------------------------------------------------------------------
(* generate_node and cite_node                                             *)

\* The stub echoes the question, which may hold a marker itself, and then
\* every marker of the prompt; it counts beforehand.
StubAnswer ==
    /\ stage = "stream"
    /\ provider = "before"
    /\ \E m \in 0 .. Len(shown) + 1 :
           answer' = <<m>> \o [i \in 1 .. Len(shown) |-> i]
    /\ usage' = Len(answer')
    /\ stage' = "cite"
    /\ UNCHANGED <<dbVars, mode, provider, vec, lex, hits, shown, citations>>

\* Mutant: the running total is added up.
Added(total) == usage + total

\* What a chunk with a running total makes of the accumulator.
Overwritten(total) == total

\* A token of a model, which may hold any marker, also of no source.
Token ==
    /\ stage = "stream"
    /\ provider # "before"
    /\ Len(answer) < MaxTokens
    /\ \E m \in 0 .. Len(shown) + 1 : answer' = Append(answer, m)
    /\ usage' = IF provider = "running" THEN Overwritten(Len(answer) + 1) ELSE usage
    /\ UNCHANGED <<dbVars, stage, mode, provider, vec, lex, hits, shown, citations>>

\* The stream ends; what tells its counts at the end has done so.
EndStream ==
    /\ stage = "stream"
    /\ provider # "before"
    /\ usage' = IF provider = "end" THEN Len(answer) ELSE usage
    /\ stage' = "cite"
    /\ UNCHANGED <<dbVars, mode, provider, vec, lex, hits, shown, answer, citations>>

\* Mutant: hits is indexed by the marker as if both began at 0.
SourceAfter(m) == hits[IF m < Len(hits) THEN m + 1 ELSE 1]

\* hits[marker - 1], from 0.
SourceOf(m) == hits[m]

\* The markers of the answer that name a source, each once, in order.
Markers == {m \in 1 .. Len(hits) : m \in Elements(answer)}

\* extract_citations.
Cite ==
    LET markers == InOrder(Markers, Upward) IN
    /\ stage = "cite"
    /\ citations' = [i \in 1 .. Len(markers) |->
                       [marker |-> markers[i], source |-> SourceOf(markers[i])]]
    /\ stage' = "done"
    /\ UNCHANGED <<dbVars, mode, provider, vec, lex, hits, shown, answer, usage>>

\* The database, the embedding or the provider raises.
Raise ==
    /\ stage \notin {"idle", "done", "failed"}
    /\ stage' = "failed"
    /\ UNCHANGED <<dbVars, mode, provider, vec, lex, hits, shown, answer, usage,
                   citations>>

Next ==
    \/ \E d \in Docs : Ingest(d) \/ Rename(d) \/ Delete(d)
    \/ Ask \/ RankVector \/ RankLexical \/ Load
    \/ StubAnswer \/ Token \/ EndStream \/ Cite \/ Raise

Spec == Init /\ [][Next]_vars
-----------------------------------------------------------------------------
TypeOK ==
    /\ title \in [Docs -> 0 .. MaxTitles]
    /\ indexed \in [Docs -> 0 .. MaxRuns]
    /\ runs \in 1 .. MaxRuns
    /\ stage \in Stage
    /\ mode \in Mode
    /\ provider \in Provider
    /\ vec \in Seq(Chunk)
    /\ lex \in Seq(Chunk)
    /\ hits \in Seq(Hit)
    /\ shown \in Seq(Hit)
    /\ answer \in Seq(Nat)
    /\ usage \in Nat
    /\ citations \in Seq([marker : 1 .. Len(hits), source : Hit])
    /\ moved \subseteq Docs

\* Hits of one document are of one edition: their chunks of one ingestion and
\* their titles the same, though the arms may have ranked chunks of two
\* ingestions and the document may have been renamed in between.
OneEdition ==
    \A i, j \in 1 .. Len(hits) : hits[i].chunk.doc = hits[j].chunk.doc =>
        /\ hits[i].chunk.run = hits[j].chunk.run
        /\ hits[i].title = hits[j].title

Arms(c) == {s \in {"vec", "lex"} : c \in Elements(IF s = "vec" THEN vec ELSE lex)}

\* a is found by both arms and b by one, or a is ahead wherever b is found.
Better(a, b) ==
    \/ Cardinality(Arms(a)) = 2 /\ Cardinality(Arms(b)) = 1
    \/ /\ Arms(b) # {}
       /\ Arms(b) \subseteq Arms(a)
       /\ "vec" \in Arms(b) => PositionOf(vec, a) < PositionOf(vec, b)
       /\ "lex" \in Arms(b) => PositionOf(lex, a) < PositionOf(lex, b)

\* The fusion honours the ranks: no hit comes behind a worse one, "agreement
\* beats single list top" (tests/unit/test_rrf.py), and a chunk better than a
\* hit is a hit itself, unless its document changed since it was ranked.
BestFirst ==
    \A j \in 1 .. Len(hits) : \A a \in Elements(vec) \cup Elements(lex) :
        Better(a, hits[j].chunk) =>
            \/ \E i \in 1 .. j - 1 : hits[i].chunk = a
            \/ a.doc \in moved

\* What the reader sees under a marker is the source the model was shown under
\* it, every source the answer names is cited once, in order, and nothing it
\* made up is.
CitationsResolve ==
    stage = "done" /\ provider # "none" =>
        /\ \A i \in 1 .. Len(citations) : citations[i].source = shown[citations[i].marker]
        /\ \A i, j \in 1 .. Len(citations) :
               i < j => citations[i].marker < citations[j].marker
        /\ {citations[i].marker : i \in 1 .. Len(citations)}
               = {m \in Elements(answer) : m \in 1 .. Len(shown)}

\* The counts an answer is charged by are those of all its tokens, whenever
\* its provider tells them.
UsageIsFinal ==
    stage \in {"cite", "done"} => usage = Len(answer)
=============================================================================
