----------------------------- MODULE RAGPipeline -----------------------------
(***************************************************************************)
(* RAGPipeline and EmbeddingProvider of                                    *)
(* src/examples/rag-pipeline/rag_demo.py against a KotaDB store that       *)
(* outlives the process: ingest_document, semantic_search with its         *)
(* fallback to _fallback_text_search, get_knowledge_base_stats, and a      *)
(* restart of the Python process (a new hash seed for _mock_embed).        *)
(*                                                                         *)
(* chunk_document is abstracted to its result, DocChunks[title] (checked   *)
(* in Chunker).  A chunk text or a query is a model value; an embedding is *)
(* the record of how it was made (EmbeddingProvider below), and a cosine   *)
(* similarity is a small integer level (Similarity below).                 *)
(***************************************************************************)
EXTENDS Integers, Sequences, SequencesExt, FiniteSets

CONSTANTS
    Titles,       \* documents ingest_document may be called with
    DocChunks,    \* DocChunks[t]: the chunk texts chunk_document yields for t
    DocSource,    \* DocSource[t]: the source argument of its ingestion
    Queries,      \* questions passed to semantic_search
    Relevant,     \* pairs <<q, x>>: chunk text x is about query q
    LiteralMatch,     \* pairs <<q, x>>: chunk text x contains query q literally
    HasOpenAI,    \* import openai succeeded
    HasNumpy,     \* import numpy succeeded
    HasSklearn,   \* numpy and scikit-learn imports succeeded (HAS_SKLEARN)
    Seeds,        \* hash seeds a Python process may start with
    Limit,        \* QueryBuilder().limit(1000)
    MaxResults,   \* RAGConfig.max_results
    MaxStore,     \* bound on the number of stored chunks
    MaxRestarts   \* bound on process restarts

ASSUME HasSklearn => HasNumpy

VARIABLES
    store,     \* KotaDB documents tagged knowledge-base/chunk, insert order
    seed,      \* hash seed of the running process
    restarts,  \* restarts so far
    result     \* what the last call returned

vars == <<store, seed, restarts, result>>

Texts == UNION {ToSet(DocChunks[t]) : t \in Titles}

-----------------------------------------------------------------------------
(* EmbeddingProvider, as constructed by RAGPipeline.__init__:               *)
(* "openai" if HAS_OPENAI else "tfidf".  The pipeline only calls embed_text,*)
(* never embed_texts, so a "tfidf" provider is never fitted and falls back  *)
(* to _mock_embed on every call.                                           *)

Provider == IF HasOpenAI THEN "openai" ELSE "tfidf"

\* An embedding: "api" (1536 floats from the remote model), "mock" (384
\* normal floats seeded by hash(text) of the process), "zero" (384 zeros).
ApiVec(x)      == [kind |-> "api",  text |-> x, seed |-> 0]
MockVec(x, s)  == [kind |-> "mock", text |-> x, seed |-> s]
ZeroVec        == [kind |-> "zero", text |-> "none", seed |-> 0]
\* The call raised.
EmbedError     == [kind |-> "error", text |-> "none", seed |-> 0]
Dim(e)         == IF e.kind = "api" THEN 1536 ELSE 384

\* _mock_embed: np.random.seed runs before the HAS_SKLEARN test, so without
\* numpy the call raises NameError.
MockEmbed(x, s) ==
    IF ~HasNumpy THEN {EmbedError}
    ELSE IF HasSklearn THEN {MockVec(x, s)} ELSE {ZeroVec}

\* embed_text: the possible outcomes of one call; _openai_embed falls back
\* to _mock_embed when the API call raises, _tfidf_embed when not fitted.
EmbedText(x, s) ==
    IF Provider = "openai" THEN {ApiVec(x)} \cup MockEmbed(x, s)
    ELSE MockEmbed(x, s)

-----------------------------------------------------------------------------
(* RAGPipeline._cosine_similarity, as a level: 3 for identical vectors      *)
(* (cosine 1.0), 2 for a relevant text and 1 for an unrelated one under the *)
(* remote model, 0 when a vector has zero magnitude, and any of 0..2 for   *)
(* two different pseudo-random mock vectors.  With scikit-learn, vectors of *)
(* different length make cosine_similarity raise ("error"); without it the  *)
(* zip() in the hand-written branch truncates silently.                     *)

Noise == 0..2

\* cosine_similarity raised.
ScoreError == -1

SimilarityLevels(q, qe, ce) ==
    IF HasSklearn /\ Dim(qe) # Dim(ce) THEN {ScoreError}
    ELSE IF qe.kind = "zero" \/ ce.kind = "zero" THEN {0}
    ELSE IF qe = ce THEN {3}
    ELSE IF qe.kind = "api" /\ ce.kind = "api"
         THEN {IF <<q, ce.text>> \in Relevant THEN 2 ELSE 1}
    ELSE Noise

-----------------------------------------------------------------------------
(* Sorting and limits *)

LOCAL IMin(a, b) == IF a <= b THEN a ELSE b

\* similarities.sort(key=similarity, reverse=True): stable, so equal
\* similarities keep their retrieval order.
RECURSIVE InsertDesc(_, _)
InsertDesc(h, s) ==
    IF s = <<>> THEN <<h>>
    ELSE IF Head(s).sim >= h.sim THEN <<Head(s)>> \o InsertDesc(h, Tail(s))
    ELSE <<h>> \o s

\* Fault: the sort is left out, hits stay in retrieval order.
SortBySimilarityOmitted(s) == s

SortBySimilarity(s) == FoldLeft(LAMBDA acc, h : InsertDesc(h, acc), <<>>, s)

\* Fault: the [:max_results] cut (and .limit(n)) is left out.
FirstNUncut(s, n) == s

\* A query with .limit(n), or a list cut [:n]: the first n elements.
FirstN(s, n) == SubSeq(s, 1, IMin(n, Len(s)))

\* The store positions a knowledge-base query with .limit(Limit) returns.
Candidates == 1..IMin(Limit, Len(store))

-----------------------------------------------------------------------------
(* Operations *)

\* A chunk of ingest_document reaches the store when embed_text returned a
\* vector and insert_with_builder returned an id.
ChunkStored(e, ok) == e # EmbedError /\ ok

Init ==
    /\ store = <<>>
    /\ seed \in Seeds
    /\ restarts = 0
    /\ result = [op |-> "none"]

\* ingest_document(title, content, source): chunk, then for each chunk
\* embed_text and insert_with_builder; an exception in either skips the
\* chunk ("continue") and the loop goes on.  Returns the ids stored.
IngestDocument(t) ==
    LET cs == DocChunks[t]
        n  == Len(cs)
    IN
    /\ Len(store) + n <= MaxStore
    /\ \E emb \in [1..n -> UNION {EmbedText(cs[i], seed) : i \in 1..n}],
          insertOk \in [1..n -> BOOLEAN] :
        /\ \A i \in 1..n : emb[i] \in EmbedText(cs[i], seed)
        /\ LET stored == SelectSeq([i \in 1..n |-> i],
                                   LAMBDA i : ChunkStored(emb[i], insertOk[i]))
           IN
           /\ store' = store \o [k \in 1..Len(stored) |->
                           [title |-> t, text |-> cs[stored[k]],
                            source |-> DocSource[t], emb |-> emb[stored[k]]]]
           /\ result' = [op |-> "ingest", title |-> t, chunks |-> n,
                         stored |-> Len(stored)]
    /\ UNCHANGED <<seed, restarts>>

\* _fallback_text_search(query, max_results): text query tagged
\* knowledge-base, limit max_results, every hit with similarity 0.5; a
\* failing store query gives [].
FallbackTextSearch(q, storeUp) ==
    IF ~storeUp THEN <<>>
    ELSE FirstN(SelectSeq([i \in 1..Len(store) |-> [idx |-> i, sim |-> "0.5"]],
                          LAMBDA h : <<q, store[h.idx].text>> \in LiteralMatch),
                MaxResults)

\* semantic_search(query): embed the query, fetch up to Limit chunks, score
\* each (a failing chunk is skipped), sort, keep max_results.  An exception
\* from the query embedding or the store query falls back to text search.
SemanticSearch(q) ==
    /\ \E qe \in EmbedText(q, seed), up \in BOOLEAN, fallbackUp \in BOOLEAN :
        IF qe = EmbedError \/ ~up
        THEN result' = [op |-> "search", q |-> q, mode |-> "lexical",
                        hits |-> FallbackTextSearch(q, fallbackUp)]
        ELSE \E level \in [Candidates -> {ScoreError, 0, 1, 2, 3}] :
               /\ \A i \in Candidates :
                    level[i] \in SimilarityLevels(q, qe, store[i].emb)
               /\ LET scored == SelectSeq(
                          [k \in Candidates |-> [idx |-> k, sim |-> level[k]]],
                          LAMBDA h : h.sim # ScoreError)
                  IN  result' = [op |-> "search", q |-> q, mode |-> "semantic",
                                 hits |-> FirstN(SortBySimilarity(scored), MaxResults)]
    /\ UNCHANGED <<store, seed, restarts>>

\* get_knowledge_base_stats(): one knowledge-base query with limit 1000;
\* a failing query gives {}.
GetKnowledgeBaseStats ==
    /\ \E up \in BOOLEAN :
        result' =
            IF ~up THEN [op |-> "stats", ok |-> FALSE]
            ELSE [op |-> "stats", ok |-> TRUE,
                  total_chunks |-> Cardinality(Candidates),
                  unique_sources |-> Cardinality({store[i].source : i \in Candidates})]
    /\ UNCHANGED <<store, seed, restarts>>

\* The Python process exits and a new one starts with a fresh
\* PYTHONHASHSEED; the KotaDB store keeps every chunk.
Restart ==
    /\ restarts < MaxRestarts
    /\ \E s \in Seeds : seed' = s
    /\ restarts' = restarts + 1
    /\ result' = [op |-> "none"]
    /\ UNCHANGED store

Next ==
    \/ \E t \in Titles : IngestDocument(t)
    \/ \E q \in Queries : SemanticSearch(q)
    \/ GetKnowledgeBaseStats
    \/ Restart

Spec == Init /\ [][Next]_vars

-----------------------------------------------------------------------------
(* Properties *)

Embeddings ==
    {ApiVec(x) : x \in Texts} \cup {MockVec(x, s) : x \in Texts, s \in Seeds}
    \cup {ZeroVec}

TypeOK ==
    /\ store \in Seq([title : Titles, text : Texts,
                      source : {DocSource[t] : t \in Titles}, emb : Embeddings])
    /\ Len(store) <= MaxStore
    /\ seed \in Seeds
    /\ restarts \in 0..MaxRestarts
    /\ result.op \in {"none", "ingest", "search", "stats"}
    /\ result.op = "search" =>
         /\ result.mode \in {"semantic", "lexical"}
         /\ Len(result.hits) <= MaxResults
         /\ \A k \in DOMAIN result.hits : result.hits[k].idx \in 1..Len(store)

\* The text of the k-th hit of the last search.
HitText(k) == store[result.hits[k].idx].text

SemanticResult == result.op = "search" /\ result.mode = "semantic"

\* Spec 8, cosine of a vector with itself is 1.0: when the knowledge base
\* holds a chunk whose text is the query itself, semantic_search ranks such
\* a chunk first.  Ingestion, embedding in the same or an earlier process,
\* the store's limit, the sort and the cut to max_results all take part.
ExactMatchFirst ==
    SemanticResult /\ (\E i \in Candidates : store[i].text = result.q)
        => result.hits # <<>> /\ HitText(1) = result.q

=============================================================================
