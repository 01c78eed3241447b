------------------------------- MODULE Chunker -------------------------------
(***************************************************************************)
(* DocumentChunker of src/examples/rag-pipeline/rag_demo.py: one call of   *)
(* chunk_document, cleaning the text, then the sliding-window loop that     *)
(* cuts at a sentence boundary in the last 20% of the window, advances the  *)
(* window start to end - overlap, drops chunks that are empty after         *)
(* strip(), and finally backfills chunk_count.                              *)
(*                                                                         *)
(* Texts are sequences of the character classes of PyText.               *)
(* Offsets start_char/end_char and the loop's start/end are Python ints,   *)
(* 0-based, and slices follow Python's slicing rules (PySlice).            *)
(***************************************************************************)
EXTENDS Integers, Sequences, SequencesExt, PyText

CONSTANTS
    Configs,    \* set of RAGConfig records [chunk_size, chunk_overlap]
    RawTexts,   \* set of documents (sequences of raw characters) to chunk
    MaxChunks   \* bound on the loop counter chunk_index

VARIABLES
    config,     \* the pipeline's RAGConfig, fixed for its lifetime
    doc,        \* the raw content passed to chunk_document
    content,    \* content after _clean_content
    start,      \* loop variable start
    chunkIndex, \* loop variable chunk_index
    chunks,     \* the list being built
    pc          \* "call", "loop" or "done"

vars == <<config, doc, content, start, chunkIndex, chunks, pc>>

LOCAL IMin(a, b) == IF a <= b THEN a ELSE b

-----------------------------------------------------------------------------
(* DocumentChunker._find_sentence_boundary *)

\* Fault: the "in the last 20%" condition is dropped.
FindSentenceBoundaryAnywhere(text) ==
    LET n    == Len(text)
        ends == {p \in 0..(n - 2) : text[p + 1] = "." /\ text[p + 2] = " "}
        pos  == IF ends = {} THEN -1
                ELSE CHOOSE p \in ends : \A q \in ends : q <= p
    IN  IF pos # -1 THEN pos + 1 ELSE -1

(* DocumentChunker._find_sentence_boundary: the 0-based index of the last  *)
(* character of the rightmost ". " whose position is beyond 80% of the     *)
(* text, or -1.  rfind per ending and the "pos > best_pos" comparison       *)
(* select the rightmost ending of any of the three marks.                   *)
FindSentenceBoundary(text) ==
    LET n    == Len(text)
        ends == {p \in 0..(n - 2) : text[p + 1] = "." /\ text[p + 2] = " "}
        pos  == IF ends = {} THEN -1
                ELSE CHOOSE p \in ends : \A q \in ends : q <= p
    IN  IF pos # -1 /\ 5 * pos > 4 * n THEN pos + 1 ELSE -1

\* The end of the window that starts at st: cut after the boundary when
\* the window does not reach the end of the text and a boundary is found.
WindowEnd(text, st, size) ==
    LET end0 == st + size
        sb   == FindSentenceBoundary(PySlice(text, st, end0))
    IN  IF end0 < Len(text) /\ sb # -1 THEN st + sb + 1 ELSE end0

\* Fault: the next window starts one character after end - overlap.
NextStartOffByOne(end, ov) == end - ov + 1

\* start = end - self.overlap
NextStart(end, ov) == end - ov

-----------------------------------------------------------------------------
(* The call *)

Init ==
    /\ config \in Configs
    /\ doc = <<>>
    /\ content = <<>>
    /\ start = 0
    /\ chunkIndex = 0
    /\ chunks = <<>>
    /\ pc = "call"

\* chunk_document(content) entry: clean the text; a text no longer than
\* chunk_size is returned at once as one chunk (its metadata carries no
\* offsets; the chunk is given the whole text as its window).
ChunkDocument ==
    /\ pc = "call"
    /\ \E raw \in RawTexts :
        LET text == CleanContent(raw)
        IN
        /\ doc' = raw
        /\ content' = text
        /\ IF Len(text) <= config.chunk_size
           THEN /\ chunks' = <<[content |-> text, chunk_index |-> 0,
                                start_char |-> 0, end_char |-> Len(text),
                                chunk_count |-> 1]>>
                /\ pc' = "done"
           ELSE /\ chunks' = <<>>
                /\ pc' = "loop"
    /\ UNCHANGED <<config, start, chunkIndex>>

\* One iteration of the while loop.
ChunkStep ==
    LET end   == WindowEnd(content, start, config.chunk_size)
        piece == PyStrip(PySlice(content, start, end))
    IN
    /\ pc = "loop"
    /\ start < Len(content)
    /\ chunkIndex < MaxChunks
    /\ chunks' = IF piece # <<>>
                 THEN Append(chunks, [content |-> piece,
                                      chunk_index |-> chunkIndex,
                                      start_char |-> start, end_char |-> end,
                                      chunk_count |-> 0])
                 ELSE chunks
    /\ start' = NextStart(end, config.chunk_overlap)
    /\ chunkIndex' = chunkIndex + 1
    /\ UNCHANGED <<config, doc, content, pc>>

\* Loop exit: chunk_count of every chunk set to the number of chunks.
BackfillCounts ==
    /\ pc = "loop"
    /\ start >= Len(content)
    /\ chunks' = [i \in DOMAIN chunks |->
                    [chunks[i] EXCEPT !.chunk_count = Len(chunks)]]
    /\ pc' = "done"
    /\ UNCHANGED <<config, doc, content, start, chunkIndex>>

\* chunk_document has returned.
Returned ==
    /\ pc = "done"
    /\ UNCHANGED vars

Next == ChunkDocument \/ ChunkStep \/ BackfillCounts \/ Returned

\* Once called, chunk_document runs to its return: nothing else in the
\* process competes with it, so the loop's steps are weakly fair.  Whether
\* a caller calls it at all is the caller's business.
Spec == Init /\ [][Next]_vars
            /\ WF_vars(ChunkStep) /\ WF_vars(BackfillCounts)

-----------------------------------------------------------------------------
(* Properties *)

ChunkRecord == [content : Seq(CleanChars), chunk_index : Nat,
                start_char : Int, end_char : Int, chunk_count : Nat]

TypeOK ==
    /\ config \in Configs
    /\ doc \in Seq(RawChars)
    /\ content \in Seq(CleanChars)
    /\ start \in Int
    /\ chunkIndex \in 0..MaxChunks
    /\ chunks \in Seq(ChunkRecord)
    /\ pc \in {"call", "loop", "done"}

\* The implementation meets the promise of ChunkerSpec: seen at its return,
\* every call of chunk_document (the cleaning, the window loop with its
\* boundary cuts and overlap, the dropped empty windows, the chunk_count
\* backfill) is one atomic ChunkDocument step of the abstract
\* specification; the states inside the loop are hidden.
Abstract == INSTANCE ChunkerSpec WITH
    doc    <- IF pc = "done" THEN doc ELSE <<>>,
    text   <- IF pc = "done" THEN content ELSE <<>>,
    result <- IF pc = "done" THEN chunks ELSE <<>>,
    pc     <- IF pc = "done" THEN "done" ELSE "call"

ImplementsChunkerSpec == Abstract!Spec

\* The while loop of chunk_document makes progress: every iteration moves
\* the window start strictly forward.  With start bounded by len(content)
\* this is the variant that makes the loop end (a step with start' <= start
\* repeats or undoes a window, and the loop runs forever).
LoopProgress ==
    [][pc = "loop" /\ pc' = "loop" => start' > start]_vars

=============================================================================
