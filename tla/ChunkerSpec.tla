------------------------------ MODULE ChunkerSpec ------------------------------
(***************************************************************************)
(* What chunk_document promises (spec.md 3, 4.1), as one atomic step: the  *)
(* raw text is normalised, and the result is either the single chunk of a  *)
(* short text or a sequence of windows of at most chunk_size characters,   *)
(* at strictly increasing offsets, that together cover every non-space     *)
(* character of the normalised text, each holding its stripped slice, all *)
(* carrying the final chunk_count.  Chunker implements it.                 *)
(***************************************************************************)
EXTENDS Integers, Sequences, PyText

CONSTANT Configs

VARIABLES
    config,   \* the RAGConfig
    doc,      \* the raw text of the call, <<>> before it returns
    text,     \* the normalised text, <<>> before it returns
    result,   \* the returned chunks, <<>> before it returns
    pc        \* "call" or "done"

vars == <<config, doc, text, result, pc>>

\* Every non-space character lies in the window [start_char, end_char) of
\* some chunk.
Covers(cs, t) ==
    \A i \in 0..(Len(t) - 1) :
        t[i + 1] # " " =>
            \E k \in DOMAIN cs : cs[k].start_char <= i /\ i < cs[k].end_char

\* A window of the sliding loop: inside the text's offsets, at most size
\* long, holding the stripped slice, non-empty.
Window(c, t, size) ==
    /\ 0 <= c.start_char /\ c.start_char < c.end_char
    /\ c.end_char - c.start_char <= size
    /\ c.content = PyStrip(PySlice(t, c.start_char, c.end_char))
    /\ c.content # <<>>

\* The result promised for normalised text t under configuration cfg.
Promise(cs, t, cfg) ==
    IF Len(t) <= cfg.chunk_size
    THEN cs = <<[content |-> t, chunk_index |-> 0, start_char |-> 0,
                 end_char |-> Len(t), chunk_count |-> 1]>>
    ELSE /\ \A k \in DOMAIN cs :
              /\ Window(cs[k], t, cfg.chunk_size)
              /\ cs[k].chunk_count = Len(cs)
         /\ \A k \in DOMAIN cs : k > 1 =>
              /\ cs[k - 1].start_char < cs[k].start_char
              /\ cs[k - 1].chunk_index < cs[k].chunk_index
         /\ Covers(cs, t)

Init ==
    /\ config \in Configs
    /\ doc = <<>>
    /\ text = <<>>
    /\ result = <<>>
    /\ pc = "call"

\* chunk_document(doc) returns.
ChunkDocument ==
    /\ pc = "call"
    /\ doc' \in Seq(RawChars)
    /\ text' = CleanContent(doc')
    /\ Promise(result', text', config)
    /\ pc' = "done"
    /\ UNCHANGED config

Spec == Init /\ [][ChunkDocument]_vars

=============================================================================
