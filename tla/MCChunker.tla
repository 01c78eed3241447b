------------------------------ MODULE MCChunker ------------------------------
(***************************************************************************)
(* Model-checking instances of Chunker.                                    *)
(***************************************************************************)
EXTENDS Chunker, SequencesExt

\* Every raw text of at most 4 characters over all five character classes:
\* exercises _clean_content and windows of a few characters.
ShortRawTexts == BoundedSeq({"a", ".", " ", "TAB", "NUL"}, 4)

\* The text of n characters with a ". " sentence end at each position of
\* P (1-based position of the mark) and word characters elsewhere.
SentenceText(n, P) ==
    [i \in 1..n |-> IF i \in P THEN "." ELSE IF i - 1 \in P THEN " " ELSE "a"]

\* Texts of 17 to 20 characters with up to three sentence ends: longer than
\* a 16-character window, so that a ". " at window position 13 makes the
\* boundary cut shorten the window.
LongSentenceTexts ==
    UNION {{SentenceText(n, P) :
               P \in {Q \in UNION {kSubset(k, 1..(n - 1)) : k \in 0..3} :
                         \A i \in Q : i + 1 \notin Q}} :
           n \in 17..20}

\* Configurations with overlap < chunk_size, the precondition of spec 4.1.
SmallConfigs ==
    {c \in [chunk_size : 1..3, chunk_overlap : 0..2] :
        c.chunk_overlap < c.chunk_size}

\* chunk_size 16 with overlaps below the shortest boundary cut (15).
LongConfigs == {[chunk_size |-> 16, chunk_overlap |-> o] : o \in {0, 5, 14}}

\* chunk_size 16 with overlap 15: valid by spec 4.1 (overlap < chunk_size).
TightConfigs == {[chunk_size |-> 16, chunk_overlap |-> 15]}

\* An 18-character text without a sentence end, and ones with a ". " at
\* window position 13 (1-based position 14 of the mark).
TightTexts == {SentenceText(18, P) : P \in {{}, {14}, {5, 14}}}

ChunkerConfigs == SmallConfigs \cup LongConfigs
ChunkerTexts == ShortRawTexts \cup LongSentenceTexts
=============================================================================
