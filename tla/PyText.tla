-------------------------------- MODULE PyText --------------------------------
(***************************************************************************)
(* The text handling of DocumentChunker (src/examples/rag-pipeline/        *)
(* rag_demo.py) on texts of abstract character classes:                   *)
(*   "a"   any word character                                              *)
(*   "."   a sentence-ending mark ('.', '!' or '?')                        *)
(*   " "   a space                                                         *)
(*   "TAB" other whitespace (\t \n \r ...), collapsed by \s+               *)
(*   "NUL" a control character that is not whitespace (\x00, \x7f ...),    *)
(*         removed by [\x00-\x1f\x7f]                                      *)
(* Python slicing and str.strip, and _clean_content.                       *)
(***************************************************************************)
EXTENDS Integers, Sequences, SequencesExt

\* The character classes of raw and of cleaned text.
RawChars == {"a", ".", " ", "TAB", "NUL"}
CleanChars == {"a", ".", " "}

Whitespace == {" ", "TAB"}
Control == {"TAB", "NUL"}

-----------------------------------------------------------------------------
(* Python helpers *)

LOCAL IMax(a, b) == IF a >= b THEN a ELSE b
LOCAL IMin(a, b) == IF a <= b THEN a ELSE b

\* s[i:j] for a 0-based Python slice, negative and out-of-range bounds
\* normalised the way CPython normalises them.
PySlice(s, i, j) ==
    LET n == Len(s)
        Norm(k) == IF k < 0 THEN IMax(0, n + k) ELSE IMin(k, n)
        lo == Norm(i)
        hi == Norm(j)
    IN  IF lo >= hi THEN <<>> ELSE SubSeq(s, lo + 1, hi)

\* str.strip(): drop leading and trailing whitespace.
PyStrip(s) ==
    LET first == SelectInSeq(s, LAMBDA c : c \notin Whitespace)
        last  == SelectLastInSeq(s, LAMBDA c : c \notin Whitespace)
    IN  IF first = 0 THEN <<>> ELSE SubSeq(s, first, last)

-----------------------------------------------------------------------------
(* DocumentChunker._clean_content *)

\* re.sub(r'\s+', ' ', s): every maximal run of whitespace becomes one space.
CollapseWhitespace(s) ==
    FoldLeft(LAMBDA acc, c :
                IF c \in Whitespace
                THEN IF acc # <<>> /\ Last(acc) = " " THEN acc
                     ELSE Append(acc, " ")
                ELSE Append(acc, c),
             <<>>, s)

\* re.sub(r'[\x00-\x1f\x7f]', '', s), applied after the collapse.
RemoveControl(s) == SelectSeq(s, LAMBDA c : c \notin Control)

\* Fault: the control-character pass is left out.
CleanContentNoControlPass(s) == PyStrip(CollapseWhitespace(s))

CleanContent(s) == PyStrip(RemoveControl(CollapseWhitespace(s)))

=============================================================================
