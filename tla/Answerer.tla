------------------------------- MODULE Answerer -------------------------------
(***************************************************************************)
(* RAGPipeline.generate_answer of src/examples/rag-pipeline/rag_demo.py    *)
(* with _generate_fallback_answer (the extractive answer) and the call of  *)
(* _generate_openai_answer, whose remote completion succeeds or raises.    *)
(*                                                                         *)
(* Text is a sequence of tokens: words, the whitespace tokens " " and "NL" *)
(* (a newline), and "." standing for any of the marks . ! ? that          *)
(* re.split(r'[.!?]+', ...) splits on.  TokLen gives each token's length  *)
(* in characters and LowerOf what str.lower() makes of it.                 *)
(***************************************************************************)
EXTENDS Integers, Sequences, SequencesExt, FiniteSets, Functions

CONSTANTS
    Titles,        \* document titles of context docs
    TitleToks,     \* TitleToks[t]: the tokens of "'" + t + "'" + ":"
    Contents,      \* chunk contents (token sequences) a context doc may carry
    Questions,     \* questions (token sequences)
    TokLen,        \* TokLen[w]: len(w)
    LowerOf,       \* LowerOf[w]: w.lower()
    UseOpenAI,     \* HAS_OPENAI and os.getenv('OPENAI_API_KEY')
    MaxDocs        \* bound on len(context_docs)

VARIABLES
    question,   \* the question of the last call
    docs,       \* its context_docs: records [title, content]
    reply,      \* what generate_answer returned
    pc          \* "idle" or "answered"

vars == <<question, docs, reply, pc>>

Gap  == {" ", "NL"}
Mark == "."

-----------------------------------------------------------------------------
(* str helpers on token sequences *)

\* s.strip()
StripToks(s) ==
    LET first == SelectInSeq(s, LAMBDA w : w \notin Gap)
        last  == SelectLastInSeq(s, LAMBDA w : w \notin Gap)
    IN  IF first = 0 THEN <<>> ELSE SubSeq(s, first, last)

\* len(s)
TextLen(s) == SumFunction([i \in DOMAIN s |-> TokLen[s[i]]])

\* set(s.lower().split())
WordSet(s) == {LowerOf[s[i]] : i \in {j \in DOMAIN s : s[j] \notin Gap}}

\* re.split(r'[.!?]+', s): the pieces between maximal runs of marks,
\* including a leading and a trailing piece that may be empty.
RECURSIVE SplitSentences(_)
SplitSentences(s) ==
    LET m    == SelectInSeq(s, LAMBDA w : w = Mark)
        rest == SubSeq(s, m, Len(s))
        k    == SelectInSeq(rest, LAMBDA w : w # Mark)
    IN  IF m = 0 THEN <<s>>
        ELSE <<SubSeq(s, 1, m - 1)>> \o
             (IF k = 0 THEN <<<<>>>> ELSE SplitSentences(SubSeq(rest, k, Len(rest))))

-----------------------------------------------------------------------------
(* generate_answer: the context *)

\* f"From '{title}':\n{content}"
ContextPart(d) == <<"From", " ">> \o TitleToks[d.title] \o <<"NL">> \o d.content

\* The docs whose stripped content is non-empty, in order.
UsedDocs(ds) == SelectSeq(ds, LAMBDA d : StripToks(d.content) # <<>>)

\* "\n\n".join(context_parts[:3])
JoinParts(ps) ==
    IF ps = <<>> THEN <<>>
    ELSE FoldLeft(LAMBDA acc, p : acc \o <<"NL", "NL">> \o p, Head(ps), Tail(ps))

\* context_parts: one part per used doc, content stripped.
ContextParts(ds) ==
    LET used == UsedDocs(ds)
    IN  [i \in DOMAIN used |->
           ContextPart([used[i] EXCEPT !.content = StripToks(@)])]

\* context_parts[:3]
MaxParts == 3

BuildContext(ds) ==
    LET ps == ContextParts(ds)
    IN  JoinParts(SubSeq(ps, 1, IF Len(ps) < MaxParts THEN Len(ps) ELSE MaxParts))

\* list(set(sources)): the titles of every doc with non-empty content.
Sources(ds) == {UsedDocs(ds)[i].title : i \in DOMAIN UsedDocs(ds)}

-----------------------------------------------------------------------------
(* _generate_fallback_answer *)

Insufficient == [kind |-> "insufficient"]
Unanswerable == [kind |-> "unanswerable"]
BasedOn(s)   == [kind |-> "based", sentence |-> s]

\* Fault: the sentence is not stripped before it is measured and kept.
ScoredUnstripped(q, ctx) ==
    LET qw     == WordSet(q)
        pieces == SplitSentences(ctx)
        pairs  == [i \in DOMAIN pieces |->
                     [sentence |-> pieces[i],
                      overlap |-> Cardinality(qw \cap WordSet(pieces[i]))]]
    IN  SelectSeq(pairs, LAMBDA p : TextLen(p.sentence) >= 10 /\ p.overlap > 0)

\* The (sentence, overlap) pairs kept by the loop: stripped pieces of at
\* least 10 characters sharing a word with the question.
Scored(q, ctx) ==
    LET qw     == WordSet(q)
        pieces == [i \in DOMAIN SplitSentences(ctx) |->
                     StripToks(SplitSentences(ctx)[i])]
        pairs  == [i \in DOMAIN pieces |->
                     [sentence |-> pieces[i],
                      overlap |-> Cardinality(qw \cap WordSet(pieces[i]))]]
    IN  SelectSeq(pairs, LAMBDA p : TextLen(p.sentence) >= 10 /\ p.overlap > 0)

\* best_sentences.sort(key=overlap, reverse=True): stable.
RECURSIVE InsertByOverlap(_, _)
InsertByOverlap(p, s) ==
    IF s = <<>> THEN <<p>>
    ELSE IF Head(s).overlap >= p.overlap THEN <<Head(s)>> \o InsertByOverlap(p, Tail(s))
    ELSE <<p>> \o s

\* Fault: best_sentences is not sorted.
SortByOverlapOmitted(s) == s

SortByOverlap(s) == FoldLeft(LAMBDA acc, p : InsertByOverlap(p, acc), <<>>, s)

GenerateFallbackAnswer(q, ctx) ==
    IF StripToks(ctx) = <<>> THEN Insufficient
    ELSE IF Scored(q, ctx) = <<>> THEN Unanswerable
    ELSE BasedOn(Head(SortByOverlap(Scored(q, ctx))).sentence)

-----------------------------------------------------------------------------
(* The call *)

NoReply == [answer |-> [kind |-> "none"], context |-> <<>>, sources |-> {},
            count |-> 0]

Init ==
    /\ question = <<>>
    /\ docs = <<>>
    /\ reply = NoReply
    /\ pc = "idle"

\* generate_answer(question, context_docs); with OpenAI configured the
\* completion either returns text ("generated") or raises, and the
\* fallback answer is used.
GenerateAnswer ==
    /\ pc = "idle"
    /\ pc' = "answered"
    /\ \E q \in Questions, n \in 0..MaxDocs, apiOk \in BOOLEAN :
         \E ds \in [1..n -> [title : Titles, content : Contents]] :
            LET ctx == BuildContext(ds)
            IN
            /\ question' = q
            /\ docs' = ds
            /\ reply' = [answer  |-> IF UseOpenAI /\ apiOk
                                     THEN [kind |-> "generated"]
                                     ELSE GenerateFallbackAnswer(q, ctx),
                         context |-> ctx,
                         sources |-> Sources(ds),
                         count   |-> n]

\* The caller takes the reply; the next call starts afresh.
Return ==
    /\ pc = "answered"
    /\ pc' = "idle"
    /\ question' = <<>>
    /\ docs' = <<>>
    /\ reply' = NoReply

Next == GenerateAnswer \/ Return

Spec == Init /\ [][Next]_vars

-----------------------------------------------------------------------------
(* Properties *)

AnswerOK(a) ==
    \/ a \in {[kind |-> k] : k \in {"none", "insufficient", "unanswerable", "generated"}}
    \/ /\ a.kind = "based"
       /\ a.sentence \in Seq(DOMAIN TokLen \ {Mark})
       /\ a.sentence # <<>>
       /\ a.sentence = StripToks(a.sentence)

TypeOK ==
    /\ question \in Questions \cup {<<>>}
    /\ docs \in Seq([title : Titles, content : Contents])
    /\ AnswerOK(reply.answer)
    /\ reply.sources \subseteq Titles
    /\ reply.count = Len(docs)
    /\ pc \in {"idle", "answered"}

\* The sentences of a context with the overlap of each with question q.
RefPieces(ctx) == [i \in DOMAIN SplitSentences(ctx) |-> StripToks(SplitSentences(ctx)[i])]
RefOverlap(q, s) == Cardinality(WordSet(q) \cap WordSet(s))

\* Reference for the extractive answer, written from spec 4.4 with the
\* code's rule that sentences under 10 characters are not answers: the
\* earliest sentence of maximal (non-zero) overlap.
RefFallbackAnswer(q, ctx) ==
    LET P    == RefPieces(ctx)
        Long == {i \in DOMAIN P : TextLen(P[i]) >= 10}
        Best == {i \in Long : RefOverlap(q, P[i]) > 0 /\
                              \A j \in Long : RefOverlap(q, P[j]) <= RefOverlap(q, P[i])}
    IN  IF StripToks(ctx) = <<>> THEN Insufficient
        ELSE IF Best = {} THEN Unanswerable
        ELSE BasedOn(P[CHOOSE i \in Best : \A j \in Best : i <= j])

\* _generate_fallback_answer returns the first of the sentences with the
\* most question words: the filter loop, the stable descending sort and
\* the pick of element 0 together select the reference sentence.
FallbackIsBestSentence ==
    reply.answer.kind \in {"insufficient", "unanswerable", "based"} =>
        reply.answer = RefFallbackAnswer(question, reply.context)

\* Spec 4.4: the sources reported are the titles of the chunks included in
\* the context (the first three non-empty ones), not of every chunk passed.
SourcesOfContext ==
    LET used == UsedDocs(docs)
    IN  reply.sources = {used[i].title : i \in 1..Len(used) \cap 1..MaxParts}

=============================================================================
