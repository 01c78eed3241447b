---------------------------- MODULE MCRAGPipeline ----------------------------
(***************************************************************************)
(* Model-checking instances of RAGPipeline: two documents, one of two      *)
(* chunks, and queries equal to a chunk text.                              *)
(***************************************************************************)
EXTENDS RAGPipeline

MCTitles == {"overview", "vector"}

MCDocChunks == [t \in MCTitles |->
                  IF t = "overview" THEN <<"storage", "indices">>
                  ELSE <<"search">>]

MCDocSource == [t \in MCTitles |->
                  IF t = "overview" THEN "documentation" ELSE "technical-guide"]

MCQueries == {"indices", "search"}

\* "indices" is about "search" and the other way round; "storage" is
\* about neither.
MCRelevant == {<<"indices", "search">>, <<"search", "indices">>}

\* A query is found literally only in the chunk equal to it.
MCLiteralMatch == {<<q, q>> : q \in MCQueries}
=============================================================================
