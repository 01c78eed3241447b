------------------------------ MODULE MCAnswerer ------------------------------
(***************************************************************************)
(* Tokens, titles, chunk contents and questions for Answerer.              *)
(***************************************************************************)
EXTENDS Answerer

MCTokLen ==
    ("KotaDB" :> 6 @@ "is" :> 2 @@ "fast" :> 4 @@ "search" :> 6 @@
     "uses" :> 4 @@ "From" :> 4 @@ " " :> 1 @@ "NL" :> 1 @@ "." :> 1 @@
     "fast?" :> 5 @@ "why" :> 3 @@ "'Overview':" :> 11 @@ "'Fast" :> 5 @@
     "Search" :> 6 @@ "In" :> 2 @@ "KotaDB':" :> 8)

MCLowerOf ==
    [w \in DOMAIN MCTokLen |->
        CASE w = "KotaDB"      -> "kotadb"
          [] w = "From"        -> "from"
          [] w = "'Overview':" -> "'overview':"
          [] w = "'Fast"       -> "'fast"
          [] w = "Search"      -> "search"
          [] w = "In"          -> "in"
          [] w = "KotaDB':"    -> "kotadb':"
          [] OTHER             -> w]

MCTitles == {"Overview", "Fast Search In KotaDB"}

MCTitleToks ==
    "Overview" :> <<"'Overview':">> @@
    "Fast Search In KotaDB" :> <<"'Fast", " ", "Search", " ", "In", " ", "KotaDB':">>

\* "KotaDB is fast."; "search is fast" (a chunk cut mid-sentence);
\* "KotaDB uses search. is fast." (a short second sentence); "" (an empty
\* chunk, see Chunker!NonEmptyChunks).
MCContents ==
    { <<"KotaDB", " ", "is", " ", "fast", ".">>,
      <<"search", " ", "is", " ", "fast">>,
      <<"KotaDB", " ", "uses", " ", "search", ".", " ", "is", " ", "fast", ".">>,
      <<>> }

\* "is KotaDB fast?", "fast", "why"
MCQuestions ==
    { <<"is", " ", "KotaDB", " ", "fast?">>, <<"fast">>, <<"why">> }
\* Two non-empty contents and one question, for runs over four docs.
MCFewContents ==
    { <<"KotaDB", " ", "is", " ", "fast", ".">>,
      <<"search", " ", "is", " ", "fast">> }

MCOneQuestion == { <<"is", " ", "KotaDB", " ", "fast?">> }
=============================================================================
