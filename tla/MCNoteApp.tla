------------------------------ MODULE MCNoteApp ------------------------------
(***************************************************************************)
(* NoteApp for TLC.  Two note folders: "project" (which adds the project   *)
(* tag) and "a!" (whose "!" create_note's re.sub removes from the path but *)
(* not from the folder tag); a blank and a plain title; two contents whose *)
(* auto tags, with the user tags "python, a", make up to seven distinct   *)
(* tags over two notes, python on both, more than the five get_note_stats *)
(* keeps.  The document app may write a path under /notes, post a tag    *)
(* list holding an empty tag, and replace a document's tags.              *)
(***************************************************************************)
EXTENDS NoteApp

MCFolders    == {<<"project">>, <<"a", "!">>}
MCNoteTitles == {<<"a">>, <<" ">>}
MCContents   == {{"python", "todo"}, {"rust", "sql", "meeting"}}
MCTagFields  == {<<"python", ",", " ", "a">>, <<>>}
\* A JSON tag list with an empty tag, which add_tag receives unchecked.
MCJsonTags   == {<<<<"note">>, <<>>>>}
MCDocPaths   == {<<"/", "notes", "/", "a", "/", "a">>}
MCDocTitles  == {<<"a">>}
MCUpdates    == {<<>>, [tags |-> <<>>], [tags |-> <<<<"note">>, <<>>>>]}
MCQueries    == {<<"a">>}
MCLimitArgs  == {20, NaN}
\* A str-hash order of the tags for one PYTHONHASHSEED.
MCHashOrder  == [t \in {<<"sql">>, <<"meeting">>, <<"python">>, <<"project">>,
                        <<"todo">>, <<"rust">>, <<"a">>, <<"javascript">>,
                        <<"long-form">>, <<"personal">>} |->
                   CASE t = <<"sql">> -> 1 [] t = <<"meeting">> -> 2
                     [] t = <<"python">> -> 3 [] t = <<"project">> -> 4
                     [] t = <<"todo">> -> 5 [] t = <<"rust">> -> 6
                     [] t = <<"a">> -> 7 [] OTHER -> 8]

====
