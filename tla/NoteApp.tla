------------------------------- MODULE NoteApp -------------------------------
(***************************************************************************)
(* Two Flask processes sharing one KotaDB server: the note-taking app      *)
(* (src/examples/note-taking-app/note_app.py: NoteManager and its routes)  *)
(* and the document app (src/examples/flask-web-app/app.py).  Each request *)
(* handler is one step; the server's documents are the store.              *)
(*                                                                         *)
(* A string is a sequence of atoms: "a" and the other Word atoms stand for *)
(* runs of word characters (\w), the others for the punctuation the code   *)
(* tests for.  A note's content is the set of markers _generate_auto_tags  *)
(* detects in it (a language's regexes, len > 1000, a todo or meeting      *)
(* word).  The server itself is not in this repository: its query and      *)
(* insert follow the store interface of spec section 6, and every call to  *)
(* it may raise.                                                           *)
(***************************************************************************)
EXTENDS Integers, Sequences, SequencesExt, FiniteSets, Functions

CONSTANTS
    Folders,      \* 'folder' fields of the note app's POST /create
    NoteTitles,   \* 'title' fields of the note app's POST /create
    Contents,     \* note contents (sets of Markers)
    TagFields,    \* 'tags' fields of POST /create (both apps)
    JsonTagLists, \* 'tags' lists of JSON bodies of POST /api/documents
    DocPaths,     \* 'path' fields posted to the document app
    DocTitles,    \* 'title' fields posted to the document app
    Updates,      \* JSON bodies of PUT /api/documents/<id>
    Queries,      \* search texts q
    LimitArgs,    \* 'limit' arguments; NaN stands for one int() rejects
    ServerMayFail,\* whether a call to the KotaDB server may raise
    ScanLimit,    \* limit=1000 of the full scans
    ViewLimit,    \* search_notes's default limit=50
    MaxIds,       \* bound on documents ever inserted
    HashOrder     \* the order str hashes put tags in, in this process

VARIABLES
    store,    \* the server's documents, in insertion order
    nextId,   \* the id the server hands out next
    resp      \* the response to the last request

vars == <<store, nextId, resp>>

Word    == {"a", "notes", "note", "General", "project", "personal", "python",
            "javascript", "rust", "sql", "todo", "meeting"}
Atoms   == Word \cup {"long-form", "folder:", ".md", "/", "-", " ", "!", ","}
Markers == {"python", "javascript", "rust", "sql", "long-form", "todo", "meeting"}
NaN     == -1
Fails   == IF ServerMayFail THEN BOOLEAN ELSE {FALSE}

LOCAL IMin(a, b) == IF a <= b THEN a ELSE b
FirstN(s, n) == SubSeq(s, 1, IMin(n, Len(s)))
Ids(docs) == [i \in DOMAIN docs |-> docs[i].id]

-----------------------------------------------------------------------------
(* str operations *)

\* s.strip(cs)
StripSet(s, cs) ==
    LET first == SelectInSeq(s, LAMBDA c : c \notin cs)
        last  == SelectLastInSeq(s, LAMBDA c : c \notin cs)
    IN  IF first = 0 THEN <<>> ELSE SubSeq(s, first, last)

Strip(s) == StripSet(s, {" "})

\* re.sub(r'[^<keep>]', '', s)
KeepOnly(s, keep) == SelectSeq(s, LAMBDA c : c \in keep)

\* s.split(sep)
RECURSIVE SplitOn(_, _)
SplitOn(s, sep) ==
    LET i == SelectInSeq(s, LAMBDA c : c = sep)
    IN  IF i = 0 THEN <<s>>
        ELSE <<SubSeq(s, 1, i - 1)>> \o SplitOn(SubSeq(s, i + 1, Len(s)), sep)

\* [tag.strip() for tag in tags_input.split(',') if tag.strip()]
ParseTags(field) ==
    LET ps == SplitOn(Strip(field), ",")
    IN  SelectSeq([i \in DOMAIN ps |-> Strip(ps[i])], LAMBDA t : t # <<>>)

\* s.replace(old, ''): occurrences removed left to right, without overlap
RECURSIVE RemoveAll(_, _)
RemoveAll(s, old) ==
    IF Len(s) < Len(old) THEN s
    ELSE IF SubSeq(s, 1, Len(old)) = old
         THEN RemoveAll(SubSeq(s, Len(old) + 1, Len(s)), old)
         ELSE <<Head(s)>> \o RemoveAll(Tail(s), old)

\* q in s, for a non-empty q
Substr(q, s) == \E i \in 0..(Len(s) - Len(q)) : SubSeq(s, i + 1, i + Len(q)) = q

-----------------------------------------------------------------------------
(* The KotaDB server (spec section 6: insert(document) -> id,              *)
(* query(filter) -> documents).  A text filter matches the title; "*"      *)
(* matches every document; tag filters must all be carried.                *)

Wildcard == <<"*">>
HasTag(d, t) == \E i \in DOMAIN d.tags : d.tags[i] = t
Hits(d, q) == q = <<>> \/ q = Wildcard \/ Substr(q, d.title)

Query(q, tags, limit) ==
    FirstN(SelectSeq(store, LAMBDA d : Hits(d, q) /\ \A t \in tags : HasTag(d, t)),
           limit)

Lookup(id) == SelectSeq(store, LAMBDA d : d.id = id)

\* insert_with_builder: ValidatedPath raises ValidationError ("invalid"),
\* the server or the connection raises ("error"), or the document is stored
\* under a fresh id.
Outcomes == IF ServerMayFail THEN {"ok", "invalid", "error"} ELSE {"ok", "invalid"}

Insert(doc, outcome) ==
    IF outcome = "ok"
    THEN /\ nextId <= MaxIds
         /\ store' = Append(store, [doc EXCEPT !.id = nextId])
         /\ nextId' = nextId + 1
    ELSE UNCHANGED <<store, nextId>>

-----------------------------------------------------------------------------
(* NoteManager *)

BasePath     == <<"/", "notes">>
FolderTag(f) == <<"folder:">> \o f
NoteTag      == <<"note">>
IsFolderTag(t) == IsPrefix(<<"folder:">>, t)
Mentions(s, w) == \E i \in DOMAIN s : s[i] = w

\* _generate_auto_tags: languages in the order of code_patterns, then one
\* content type (the elif chain), then one folder tag.
AutoTags(content, folder) ==
    LET langs == SelectSeq(<<"python", "javascript", "rust", "sql">>,
                           LAMBDA l : l \in content)
        kind  == SelectSeq(<<"long-form", "todo", "meeting">>,
                           LAMBDA k : k \in content)
        place == SelectSeq(<<"project", "personal">>,
                           LAMBDA w : Mentions(folder, w))
        names == langs \o FirstN(kind, 1) \o FirstN(place, 1)
    IN  [i \in DOMAIN names |-> <<names[i]>>]

\* f"{base_path}/{folder_clean}/{title_clean}.md"
NotePath(folder, title) ==
    BasePath \o <<"/">> \o KeepOnly(StripSet(folder, {"/"}), Word \cup {"-", "/"})
             \o <<"/">> \o KeepOnly(title, Word \cup {"-", " "}) \o <<".md">>

\* list(set(tags)): the set's iteration order is decided by the str hashes
\* of the process (PYTHONHASHSEED); HashOrder is one such order.  (Slot
\* collisions can make it depend on insertion order too; no property here
\* depends on which order it is.)
HashRank(t) == IF t \in DOMAIN HashOrder THEN HashOrder[t] ELSE 0
SetOrder(S) == SetToSortSeq(S, LAMBDA x, y : HashRank(x) < HashRank(y))

\* create_note's document.
NoteDoc(folder, title, content, tags) ==
    [id |-> 0, path |-> NotePath(folder, title), title |-> title,
     tags |-> SetOrder(ToSet(tags) \cup ToSet(AutoTags(content, folder)))
              \o <<FolderTag(folder), NoteTag>>,
     content |-> content]

\* get_folder_structure: note['path'].replace('/notes/', '').split('/')
PathParts(p) == SplitOn(RemoveAll(p, BasePath \o <<"/">>), "/")

\* folder -> the ids counted under it (count is the length)
GetFolderStructure(docs) ==
    LET listed    == SelectSeq(docs, LAMBDA d : IsPrefix(BasePath, d.path)
                                                /\ Len(PathParts(d.path)) > 1)
        folder(d) == PathParts(d.path)[1]
    IN  [f \in {folder(listed[i]) : i \in DOMAIN listed} |->
           Ids(SelectSeq(listed, LAMBDA d : folder(d) = f))]

\* search_notes: the filters it builds, the query, [] when it raises.
SearchNotes(ok, q, folder, tags, limit) ==
    IF ~ok THEN <<>>
    ELSE Query(q, ToSet(tags) \cup (IF folder # <<>> THEN {FolderTag(folder)} ELSE {})
                  \cup {NoteTag}, limit)

\* Stable insertion into a list sorted by descending count.
RECURSIVE InsertByCount(_, _, _)
InsertByCount(t, s, n) ==
    IF s = <<>> THEN <<t>>
    ELSE IF n[Head(s)] >= n[t] THEN <<Head(s)>> \o InsertByCount(t, Tail(s), n)
    ELSE <<t>> \o s

\* Fault: tag_counts' keys are taken in insertion order, unsorted.
SortByCountOmitted(keys, n) == keys

\* sorted(tag_counts.keys(), key=count, reverse=True): stable.
SortByCount(keys, n) == FoldLeft(LAMBDA acc, t : InsertByCount(t, acc, n), <<>>, keys)

\* get_note_stats over the notes its search returned.
GetNoteStats(notes) ==
    LET tags    == FlattenSeq([i \in DOMAIN notes |-> notes[i].tags])
        folders == {Tail(t) : t \in ToSet(SelectSeq(tags, IsFolderTag))}
        plain   == SelectSeq(tags, LAMBDA t : ~IsFolderTag(t) /\ t # NoteTag)
        keys    == FoldLeft(LAMBDA acc, t : IF t \in ToSet(acc) THEN acc
                                            ELSE Append(acc, t), <<>>, plain)
        count   == [t \in ToSet(plain) |-> Len(SelectSeq(plain, LAMBDA u : u = t))]
    IN  [total_notes    |-> Len(notes),
         notes_today    |-> 0,
         total_folders  |-> Cardinality(folders),
         total_tags     |-> Cardinality(ToSet(plain)),
         most_used_tags |-> FirstN(SortByCount(keys, count), 5),
         recent         |-> Ids(FirstN(notes, 5))]

\* export_notes: a ValueError for an unknown format is caught and its
\* message returned as the export.
ExportNotes(ok, format) ==
    IF format \in {"markdown", "json"}
    THEN [kind |-> "export", ids |-> Ids(SearchNotes(ok, <<>>, <<>>, <<>>, ScanLimit))]
    ELSE [kind |-> "failed", ids |-> <<>>]

-----------------------------------------------------------------------------
(* The note app's routes *)

Resp(route, status, body) == [route |-> route, status |-> status, body |-> body]

\* get_folder_structure: query("*", limit=1000); {} when it raises.
FolderStructureCall(fail) ==
    IF fail THEN <<>> ELSE GetFolderStructure(Query(Wildcard, {}, ScanLimit))

\* get_note_stats: search_notes(limit=1000), which swallows a failure.
\* The body keeps the notes the stats were computed from.
StatsCall(fail) ==
    LET notes == SearchNotes(~fail, <<>>, <<>>, <<>>, ScanLimit)
    IN  [stats |-> GetNoteStats(notes), scanned |-> notes]

\* A <folder_name> URL segment: non-empty and without "/".
UrlSegment(s) == s # <<>> /\ ~Mentions(s, "/")
SearchTags  == UNION {ToSet(ParseTags(t)) : t \in TagFields}
AsList(tag) == IF tag = <<>> THEN <<>> ELSE <<tag>>

Init ==
    /\ store = <<>>
    /\ nextId = 1
    /\ resp = Resp("none", 200, <<>>)

Dashboard ==
    /\ \E f1, f2, f3 \in Fails :
         resp' = Resp("dashboard", 200,
                      StatsCall(f1) @@
                      [folders |-> DOMAIN FolderStructureCall(f2),
                       recent  |-> Ids(SearchNotes(~f3, <<>>, <<>>, <<>>, 5))])
    /\ UNCHANGED <<store, nextId>>

FolderView ==
    /\ \E f \in Fails : resp' = Resp("folder_view", 200, FolderStructureCall(f))
    /\ UNCHANGED <<store, nextId>>

ViewFolder ==
    /\ \E name \in Folders \cup DOMAIN GetFolderStructure(store), f \in Fails :
         /\ UrlSegment(name)
         /\ resp' = Resp("view_folder", 200,
                         Ids(SearchNotes(~f, <<>>, name, <<>>, ViewLimit)))
    /\ UNCHANGED <<store, nextId>>

CreateNoteForm ==
    /\ \E f \in Fails : resp' = Resp("create_note_form", 200, DOMAIN FolderStructureCall(f))
    /\ UNCHANGED <<store, nextId>>

\* POST /create: folder defaults to General, a blank title is refused,
\* then NoteManager.create_note and insert_with_builder.
CreateNote ==
    \E field \in Folders, raw \in NoteTitles, content \in Contents, tf \in TagFields :
      LET folder == IF Strip(field) = <<>> THEN <<"General">> ELSE Strip(field)
          title  == Strip(raw)
      IN  \/ /\ title = <<>>
             /\ resp' = Resp("create_note", 302, "create_note_form")
             /\ UNCHANGED <<store, nextId>>
          \/ /\ title # <<>>
             /\ \E outcome \in Outcomes :
                  /\ Insert(NoteDoc(folder, title, content, ParseTags(tf)), outcome)
                  /\ resp' = Resp("create_note", 302,
                                  IF outcome = "ok" THEN "view_note" ELSE "create_note_form")

ViewNote ==
    /\ \E id \in 1..MaxIds, f \in Fails :
         resp' = IF Lookup(id) # <<>> /\ ~f THEN Resp("view_note", 200, id)
                 ELSE Resp("view_note", 302, "dashboard")
    /\ UNCHANGED <<store, nextId>>

\* GET /search: searches only when some argument is given.
SearchNotesPage ==
    /\ \E q \in Queries \cup {<<>>}, folder \in Folders \cup {<<>>},
          tag \in SearchTags \cup {<<>>}, f1, f2 \in Fails :
         resp' = Resp("search_notes", 200,
                      [notes   |-> IF q = <<>> /\ folder = <<>> /\ tag = <<>> THEN <<>>
                                   ELSE Ids(SearchNotes(~f1, q, folder, AsList(tag), ViewLimit)),
                       folders |-> DOMAIN FolderStructureCall(f2)])
    /\ UNCHANGED <<store, nextId>>

\* GET /export: the export, or the failure message, is sent as the file.
ExportNotesPage ==
    /\ \E format \in {"markdown", "json", "pdf"}, f \in Fails :
         resp' = Resp("export", 200, ExportNotes(~f, format))
    /\ UNCHANGED <<store, nextId>>

\* GET /api/notes: int(limit) raises outside the try (HTTP 500).
ApiGetNotes ==
    /\ \E q \in Queries \cup {<<>>}, folder \in Folders \cup {<<>>},
          tag \in SearchTags \cup {<<>>}, limit \in LimitArgs, f \in Fails :
         resp' = IF limit = NaN THEN Resp("api_get_notes", 500, <<>>)
                 ELSE Resp("api_get_notes", 200,
                           Ids(SearchNotes(~f, q, folder, AsList(tag), limit)))
    /\ UNCHANGED <<store, nextId>>

ApiGetStats ==
    /\ \E f \in Fails : resp' = Resp("api_get_stats", 200, StatsCall(f))
    /\ UNCHANGED <<store, nextId>>

ApiGetFolders ==
    /\ \E f \in Fails : resp' = Resp("api_get_folders", 200, FolderStructureCall(f))
    /\ UNCHANGED <<store, nextId>>

-----------------------------------------------------------------------------
(* The document app's routes *)

\* data.get('tags', []): every posted tag goes to add_tag as it is.
DocTagLists == JsonTagLists \cup {<<>>}

\* What a server call may raise: nothing, a KotaDBError (the routes answer
\* 404) or any other exception (500).
Raises == IF ServerMayFail THEN {"none", "kotadb", "other"} ELSE {"none"}
Found(id, f) == Lookup(id) # <<>> /\ ~f
\* The status of a route whose try answers 404 for a KotaDBError (a missing
\* id included) and 500 for any other exception.
ByIdStatus(id, r) == CASE r = "other" -> 500
                       [] Found(id, r = "kotadb") -> 200
                       [] OTHER -> 404

ApiHealth ==
    /\ \E f \in Fails :
         resp' = IF f THEN Resp("api_health", 503, <<>>)
                 ELSE Resp("api_health", 200, Len(store))
    /\ UNCHANGED <<store, nextId>>

\* GET /api/documents: q, or the wildcard; int(limit) raises inside the try.
ApiListDocuments ==
    /\ \E q \in Queries \cup {<<>>}, limit \in LimitArgs, f \in Fails :
         resp' = IF limit = NaN \/ f THEN Resp("api_list_documents", 500, <<>>)
                 ELSE Resp("api_list_documents", 200,
                           Ids(Query(IF q = <<>> THEN Wildcard ELSE q, {}, limit)))
    /\ UNCHANGED <<store, nextId>>

\* POST /api/documents: a missing body, path or title is a 400 (ValidatedPath
\* runs before the title check; both answer 400); then the insert.
ApiCreateDocument ==
    \E path \in DocPaths \cup {<<>>}, title \in DocTitles \cup {<<>>},
       tags \in DocTagLists, outcome \in Outcomes :
      \/ /\ path = <<>> \/ title = <<>>
         /\ resp' = Resp("api_create_document", 400, <<>>)
         /\ UNCHANGED <<store, nextId>>
      \/ /\ path # <<>> /\ title # <<>>
         /\ Insert([id |-> 0, path |-> path, title |-> title, tags |-> tags,
                    content |-> {}], outcome)
         /\ resp' = Resp("api_create_document",
                         CASE outcome = "ok" -> 201 [] outcome = "invalid" -> 400
                           [] OTHER -> 500, <<>>)

ApiGetDocument ==
    /\ \E id \in 1..MaxIds, r \in Raises :
         resp' = Resp("api_get_document", ByIdStatus(id, r), id)
    /\ UNCHANGED <<store, nextId>>

\* PUT /api/documents/<id>: db.get, then db.update with the JSON body as
\* posted.  The document db.get returns is not used, so the two calls act
\* as one: whichever raises, the answer is the same.
ApiUpdateDocument ==
    \E id \in 1..MaxIds, data \in Updates, r \in Raises :
      \/ /\ data = <<>>
         /\ resp' = Resp("api_update_document", 400, id)
         /\ UNCHANGED <<store, nextId>>
      \/ /\ data # <<>> /\ ByIdStatus(id, r) # 200
         /\ resp' = Resp("api_update_document", ByIdStatus(id, r), id)
         /\ UNCHANGED <<store, nextId>>
      \/ /\ data # <<>> /\ ByIdStatus(id, r) = 200
         /\ store' = [i \in DOMAIN store |->
                        IF store[i].id = id THEN data @@ store[i] ELSE store[i]]
         /\ resp' = Resp("api_update_document", 200, id)
         /\ UNCHANGED nextId

ApiDeleteDocument ==
    \E id \in 1..MaxIds, r \in Raises :
      \/ /\ ByIdStatus(id, r) # 200
         /\ resp' = Resp("api_delete_document", ByIdStatus(id, r), id)
         /\ UNCHANGED <<store, nextId>>
      \/ /\ ByIdStatus(id, r) = 200
         /\ store' = SelectSeq(store, LAMBDA d : d.id # id)
         /\ resp' = Resp("api_delete_document", 200, id)
         /\ UNCHANGED nextId

\* GET /api/search: text and/or one tag filter.  int(limit) raises first;
\* neither q nor tag is a 400 before the server is called.
ApiSearch ==
    /\ \E q \in Queries \cup {<<>>}, tag \in SearchTags \cup {<<>>},
          limit \in LimitArgs, f \in Fails :
         resp' = CASE limit = NaN -> Resp("api_search", 500, <<>>)
                   [] q = <<>> /\ tag = <<>> -> Resp("api_search", 400, <<>>)
                   [] f -> Resp("api_search", 500, <<>>)
                   [] OTHER -> Resp("api_search", 200,
                                    Ids(Query(q, ToSet(AsList(tag)), limit)))
    /\ UNCHANGED <<store, nextId>>

Index ==
    /\ \E f \in Fails :
         resp' = Resp("index", 200, IF f THEN <<>> ELSE Ids(Query(Wildcard, {}, 10)))
    /\ UNCHANGED <<store, nextId>>

\* POST /create of the document app: blank path or title refused.
CreateDocument ==
    \E path \in DocPaths \cup {<<>>}, raw \in DocTitles \cup {<<>>},
       tf \in TagFields, outcome \in Outcomes :
      \/ /\ Strip(path) = <<>> \/ Strip(raw) = <<>>
         /\ resp' = Resp("create_document", 302, "create_form")
         /\ UNCHANGED <<store, nextId>>
      \/ /\ Strip(path) # <<>> /\ Strip(raw) # <<>>
         /\ Insert([id |-> 0, path |-> Strip(path), title |-> Strip(raw),
                    tags |-> ParseTags(tf), content |-> {}], outcome)
         /\ resp' = Resp("create_document", 302,
                         IF outcome = "ok" THEN "view_document" ELSE "create_form")

ViewDocument ==
    /\ \E id \in 1..MaxIds, f \in Fails :
         resp' = IF Found(id, f) THEN Resp("view_document", 200, id)
                 ELSE Resp("view_document", 302, "index")
    /\ UNCHANGED <<store, nextId>>

Search ==
    /\ \E q \in Queries \cup {<<>>}, tag \in SearchTags \cup {<<>>}, f \in Fails :
         resp' = Resp("search", 200,
                      IF (q = <<>> /\ tag = <<>>) \/ f THEN <<>>
                      ELSE Ids(Query(q, ToSet(AsList(tag)), 50)))
    /\ UNCHANGED <<store, nextId>>

-----------------------------------------------------------------------------

NoteRoutes ==
    \/ Dashboard \/ FolderView \/ ViewFolder \/ CreateNoteForm \/ CreateNote
    \/ ViewNote \/ SearchNotesPage \/ ExportNotesPage \/ ApiGetNotes
    \/ ApiGetStats \/ ApiGetFolders

DocRoutes ==
    \/ ApiHealth \/ ApiListDocuments \/ ApiCreateDocument \/ ApiGetDocument
    \/ ApiUpdateDocument \/ ApiDeleteDocument \/ ApiSearch \/ Index
    \/ CreateDocument \/ ViewDocument \/ Search

Next == NoteRoutes \/ DocRoutes

Spec == Init /\ [][Next]_vars

-----------------------------------------------------------------------------
(* Properties *)

\* The figures get_note_stats derives from the notes it read, defined
\* directly: folders are the names after "folder:", the other tags (not
\* "note") are counted, and the top five are the most frequent, ties going
\* to the tag met first.
RefStats(notes) ==
    LET tags  == FlattenSeq([i \in DOMAIN notes |-> notes[i].tags])
        plain == {t \in ToSet(tags) : ~IsFolderTag(t) /\ t # NoteTag}
        n(t)  == Cardinality({i \in DOMAIN tags : tags[i] = t})
        at(t) == SelectInSeq(tags, LAMBDA u : u = t)
        Before(u, t) == n(u) > n(t) \/ (n(u) = n(t) /\ at(u) < at(t))
        rank(t) == Cardinality({u \in plain : Before(u, t)})
    IN  [total_folders  |-> Cardinality({Tail(t) : t \in {u \in ToSet(tags) : IsFolderTag(u)}}),
         total_tags     |-> Cardinality(plain),
         most_used_tags |-> [i \in 1..IMin(5, Cardinality(plain)) |->
                                CHOOSE t \in plain : rank(t) = i - 1]]

\* The dashboard and /api/stats report, for the notes get_note_stats read,
\* the folder and tag counts and the five most used tags of the reference:
\* the tag loop, the counting dict, the stable reverse sort and the [:5]
\* cut of get_note_stats together compute RefStats.
StatsMatchReference ==
    resp.route \in {"dashboard", "api_get_stats"} =>
        LET s == resp.body.stats
            r == RefStats(resp.body.scanned)
        IN  /\ s.total_folders = r.total_folders
            /\ s.total_tags = r.total_tags
            /\ s.most_used_tags = r.most_used_tags

\* Every note that /folders (get_folder_structure) lists under a folder is
\* shown by that folder's page /folder/<name> (view_folder, which searches
\* by the tag "folder:<name>").
FolderViewMatchesStructure ==
    LET fs == GetFolderStructure(Query(Wildcard, {}, ScanLimit))
    IN  \A name \in DOMAIN fs :
          \A i \in DOMAIN fs[name] :
             \E j \in DOMAIN SearchNotes(TRUE, <<>>, name, <<>>, ViewLimit) :
                SearchNotes(TRUE, <<>>, name, <<>>, ViewLimit)[j].id = fs[name][i]

====
