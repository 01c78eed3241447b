# TLA+ models of the KotaDB RAG pipeline and its example applications

This directory holds TLA+ models of the Python code under `src/`. They are
checked with TLC. The core is the retrieval-augmented-generation pipeline in
`src/examples/rag-pipeline/rag_demo.py`, which `spec.md` describes. Every
definition translates lines of that file, and `PROJECT.json` maps each
definition to its lines.

## 1. Inventory of the system

### Parts and how they interact

| Part | Source | State | Operations |
|---|---|---|---|
| `RAGConfig` | rag_demo.py:50-59 | chunk_size, chunk_overlap, max_results, ... (never mutated) | construction, with no validation |
| `DocumentChunker` | rag_demo.py:61-141 | none between calls; per call: `content`, `start`, `chunk_index`, `chunks` | `chunk_document`, `_clean_content`, `_find_sentence_boundary` |
| `EmbeddingProvider` | rag_demo.py:143-210 | `provider`; for tfidf, `vectorizer` and `_is_fitted`; the per-process hash seed behind `_mock_embed` | `embed_text`, `embed_texts`, `_openai_embed`, `_tfidf_embed(_batch)`, `_mock_embed` |
| Retriever | rag_demo.py:282-336, 422-452 | none (reads the store) | `semantic_search`, `_cosine_similarity`, `_fallback_text_search` |
| Answerer | rag_demo.py:338-370, 454-505 | none | `generate_answer`, `_generate_openai_answer`, `_generate_fallback_answer` |
| Orchestrator | rag_demo.py:212-280, 372-420 | the KotaDB store (external, persistent) | `ingest_document`, `ask_question`, `get_knowledge_base_stats` |
| Note-taking app | note_app.py | the KotaDB store | `create_note`, `get_folder_structure`, `search_notes`, `get_note_stats`, `export_notes`, routes |
| Flask web app | app.py | the KotaDB store (the same server as the note app) | API and form routes that forward to the client and map exceptions to HTTP codes |
| Client integration test suite | clients/python/examples/integration_test.py | `test_docs`, `passed`, `failed`; the KotaDB store | `setup`, six test methods, `teardown`, `run_all_tests` |
| Client types, demo scripts | clients/python, examples, test_python_client.py | none of their own | scripts and conversions |
| Lint-fixing scripts | fix_format_strings.py, fix_clippy.py, fix_unused_vars.py, fix_genuine_unused.py | the Rust files they rewrite | regex rewrites of format!/println! arguments and of unused `let` names |

At ingestion, `ingest_document` calls `chunk_document`. For each chunk it
then calls `embed_text` and `insert_with_builder`, and it stores the
embedding as a `metadata:<json>` tag.

At query time, `semantic_search` does the following:
- it embeds the query;
- it fetches at most 1000 knowledge-base chunks;
- it scores each chunk with `_cosine_similarity`, skipping a chunk whose scoring raises;
- it sorts the chunks by score and keeps `max_results`.

If the query embedding or the fetch raises, it falls back to
`_fallback_text_search`.

The KotaDB store outlives the Python process. Python's `hash()`, which seeds
`_mock_embed`, is randomised per process unless `PYTHONHASHSEED` is set.

### Hard behaviours

- **The chunking loop.**
  - `start = end - overlap` after a sentence-boundary cut (a liveness hazard).
  - The 80% threshold and the `+1`/`-1` offset conversions (numeric edges).
  - The extra window after the text is consumed.
  - `chunk_index` also counts dropped windows.
  - An all-whitespace document.
- **The embedding fallback chain** (API, then tfidf, then mock):
  - it mixes 1536-d and 384-d vectors;
  - it depends on the import environment (openai, numpy, scikit-learn);
  - it depends on the per-process hash seed.
- **Per-chunk failures in ingestion and search.** Each is caught and skipped. A
  store failure triggers the lexical fallback, but a scoring failure does not.
- **The fixed `limit(1000)`** in search and stats.
- **Answerer:** `context_parts[:3]` against `sources` taken from all docs.
- **Note app:** the folder is cleaned for the path but kept raw in the
  `folder:` tag. User tags can collide with `folder:`/`note`.

## 2. Modules

| Module | Models | State (VARIABLES) | Actions |
|---|---|---|---|
| `PyText` | the string operations chunking uses: character classes, Python slicing, `strip`, `_clean_content` | (operators only) | |
| `ChunkerSpec` | what `chunk_document` promises, as one atomic step | `config`, `doc`, `text`, `result`, `pc` | `ChunkDocument` (any result satisfying `Promise`) |
| `Chunker` | one call of `DocumentChunker.chunk_document` | `config`, `doc`, `content`, `start`, `chunkIndex`, `chunks`, `pc` | `ChunkDocument` (clean and the short-text path), `ChunkStep` (one loop iteration), `BackfillCounts` (the chunk_count loop and return), `Returned` |
| `MCChunker` | bounds for `Chunker` | | |
| `RAGPipeline` | `EmbeddingProvider.embed_text` and `RAGPipeline` ingest/search/stats over a persistent store, with process restarts | `store`, `seed`, `restarts`, `result` | `IngestDocument(t)`, `SemanticSearch(q)` (with its fallback), `GetKnowledgeBaseStats`, `Restart` |
| `MCRAGPipeline` | bounds for `RAGPipeline` | | |
| `Answerer` | `generate_answer` and `_generate_fallback_answer`, with `_generate_openai_answer` succeeding or raising | `question`, `docs`, `reply`, `pc` | `GenerateAnswer` (one call), `Return` (the caller takes the reply) |
| `MCAnswerer` | tokens, titles, contents and questions for `Answerer` | | |
| `NoteApp` | the note-taking app (`NoteManager` and its routes) and the Flask document app, both over one KotaDB server | `store`, `nextId`, `resp` | one action per route: `Dashboard`, `FolderView`, `ViewFolder`, `CreateNoteForm`, `CreateNote`, `ViewNote`, `SearchNotesPage`, `ExportNotesPage`, `ApiGetNotes`, `ApiGetStats`, `ApiGetFolders`; `ApiHealth`, `ApiListDocuments`, `ApiCreateDocument`, `ApiGetDocument`, `ApiUpdateDocument`, `ApiDeleteDocument`, `ApiSearch`, `Index`, `CreateDocument`, `ViewDocument`, `Search` |
| `IntegrationSuite` | `IntegrationTestSuite.run_all_tests` against a server whose calls may fail or time out | `pc`, `server`, `nextId`, `testDocs`, `failed`, `success`, and the observations `lateIns`, `delFailed` | `Setup`, `TestBasicCrud`, `TestBuilderPatterns`, `TestValidatedTypes`, `TestSearchCapabilities`, `TestErrorHandling`, `TestDatabaseInfo`, `Teardown` |
| `MCNoteApp` | folders, titles, contents, tag fields, paths and the set order for `NoteApp` | | |
| `LintFixes` | the four lint-fixing scripts over one Rust function body, and rustc's name resolution and formatting traits as the meaning of a file | `file`, `orig` | `FixFormatStrings`, `FixClippy`, `FixUnusedVars`, `FixGenuineUnused` (each a whole script run) |
| `MCLintFixes` | names, the call argument and clippy's name list for `LintFixes` | | |

**Chunker.**
- Characters are abstracted to the classes the code tells apart:
  - `"a"`, a word character;
  - `"."`, a sentence mark;
  - `" "`, a space;
  - `"TAB"`, other whitespace;
  - `"NUL"`, a non-whitespace control character.
- Python slicing (`PySlice`), `strip` (`PyStrip`), the two regex passes in
  their order, and `rfind` with the 80% test are modelled exactly.
  `pos > len*0.8` is written `5*pos > 4*len`, which is exact for the
  lengths involved.
- The short-text chunk has no offsets in the code. The model gives it the
  whole text as its window.
- `ChunkerSpec` states the promise without the loop: a text no longer than
  chunk_size comes back as one chunk, and a longer one as windows of at most
  chunk_size at strictly increasing offsets, each chunk the stripped slice
  of its window and non-empty, chunk_index increasing, chunk_count the
  number of chunks, and every non-space character inside some window.
- `Chunker` refines it (`Abstract == INSTANCE ChunkerSpec WITH ...`): until
  the call returns (`pc # "done"`) the abstract state is the initial one,
  so the whole loop is stuttering, and the return is the abstract
  `ChunkDocument` step. `ImplementsChunkerSpec == Abstract!Spec` is checked
  as a PROPERTY.

**RAGPipeline.**
- `chunk_document` is abstracted to its result, `DocChunks[title]`, because
  `Chunker` checks it.
- An embedding is the record of how it was made:
  - `api`, 1536-d;
  - `mock(text, seed)`, 384-d;
  - `zero`, 384 zeros when scikit-learn is missing;
  - `error`, when `_mock_embed` raises without numpy.
- A cosine similarity is an ordered level:
  - 3 for identical vectors;
  - 2 or 1 for relevant or unrelated text under the API model;
  - 0 for a zero vector;
  - any of 0..2 between two different mock vectors (pseudo-random);
  - `ScoreError` when scikit-learn raises on a length mismatch.
- The import environment is fixed by constants: `HasOpenAI`, `HasNumpy` and
  `HasSklearn`.
- Each store call may fail, chosen with `\E up \in BOOLEAN`.
- `Restart` is a new process: it draws a new seed from `Seeds` and keeps the
  store.

**Answerer.**
- Text is a sequence of tokens:
  - words;
  - the whitespace tokens `" "` and `"NL"`;
  - `"."`, standing for any of `.!?`.
- `TokLen` gives each token's length in characters. `LowerOf` gives what
  `lower()` makes of it.
- `re.split(r'[.!?]+')`, `strip`, `len(...) < 10`, `set(lower().split())` and
  the stable sort are modelled as what they do on token sequences.
- Each context part is `From '<title>':\n<content>`. The title tokens keep
  their quotes and colon, so only the inner words of a title can match a
  question word.
- Parts are joined with two newlines. Two chunks can therefore run into
  one sentence when the first lacks a final mark.

**NoteApp.**
- A string is a sequence of atoms: words, and the punctuation the code's
  regexes and splits tell apart (`/`, `-`, `!`, `,`, space, `folder:`,
  `.md`, `long-form`). `re.sub` keeps `KeepOnly` atoms, `strip` is
  `Strip`, `split` is `SplitOn`, and `str.replace(x, '')` is `RemoveAll`
  (left to right, non-overlapping). A note's content is the set of
  marker words `_generate_auto_tags` looks for.
- The KotaDB server is not in this repository; it is modelled from spec §6
  (marked spec_modelled in the map): documents get increasing ids, a
  query matches by title substring or `*` and by every requested tag, and
  every call may raise (`ServerMayFail`). An insert may succeed, be
  rejected as invalid, or fail without storing.
- `list(set(tags))` has an order fixed by string hashes within a process;
  the model fixes it by the constant `HashOrder`, and the stable sort of
  `get_note_stats` then keeps that order among ties.
- Each route runs atomically: its server calls see one state. Flask may
  serve requests on threads, and the gaps this leaves are listed as hazards.
  `api_update_document` calls `db.get` and then `db.update`, but never uses
  what `get` returned, so the atomic step answers as the split one would.
- The document app passes JSON input on as posted: `DocTagLists` are the
  `tags` lists of POST bodies, an empty tag included, and `Updates` are PUT
  bodies merged into the document. A server call raises nothing, a
  `KotaDBError` (answered 404) or another exception (500) (`Raises`).
  `api_search` answers 400 before any server call when neither `q` nor
  `tag` is given.
- NoteApp has no type invariant: every bound on its state (increasing ids,
  `nextId`) belongs to the server model, not to code of this repository.
- `resp` records the last route, its status and the part of the body the
  properties read (ids, a stats record, a redirect target).

**IntegrationSuite.**
- The suite is sequential, so each test method is one action. The server
  calls inside it are a tuple of outcomes, and `Stop(s)` is the first call
  that raises, where the method's `try` block jumps to its `except`.
- Each call is `ok`, `error` (raised, no effect) or `late` (took effect,
  then raised, as a timeout does). Reads are `ok` or `error`.
- `server` holds only the suite's own documents. A builder query for
  `python` passes if `search_1` is stored, or if other data of the server
  happens to match (a free choice).
- `passed` and the printed messages are left out; `failed` and the exit
  status are kept.
- `lateIns` and `delFailed` record what the script could not know: which
  inserts took effect although they raised, and which teardown deletes
  raised. They exist for the properties and do not affect the actions.

**LintFixes.**
- A file is a sequence of statements in the layout the regexes expect
  (rustfmt's): `let v = 0;`, `let v = w + 1;`, `use(v);` and one
  `format!`/`println!` line. A placeholder is `{}` / `{:?}` (positional)
  or an inlined `{name spec}`; an argument is a variable or the call `g(x)`.
- Each regex pass is an operator on one statement, written from the
  regex: a greedy `([^"]*)` before the brace takes the last match, a lazy
  one the first; `[^)]+` stops at a call's `)`, which leaves the line
  unparsable (`broken`); `\{([^}]*)\}` captures `:?`, so the rewrite
  writes `{x::?}`. Passes apply in the code's order.
- `fix_genuine_unused`'s pairs are clippy's warnings on the file, each
  with its 1-based line number, used as the code uses it: as the 0-based
  index of `lines`.
- The meaning of a file (`Meaning`) is rustc's: whether it compiles, and
  for each mention the declaration it resolves to and the formatting trait.
  `LintKeepsMeaning` compares it with the file before any script ran.
- `Scripts` selects the scripts a run may apply, in any order and any
  number of times.

## 3. Runs

| Run | cfg | Expect | What it shows |
|---|---|---|---|
| chunker | MCChunker.cfg | pass | For 9 valid configs × (781 short raw texts and 2,647 long sentence texts) (sizes 1-3 and 16, overlaps up to 14), `chunk_document` implements `ChunkerSpec` (`ImplementsChunkerSpec`: windows of at most chunk_size at increasing offsets that cover every non-space character), and each iteration advances `start` (`LoopProgress`). About 308k states. |
| chunker_tight | MCChunker_tight.cfg | violation | chunk_size 16 with overlap 15 (valid by spec 3), and a sentence end in the last 20%: the cut makes `end - start <= overlap`, `start` never advances, and the loop is infinite. |
| pipeline | MCRAGPipeline.cfg | pass | In the default environment (no OpenAI, scikit-learn, fixed `PYTHONHASHSEED`), with failing store calls and one restart: a search answers at most `max_results` hits, each a stored chunk (`TypeOK`), and a chunk equal to the query always ranks first (`ExactMatchFirst`). |
| pipeline_seed | MCRAGPipeline_seed.cfg | violation | With two hash seeds, an exact match stored before a restart no longer ranks first. |
| pipeline_dims | MCRAGPipeline_dims.cfg | violation | With OpenAI and one failed API call, search returns `[]` although a chunk matches literally, and the lexical fallback is never tried. |
| notes | MCNoteApp.cfg | pass | Both apps over one failing server, up to two documents, a JSON tag list and a PUT body holding an empty tag: the folder count, tag count and five most used tags of `/` and `/api/stats` equal a declarative reference (count descending, then first occurrence) over the notes they scanned (`StatsMatchReference`). About 28k states. |
| notes_folders | MCNoteApp_folders.cfg | violation | A note created in folder `a!` has path `/notes/a/a.md` and tag `folder:a!`; `/folders` lists it under `a`, and `/folder/a` does not show it (`FolderViewMatchesStructure`). |
| suite | IntegrationSuite.cfg | pass | With every call free to fail or time out, `test_docs` holds each id once and only ids the server handed out (`TypeOK`), and every test document left after teardown had its insert take effect and raise, or its teardown delete raise. The suite never drops an id it was given (`NothingForgotten`). About 6.9k states. |
| suite_clean | IntegrationSuite_clean.cfg | violation | A teardown delete that raises is only printed, so `run_all_tests` returns True (exit 0) with a test document still on the server (`SuccessMeansClean`). |
| answerer | MCAnswerer.cfg | pass | For up to four context docs, the extractive answer equals a reference definition: the earliest sentence of maximal question overlap among those of at least 10 characters (`FallbackIsBestSentence`). The contents used are chunks with and without a final mark, a short sentence, and an empty chunk. The OpenAI completion succeeds or raises. About 28k states. |
| answerer_sources | MCAnswerer_sources.cfg | violation | With four non-empty docs, the title of the fourth is reported as a source although its text is not in the context. |
| lint | MCLintFixes.cfg | violation | `fix_format_strings.py` on `let x = 0; format!("{}", g(x))` yields `format!("{g(x}"))`, which no longer parses (`LintKeepsMeaning`). The same pass drops the argument of `format!("{:?}", x)`. |

With the same cfg and `Scripts` set to one other script, TLC finds a
violation of `LintKeepsMeaning` by each of the other three scripts:
- `{"clippy"}`: `let x = 0; let x = x + 1;` becomes `let _x = 0; let _x = x + 1;`,
  because the hard-coded names are renamed in every declaration.
- `{"unused"}`: the same file, because one warning renames every `let x =`.
- `{"genuine"}`: `let x = 0; let x = 0; let x = x + 1;`. The warning on line 1
  is applied to line 2. The rebinding on line 3 is not counted as a use,
  so line 2 becomes `let _x = 0;` and line 3 then reads line 1's `x`.

Each property of a passing run has a mutant in `PROJECT.json`. A mutant is a
plausible bug in a mapped definition, and TLC finds it. The mutants are:
- the control-character pass dropped;
- `end - overlap + 1`;
- the 80% test dropped;
- the sort omitted;
- the `[:max_results]` cut of `semantic_search` dropped;
- the fallback's sentence left unstripped;
- the overlap sort omitted;
- the tag-count sort of `get_note_stats` omitted;
- the search test's `test_docs.append(doc_id)` moved after the except, so it appends the previous id again;
- the CRUD test's `test_docs.remove` moved before its delete.

### Bounds and why they are enough

- **Chunker, small configs and texts.** Sizes 1-3 with texts of up to 4
  raw characters exercise:
  - the short-text path;
  - empty chunks;
  - the overlap;
  - all cleaning orders (whitespace and control runs, leading and trailing).
- **Chunker, long texts.** A sentence-boundary cut needs a window of at
  least 5 characters, because the boundary must lie past 80%. Sentence
  texts of 17-20 characters with chunk_size 16 make the cut, the tail
  window and the overlap all happen. They have up to 3 non-adjacent
  sentence ends.
- **Pipeline.**
  - Two documents (one of two chunks) and a store bound of 4 let the store
    hold both documents and a re-ingestion.
  - `Limit = 4` keeps every chunk a candidate, just as 1000 does for any
    knowledge base the demo builds. What happens beyond the limit is
    listed as a hazard.
  - `MaxResults = 2` makes the top-k cut bite.
  - One restart is enough for a cross-process mismatch.
- **Answerer.**
  - Four docs is one more than the context keeps.
  - Three questions give overlaps of 0, 1 and 2 words, with a
    punctuation-glued word (`fast?`).
  - Four contents include a short sentence, a chunk without a final mark
    and an empty chunk. Two titles include one whose inner words can
    match.

- **NoteApp.** Two folders (one that cleaning changes), two titles (one
  blank), two contents (with language, kind and place markers), a tag
  field with an empty entry and a duplicate of an auto tag, one
  document-app path under `/notes`, and at most two documents
  (`MaxIds = 2`). Two notes are enough for a tie in the tag counts and for
  two folders; with three documents the run takes about 8 minutes.

- **LintFixes.** Two names, one call argument, up to three statements
  before one formatting line, and templates of one or two placeholders
  with up to two arguments: 2,406 compiling files. Each script's failure
  needs at most three statements: a shadowed declaration, a rebinding and
  a line after the warned one.

- **IntegrationSuite.** The suite itself is finite: four inserts at most,
  so ids stay within 1..4. Every outcome of every call is explored, which
  is the whole state space of one run of the script.

### Fairness

`Chunker.Spec` assumes weak fairness of `ChunkStep` and `BackfillCounts`.
Once called, `chunk_document` runs alone in its thread to its return. The
loop's progress is checked as the action property `LoopProgress`, the
variant that makes the loop end. It is used instead of `<>(pc = "done")`,
which TLC evaluates far more slowly for these actions. `RAGPipeline` and `NoteApp` have no
liveness claims: every operation is a caller's request, and the code
promises nothing about when one comes. `IntegrationSuite` has no
fairness and no liveness claim: the script has no loop without a bound,
and its final state (`pc = "done"`) has no successor. Its cfgs therefore
set `CHECK_DEADLOCK FALSE`. `LintFixes` has no liveness claim: each script
is a single run that ends.

## 4. Plan

The most important behaviour comes first:
1. `Chunker` (done).
2. `RAGPipeline` ingest/search/stats/restart (done).
3. `Answerer` (done): context assembly and the extractive fallback, checked against a reference. Still to do:
   - `ask_question`, composing `SemanticSearch` and the Answerer;
   - `max_context_length`, which the code never applies.
4. `EmbeddingProvider` on its own: `embed_texts` fitting versus `embed_text`, with no refit (lines 197-201) against the spec's last-fit-wins.
5. `ChunkerSpec`, an abstract one-step chunking spec, refined by `Chunker` (done).
6. `NoteManager`, the note app's routes and the Flask app over one server (done).
7. The client's `IntegrationTestSuite` over a failing server: cleanup and the exit status (done).
8. The lint-fixing scripts against rustc's meaning of the file (done).

The client types (beyond `Document`) and the demo scripts stay out (see below).

## 5. Not modelled

- **KotaDB client and server.** They are not in this repository. Their
  effect is modelled as calls that may succeed or fail.
- **`_generate_openai_answer` and the OpenAI API.** They are external;
  a call succeeds or fails.
- **Templates and error handlers** of both apps (`create_templates`,
  `page_not_found`, `internal_error`), the export's `tempfile`/`send_file`
  I/O and `flash` messages. These are presentation only.
- **The server's text search semantics.** Spec §6 does not define ranking
  or tokenisation; a query hits by title substring.
- **The demo and client example scripts** (`python_kotadb_demo.py`,
  `builder_patterns.py`, `connection_examples.py`, `test_python_client.py`).
  These are straight-line calls that print results and keep no state
  beyond local variables. The integration suite is the exception, because
  it tracks what it created and must clean it up.
- **The lint scripts' file handling** (globbing `tests/*.rs`, reading,
  writing and printing). Each file is rewritten on its own, so one file
  stands for all. Statements other than declarations, uses and format
  lines (`match`, `if let`, `assert!`, struct fields, parameters) are
  left out, and with them `fix_single_match`, `fix_collapsible_patterns`
  and the `assert!` and field passes.
- **Formatting and logging** (titles, paths, JSON encoding of the metadata
  tag), except where a property depends on it.
