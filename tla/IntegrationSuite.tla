-------------------------- MODULE IntegrationSuite --------------------------
(***************************************************************************)
(* The Python client's IntegrationTestSuite                                *)
(* (src/clients/python/examples/integration_test.py) run against a KotaDB   *)
(* server whose calls may fail.                                            *)
(*                                                                         *)
(* The suite is one sequential script: run_all_tests calls setup, the six  *)
(* test methods in order, and teardown from a finally block.  Each method  *)
(* is one action; the server calls inside it are chosen outcomes, and the  *)
(* method stops at the first call that raises (its try block's except).    *)
(*                                                                         *)
(* A call's outcome is "ok", "error" (raised, nothing done on the server)  *)
(* or "late" (done on the server, but the client raised, e.g. a timeout).  *)
(* Only the documents the suite creates are tracked on the server: server  *)
(* maps the ids the server handed out to the document they stand for.     *)
(***************************************************************************)
EXTENDS Integers, Sequences, SequencesExt, FiniteSets, Functions

CONSTANTS
    MayFail,      \* a server call may raise without effect
    MayTimeOut    \* a write may take effect and still raise

VARIABLES
    pc,        \* the next method of run_all_tests, or "done"
    server,    \* the suite's documents on the server: id -> name
    nextId,    \* the id the server hands out next
    testDocs,  \* self.test_docs
    failed,    \* self.failed
    success,   \* the value run_all_tests returns (the exit status)
    lateIns,   \* observation: ids whose insert took effect but raised
    delFailed  \* observation: ids whose delete in teardown raised

vars == <<pc, server, nextId, testDocs, failed, success, lateIns, delFailed>>

Names == {"crud", "builder", "search_1", "search_2"}

\* Outcomes of a call that only reads, and of one that writes.
Reads  == IF MayFail THEN {"ok", "error"} ELSE {"ok"}
Writes == Reads \cup (IF MayTimeOut THEN {"late"} ELSE {})

Raises(o) == o \in {"error", "late"}

\* Applied on the server: the call returned, or raised after taking effect.
Applied(o) == o \in {"ok", "late"}

\* The index of the call that ends a try block: the first one that raises,
\* or one past the last when none does.
Stop(s) == LET k == SelectInSeq(s, Raises) IN IF k = 0 THEN Len(s) + 1 ELSE k

\* Fields kept from an insert with outcome o of a document named name.
AddDoc(o, name) == IF Applied(o) THEN server @@ (nextId :> name) ELSE server
NewId(o)        == IF Applied(o) THEN nextId + 1 ELSE nextId
Late(o)         == IF o = "late" THEN {nextId} ELSE {}

\* self.assert_test(False, ...) once for a try block that ended in except.
Count(stop, n) == IF stop <= n THEN 1 ELSE 0

-----------------------------------------------------------------------------

Init ==
    /\ pc = "setup"
    /\ server = [id \in {} |-> "crud"]
    /\ nextId = 1
    /\ testDocs = <<>>
    /\ failed = 0
    /\ success = FALSE
    /\ lateIns = {}
    /\ delFailed = {}

\* setup(): connect and call health(); on an exception run_all_tests
\* returns False at once, before the try/finally, so teardown never runs.
Setup ==
    /\ pc = "setup"
    /\ \E o \in Reads :
         pc' = IF o = "ok" THEN "crud" ELSE "done"
    /\ UNCHANGED <<server, nextId, testDocs, failed, success, lateIns, delFailed>>

\* test_basic_crud_operations: insert, append the id, get, update, delete,
\* remove the id from test_docs (list.remove is SequencesExt's RemoveFirst),
\* then get again expecting NotFoundError.
\* Calls: 1 insert, 2 get, 3 update, 4 delete, 5 the second get (whose
\* "ok" is the expected NotFoundError).
CrudTrackedRemovedFirst(s, stop, id) ==
    IF s[1] = "ok" /\ stop >= 4 THEN testDocs
    ELSE IF s[1] = "ok" THEN Append(testDocs, id)
    ELSE testDocs

CrudTracked(s, stop, id) ==
    IF s[1] = "ok" /\ stop > 4 THEN RemoveFirst(Append(testDocs, id), id)
    ELSE IF s[1] = "ok" THEN Append(testDocs, id)
    ELSE testDocs

TestBasicCrud ==
    /\ pc = "crud"
    /\ \E s \in Writes \X Reads \X Reads \X Writes \X Reads :
         LET stop == Stop(s)
             deleted == stop >= 4 /\ Applied(s[4])
         IN  /\ server' = IF deleted THEN server ELSE AddDoc(s[1], "crud")
             /\ nextId' = NewId(s[1])
             /\ testDocs' = CrudTracked(s, stop, nextId)
             /\ failed' = failed + Count(stop, 5)
             /\ lateIns' = lateIns \cup Late(s[1])
    /\ pc' = "builder"
    /\ UNCHANGED <<success, delFailed>>

\* test_builder_patterns: insert_with_builder, append the id,
\* query_with_builder (the document just stored matches), update_with_builder.
TestBuilderPatterns ==
    /\ pc = "builder"
    /\ \E s \in Writes \X Reads \X Reads :
         /\ server' = AddDoc(s[1], "builder")
         /\ nextId' = NewId(s[1])
         /\ testDocs' = IF s[1] = "ok" THEN Append(testDocs, nextId) ELSE testDocs
         /\ failed' = failed + Count(Stop(s), 3)
         /\ lateIns' = lateIns \cup Late(s[1])
    /\ pc' = "validated"
    /\ UNCHANGED <<success, delFailed>>

\* test_validated_types: client-side validation only, no server call.
TestValidatedTypes ==
    /\ pc = "validated"
    /\ pc' = "search"
    /\ UNCHANGED <<server, nextId, testDocs, failed, success, lateIns, delFailed>>

\* Fault: self.test_docs.append(doc_id) after the except, not in the try:
\* a raising second insert appends the first insert's doc_id again.
SearchTrackedAfterExcept(i1, i2, id2) ==
    testDocs \o (IF i1 = "ok" THEN <<nextId>> ELSE <<>>)
             \o (CASE i2 = "ok" -> <<id2>> [] i1 = "ok" -> <<nextId>> [] OTHER -> <<>>)

\* The ids of the two search-test inserts that returned, appended in order.
SearchTracked(i1, i2, id2) ==
    testDocs \o (IF i1 = "ok" THEN <<nextId>> ELSE <<>>)
             \o (IF i2 = "ok" THEN <<id2>> ELSE <<>>)

\* test_search_capabilities: two inserts, each in its own try whose except
\* only prints; then a text query (passes when it returns), a builder query
\* for text "python" with tag "programming" (passes when search_1 is on the
\* server, or when other data of the server happens to match), and a
\* semantic search whose failure is only printed.
TestSearchCapabilities ==
    /\ pc = "search"
    /\ \E i1, i2 \in Writes, text, builder \in Reads, otherMatch \in BOOLEAN :
         LET afterFirst == AddDoc(i1, "search_1")
             id2 == NewId(i1)
             found == Applied(i1) \/ otherMatch
         IN  /\ server' = IF Applied(i2) THEN afterFirst @@ (id2 :> "search_2")
                          ELSE afterFirst
             /\ nextId' = IF Applied(i2) THEN id2 + 1 ELSE id2
             /\ testDocs' = SearchTracked(i1, i2, id2)
             /\ failed' = failed + (IF text = "ok" THEN 0 ELSE 1)
                                 + (IF builder = "ok" /\ found THEN 0 ELSE 1)
             /\ lateIns' = lateIns \cup Late(i1)
                           \cup (IF i2 = "late" THEN {id2} ELSE {})
    /\ pc' = "errors"
    /\ UNCHANGED <<success, delFailed>>

\* test_error_handling: get and update of a random id.  The get must raise
\* NotFoundError; the update passes on NotFoundError or KotaDBError, and a
\* transport failure passes or fails by the client's exception hierarchy.
TestErrorHandling ==
    /\ pc = "errors"
    /\ \E get, upd \in Reads, kotaError \in BOOLEAN :
         failed' = failed + (IF get = "ok" THEN 0 ELSE 1)
                          + (IF upd = "ok" \/ kotaError THEN 0 ELSE 1)
    /\ pc' = "info"
    /\ UNCHANGED <<server, nextId, testDocs, success, lateIns, delFailed>>

\* test_database_info: health() and stats(), each in its own try.
TestDatabaseInfo ==
    /\ pc = "info"
    /\ \E health, stats \in Reads :
         failed' = failed + (IF health = "ok" THEN 0 ELSE 1)
                          + (IF stats = "ok" THEN 0 ELSE 1)
    /\ pc' = "teardown"
    /\ UNCHANGED <<server, nextId, testDocs, success, lateIns, delFailed>>

\* teardown(): delete every id of test_docs; NotFoundError and any other
\* exception are printed and skipped; return self.failed == 0.
Teardown ==
    /\ pc = "teardown"
    /\ \E o \in [1..Len(testDocs) -> Writes] :
         LET gone == {testDocs[k] : k \in {k \in DOMAIN o : Applied(o[k])}}
             raised == {testDocs[k] : k \in {k \in DOMAIN o :
                                               Raises(o[k]) /\ testDocs[k] \in DOMAIN server}}
         IN  /\ server' = Restrict(server, DOMAIN server \ gone)
             /\ delFailed' = raised
    /\ success' = (failed = 0)
    /\ pc' = "done"
    /\ UNCHANGED <<nextId, testDocs, failed, lateIns>>

Next ==
    \/ Setup
    \/ TestBasicCrud
    \/ TestBuilderPatterns
    \/ TestValidatedTypes
    \/ TestSearchCapabilities
    \/ TestErrorHandling
    \/ TestDatabaseInfo
    \/ Teardown

Spec == Init /\ [][Next]_vars

-----------------------------------------------------------------------------
(* Properties *)

TypeOK ==
    /\ pc \in {"setup", "crud", "builder", "validated", "search", "errors",
               "info", "teardown", "done"}
    /\ server \in UNION {[D -> Names] : D \in SUBSET (1..4)}
    /\ nextId \in 1..5
    /\ DOMAIN server \subseteq 1..(nextId - 1)
    /\ testDocs \in Seq(1..4) /\ Len(testDocs) <= 4
    \* test_docs holds each id once, and only ids the server handed out.
    /\ IsInjective(testDocs)
    /\ ToSet(testDocs) \subseteq 1..(nextId - 1)
    /\ failed \in 0..8
    /\ success \in BOOLEAN
    /\ lateIns \cup delFailed \subseteq 1..4

\* The suite never loses track of a document it was told about: once
\* teardown has run, every test document still on the server is one whose
\* insert raised after taking effect, or whose delete in teardown raised.
\* The CRUD test removes the id from test_docs only after its delete
\* returned; the order of those two lines is what this protects.
NothingForgotten ==
    pc = "done" => DOMAIN server \subseteq lateIns \cup delFailed

\* The exit status run_all_tests reports is success only when the suite
\* cleaned up after itself: no test document is left on the server.
SuccessMeansClean ==
    pc = "done" /\ success => DOMAIN server = {}

=============================================================================
