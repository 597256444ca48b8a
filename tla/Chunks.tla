------------------------------- MODULE Chunks -------------------------------
(***************************************************************************)
(* The embedding stage: StructuredEmbeddingPipeline.run                    *)
(* (app/ingestion/embedding_pipeline.py) over the chunks table             *)
(* (app/repositories/chunks.py).                                           *)
(*                                                                         *)
(* A run is not about one file: it lists all structured documents once,    *)
(* and then, one document after the other, compares the stored chunks with *)
(* those of the text it listed, calls the embedding service, loads the     *)
(* chunks again and writes them. All is one transaction, which commits     *)
(* after the last document. Documents change, and other runs commit, in    *)
(* between.                                                                *)
(*                                                                         *)
(* PostgreSQL (external) is at READ COMMITTED, as in Persist.              *)
(***************************************************************************)
EXTENDS Naturals, Sequences, FiniteSets, Relation

CONSTANTS
    N,          \* number of structured documents
    Runs,       \* the executions of the stage that may happen
    Workers,    \* bound: how many of them are active at the same time
    Edits,      \* bound: how often a document is ingested
    Faults,     \* bound: failed embedding calls and lost transactions
    Texts,      \* raw texts of documents
    Passages,   \* contents of chunks, up to their checksum
    ChunksOf,   \* text -> the contents ResumeChunker makes of it, never none
    ModelOf,    \* run -> the embedding model it is configured with
    NoText      \* the text of a document that is not ingested yet

\* Documents are numbered as list_structured_contexts orders them.
Docs == 1..N
Ordinals == UNION {DOMAIN ChunksOf[x] : x \in Texts}

ASSUME ConstantTypes ==
    /\ {N, Workers, Edits, Faults} \subseteq Nat
    /\ NoText \notin Texts
    /\ ChunksOf \in [Texts -> Seq(Passages) \ {<<>>}]
    /\ DOMAIN ModelOf = Runs

VARIABLES
    text,     \* raw_documents.raw_text, as committed
    chunks,   \* committed rows of document_chunks, by <<document, ordinal>>
    over,     \* rows each open transaction has written or deleted
    run,      \* the control state of each run
    indexed,  \* history: the <<text, model>> of the last commit for a document
    budget    \* ingestions and faults that may still happen

vars == <<text, chunks, over, run, indexed, budget>>

-----------------------------------------------------------------------------
(* Rows *)

\* A chunk row. Its id is the run that inserted it: a run inserts an ordinal
\* at most once. The embedding is that of a content by a model.
Chunk(content, model, id) ==
    [content |-> content, model |-> model,
     embedding |-> <<content, model>>, id |-> id]

Gone == [deleted |-> TRUE]
NoRows == <<>>

\* Rows new on top of rows old, without those that new deletes.
Onto(new, old) ==
    [k \in {k \in DOMAIN new \cup DOMAIN old :
               k \in DOMAIN new => new[k] # Gone} |->
        IF k \in DOMAIN new THEN new[k] ELSE old[k]]

\* What a statement of run r sees.
View(r) == Onto(over[r], chunks)

\* The chunks of document d among these rows, by ordinal.
Of(d, rows) ==
    [i \in {i \in Ordinals : <<d, i>> \in DOMAIN rows} |-> rows[<<d, i>>]]

-----------------------------------------------------------------------------
(* Control state *)

Idle ==
    [phase   |-> "idle",
     listed  |-> NoRows,  \* the contexts: document -> text as listed
     todo    |-> {},      \* documents of the loop still to come
     doc     |-> 0,       \* the document in hand
     loaded  |-> NoRows,  \* its chunks as upsert loaded them
     failed  |-> {},      \* documents that count as failed
     alone   |-> TRUE]    \* history: no other run was active meanwhile

Active(r) == run[r].phase \notin {"idle", "committed", "aborted"}

\* The contents of the document in hand, as listed.
Contents(r) == ChunksOf[run[r].listed[run[r].doc]]

\* Mutant of IsCurrent: a zip that is not strict, and no comparison of lengths.
IsCurrentZipped(stored, contents, model) ==
    \A i \in DOMAIN contents \cap DOMAIN stored :
        stored[i].content = contents[i] /\ stored[i].model = model

\* ChunkRepository.is_current: the ordinals, contents and model of the stored
\* chunks are those the run would write. Embeddings are not looked at.
IsCurrent(stored, contents, model) ==
    /\ DOMAIN stored = DOMAIN contents
    /\ \A i \in DOMAIN contents : /\ stored[i].content = contents[i]
                                  /\ stored[i].model = model

\* Mutant of Following: the contexts are listed without ORDER BY.
FollowingAny(r) == run[r].todo

\* The documents that the loop may take next: the first of the list.
Following(r) == {d \in run[r].todo : \A e \in run[r].todo : d <= e}

-----------------------------------------------------------------------------
(* upsert *)

\* Ordinals that the flush inserts, updates and deletes.
Inserted(r) == DOMAIN Contents(r) \ DOMAIN run[r].loaded
Updated(r)  == DOMAIN Contents(r) \cap DOMAIN run[r].loaded

Deleted(r)  == DOMAIN run[r].loaded \ DOMAIN Contents(r)

\* The row that was loaded for ordinal i is still there.
Remains(r, i) ==
    LET now == Of(run[r].doc, View(r))
    IN  i \in DOMAIN now /\ now[i].id = run[r].loaded[i].id

\* Mutant of Overwritten: all chunks are deleted and inserted again.
OverwrittenAnew(r, i) == Chunk(Contents(r)[i], ModelOf[r], r)

\* Mutant of Overwritten: the model is only set on new rows.
OverwrittenModelKept(r, i) ==
    [View(r)[<<run[r].doc, i>>] EXCEPT
        !.content = Contents(r)[i],
        !.embedding = <<Contents(r)[i], ModelOf[r]>>]

\* An UPDATE sets the columns whose new value differs from the loaded one.
\* The embedding is always among them: it is loaded as an array, which never
\* compares equal to a list.
Overwritten(r, i) ==
    LET old  == run[r].loaded[i]
        now  == View(r)[<<run[r].doc, i>>]
        new  == Chunk(Contents(r)[i], ModelOf[r], old.id)
    IN  [now EXCEPT
            !.content   = IF new.content = old.content THEN @ ELSE new.content,
            !.model     = IF new.model = old.model THEN @ ELSE new.model,
            !.embedding = new.embedding]

\* The rows of the document in hand after the flush. An UPDATE or DELETE of a
\* row that is no longer there does nothing.
Written(r) ==
    [i \in Inserted(r) \cup
           {i \in Updated(r) \cup Deleted(r) : Remains(r, i)} |->
        IF i \in Inserted(r) THEN Chunk(Contents(r)[i], ModelOf[r], r)
        ELSE IF i \in Updated(r) THEN Overwritten(r, i)
        ELSE Gone]

\* External: an INSERT violates the unique (document_id, ordinal).
Violates(r) == Inserted(r) \cap DOMAIN Of(run[r].doc, View(r)) # {}

\* External: an UPDATE matched no row. SQLAlchemy raises StaleDataError when
\* it sends one row, and does not look when it sends several at once.
Misses(r) == \E i \in Updated(r) : ~Remains(r, i)

\* External: the runs r waits for: those that hold a row or key of its flush.
WaitsFor(r) ==
    IF run[r].phase # "flush" THEN {}
    ELSE {q \in Runs \ {r} :
            \E i \in Inserted(r) \cup Updated(r) \cup Deleted(r) :
                <<run[r].doc, i>> \in DOMAIN over[q]}

-----------------------------------------------------------------------------
\* Documents may have been ingested by jobs that did not ask for embeddings.
\* No two documents have the same text (raw_documents.checksum is unique).
Distinct(f) == \A d, e \in Docs : f[d] = f[e] /\ d # e => f[d] = NoText

Init ==
    /\ text \in {f \in [Docs -> Texts \cup {NoText}] : Distinct(f)}
    /\ chunks = NoRows
    /\ over = [r \in Runs |-> NoRows]
    /\ run = [r \in Runs |-> Idle]
    /\ indexed = [d \in Docs |-> <<NoText, NoText>>]
    /\ budget = [edits |-> Edits, faults |-> Faults]

\* Some job commits a new or changed document (Persist).
Ingest(d, x) ==
    /\ budget.edits > 0
    /\ text[d] # x /\ Distinct([text EXCEPT ![d] = x])
    /\ text' = [text EXCEPT ![d] = x]
    /\ budget' = [budget EXCEPT !.edits = @ - 1]
    /\ UNCHANGED <<chunks, over, run, indexed>>

\* list_structured_contexts: one query for all documents with a person.
List(r) ==
    LET others == {q \in Runs : Active(q)}
        stored == {d \in Docs : text[d] # NoText}
    IN  /\ run[r].phase = "idle"
        /\ Cardinality(others) < Workers
        /\ run' = [q \in Runs |->
             IF q = r
             THEN [Idle EXCEPT !.phase = "next",
                               !.listed = [d \in stored |-> text[d]],
                               !.todo = stored,
                               !.alone = others = {}]
             ELSE IF q \in others THEN [run[q] EXCEPT !.alone = FALSE]
             ELSE run[q]]
        /\ UNCHANGED <<text, chunks, over, indexed, budget>>

\* Take the next document: done when is_current, else the service is called.
Compare(r) ==
    /\ run[r].phase = "next"
    /\ \E d \in Following(r) :
         LET current == IsCurrent(Of(d, View(r)), ChunksOf[run[r].listed[d]],
                                  ModelOf[r])
         IN  run' = [run EXCEPT
               ![r] = [run[r] EXCEPT
                         !.phase = IF current THEN "next" ELSE "embed",
                         !.todo = @ \ {d},
                         !.doc = d]]
    /\ UNCHANGED <<text, chunks, over, indexed, budget>>

\* The service answers for all contents; the savepoint opens and upsert loads
\* the chunks of the document.
Embed(r) ==
    /\ run[r].phase = "embed"
    /\ run' = [run EXCEPT ![r].phase = "flush",
                          ![r].loaded = Of(run[r].doc, View(r))]
    /\ UNCHANGED <<text, chunks, over, indexed, budget>>

\* The end of a loop iteration, with an exception or without.
Proceed(r, failures) ==
    run' = [run EXCEPT ![r] = [run[r] EXCEPT !.phase = "next", !.loaded = NoRows,
                                             !.failed = @ \cup failures]]

\* The flush of the upsert, once nobody else holds one of its rows.
Flush(r) ==
    /\ run[r].phase = "flush"
    /\ WaitsFor(r) = {} /\ ~Violates(r)
    /\ over' = [over EXCEPT
         ![r] = [k \in DOMAIN @ \cup ({run[r].doc} \X DOMAIN Written(r))
                 |-> IF k[1] = run[r].doc THEN Written(r)[k[2]] ELSE @[k]]]
    /\ Proceed(r, {})
    /\ UNCHANGED <<text, chunks, indexed, budget>>

\* The flush raises; its savepoint is rolled back and the document has failed.
FlushRaises(r) ==
    /\ run[r].phase = "flush"
    /\ WaitsFor(r) = {} /\ (Violates(r) \/ Misses(r))
    /\ Proceed(r, {run[r].doc})
    /\ UNCHANGED <<text, chunks, over, indexed, budget>>

\* Mutant of EmbedRaises: the first batch is stored before the second fails.
EmbedRaisesInBetween(r) ==
    LET first == <<run[r].doc, 1>>
    IN  /\ run[r].phase = "embed"
        /\ budget.faults > 0
        /\ budget' = [budget EXCEPT !.faults = @ - 1]
        /\ over' = [over EXCEPT
             ![r] = [k \in DOMAIN @ \cup {first} |->
                       IF k = first THEN Chunk(Contents(r)[1], ModelOf[r], r)
                       ELSE @[k]]]
        /\ Proceed(r, {})
        /\ UNCHANGED <<text, chunks, indexed>>

\* The embedding service fails, or its answer does not validate.
EmbedRaises(r) ==
    /\ run[r].phase = "embed"
    /\ budget.faults > 0
    /\ budget' = [budget EXCEPT !.faults = @ - 1]
    /\ Proceed(r, {run[r].doc})
    /\ UNCHANGED <<text, chunks, over, indexed>>

\* The documents of r that did not fail.
Succeeded(r) == DOMAIN run[r].listed \ run[r].failed

\* session.commit() after the loop.
Commit(r) ==
    /\ run[r].phase = "next" /\ run[r].todo = {}
    /\ chunks' = View(r)
    /\ over' = [over EXCEPT ![r] = NoRows]
    /\ run' = [run EXCEPT ![r].phase = "committed"]
    /\ indexed' = [d \in Docs |->
         IF d \in Succeeded(r) THEN <<run[r].listed[d], ModelOf[r]>>
         ELSE indexed[d]]
    /\ UNCHANGED <<text, budget>>

\* The process or its connection dies: the transaction is lost.
Abort(r) ==
    /\ Active(r)
    /\ budget.faults > 0
    /\ budget' = [budget EXCEPT !.faults = @ - 1]
    /\ over' = [over EXCEPT ![r] = NoRows]
    /\ run' = [run EXCEPT ![r] = [Idle EXCEPT !.phase = "aborted",
                                              !.alone = run[r].alone]]
    /\ UNCHANGED <<text, chunks, indexed>>

Step(r) ==
    \/ List(r) \/ Compare(r) \/ Embed(r) \/ Flush(r) \/ FlushRaises(r)
    \/ Commit(r)

Fault(r) == EmbedRaises(r) \/ Abort(r)

Ended(r) == run[r].phase \in {"committed", "aborted"}

Next ==
    \/ \E r \in Runs : Step(r) \/ Fault(r)
    \/ \E d \in Docs, x \in Texts : Ingest(d, x)
    \/ (\A r \in Runs : Ended(r)) /\ UNCHANGED vars

Spec == Init /\ [][Next]_vars

\* A worker process goes on; the service answers or raises, and PostgreSQL
\* grants a lock once it is free.
FairSpec == Spec /\ \A r \in Runs : WF_vars(Step(r))

-----------------------------------------------------------------------------
(* Properties *)

\* These rows have the contents of text x and the name of model m ...
Complete(rows, x, m) ==
    /\ DOMAIN rows = DOMAIN ChunksOf[x]
    /\ \A i \in DOMAIN rows : /\ rows[i].content = ChunksOf[x][i]
                              /\ rows[i].model = m

\* ... and its embeddings.
Whole(rows, x, m) ==
    /\ Complete(rows, x, m)
    /\ \A i \in DOMAIN rows : rows[i].embedding = <<ChunksOf[x][i], m>>

\* No run has overlapped with another one so far.
Serial == \A r \in Runs : run[r].phase # "idle" => run[r].alone

\* One run at a time: a text that the last committed run has embedded with the
\* same model is never sent to the embedding service again (README.md:176,
\* test_embedding_pipeline.py:114).
NothingEmbeddedTwice ==
    [][Serial => \A r \in Runs : Embed(r) =>
        indexed[run[r].doc] # <<run[r].listed[run[r].doc], ModelOf[r]>>]_vars

\* Whatever overlapping runs have left behind, a run that is alone repairs: the
\* documents that did not fail have the contents it listed, the others keep
\* what they had (embedding_pipeline.py:69).
AloneRunIsCurrent ==
    [][\A r \in Runs : Commit(r) /\ run[r].alone =>
        \A d \in Docs :
            IF d \in Succeeded(r)
            THEN Complete(Of(d, chunks'), run[r].listed[d], ModelOf[r])
            ELSE Of(d, chunks') = Of(d, chunks)]_vars

\* The runs that listed d, and have not lost their transaction, agree on its
\* text and on the model.
Steady(d) ==
    \A q, r \in {r \in Runs : d \in DOMAIN run[r].listed} :
        run[q].listed[d] = run[r].listed[d] /\ ModelOf[q] = ModelOf[r]

\* Runs that overlap on a document that did not change between their lists
\* leave it without chunks, or whole and with the right embeddings: a second
\* writer waits and then fails, or writes the same (chunks.py:124).
SteadyDocumentsAreWhole ==
    \A d \in Docs : Steady(d) =>
        \/ Of(d, chunks) = NoRows
        \/ \E r \in Runs : /\ d \in DOMAIN run[r].listed
                          /\ Whole(Of(d, chunks), run[r].listed[d], ModelOf[r])

\* A chunk that stays keeps its id, which graph relations and inferences cite
\* as evidence (test_embedding_pipeline.py:130).
IdsAreStable ==
    [][\A k \in DOMAIN chunks \cap DOMAIN chunks' :
          chunks'[k].id = chunks[k].id]_vars

\* No run waits for ever: all take the documents in the same order, so there
\* is no cycle of waits although locks are held to the end of the list.
EveryRunEnds == \A r \in Runs : <>Ended(r)
=============================================================================
