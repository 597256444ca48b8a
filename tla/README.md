# A verification of the GraphRAG recruiting backend

TLA+ models of this repository's backend (`src/app`), checked with TLC, and
theorems about them checked with TLAPS. Line numbers refer to the
sources as they stand beside this directory.

## 1. The system

Resumes come in over HTTP, a Celery worker turns each uploaded file into rows
of PostgreSQL, embeddings of its chunks and a Neo4j graph, and searches read
all three.

| # | component | code | state it keeps | operations |
|---|-----------|------|----------------|------------|
| 1 | Job life cycle | `api/v1/routes/ingestion.py`, `repositories/jobs.py`, `workers/` | the uploaded files, the `ingestion_jobs` row, the Celery message in Redis, the running task | store a file, unpack an archive, create, send, set the task id, refuse, run, succeed, fail |
| 2 | Relational persistence | `ingestion/pipeline.py`, `ingestion/unstructured_pipeline.py`, `repositories/ingestion.py` | documents, people, names, aliases, links; one open transaction per file | persist one document: look up, resolve the person, merge the names, link |
| 3 | Chunks and embeddings | `ingestion/embedding_pipeline.py`, `repositories/chunks.py`, `services/embeddings.py`, `ingestion/chunking.py` | `document_chunks` | list contexts, chunk, compare, embed, upsert |
| 4 | Graph synchronisation | `graph/sync.py`, `graph/neo4j.py`, `repositories/graph_snapshot.py` | Neo4j nodes and relations with evidence ids | take a snapshot, replace the relations of each person |
| 5 | Retrieval and answers | `retrieval/hybrid.py`, `repositories/search.py`, `ranking/`, `generation/evidence.py`, `reasoning/` | none; reads 2-4 in several queries | filter, vector and graph search, pool, rank, rerank, answer |
| 6 | Inferences | `inference/engine.py`, `repositories/inferences.py`, `services/inferences.py` | `candidate_inferences`, with a review status | propose, synchronise the stored proposals |
| 7 | Team builder | `team_builder/agent.py` | none | greedy assignment of candidates to slots |
| 8 | Query understanding | `retrieval/intent.py`, `retrieval/query_understanding.py`, `retrieval/metadata_grounding.py` | none | text to intent |
| 9 | Sources, parsers, providers | `ingestion/sources/`, `ingestion/parsers/`, `llm/` | none | records from files; calls to language models |
| 10 | HTTP boundary, export, demo, page, command lines | `security.py`, `main.py`, `api/`, `services/resume_export.py`, `web.py` | a request counter per client | routing, formatting |

How they meet: (1) calls (2), then (3), then (4) as the stages of one job, in
one database session; several pool processes of the worker do so at the same
time, one job each. (3) and (4) do not process the job's file but *all* stored
documents and people, so the stages of concurrent jobs overlap on the same
rows. (5) reads what (2), (3) and (4) committed, in separate statements; (6)
stores chunk ids that (3) may later give another text.

What is hard: no transaction spans the job row and the queue, or PostgreSQL and
Neo4j; the broker delivers at least once; every "get or create" is two
statements under READ COMMITTED; a whole file is one transaction, so its locks
last for as long as the file; collections and contexts are read once and used
after slow awaits; and errors of one document, or one person, are counted and
swallowed. Requests answer from several lists, each cut to its own limit, and
from what models answer, which may be anything.

What would make each component correct:

1. A finished job was really done, an unfinished one has somebody to finish it,
   and its row tells one story. Its worker reads the file that was uploaded, and
   each accepted file has its job. *(modelled, most of it proved)*
2. No half document is ever visible, the report is true, ingesting again writes
   nothing, one person and one row per identity and name. *(modelled and proved, the
   last three for one worker)*
3. Stored chunks belong to the document's stored text once the embedding stage
   has run; unchanged documents do not call the embedding service. Chunks hold the
   whole text, once and in order, within the limit, and have the vector of their
   own text. *(modelled, proved)*
4. After a sync that no other overlaps, the graph holds what it read, people that
   failed aside; nothing in the graph is made up. *(modelled, proved)*
5. Each result satisfies the hard filters, cites only evidence of its candidate and,
   after a graph search, of people along a path, and stands in the promised order.
   *(modelled, proved)*
6. A rebuild leaves a reviewed inference alone and never undoes a verdict; only when
   the review comes between its read and its commit may it delete the row. Each
   inference cites evidence of the people it is about. *(modelled, proved)*
7. No candidate fills two slots, and a slot stays empty only when nobody is left.
   *(modelled, proved)*
8. The ages, cities and the company that the rules find in a query are demanded of
   everybody returned, and nothing that the language model makes up keeps out whoever
   has all that the query says. *(modelled, proved)*

`PROJECT.json` lists the hazards behind these, each at its line.

## 2. The modules

| module | models | kind |
|--------|--------|------|
| `JobLifecycle` | what a client that polls a job may see | abstract specification |
| `IngestionJobs` | component 1 | detailed specification, implements `JobLifecycle` |
| `IngestionJobs_proofs` | | theorems about `IngestionJobs` |
| `Persist` | component 2 | specification |
| `Persist_proofs` | | theorems about `Persist` |
| `Uploads` | component 1: the requests before `_enqueue_job` | specification |
| `Uploads_proofs` | | theorems about `Uploads` |
| `Chunks` | component 3: the pipeline and the table | specification |
| `Chunks_proofs` | | theorems about `Chunks` |
| `Chunking` | component 3: how a resume is cut | specification |
| `Chunking_proofs` | | theorems about `Chunking` and `Indexing` |
| `Indexing` | component 3: batches, and the embedding providers of 9 | specification, composed with `Chunking` |
| `GraphSync` | component 4 | specification |
| `Search` | component 5, while the data change | specification, composed with `GraphSync` |
| `Search_proofs` | | theorems about `GraphSync` and `Search` |
| `Intent` | component 8 | operators |
| `Ranking` | component 5: filters, scores, order | operators over `Intent` |
| `Finder` | component 5: one search, from text to order | actions, over `Ranking` |
| `Teams` | component 7, and requests to 5 | specification, composed with `Finder` |
| `Teams_proofs` | | theorems about `Teams`, and `Finder`, `Ranking` and `Intent` in it |
| `Inferences` | component 6 | specification |
| `Inferences_proofs` | | theorems about `Inferences` |
| `MCIngestionJobs`, `MCUploads`, `MCPersist`, `MCChunks`, `MCChunking`, `MCGraphSync`, `MCSearch`, `MCTeams`, `MCInferences` | | instances for TLC |

Definitions commented "Mutant of X" are wrong versions of `X`, one for each
property that would notice (`PROJECT.json`, mutants); no specification uses them.

### IngestionJobs

One job has one row, one request handler, some copies of its message and some
executions.

- `api[j].pc` follows `_enqueue_job`: `created` after `repository.create`
  committed the row, `sent` after `send_task`, `refused` in the `except` clause.
  `run[r].pc` follows `_execute_job`: `claim` before `update_status(RUNNING)`,
  `work` in the `try`, `fail` in the `except`. The states `refusing`,
  `claiming`, `succeeding` and `failing` lie between the load and the commit of
  one `update_status`.
- `update_status` is a load followed by an UPDATE of the columns whose new value
  differs from the loaded one (what SQLAlchemy emits); `Updated` is that rule.
  It is the reason why two overlapping calls may leave a mixed row.
- `send_task` succeeds, publishes twice (a retried publish), or raises with or
  without the message in the queue. `set_task_id` may fail in two ways (`SetTaskIdRaises`). When
  its UPDATE or commit fails, the session was not rolled back, so the
  `update_status` in the handler raises too and the row stays as it was. When
  already the checkout of its connection or its SELECT fails, the session can still
  be used, and the handler commits FAILED for a job that has been sent; the worker
  writes over that later. Such jobs are `recanted`.
- `update_status(RUNNING)` stands before the `try`: when it raises nothing is
  written. A failing commit is taken as not applied.
- The queue (external) is configured in `workers/celery_app.py`: acknowledged
  late, so a message survives the worker process; put back by Redis after the
  visibility timeout although the execution goes on; not put back when only the
  pool process dies (`task_reject_on_worker_lost` is off). Redis itself is taken
  to be durable.
- History variables: `effects` (stages done), `suspect` (delivered more than
  once, or queued by a send that raised), `recanted` (the handler refuses it
  although its message was sent), `raced` (two status updates overlapped),
  `abandoned` (a named fault left nobody to finish the job).
- `budget` bounds the faults of each kind.

Not modelled here: what comes before `_enqueue_job` (Uploads), what the stages do
(Persist, Chunks, GraphSync).

### Uploads

`handler[r]` is one request to `/jobs`, `/jobs/upload`, `/jobs/upload-archive` or
`/jobs/demo`, by the kind of its body: "path", "file", "archive" or "demo".

- `Receive` is what stands before the first write, `Write` one read of the request
  body with the size check and the write, `Close` the end of the loop. `Inspect`
  makes the checks on an archive's directory, `Unpack` copies one member, `Enqueue`
  is `_enqueue_job` for the next path and, after the last, the answer.
- `BodyRaises`, `EnqueueRaises` and `HandlerDies` are the ways out of a handler:
  an error in front of the jobs (500, and `/upload` unlinks its file), an error
  inside `_enqueue_job` (500, or the 503 of its `except`; the row may be absent,
  failed or queued, and the message sent or not), and a cancelled request or a lost
  process, after which nobody cleans up.
- `ReadFile` is a worker that opens the file of a sent job, at any time and any
  number of times; `read` remembers what it found.
- Data: a file is whole or not, and names what it holds: the body, or the number of
  the archive's member, which is also its path. Sizes are counted in reads of the request. A uuid in a path
  is the number of the request. A limit on the number of members stands for the one
  on their total size as well.

Not modelled: the suffix of a file, beyond accepted or not; content types; jobs as
more than their path, which is the business of IngestionJobs.

### Persist

A transaction `t` ingests one file, `tx[t].phase` says which statement of
`persist` comes next.

- `db` maps row ids to contents; `over[t]` holds the rows `t` has written. A
  statement sees `View(t)`: the committed rows with `t`'s own on top. `Commit`
  moves them to `db`; `RollBack` goes back to the savepoint `tx[t].saved`.
- `UniqueKeys` gives the unique keys a row occupies, after `models.py`: a
  document its (source, external id) and its checksum, a person its (source,
  source id), a name its normalized name - except projects, whose column is
  only indexed - an alias itself, a link its pair.
- A write waits (`WaitsFor`) while another transaction has written the row, or
  holds or may release a key it needs; then it fails (`Violates`) when the key
  is taken, and the document fails with it. A cycle of waits makes one
  transaction's statement fail (`DeadlockError`). These three are PostgreSQL's
  behaviour and marked external.
- Locals live in `tx[t].mine`: the document row as loaded, the person, its
  identity and its collections *as loaded* - `UpdatePerson` writes only when the
  loaded identity differs, `Flush` inserts the links missing from the loaded
  collections.
- One flush is one step. UPDATEs that SQLAlchemy's autoflush emits with the next
  query are steps of their own at that place, and the association rows that
  earlier autoflushes may emit are inserted by `Flush`; locks are thereby taken
  in slightly fewer orders than in the code.
- Data: a text is a model value that stands for its checksum and determines
  the identity and the names of its resume (a language model that extracts
  another resume from the same text would be another text); a person is its
  identity; a name is a model value, `NameOf` its canonical form.
- Faults: a document that does not parse, an embedding call that fails, a
  transaction that is lost (process, connection, or an unreadable rest of the
  file).

Not modelled: the other profile columns (each keeps the last non-null value),
`projects.description`, links between entities, the chunks that the unstructured
pipeline writes inside the savepoint (only whether that succeeds).

### Chunks

A run `r` is one execution of `StructuredEmbeddingPipeline.run`. `run[r]` holds
its locals: `listed` (the contexts, taken once), `todo`, the document in hand,
`loaded` (its chunks as `upsert` read them) and what has failed.

- `List`, `Compare`, `Embed`, `Flush`, `Commit` are the awaits of the loop; the
  slow one, the call of the embedding service, lies between `Compare` and
  `Embed`. `Ingest` is another job's commit of a new or changed document.
- A chunk row is its content, its model, the content and model its embedding was
  computed from, and an id. `Overwritten` is what SQLAlchemy sends for a loaded
  row: the columns whose value differs from the *loaded* one, and always the
  embedding, because pgvector loads an array and compares it with a list.
- An INSERT of an ordinal that somebody else has inserted raises (`Violates`).
  An UPDATE of a row that is no longer there raises or does nothing (`Misses`):
  SQLAlchemy checks the row count of a single statement, but not that of a
  batch with asyncpg. Both happen in the model.
- A flush is one step; PostgreSQL could also find a cycle of waits between the
  statements of two flushes of the *same* document, and the document of one of
  them would fail, like in `FlushRaises`.
- The lock that an INSERT of a chunk takes on the key of its document (the foreign
  key) is not modelled. It makes a run wait for a file's transaction that writes the
  document's unique checksum, and the other way round. With `Persist`'s own locks
  this can close a cycle; PostgreSQL breaks it by an error in one of the two, and
  that document, or that file's, is counted as failed like any other.
- Data: a text is a model value, `ChunksOf` says what the chunker makes of it.
- History: `indexed` (what the last commit that dealt with a document had listed)
  and `run[r].alone`.

Not modelled: the limit option of the command line, calls to the service in
batches (Indexing), and documents of the unstructured pipeline, which are embedded inside `persist`'s
savepoint under the lock of their own row.

### Chunking

One resume goes through the nested loops of `ResumeChunker`; `pc` names the loop
that takes the next step.

- `Sections` is `chunk()`: a summary, the experiences, projects and educations,
  and skills if there are any. Each is a header and some blocks.
- `WholeBlock`, `LongBlock`, `TakeSentence`, `LongSentence`, `EndBlock` are
  `_split_block`; `CutWord`, `TakeWord`, `EndSentence` are `_split_words`; `Pack`
  and `NextBlock` are `_pack_blocks`; `EndSection` hands its chunks over. `piece`
  is the variable `current` of both splitting functions, which never hold text at
  the same time.
- Data: a text is lengths. A sentence carries its length apart from its words',
  because white space of any width may stand between them and only the words
  survive `_split_words`; so does a block. Every character has a place (block,
  sentence, word, position), and a piece is its length and the places it holds.

Not modelled: what the labels of a block say, and the metadata of a chunk.

### Indexing

`Indexing` extends `Chunking` by `EmbeddingService.embed` over the finished chunks.

- `EmbedBatch` is a turn of the loop: the provider is asked, its `embed` orders the
  answer (`Returned`), and the checks on number, dimension and finite values decide
  (`Accepted`). `RequestRaises` is every exception of the provider.
- `Responses` is external: OpenAI numbers its vectors and may return them in any
  order, Ollama returns them in the order of the texts. `BadResponses` adds one
  that is missing, too long, or not finite.
- Data: a vector is the number of the chunk whose text it stands for.

Not modelled: HTTP and its status codes, usage counts, the choice by the settings.

### GraphSync

A synchronisation `s` is one execution of `GraphSyncService.sync`; `sync[s]`
holds what it has read and the queries it has yet to send.

- `ListPeople`, `ReadLinks` (one for each kind of relation, as `selectin` loads
  them) and `ReadEvidence` are the statements of `list_people`. Others commit in
  between. Objects that an earlier stage of the same job has loaded are taken to
  be gone from the session by then (it refers to them weakly).
- `Query` is one `execute_query` of `sync_person`: `MergePerson` or
  `ReplaceRelations`. Neo4j runs each in a transaction of its own. All kinds of a
  person are replaced in the code's order; the companies and projects of a person,
  whose order the database chooses, in any order.
- `QueryRaises` is the `except` clause of the loop, `Abort` everything that ends
  `sync` early. A query whose result is lost after it was committed is not
  distinguished: sending it again, or not, gives states that an overlapping sync
  gives as well.
- A relation is `<<source, kind, target>>`; the graph maps it to the evidence ids
  it carries. Every relation is created with the chunks of the person in hand,
  those of a company or project too, so its evidence is that of whoever was
  copied last.
- PostgreSQL appears as what `Persist` and `Chunks` do to it: links are added and
  never removed, chunks are added at the end and removed from it.
- History: `alone` says that no other sync was active meanwhile.

Not modelled: names and other properties of the nodes, the options of
`list_people`, and the queries that read the graph.

### Search

`Search` extends `GraphSync` by one search: `SearchNext` is a step of the search
or a step of `GraphSync` during which the search waits.

- `FilterIds`, `VectorSearch`, `ReadPool` are the statements it sends to
  PostgreSQL, `GraphSearchIds` and `ReadPaths` those to Neo4j, in the order of
  `HybridRetriever.search`; `RankPool` and `Answer` are the calls of models.
- `Satisfies` is the WHERE clause of `filter_ids`, `GraphMatches` the Cypher
  query. `CandidatePool` is `_candidate_pool` without the branches the planner
  excludes: it uses the graph only with a hard filter.
- Names: `Canonical` is what `EntityNameNormalizer` makes of an alias. The SQL filter
  applies it, the Cypher query does not, and stored names have passed through it.
  `NamesWith` says which nodes, people among them, have a name that contains a term.
- `OnPaths` walks up to three relations in either direction, as `paths` does, and
  keeps the walks with a node whose name contains a term of the query. The LIMIT of that query is left
  out: it only takes evidence away.
- Which chunks are nearest, how candidates score, and what the language model
  claims are arbitrary choices. Ranking therefore is any choice of at most
  `Limit` people, all of them when there are fewer and a hard filter is set. An
  answer has one claim; one with several is accepted when each claim is.
- History: `gone`, the chunks deleted before the search began.

Not modelled here: parsing of the query, scores, order and reranker (Finder, over
data that do not change); changes of a person's columns during the search.

### Intent

`Parsed(query, answer, vocabulary)` is `IntentParser.parse` after the language
model's answer has been validated (`Validates`).

- `Vocabularies` is what `get_search_service` reads: the distinct names of each kind,
  cut to a limit in any order. `Grounded` is `ground_intent_to_corpus`, `Enriched`
  the rules of `enrich_free_form_intent`, in the code's order.
- Data: a text is what the rules find in it: the names that it contains, of which it
  has an alias (cities and companies only), or that one of its phrases resembles by
  0.82; the cities of enrichment's own table; a few terms, "mlops" and "ml engineer"
  apart; the numbers of the four age patterns. A name may be contained by accident,
  like "ai" in "retail". Which strings do contain or resemble which is not modelled. An optional number is a set of at most one.

### Ranking

`Satisfies` is the WHERE clause of `filter_ids`, with the terms made canonical
(`CanonicalNames`) and compared with stored names, which are
(`StoredNamesAreCanonical`). `Breakdown` has the criteria of
`CompositeRanker`, `Match` its `_match`, `Before` the sort key (score, name, id),
`Ranked` its `rank`, and `Reranked` what `LLMReranker.rerank` makes of an answer.
Scores are integers: criteria are fractions of `Unit`, rounded down, and the weights
are not divided by their sum. The domain score and the city score compare names as they
are written, the others canonical ones. Words of evidence are sets, so "mentions a name" is
membership.

### Finder

`call` is one `HybridRetriever.search` and the parser before it: `Parse`,
`FilterIds`, `VectorSearch`, `GraphSearchIds`, `ReadPool`, `ReadPaths`, `RankPool`,
`Rerank`, one action for each await, over a corpus that does not change.

- `GraphMatches` is the Cypher query, whose terms are not made canonical. `Relevant`
  is `_relevant_paths`: a path stays when a name on it contains a term (`NamesWith`).
- `CandidatePool` has all branches of `_candidate_pool`; without hard filters the
  pool comes from the vectors, the graph or the filter, in this order.
- Which chunks are near and how similar they are, and which paths the LIMIT of the
  path query keeps, are arbitrary choices; the answers of the language model and of
  the reranker are taken from sets. `CallRaises` is an exception of any of them.
- `Visible` is the end of `search`: sort again, drop low scores, cut.

Not modelled: the wording of reasons and the evidence text, the options of a search
that switch off the reranker (an empty answer has the same effect).

### Teams

`team` holds the locals of `TeamBuilderAgent.build`. `NextRole` starts a search for
the next role (the actions of `Finder` then run) or ends the loop, `Assign` and
`LeaveUnfilled` are a turn of the loop over slots, `BuildRaises` an exception of a
search. `Selection` is the score with the penalty for overlap, `Preferred` the key
of `max`, `Available` the filter by `selected_ids`. A request of `/search` is
the only other thing that may start `Finder` (`Search`).

Not modelled: the coverage and rationale texts of the response.

### Inferences

A rebuild `r` is one request to rebuild the inferences of a person; `rebuild[r]`
holds what it has read and what it proposes.

- `Check`, `FilterIds`, `ReadProfiles`, `ReadEvidence`, `ReadRows` and `Commit` are
  the statements of the route and of `rebuild_person`, each at READ COMMITTED; the
  engine is computed with the evidence (`Proposals`).
- `Deletes`, `Updates`, `Inserts` are what the flush of `sync_for_person` sends. A
  loaded row is written in the columns that differ from what was loaded
  (`Overwritten`). When two proposals have one key, the last one counts for a row
  that exists (`LastOf`) and both are inserted for one that does not.
- `FlushRaises`: a key that is already there (`Duplicates`), or an UPDATE of a row
  that is gone (`Stale`). SQLAlchemy notices the latter when it sends one UPDATE and
  may not when it sends several at once (`Sent`), which it does when they write the
  same columns; in the model both happen whenever there are several. A DELETE of a row that is gone only warns.
- A flush and its commit are one step: statements of two flushes that wait for
  each other end in one of the outcomes above, or in a broken deadlock (`Lost`).
- A row is keyed by person, type and claim; a claim about a peer names it, so two
  peers of one name share a claim (`NameOf`). Profiles and chunks change as
  `Persist` and `Chunks` change them: terms are added, chunks come and go.
- `Review` is external: the table has a status for it, and no code under
  `src/app` sets it yet.
- History: `alone` says that nobody else has written rows of the person since the
  rebuild read them.

Not modelled: `upsert`, which only tests call, the listing, the confidence of a
proposal, people who are renamed.

## 3. The runs

| run | instance | what it shows |
|-----|----------|---------------|
| `jobs` | 1 job, 2 executors, one fault of every kind | `SucceededIsEarned`; `RowCoherent`; `NoSilentStall`; `TerminalIsFinal`; refinement of `JobLifecycle`; `JobSettles` |
| `uploads` | 2 requests with any of 12 bodies, 2 faults | `JobsReadTheirFile`, `AnswerIsComplete`, `RefusalLeavesNothing` |
| `persist_races` | 2 transactions at once, files of one or two records, some of them unstructured, one fault | `WholeDocuments`, `ReportIsTrue`, `EveryIngestionEnds` |
| `persist_sequential` | 1 worker, 2 files of one or two records over 2 keys and 4 texts, one fault | `NoSpuriousFailure`, `IdentityIsUnique`, `ReingestionWritesNothing` |
| `chunks` | 3 runs, 2 at a time, a change of model, 2 documents with 3 possible texts, one edit, one fault | `SteadyDocumentsAreWhole`, `AloneRunIsCurrent`, `IdsAreStable`, `NothingEmbeddedTwice`, `EveryRunEnds` |
| `chunking` | one resume of up to three sections, words of 1 to 11 characters, a limit of 10; batches of 3, both providers | `WithinLimit`, `NothingEmpty`, `CutsAreForced`, `TextIsKept`, `VectorsMatchTexts` |
| `graph` | 3 syncs, 2 at a time, 2 people with a company in common, 4 commits, one fault | `GraphIsBacked`, `LoneSyncIsExact` |
| `search` | 1 search with one of 7 intents, 1 sync, 2 people, 5 commits, one fault | `FiltersHold`, `ClaimsAreBacked`, `GraphLosesNobody` |
| `teams` | 1 search of 7 queries or 1 of 2 team requests, 3 people, 6 answers of the model, 3 of the reranker | `StatedLimitsHold`, `InventionsExcludeNobody`, `RerankerChangesNothing`, `OnlyFullListsLose`, `NobodyTwice`, `SlotsAreAnswered` |
| `inferences` | 3 rebuilds, 2 at a time, of 2 of 3 people, two of one name, 2 edits, one review, one fault | `EvidenceBelongs`, `ReviewsStand`, `LoneRebuildIsExact`, `RefusalsHaveCause` |
| `persist_same_identity` | 2 transactions at once | *violated*: `IdentityIsUnique` |
| `search_existing` | 1 search of the graph, 1 sync, 4 commits, no fault | *violated*: `ClaimsCiteExistingChunks` |

Why the bounds are enough. Jobs share nothing but executors, which take any
message that waits, so one job suffices. Two executors are
enough for every overlap of two status updates, and one fault of every kind
gives each combination of two different faults. In `Persist` every conflict is
between two transactions; the two-record files give a transaction that keeps
locks while it works on another document, and a savepoint after earlier rows.
Two keys with two versions of a text and a third key with another person are
the smallest set in which keys, identities, names and checksums coincide
independently. Longer cycles of waits, and documents that fail twice, are not
covered. In `Chunks` documents meet only through the order of locks, so two
documents suffice, and three runs are one that fills the table and two that
overlap, or two that overlap and one that repairs; the texts change one chunk and
the number of chunks, up and down; the first run uses another model than the later
ones, which makes all chunks stale at once. In `Chunking` the headers leave room for five characters, one,
or none; words and sentences are shorter than that, equal, longer by one, and cut
twice; a section with two blocks of two sentences has every flush after every
other, and the loops have no other memory; batches are shorter, equal to and longer
than the chunks of a resume. In `GraphSync` three
syncs give one that is alone after two that overlapped; two people with a
company in common, of which only one resume names a domain, give a relation that
two people write. Four commits bring both people and two changes of chunks.
In `Search` five commits bring both people, two chunks of one of them and the
deletion of one; the intents cover every branch of `_candidate_pool`, and one
domain is of a company and of one person only; one intent uses an alias. Lists are as long as there are
people, but evidence is cut to one chunk.
In `Inferences` a limit of two peers leaves the third person out of the others'
lists; one edit can make the two people of one name alike, which is what gives
two proposals one key, and the other change the evidence between two rebuilds;
three rebuilds are two that overlap on stored rows of an earlier one.
In `Uploads` requests meet only at the demo corpus, so two suffice; the bodies are
accepted and refused ones of every kind, an archive with members to skip and one
whose second member is broken among them, and two faults let both requests fail. In
`Teams` three people give two that compete for a slot and one that the next role
still finds; two of one name are told apart by id; lists are cut at two, the
vocabulary of cities at one; the queries have each rule and each kind of name, names
said outright, by an alias and by resemblance among them, and
the answers of the model ask for nothing, wishes, too much, a project by its alias,
and what the schema refuses. A search is of one query, because it leaves nothing behind.

`CHECK_DEADLOCK FALSE` is set for `jobs` and `uploads`: when all jobs are
answered and no message waits, and when all requests are answered, the system rests. `Persist` has an explicit
step for its end, and so have the other modules.

What the violated runs say. `_resolve_person` and `_project` look up and then
insert, and neither `people.normalized_identity` nor `projects.normalized_name`
is unique. Two workers - an archive makes one job per file, and Celery starts a
process per core - ingest two resumes of one person, or two resumes that name one
project, and both insert. The tests of the repository promise one person
(`PROJECT.json`, findings; `persist_same_identity`); two rows of one project come
about in the same way. One worker can get two people with one identity
as well: a document updated with another person's resume renames its person.
`IdentityIsUnique` therefore speaks of sequences in which every key keeps its
identity (`KeysAreSteady`); for those, and with one worker, the promise holds.

`search_existing`: relations of the graph carry chunk ids from the last
synchronisation, and the check of an answer compares with those ids, not with
the table. So a claim may cite a chunk that no longer exists, where `README.md`
of the repository requires existing ones. `ClaimsAreBacked` says what holds
instead: without the graph, cited chunks are the candidate's own and existed
during the search. With it, they may also belong to other people along a path of up
to three relations, because all evidence of a path is attached to the person at its
start. The path has a node whose name contains a term of the query, which is a weak
bond: "ai" is contained in "retail", and the node may be a person.

Remarks, which no property forbids because the repository promises nothing else, or
only loosely:

- A document is current as a whole or not at all: one changed line sends every chunk
  of the resume to the embedding service. The repository's `README.md` (175-176) says
  that unchanged chunks are not sent again; `NothingEmbeddedTwice` shows it for
  unchanged documents.
- The reranker's order is lost: `hybrid.py:161` sorts the reranked list by the
  composite score again. `RerankerChangesNothing` says so, and is what guards the
  result against unknown or repeated ids in the model's answer.
- The rules for MLOps and Python make hard filters of the terms, and one of them makes
  an "ML engineer" of a query a requirement of MLOps (`query_understanding.py:58`,
  93-101; `tests/test_query_planner.py:41-47` expects it), although the docstring of
  `enrich_free_form_intent` (line 67) speaks of not turning an inference into a hard
  filter. `InventionsExcludeNobody` counts what the rules add as said.
- `InventionsExcludeNobody` is about places, companies, skills, technologies and
  domains. The projects, years and, where the query has no number, ages that the model
  answers are hard filters without a check against the query
  (`metadata_grounding.py:64-78`). Of two countries in a query one counts.
- An alias of a domain or project finds people in SQL, where it is made canonical
  (`search.py:149-153`), and nobody in the graph, where it is not (`neo4j.py:181-183`),
  so that the intersection of the two is empty. Grounding puts stored names in the
  place of a free-form query's domains and companies, but projects of the model's
  answer and all terms of a team's role are not checked. `GraphLosesNobody` and
  `OnlyFullListsLose` name this exception.
- The list of ids from the graph is cut by id before it is intersected, so it may be
  full of people whom only the graph's wider idea of a domain admits and lose the
  only one who satisfies both. `OnlyFullListsLose` says that, aliases aside, nothing
  else loses anybody.
- A team is built greedily: it need not have the best sum of scores, and a slot may
  stay empty because an earlier role took the only person who fits.
- `/upload-archive` leaves its files behind when it is refused, and the demo corpus
  is rewritten in place while a worker may be reading it (`JobsReadTheirFile` names
  this exception).

Two effects of overlapping syncs are not violations of anything the repository
says, and no property forbids them: the sync that read first may write last and
take relations away that the other one had copied, and the next sync brings them
back. A person whose queries failed is counted in the report and the job still
succeeds.

Concurrent workers have another effect that no document rules out: a document
may be counted as failed only because another file was inserting the same new
name, and nothing ingests it again. `NoSpuriousFailure` is a property of one
worker.

## 4. Fairness

`IngestionJobs!Fairness`: a request handler that has begun, and a task that has
begun, take their next step (each awaits a call that returns or raises; neither
the stages nor Celery have a time limit, so this assumes that calls end), and a
waiting message is taken by some process. No fault is fair, and no job has to be
submitted. `Persist!FairSpec`: a worker process takes its next step when it is
possible, which includes that PostgreSQL grants a free lock and breaks a cycle.
`Chunks!FairSpec`: the same, without the cycles, which do not occur between the runs of
that module. The other
modules state no liveness and assume no fairness.

## 5. The theorems

Names in the code font are theorems, or conjuncts of the invariant of the module.

`IngestionJobs_proofs` proves, for every set of jobs and executors and all fault
bounds, type correctness (`TypeCorrect`) and all that `jobs` checks but its
liveness: `Earned`, `Coherence`, `NoStall`, `ResultIsFinal`, and `Refinement` (every
step of `IngestionJobs` is a step or a stutter of `JobLifecycle`). The only
assumption is that the bounds are natural numbers.

They rest on one inductive invariant, `IInv`. The properties are not inductive
alone; the conjuncts that carry them are:

- `HasRow`: a job whose handler has begun has a row, and messages and executions
  belong to such jobs only.
- `HasLeftQueue`: a row leaves "queued" for good, and copies loaded after that
  show it. Without it the proof could not exclude that an execution finds the row
  as new again.
- `HasDone`: what an execution has done is in `effects` and in the plan, and it is
  the whole plan when the execution is about to write SUCCEEDED. This carries
  `SucceededIsEarned`.
- `SoleCopy`: of a job whose status updates never overlapped, at most one session
  holds a loaded copy, and the copy equals the row. This carries `RowCoherent`: an
  UPDATE of only the differing columns is then an update of all.
- `OneToken`: of a job that is not suspect, at most one of the handler before its
  send, a message, and an execution that may still write exists. This carries
  `NoSilentStall` and, for jobs that are not recanted either, `TerminalIsFinal`.

The proofs have one lemma per conjunct, and in it one step per action.

`Inferences_proofs` proves all four properties of `inferences` and type correctness,
for any people, profiles, chunks and rebuilds and any number of changes, reviews and
faults, from the assumption on the constants alone (`ConstantTypes`): `TypeCorrect`,
`EvidenceIsTheirs`, `ReviewedRowsStand`, `LoneRebuildsAreExact`,
`RefusalsAreCaused`. Its invariant adds to `TypeOK` and `EvidenceBelongs`:

- `ReadsFit` and `ProposalsFit`: what a rebuild holds between its statements.
  Proposals have keys of their person, are determined by key and peer, and their
  evidence is of the two people they are about. They carry `EvidenceBelongs` from
  the engine over to the table, and say when two proposals can have one key.
- `LoneRebuildSeesRows`: as long as nobody else has committed rows of the person,
  the rows loaded are the rows stored. This carries `LoneRebuildIsExact`: only then
  is an UPDATE of the differing columns one of all columns.

`Persist_proofs` proves `DocumentsAreWhole` and `ReportsAreTrue`, for any number of
transactions, any files, names and identities, any overlap and any number of
failures. The assumptions are the types of the constants and that the mark for a
missing reference is no key and no row (`ConstantTypes`). Its invariant says of each transaction:

- `RowsFit`: what it sees is whole, except for the document it is writing, and what
  it saw when the savepoint opened was whole. So a rollback, or a commit at the end
  of the file, leaves whole documents.
- `LocalsFit`: what `persist` holds between its statements exists: each name of the
  text is still to be merged or has a row that is in hand, and what it loaded of the
  person is there. So the last flush links everything (`FlushStep`).
- `Locked`: an alias that it inserted is in no other open transaction and not
  committed. This is what waiting for a unique key is good for: an alias that a
  document relies on never leads to another skill afterwards, whoever commits
  (`Grows`), which lets the view of every other transaction go on fitting when
  somebody commits (`LastStep`).
- `ReportFits`: inside a savepoint only the document in hand differs from what was
  reported, and the savepoint itself holds what was reported (`Told`).

Three more theorems have the hypothesis `Workers = 1`, like the promises they state:
`NothingIsRefused` (of `NoSpuriousFailure`), `IdentitiesAreUnique` and
`NothingIsWrittenTwice` (of `ReingestionWritesNothing`), for any number of files one
after the other and any failures between them. Two workers do refuse and do repeat
identities, so the hypothesis is not one of the proof's making. On top of `IInv` their
invariant `OneInv` says:

- `Alone`: one transaction runs and nobody else has written anything, so nothing is
  ever waited for, and what a lookup found is still so at the statement that uses it
  (`Settled`). `NothingViolates` follows: no statement is refused.
- `Orderly`, of the committed rows, of what the transaction sees, and of what it saw
  when its savepoint opened: no two documents hold one text, and documents and links
  lead to people who are there.
- `Identified`, of the same three, if every key keeps its identity (`Steady`): a person
  has the identity of all texts of their key and of the keys of their documents, so
  nobody is renamed (`UpdatePerson` writes nothing), and no two people have one.
- `WritesNothing`: of a file whose texts are stored no document gets past the lookup by
  checksum, which finds the text under another key if the lookup by key did not.

`Chunking_proofs` proves, for every limit and every set of resumes, type correctness
and all that `chunking` says of the cutting: `TypeCorrect`, `ChunksAreWithinLimit`,
`NothingIsEmpty`, `FittingTextIsWhole`, `NoTextIsLostOrMoved`. Its invariant adds:

- `PiecesFit`: every piece, and the one in hand unless it is `Nothing`, is not
  empty, fits beside the header, and breaks nothing that would fit.
- `LongOnly`: `_split_words` only sees sentences that do not fit, and a word of
  which a part is taken does not fit either. So a cut is never one too many.
- `LeavesPiece`: what has been split has left a piece, and what has been packed a
  chunk that is not bare, so the end of a section hands over no bare header.
- `ChunksFit`: chunks are within the limit if their header has room, and a chunk
  without a piece is as long as its header. With `PiecesFit` this is why the first
  piece of a section always fits.

`NoTextIsLostOrMoved` (`TextIsKept`) rests on a second invariant. `Kept` says that
what the chunks of the section, the pieces to be packed and the piece in hand hold is,
in this order, exactly the text that the loops have passed (`Passed`): the places of
the section before the one that comes next (`Here`). `Drafted` says that every section
handed over is whole and in order. The sets of places take the place of an induction
over the words: each turn of a loop moves `Here` on by the places it takes.

`VectorsAreOfTheirTexts` (`VectorsMatchTexts`) is about `IndexingSpec`, each step of
which is a step or a stutter of `Chunking` (`IndexingChunks`), so the theorems above
hold of it too. `EInv`: the vectors so far are those of the first chunks, in order,
and all of them are there when the outcome says so. A batch continues them
(`Continued`), because `Returned` puts the numbered answers of a provider in the order
of its texts.

`Chunks_proofs` proves all safety properties of `chunks`, for any documents, texts,
models, runs and faults: `EvidenceIdsStay`, `AloneRunRepairs`, `NothingIsSentTwice`,
`SteadyDocumentsStayWhole`. The first rests on `IInv`, which the others extend:

- `OverFits` and `Disjoint`: what an open transaction has written belongs to
  documents behind its loop, has the ids of the committed rows, and nobody else has
  written it. This is what row locks are good for; without it an upsert could
  commit over rows that another run replaced.
- `AloneFits`: a run that is alone has completed every document behind it that did
  not fail, in its own view, and what it loaded is what is stored.
- `IndexedFits` and `ToEmbed`: while runs are alone, what the last commit claims to
  have indexed is complete, and only incomplete documents are embedded.
- `ChunksFit`, `WritesAll` and `LoadsAll`: of runs that listed one text of a document
  and have one model (`Agrees`), each writes all chunks of it or none, and has loaded
  all or none. This carries `SteadyDocumentsAreWhole` through any overlap.

`Search_proofs` proves first both properties of `graph`, for any number of people, kinds
of relations, resumes, synchronisations, commits and faults: `NothingIsMadeUp` and
`LoneSyncsAreExact`. They assume that a resume names no person as the target of a
relation, that people only have relations of the kinds that are copied
(`ResumesFit`), and that "node" is no kind of relations (`ConstantTypes`). The
invariants:

- `SnapshotsFit` and `QueriesFit`: a snapshot is part of what is stored, which only
  grows; evidence in a snapshot is of its person, and the queries left are those of
  the person in hand. So a relation never gets evidence of a stranger
  (`ItemsAreBacked`).
- `LoneFits`: of a synchronisation that is alone, every query sent for a person that
  did not fail still `Holds`. Two facts carry it: a query finds its node, because the
  queries that create it have a lower rank (`NodeIsThere`), and no later query
  touches the relations of an earlier one, except those of a company or project that
  several people share, where it leaves the evidence of another holder
  (`QueryExact`).

It proves on top of them, because a search runs beside the synchronisations,
`FiltersAlwaysHold` and `UpToDateGraphLosesNobody`,
for every intent and every limit, any aliases and any names; the second is about
intents whose terms are stored names (`UsesStoredNames`). That each term of an intent has a
canonical form and is contained in its own name is assumed (`TermsHaveNames`). `SearchFits` says of each of the lists that a search
collects whether its members satisfy the hard filters; that they go on doing so while
others commit is because relations are only added (`LinksGrow`).

`ClaimsCiteTheirOwn` (`ClaimsAreBacked`) takes `BackedInv` beside these. Chunks are
numbered once and the deleted ones do not come back (`NumbersFit`, `GoneFits`), and the
evidence of a candidate is from then on theirs or, if the graph was asked, of people on
a path of theirs (`EvidenceFits`); `Connected` only grows, because relations are only
added and each walk among them is one among more (`WalksGrow`, `PathsGrow`). A walk has
at most three relations, the most that the settings admit, and the lemmas follow it
relation by relation. The evidence of the graph itself is that of `NothingIsMadeUp`.

`Uploads_proofs` proves `WorkersFindTheirFile`, `RefusedLeaveNothing` and
`AnswersAreComplete`, for any requests, bodies, limits and faults. It assumes what the
code relies on, that a path in a request is not that of an upload (`BodiesFit`; uploads
are named by fresh uuids).
`Stage` says what a handler has made at each point of its life, `PathsAreWhole` and
`JobsAreWhole` that everything it will make and has made a job of is a whole file, and
`DemoIsInHand` who is responsible when the demo corpus is not. For the answers,
`OrderIs` says that the paths of a request are those of its first parts, in order, and
of all parts from the moment it makes jobs; `MadeIs` that its jobs are those of the
first paths, one for each, and perhaps that of the path at which a call raised;
`Complete` adds that each file holds the part of its number.

`Teams_proofs` proves all that `teams` checks, for any people, profiles, corpora,
queries, graphs, limits, weights and answers of the models: `SlotsAreOfDifferentPeople`,
`EverySlotIsAnswered`, `NobodyIsLostBetweenLists`, `RerankingIsUndone`,
`NobodyIsExcludedByInventions`, `WhatIsSaidIsRequired`. It assumes finitely many people and
names, scores that are numbers, answers that have the shape of an intent
(`VocabularyTypes`, `RankingTypes`, `FinderTypes`, `TeamTypes`), and that stored names
are canonical (`StoredNamesAreCanonical`), as ingestion makes them.

- Orders come first. Sorting is arranging a finite set by a total order, and there is
  one such arrangement, in which each element stands at its rank (`Arrangement`,
  `OneArrangement`, `StandAtRank`). `Before` is such an order on matches
  (`BeforeOrders`), whose scores are numbers (`ScoreIsNumber`).
- `RerankerIsUndone`: the reranker permutes the best of the pool, whatever it is
  answered (`RerankedHasAll`), and sorting the result again gives the one arrangement.
- `CallFits`: each list of a search is cut to its limit or has everybody
  (`FullOrAll`); hard filters that nobody satisfies end it; what is returned satisfies
  them (`FoundSatisfy`).
- `ParsedIsRankable`, with `IsGrounded` and `IsEnriched`, says field by field where the
  parts of an intent come from: the query, the vocabulary, or - where nothing is
  required by it - the model.
- `NoInventionExcludes`: what an intent demands, projects, years and unstated ages
  aside, was said (`OnlySaidIsDemanded`), and whoever has all that was said passes the
  filters that demand it (`SaidIsEnough`), stored names being their own canonical form
  (`CanonicalAlready`). Only projects and the terms of roles can be aliases
  (`UngroundedOnly`), which is the exception of `NobodyIsLostBetweenLists`.
- `TeamFits`: what has been said of slots is said of past ones, once of each, to people
  who satisfy the role (`IsSaid`), and where a slot was left unfilled all who were found
  have one (`NobodyWasLeft`).

Only model-checked are the liveness properties `JobSettles`, `EveryIngestionEnds` and
`EveryRunEnds`: temporal reasoning with fairness and ENABLED is out of the prover's
reach. All other properties of the passing runs are theorems.

## 6. What is left

A composition of jobs, `Persist`, `Chunks` and `GraphSync` at the level of one
document: what a search can see while jobs run.

Not modelled, because there is no state or control in it that a model could add to,
or because its substance is text:

- the readers and parsers of files (`ingestion/sources/`, `ingestion/parsers/`): CSV,
  JSON, PDF and DOCX to records. `Persist` takes a record that does not parse and a
  file that becomes unreadable as inputs;
- the HTTP clients of the language-model and embedding providers (`llm/`), beyond
  how batches and answers are used (`Indexing`, `Finder`);
- the middleware and its request counter (`main.py`, `security.py`; the counter is
  read and written without an await in between), health and
  listing routes, which read one table each;
- the export of resumes, the demo corpus' contents, the page (`web.py`), command
  lines, migrations, settings and the declarations of tables, except for the unique
  keys that `Persist` and `Inferences` take from them.
