------------------------------ MODULE Persist ------------------------------
(***************************************************************************)
(* Relational persistence of resumes: the transaction that ingests one     *)
(* file (app/ingestion/pipeline.py, unstructured_pipeline.py) and the      *)
(* get-or-create statements it issues for each document                    *)
(* (app/repositories/ingestion.py), against the unique constraints of      *)
(* app/infrastructure/database/models.py.                                  *)
(*                                                                         *)
(* A file is one transaction, a document in it one savepoint, and every    *)
(* "look up, then insert" is two statements between which other worker     *)
(* processes may commit.                                                   *)
(*                                                                         *)
(* PostgreSQL (external) is modelled at READ COMMITTED: a statement sees   *)
(* the committed rows overlaid with its own transaction's; a write waits   *)
(* for another transaction that holds the row or the unique key, fails if  *)
(* the key is then taken, and one transaction of a waiting cycle fails.    *)
(***************************************************************************)
EXTENDS Naturals, Sequences, FiniteSets, Relation

CONSTANTS
    Txs,            \* the ingestions of a file that may happen
    Workers,        \* bound: how many of them run at the same time
    Faults,         \* bound: injected parser, embedding and process failures
    MaxRecords,     \* bound: documents in a file
    Files,          \* the files a transaction may be given: sequences of
                    \*   documents [key |-> (source, external_id), text]
    Unstructured,   \* the files of one document whose pipeline embeds it inside
                    \*   the savepoint
    Keys, Texts,    \* raw texts, up to their checksum
    IdentityOf,     \* text -> normalized name|country of its resume
    NoIdentity,     \* ... of a resume without a country
    MentionsOf,     \* text -> the names its resume merges, in order
    NameOf,         \* mention -> canonical normalized name
    Skills,         \* mentions looked up through skill_aliases first
    Projects,       \* names of projects, the table without a unique name
    None            \* a missing reference

Mentions == DOMAIN NameOf
Documents == [key : Keys, text : Texts]

ASSUME ConstantTypes ==
    /\ Workers \in Nat \ {0} /\ Faults \in Nat
    /\ MaxRecords \in Nat
    /\ Files \subseteq Seq(Documents)
    /\ \A f \in Files : Len(f) <= MaxRecords
    /\ Unstructured \subseteq {f \in Files : Len(f) = 1}
    /\ DOMAIN IdentityOf = Texts
    /\ MentionsOf \in [Texts -> Seq(Mentions)]
    /\ Skills \subseteq Mentions
    /\ None \notin Keys /\ NoIdentity # None
    /\ None \notin [text : Texts, person : Keys \cup {None}]

VARIABLES
    db,     \* committed rows: row id -> contents
    over,   \* rows each open transaction has written
    tx,     \* the control state of each transaction
    file,   \* the file each transaction ingests
    faults  \* failures that may still be injected

vars == <<db, over, tx, file, faults>>

-----------------------------------------------------------------------------
(* Rows *)

\* Row ids. A document is identified by its (source, external_id), a person
\* by the (source, source_id) of the document that created it, an entity by
\* its name and where it was inserted: the transaction and the record number.
Doc(k)       == <<"document", k>>
Person(k)    == <<"person", k>>
Entity(n, t, i) == <<"entity", n, t, i>>
Alias(m)     == <<"alias", m>>
Link(p, e)   == <<"link", p, e>>

Entities == {Entity(NameOf[m], t, i) : m \in Mentions, t \in Txs,
                                       i \in 1..MaxRecords}

\* Contents: a document's text and person, a person's normalized_identity, an
\* alias's skill; the other rows only exist.
Present == "present"

\* The unique keys that a row with these contents occupies.
UniqueKeys(r, content) ==
    {r} \cup
    (IF r[1] = "document" THEN {<<"checksum", content.text>>} ELSE {}) \cup
    (IF r[1] = "entity" /\ r[2] \notin Projects THEN {<<"name", r[2]>>} ELSE {})

KeysIn(rows) == UNION {UniqueKeys(r, rows[r]) : r \in DOMAIN rows}

NoRows == <<>>
Row(r, content) == [x \in {r} |-> content]
Rows(ids) == [x \in ids |-> Present]

\* Rows new on top of rows old.
Onto(new, old) ==
    [r \in DOMAIN new \cup DOMAIN old |->
        IF r \in DOMAIN new THEN new[r] ELSE old[r]]

\* What a statement of transaction t sees.
View(t) == Onto(over[t], db)

-----------------------------------------------------------------------------
(* Control state *)

\* The locals of persist() for the document in hand.
NoLocals ==
    [doc |-> None,          \* contents of the raw_documents row it loaded
     outcome |-> "created",
     person |-> None,       \* key of the person it resolved
     identity |-> NoIdentity, \* normalized_identity of that person as loaded
     held |-> {},           \* the person's collections as loaded
     todo |-> <<>>,         \* mentions still to merge
     entity |-> None,       \* the skill whose alias is to be registered
     linked |-> {}]         \* entities merged so far

Idle == [phase |-> "idle", saved |-> NoRows, mine |-> NoLocals,
         report |-> <<>>]

Running(t) == tx[t].phase \notin {"idle", "committed", "aborted"}
Remaining(t) == Len(tx[t].report) < Len(file[t])
RecordNumber(t) == Len(tx[t].report) + 1
Current(t) == file[t][RecordNumber(t)]
Mine(t) == tx[t].mine

\* Continue transaction t at phase p with locals l.
Continue(t, p, l) == tx' = [tx EXCEPT ![t].phase = p, ![t].mine = l]

\* Leave the savepoint: the outcome goes to the report, the loop moves on.
Conclude(t, outcome) ==
    tx' = [tx EXCEPT ![t] = [phase |-> "next", saved |-> NoRows,
                             mine |-> NoLocals,
                             report |-> Append(tx[t].report, outcome)]]

\* persist() returned: an unstructured pipeline embeds all but duplicates.
Return(t, outcome) ==
    IF file[t] \in Unstructured /\ outcome # "duplicate"
    THEN Continue(t, "embed", [NoLocals EXCEPT !.outcome = outcome])
    ELSE Conclude(t, outcome)

\* After merging entity e for the first mention of todo.
Merged(t, e) ==
    LET l == Mine(t)
        rest == Tail(l.todo)
    IN  Continue(t, IF rest = <<>> THEN "flush"
                    ELSE IF Head(rest) \in Skills THEN "alias" ELSE "entity",
                 [l EXCEPT !.todo = rest, !.entity = None,
                           !.linked = @ \cup {e}])

\* The rows that the next statement of t writes; empty when it writes none.
Statement(t) ==
    LET l == Mine(t)
        d == Current(t)
    IN  CASE tx[t].phase = "write" ->
               Row(Doc(d.key), [text |-> d.text,
                                person |-> IF Doc(d.key) \in DOMAIN View(t)
                                           THEN View(t)[Doc(d.key)].person
                                           ELSE None])
          [] tx[t].phase = "person" -> Row(Person(d.key), IdentityOf[d.text])
          [] tx[t].phase = "update" /\ l.identity # IdentityOf[d.text] ->
               Row(Person(l.person), IdentityOf[d.text])
          [] tx[t].phase = "insert" ->
               Row(Entity(NameOf[Head(l.todo)], t, RecordNumber(t)), Present)
          [] tx[t].phase = "register" -> Row(Alias(Head(l.todo)), l.entity)
          [] tx[t].phase = "flush" ->
               Onto(Rows({Link(l.person, e) : e \in l.linked \ l.held}),
                    Row(Doc(d.key), [text |-> d.text, person |-> l.person]))
          [] OTHER -> NoRows

\* Rows of the statement that are UPDATEd rather than INSERTed.
Updates(t) ==
    CASE tx[t].phase = "write" /\ Mine(t).doc # None -> {Doc(Current(t).key)}
      [] tx[t].phase = "update" -> {Person(Mine(t).person)}
      [] tx[t].phase = "flush" -> {Doc(Current(t).key)}
      [] OTHER -> {}

\* External: the transactions t waits for, those that have written the row or
\* hold, or may release, a unique key that the statement needs.
WaitsFor(t) ==
    {u \in Txs \ {t} :
        \E r \in DOMAIN over[u] :
            LET old == IF r \in DOMAIN db THEN UniqueKeys(r, db[r]) ELSE {}
            IN  (UniqueKeys(r, over[u][r]) \cup old)
                    \cap KeysIn(Statement(t)) # {}}

\* External: the statement violates a unique constraint.
Violates(t) ==
    \/ (DOMAIN Statement(t) \ Updates(t)) \cap DOMAIN View(t) # {}
    \/ \E r \in DOMAIN View(t) \ DOMAIN Statement(t) :
          UniqueKeys(r, View(t)[r]) \cap KeysIn(Statement(t)) # {}

\* External: a cycle of waiting transactions goes through t.
Deadlocked(t) ==
    TransitiveClosure([p \in Txs \X Txs |-> p[2] \in WaitsFor(p[1])],
                      Txs)[t, t]

\* The statement succeeds.
Execute(t) ==
    /\ WaitsFor(t) = {}
    /\ ~Violates(t)
    /\ over' = [over EXCEPT ![t] = Onto(Statement(t), over[t])]

-----------------------------------------------------------------------------
Init ==
    /\ db = NoRows
    /\ over = [t \in Txs |-> NoRows]
    /\ tx = [t \in Txs |-> Idle]
    /\ file \in [Txs -> Files]
    /\ faults = Faults

\* A worker process reaches the ingestion stage of a job.
Start(t) ==
    /\ tx[t].phase = "idle"
    /\ Cardinality({u \in Txs : Running(u)}) < Workers
    /\ tx' = [tx EXCEPT ![t].phase = "next"]
    /\ UNCHANGED <<db, over, file, faults>>

\* The document does not parse (structured.py raises, or the language model
\* fails): it is counted as failed before the savepoint opens.
ParseFails(t) ==
    /\ tx[t].phase = "next" /\ Remaining(t)
    /\ faults > 0
    /\ faults' = faults - 1
    /\ Conclude(t, "failed")
    /\ UNCHANGED <<db, over, file>>

\* The document parses, and its savepoint opens.
Parse(t) ==
    /\ tx[t].phase = "next" /\ Remaining(t)
    /\ tx' = [tx EXCEPT ![t].phase = "document", ![t].saved = over[t]]
    /\ UNCHANGED <<db, over, file, faults>>

\* Mutant of SelectDocument: the checksum is not compared, UNCHANGED is never
\* concluded.
SelectDocumentAlways(t) ==
    /\ tx[t].phase = "document"
    /\ LET d == Current(t)
       IN  Continue(t, "checksum",
                    [NoLocals EXCEPT
                        !.doc = IF Doc(d.key) \in DOMAIN View(t)
                                THEN View(t)[Doc(d.key)] ELSE None])
    /\ UNCHANGED <<db, over, file, faults>>

\* The row of this (source, external_id): UNCHANGED when it holds the same
\* checksum and a person.
SelectDocument(t) ==
    /\ tx[t].phase = "document"
    /\ LET d == Current(t)
           found == IF Doc(d.key) \in DOMAIN View(t)
                    THEN View(t)[Doc(d.key)] ELSE None
       IN  IF found # None /\ found.text = d.text /\ found.person # None
           THEN Return(t, "unchanged")
           ELSE Continue(t, "checksum", [NoLocals EXCEPT !.doc = found])
    /\ UNCHANGED <<db, over, file, faults>>

\* Mutant of SelectByChecksum: the lookup by checksum is missing.
SelectByChecksumSkipped(t) ==
    /\ tx[t].phase = "checksum"
    /\ Continue(t, "write", Mine(t))
    /\ UNCHANGED <<db, over, file, faults>>

\* DUPLICATE when another document holds this checksum.
SelectByChecksum(t) ==
    /\ tx[t].phase = "checksum"
    /\ LET d == Current(t)
       IN  IF \E k \in Keys \ {d.key} : /\ Doc(k) \in DOMAIN View(t)
                                        /\ View(t)[Doc(k)].text = d.text
           THEN Return(t, "duplicate")
           ELSE Continue(t, "write", Mine(t))
    /\ UNCHANGED <<db, over, file, faults>>

\* INSERT or UPDATE of the raw_documents row.
WriteDocument(t) ==
    /\ tx[t].phase = "write"
    /\ Execute(t)
    /\ Continue(t, "resolve",
                [Mine(t) EXCEPT !.outcome = IF Mine(t).doc = None THEN "created"
                                            ELSE "updated"])
    /\ UNCHANGED <<db, file, faults>>

\* The people whose normalized_identity equals that of the resume.
Matches(t, identity) ==
    {p \in Keys : /\ identity # NoIdentity
                  /\ Person(p) \in DOMAIN View(t)
                  /\ View(t)[Person(p)] = identity}

\* Mutant of Resolvable: the identity is not looked up.
ResolvableBySource(t) ==
    LET linked == IF Mine(t).doc = None THEN None ELSE Mine(t).doc.person
    IN  IF linked # None THEN {linked}
        ELSE IF Person(Current(t).key) \in DOMAIN View(t)
             THEN {Current(t).key} ELSE {}

\* The people that _resolve_person may return: the document's own, else the
\* one created from it, else the only one with its identity.
Resolvable(t) ==
    LET d == Current(t)
        linked == IF Mine(t).doc = None THEN None ELSE Mine(t).doc.person
        matches == Matches(t, IdentityOf[d.text])
    IN  IF linked # None THEN {linked}
        ELSE IF Person(d.key) \in DOMAIN View(t) THEN {d.key}
        ELSE IF Cardinality(matches) = 1 THEN matches
        ELSE {}

\* _resolve_person: load a person with its collections, or make one.
ResolvePerson(t) ==
    /\ tx[t].phase = "resolve"
    /\ \/ /\ Resolvable(t) = {}
          /\ Continue(t, "person", Mine(t))
       \/ \E p \in Resolvable(t) :
             Continue(t, "update",
               [Mine(t) EXCEPT
                  !.person = p,
                  !.identity = View(t)[Person(p)],
                  !.held = {e \in Entities : Link(p, e) \in DOMAIN View(t)}])
    /\ UNCHANGED <<db, over, file, faults>>

\* The merge starts with the first mention, or has nothing to do.
StartMerge(t, l) ==
    LET names == MentionsOf[Current(t).text]
    IN  Continue(t, IF names = <<>> THEN "flush"
                    ELSE IF Head(names) \in Skills THEN "alias" ELSE "entity",
                 [l EXCEPT !.todo = names])

\* INSERT of the people row.
InsertPerson(t) ==
    /\ tx[t].phase = "person"
    /\ Execute(t)
    /\ StartMerge(t, [Mine(t) EXCEPT !.person = Current(t).key])
    /\ UNCHANGED <<db, file, faults>>

\* UPDATE of the people row, issued only when its identity changes.
UpdatePerson(t) ==
    /\ tx[t].phase = "update"
    /\ Execute(t)
    /\ StartMerge(t, Mine(t))
    /\ UNCHANGED <<db, file, faults>>

\* _skill: a registered alias leads to its skill at once.
SelectAlias(t) ==
    /\ tx[t].phase = "alias"
    /\ LET a == Alias(Head(Mine(t).todo))
       IN  IF a \in DOMAIN View(t)
           THEN Merged(t, View(t)[a])
           ELSE Continue(t, "entity", Mine(t))
    /\ UNCHANGED <<db, over, file, faults>>

\* The alias of a skill is registered once the skill is at hand.
WithEntity(t, e) ==
    IF Head(Mine(t).todo) \in Skills
    THEN Continue(t, "register", [Mine(t) EXCEPT !.entity = e])
    ELSE Merged(t, e)

\* _skill, _technology, _domain, _company, _university, _project: some row of
\* that name (the first the query returns), or none yet.
SelectEntity(t) ==
    /\ tx[t].phase = "entity"
    /\ LET n == NameOf[Head(Mine(t).todo)]
           named == {e \in Entities : e[2] = n /\ e \in DOMAIN View(t)}
       IN  \/ named = {} /\ Continue(t, "insert", Mine(t))
           \/ \E e \in named : WithEntity(t, e)
    /\ UNCHANGED <<db, over, file, faults>>

InsertEntity(t) ==
    /\ tx[t].phase = "insert"
    /\ Execute(t)
    /\ WithEntity(t, Entity(NameOf[Head(Mine(t).todo)], t, RecordNumber(t)))
    /\ UNCHANGED <<db, file, faults>>

InsertAlias(t) ==
    /\ tx[t].phase = "register"
    /\ Execute(t)
    /\ Merged(t, Mine(t).entity)
    /\ UNCHANGED <<db, file, faults>>

\* The last flush: association rows missing from the collections as loaded,
\* and raw_documents.person_id.
Flush(t) ==
    /\ tx[t].phase = "flush"
    /\ Execute(t)
    /\ Return(t, Mine(t).outcome)
    /\ UNCHANGED <<db, file, faults>>

\* The embedding of an unstructured document succeeded.
Embedded(t) ==
    /\ tx[t].phase = "embed"
    /\ Conclude(t, Mine(t).outcome)
    /\ UNCHANGED <<db, over, file, faults>>

\* Mutant of RollBack: no savepoint around persist.
RollBackNothing(t) ==
    /\ Conclude(t, "failed")
    /\ UNCHANGED <<db, over, file>>

\* Mutant of RollBack: the outcome is recorded although the document failed.
RollBackReported(t) ==
    /\ over' = [over EXCEPT ![t] = tx[t].saved]
    /\ Conclude(t, Mine(t).outcome)
    /\ UNCHANGED <<db, file>>

\* An exception within the savepoint: it is rolled back and the loop goes on.
RollBack(t) ==
    /\ over' = [over EXCEPT ![t] = tx[t].saved]
    /\ Conclude(t, "failed")
    /\ UNCHANGED <<db, file>>

\* A unique constraint refuses the statement.
IntegrityError(t) ==
    /\ Running(t)
    /\ WaitsFor(t) = {} /\ Violates(t)
    /\ RollBack(t)
    /\ UNCHANGED faults

\* Mutant of DeadlockError: the statement is retried within the savepoint.
DeadlockErrorRetried(t) ==
    /\ Running(t) /\ Deadlocked(t)
    /\ UNCHANGED vars

\* PostgreSQL's deadlock detector picks t.
DeadlockError(t) ==
    /\ Running(t) /\ WaitsFor(t) # {} /\ Deadlocked(t)
    /\ RollBack(t)
    /\ UNCHANGED faults

\* The embedding service fails.
EmbedFails(t) ==
    /\ tx[t].phase = "embed"
    /\ faults > 0
    /\ faults' = faults - 1
    /\ RollBack(t)

\* End of the file: the transaction commits.
Commit(t) ==
    /\ tx[t].phase = "next" /\ ~Remaining(t)
    /\ db' = View(t)
    /\ over' = [over EXCEPT ![t] = NoRows]
    /\ tx' = [tx EXCEPT ![t].phase = "committed"]
    /\ UNCHANGED <<file, faults>>

\* The process or its connection dies, or iterating over the file raises: the
\* transaction is lost.
Abort(t) ==
    /\ Running(t)
    /\ faults > 0
    /\ faults' = faults - 1
    /\ over' = [over EXCEPT ![t] = NoRows]
    /\ tx' = [tx EXCEPT ![t] = [Idle EXCEPT !.phase = "aborted"]]
    /\ UNCHANGED <<db, file>>

Step(t) ==
    \/ Start(t)
    \/ Parse(t) \/ SelectDocument(t) \/ SelectByChecksum(t) \/ WriteDocument(t)
    \/ ResolvePerson(t) \/ InsertPerson(t) \/ UpdatePerson(t)
    \/ SelectAlias(t) \/ SelectEntity(t) \/ InsertEntity(t) \/ InsertAlias(t)
    \/ Flush(t) \/ Embedded(t)
    \/ IntegrityError(t) \/ DeadlockError(t)
    \/ Commit(t)

Fault(t) == ParseFails(t) \/ EmbedFails(t) \/ Abort(t)

Finished == \A t \in Txs : tx[t].phase \in {"committed", "aborted"}

Next ==
    \/ \E t \in Txs : Step(t) \/ Fault(t)
    \/ Finished /\ UNCHANGED vars

Spec == Init /\ [][Next]_vars

\* A worker process goes on, and PostgreSQL answers: it grants a lock once it
\* is free, and breaks a cycle of waiting transactions.
FairSpec == Spec /\ \A t \in Txs : WF_vars(Step(t))

-----------------------------------------------------------------------------
(* Properties *)

Stored(k) == Doc(k) \in DOMAIN db
Committed == DOMAIN db

\* No half document: whatever failed, died or ran at the same time, a document
\* that other sessions can see has its person, and that person is linked to a
\* row for every name the document's text mentions (pipeline.py:31, the
\* savepoint around persist).
WholeDocuments ==
    \A k \in Keys : Stored(k) =>
        LET d == db[Doc(k)]
            names == MentionsOf[d.text]
            mentions == {names[i] : i \in DOMAIN names}
        IN  /\ d.person # None /\ Person(d.person) \in Committed
            /\ \A m \in mentions : \E e \in Entities :
                  /\ e[2] = NameOf[m]
                  /\ {e, Link(d.person, e)} \subseteq Committed
                  /\ m \in Skills => Alias(m) \in Committed /\ db[Alias(m)] = e

\* What the report says of a file is true when the file commits: of the records
\* of a key that count as created or updated, the last one is what is stored
\* (pipeline.py:33, _record_outcome).
Written(t, i) == tx[t].report[i] \in {"created", "updated"}
ReportIsTrue ==
    [][\A t \in Txs : Commit(t) =>
        \A i \in DOMAIN file[t] :
            /\ Written(t, i)
            /\ \A j \in DOMAIN file[t] :
                  j > i /\ file[t][j].key = file[t][i].key => ~Written(t, j)
            => LET doc == Doc(file[t][i].key)
               IN  doc \in DOMAIN db' /\ db'[doc].text = file[t][i].text]_vars

\* A text that some document holds, or that this document already has.
Known(d) == \E k \in Keys : Stored(k) /\ db[Doc(k)].text = d.text

\* One worker: a file whose texts are all stored is ingested again without a
\* single write, and every record is reported as skipped (README.md:175).
ReingestionWritesNothing ==
    [][\A t \in Txs :
        Commit(t) /\ (\A i \in DOMAIN file[t] : Known(file[t][i])) =>
            /\ db' = db
            /\ \A i \in DOMAIN file[t] :
                  tx[t].report[i] \in {"unchanged", "duplicate", "failed"}]_vars

\* One worker and no fault: nothing that parses is refused by a constraint,
\* however names, texts, identities and keys repeat within and across files.
NoSpuriousFailure ==
    \A t \in Txs : \A i \in DOMAIN tx[t].report :
        tx[t].report[i] = "failed" => faults < Faults

\* No two texts ingested under one key have different identities.
KeysAreSteady ==
    LET docs == UNION {{file[t][i] : i \in DOMAIN file[t]} : t \in Txs}
    IN  \A d, e \in docs :
          d.key = e.key => IdentityOf[d.text] = IdentityOf[e.text]

\* The identity deduplication of tests/test_ingestion_pipeline.py:137-161: no
\* two people carry the same normalized identity, unless a document was updated
\* with another person's resume.
IdentityIsUnique ==
    KeysAreSteady =>
        \A p, q \in Keys :
            /\ {Person(p), Person(q)} \subseteq Committed
            /\ db[Person(p)] = db[Person(q)] /\ db[Person(p)] # NoIdentity
            => p = q

\* No ingestion waits for ever: a cycle of locks is broken, and a lock is
\* released when its transaction ends.
EveryIngestionEnds ==
    \A t \in Txs : <>(tx[t].phase \in {"committed", "aborted"})
=============================================================================
