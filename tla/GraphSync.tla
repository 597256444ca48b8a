----------------------------- MODULE GraphSync -----------------------------
(***************************************************************************)
(* Graph synchronisation: GraphSyncService.sync (app/graph/sync.py) copies *)
(* all people from a snapshot of PostgreSQL                                *)
(* (app/repositories/graph_snapshot.py) to Neo4j (app/graph/neo4j.py).     *)
(*                                                                         *)
(* A person is copied by a query for its node, one for each kind of its    *)
(* relations, and one for each kind of relation of its companies and       *)
(* projects. Each query is a transaction of its own in Neo4j, and replaces *)
(* all relations of one kind of one node. No transaction spans the two     *)
(* databases, and several workers synchronise at the same time.            *)
(***************************************************************************)
EXTENDS Naturals, Sequences, FiniteSets

CONSTANTS
    N,            \* number of people, in the order of their ids
    PersonKinds,  \* kinds of relations of a person, as a sequence
    EntityKinds,  \* kind -> kinds of relations that its targets have
    Resumes,      \* what an ingestion may add: [person, links]
    Syncs,        \* the synchronisations that may happen
    Workers,      \* bound: how many of them are active at the same time
    MaxChunks,    \* bound: chunks a person ever has
    Commits,      \* bound: transactions of other stages
    Faults        \* bound: failed queries and lost processes

People == 1..N

\* A relation <<source, kind, target>>; the target is a company, skill, ...
Source(l) == l[1]
Kind(l)   == l[2]
Target(l) == l[3]

ASSUME ConstantTypes ==
    /\ {N, Workers, MaxChunks, Commits, Faults} \subseteq Nat
    /\ \A b \in Resumes : b.person \in People
    /\ PersonKinds \in Seq(DOMAIN EntityKinds)
    /\ "node" \notin DOMAIN EntityKinds \cup UNION {EntityKinds[k] :
                                                    k \in DOMAIN EntityKinds}

\* A person is a node of its own, and has relations of a person.
ASSUME ResumesFit ==
    \A b \in Resumes : \A l \in b.links :
        /\ Target(l) \notin People
        /\ Source(l) \in People => \E i \in DOMAIN PersonKinds : PersonKinds[i] = Kind(l)

VARIABLES
    known,   \* PostgreSQL: people
    links,   \* PostgreSQL: association rows
    chunks,  \* PostgreSQL: ids of the chunks of each person
    used,    \* PostgreSQL: number of chunk ids given out for each person
    nodes,   \* Neo4j: people -> evidence_ids of their node
    targets, \* Neo4j: nodes of companies, skills, ...
    edges,   \* Neo4j: relation -> its evidence_ids
    sync,    \* the control state of each synchronisation
    budget   \* commits and faults that may still happen

postgres == <<known, links, chunks, used>>
neo4j == <<nodes, targets, edges>>
vars == <<postgres, neo4j, sync, budget>>

-----------------------------------------------------------------------------
(* The snapshot and the queries of a person *)

Idle ==
    [phase    |-> "idle",
     people   |-> {},      \* snapshot: the people listed
     unread   |-> {},      \* snapshot: kinds of relations still to read
     links    |-> {},      \* snapshot: their relations
     evidence |-> <<>>,    \* snapshot: person -> chunk ids
     todo     |-> {},      \* people of the loop still to come
     person   |-> 0,       \* the person in hand
     pending  |-> {},      \* queries of sync_person still to send
     failed   |-> {},      \* people that count as failed
     alone    |-> TRUE]    \* history: no other sync was active meanwhile

Active(s) == sync[s].phase \notin {"idle", "done", "aborted"}

\* Mutant of Items: the association table is read without the node's id.
ItemsOfKind(s, q) ==
    {<<q[1], q[2], Target(l)>> : l \in {l \in sync[s].links : Kind(l) = q[2]}}

\* The relations of one kind of one node, in the snapshot.
Items(s, q) == {l \in sync[s].links : Source(l) = q[1] /\ Kind(l) = q[2]}

Kinds == {PersonKinds[i] : i \in DOMAIN PersonKinds}

AllKinds == Kinds \cup UNION {EntityKinds[k] : k \in Kinds}

\* Relation l belongs to a person listed, or to something listed for them.
Reached(s, l) ==
    \/ Source(l) \in sync[s].people
    \/ \E m \in sync[s].links : /\ Target(m) = Source(l)
                               /\ Kind(l) \in EntityKinds[Kind(m)]

\* The queries of sync_person as <<node, kind>>; kind "node" is the first one.
Queries(s, p) ==
    LET own == {l \in sync[s].links : Source(l) = p}
    IN  {<<p, "node">>} \cup ({p} \X Kinds)
          \cup UNION {{Target(l)} \X EntityKinds[Kind(l)] : l \in own}

\* Their order: the node, its relations kind by kind, those of its companies
\* and projects.
Rank(q) ==
    IF q[2] = "node" THEN 0
    ELSE IF q[1] \in People /\ q[2] \in Kinds
         THEN CHOOSE i \in DOMAIN PersonKinds : PersonKinds[i] = q[2]
    ELSE Len(PersonKinds) + 1

Due(s) ==
    {q \in sync[s].pending : \A r \in sync[s].pending : Rank(q) <= Rank(r)}

-----------------------------------------------------------------------------
Init ==
    /\ known = {} /\ links = {}
    /\ chunks = [p \in People |-> {}]
    /\ used = [p \in People |-> 0]
    /\ nodes = <<>> /\ targets = {} /\ edges = <<>>
    /\ sync = [s \in Syncs |-> Idle]
    /\ budget = [commits |-> Commits, faults |-> Faults]

\* Other stages. Persist commits a person and adds to its relations; nothing
\* is ever removed. The embedding stage adds chunks, or removes the last ones.
Commit ==
    /\ budget.commits > 0
    /\ budget' = [budget EXCEPT !.commits = @ - 1]
    /\ UNCHANGED <<neo4j, sync>>

PersistCommits(b) ==
    /\ Commit
    /\ known' = known \cup {b.person}
    /\ links' = links \cup b.links
    /\ UNCHANGED <<chunks, used>>

ChunkAdded(p) ==
    /\ Commit
    /\ p \in known /\ used[p] < MaxChunks
    /\ used' = [used EXCEPT ![p] = @ + 1]
    /\ chunks' = [chunks EXCEPT ![p] = @ \cup {<<p, used'[p]>>}]
    /\ UNCHANGED <<known, links>>

ChunkDeleted(p) ==
    /\ Commit
    /\ Cardinality(chunks[p]) > 1
    /\ \E c \in chunks[p] :
          /\ \A d \in chunks[p] : d[2] <= c[2]
          /\ chunks' = [chunks EXCEPT ![p] = @ \ {c}]
    /\ UNCHANGED <<known, links, used>>

\* list_people, first part: the people.
ListPeople(s) ==
    LET others == {r \in Syncs : Active(r)}
    IN  /\ sync[s].phase = "idle"
        /\ Cardinality(others) < Workers
        /\ sync' = [r \in Syncs |->
             IF r = s
             THEN [Idle EXCEPT !.phase = "links", !.people = known,
                               !.unread = IF known = {} THEN {} ELSE AllKinds,
                               !.todo = known, !.alone = others = {}]
             ELSE IF r \in others THEN [sync[r] EXCEPT !.alone = FALSE]
             ELSE sync[r]]
        /\ UNCHANGED <<postgres, neo4j, budget>>

\* list_people, second part: the collections (lazy="selectin"), a statement
\* for each kind, those of companies and projects after they are known.
ReadLinks(s) ==
    /\ sync[s].phase = "links" /\ sync[s].unread # {}
    /\ \E k \in sync[s].unread :
          /\ \A j \in sync[s].unread \cap Kinds : k \notin EntityKinds[j]
          /\ sync' = [sync EXCEPT
               ![s].unread = @ \ {k},
               ![s].links = @ \cup {l \in links : Kind(l) = k /\ Reached(s, l)}]
    /\ UNCHANGED <<postgres, neo4j, budget>>

\* list_people, last part: _evidence, a statement of its own.
ReadEvidence(s) ==
    /\ sync[s].phase = "links" /\ sync[s].unread = {}
    /\ sync' = [sync EXCEPT
         ![s].phase = "next",
         ![s].evidence = [p \in sync[s].people |-> chunks[p]]]
    /\ UNCHANGED <<postgres, neo4j, budget>>

\* The loop takes the next person, in the order of the ids.
NextPerson(s) ==
    /\ sync[s].phase = "next"
    /\ \E p \in sync[s].todo :
          /\ \A r \in sync[s].todo : p <= r
          /\ sync' = [sync EXCEPT ![s] =
                        [sync[s] EXCEPT !.phase = "copy", !.todo = @ \ {p},
                                  !.person = p, !.pending = Queries(s, p)]]
    /\ UNCHANGED <<postgres, neo4j, budget>>

\* Query q of s succeeded or failed: what remains of this person.
Remain(s, pending) ==
    [sync[s] EXCEPT !.pending = pending,
                    !.phase = IF pending = {} THEN "next" ELSE "copy"]

\* MERGE the person and SET its evidence_ids.
MergePerson(s, q) ==
    /\ q[2] = "node"
    /\ nodes' = [p \in DOMAIN nodes \cup {q[1]} |->
                   IF p = q[1] THEN sync[s].evidence[q[1]] ELSE nodes[p]]
    /\ UNCHANGED <<targets, edges>>

\* _replace_entity_relations: delete the node's relations of this kind, merge
\* the targets and the relations of the snapshot, all with the evidence of the
\* person in hand. A query that does not MATCH its node does nothing.
ReplaceRelations(s, q) ==
    LET items == Items(s, q)
        kept == {l \in DOMAIN edges : ~(Source(l) = q[1] /\ Kind(l) = q[2])}
    IN  /\ q[2] # "node"
        /\ IF q[1] \in DOMAIN nodes \cup targets
           THEN /\ edges' = [l \in kept \cup items |->
                               IF l \in items
                               THEN sync[s].evidence[sync[s].person]
                               ELSE edges[l]]
                /\ targets' = targets \cup {Target(l) : l \in items}
           ELSE UNCHANGED <<edges, targets>>
        /\ UNCHANGED nodes

\* One execute_query of sync_person.
Query(s) ==
    /\ sync[s].phase = "copy"
    /\ \E q \in Due(s) :
          /\ MergePerson(s, q) \/ ReplaceRelations(s, q)
          /\ sync' = [sync EXCEPT ![s] = Remain(s, sync[s].pending \ {q})]
    /\ UNCHANGED <<postgres, budget>>

\* Mutant of QueryRaises: the person does not count as failed.
QueryRaisesUncounted(s) ==
    /\ sync[s].phase = "copy"
    /\ budget.faults > 0
    /\ budget' = [budget EXCEPT !.faults = @ - 1]
    /\ sync' = [sync EXCEPT ![s] = Remain(s, {})]
    /\ UNCHANGED <<postgres, neo4j>>

\* A query raises: the rest of the person is skipped, the loop goes on.
QueryRaises(s) ==
    /\ sync[s].phase = "copy"
    /\ budget.faults > 0
    /\ budget' = [budget EXCEPT !.faults = @ - 1]
    /\ sync' = [sync EXCEPT ![s] =
                  [Remain(s, {}) EXCEPT !.failed = @ \cup {sync[s].person}]]
    /\ UNCHANGED <<postgres, neo4j>>

\* sync returns its report.
Finish(s) ==
    /\ sync[s].phase = "next" /\ sync[s].todo = {}
    /\ sync' = [sync EXCEPT ![s].phase = "done"]
    /\ UNCHANGED <<postgres, neo4j, budget>>

\* ensure_schema or list_people raises, or the process dies.
Abort(s) ==
    /\ Active(s)
    /\ budget.faults > 0
    /\ budget' = [budget EXCEPT !.faults = @ - 1]
    /\ sync' = [sync EXCEPT ![s] = [Idle EXCEPT !.phase = "aborted"]]
    /\ UNCHANGED <<postgres, neo4j>>

Other ==
    \/ \E b \in Resumes : PersistCommits(b)
    \/ \E p \in People : ChunkAdded(p) \/ ChunkDeleted(p)

Step(s) ==
    \/ ListPeople(s) \/ ReadLinks(s) \/ ReadEvidence(s)
    \/ NextPerson(s) \/ Query(s) \/ Finish(s)

Fault(s) == QueryRaises(s) \/ Abort(s)

Ended == \A s \in Syncs : sync[s].phase \in {"done", "aborted"}

Next ==
    \/ \E s \in Syncs : Step(s) \/ Fault(s)
    \/ Other
    \/ Ended /\ UNCHANGED vars

Spec == Init /\ [][Next]_vars

-----------------------------------------------------------------------------
(* Properties *)

\* Those who have a relation to entity e that may lead to its own relations of
\* kind k.
Holders(e, k, among) ==
    {Source(l) : l \in {l \in among : /\ Kind(l) \in Kinds
                                     /\ Target(l) = e
                                     /\ k \in EntityKinds[Kind(l)]}}

\* Nothing in the graph is made up, whatever failed or overlapped: every node
\* and relation is in PostgreSQL, and the evidence of a relation consists of
\* chunk ids of its person, or of somebody who has its company or project
\* (neo4j.py:112).
GraphIsBacked ==
    /\ DOMAIN nodes \subseteq known
    /\ \A l \in DOMAIN edges :
          /\ l \in links
          /\ \A c \in edges[l] :
                c[1] \in {Source(l)} \cup Holders(Source(l), Kind(l), links)

\* What a synchronisation that is alone leaves behind is its snapshot: the node
\* and relations of everybody who did not fail, with the chunks read after the
\* list; and the relations of their companies and projects, with the evidence
\* of one of the people who have them (sync.py:35).
LoneSyncIsExact ==
    [][\A s \in Syncs : Finish(s) /\ sync[s].alone =>
        LET run == sync[s]
            copied == run.people \ run.failed
            From(e, k, where) == {l \in where : Source(l) = e /\ Kind(l) = k}
        IN  \A p \in copied :
              /\ p \in DOMAIN nodes /\ nodes[p] = run.evidence[p]
              /\ \A k \in Kinds :
                    /\ From(p, k, DOMAIN edges) = From(p, k, run.links)
                    /\ \A l \in From(p, k, run.links) :
                         /\ edges[l] = run.evidence[p]
                         /\ \A j \in EntityKinds[k] :
                              LET e == Target(l)
                                  own == From(e, j, run.links)
                              IN  /\ From(e, j, DOMAIN edges) = own
                                  /\ \A m \in own :
                                       \E q \in Holders(e, j, run.links) :
                                          edges[m] = run.evidence[q]]_vars
=============================================================================
