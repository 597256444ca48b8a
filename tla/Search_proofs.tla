--------------------------- MODULE Search_proofs ---------------------------
(***************************************************************************)
(* Theorems about GraphSync and about Search, for every number of people,   *)
(* kinds of relations, resumes, synchronisations, commits and faults, all   *)
(* intents and limits. Search runs beside the synchronisations, so that its *)
(* theorems rest on the invariant of GraphSync.                             *)
(***************************************************************************)
EXTENDS Search, FiniteSetTheorems, TLAPS

-----------------------------------------------------------------------------
(* Synchronisation *)

\* The fields of a synchronisation.
Fields == {"phase", "people", "unread", "links", "evidence", "todo", "person",
           "pending", "failed", "alone"}

Shape ==
    /\ DOMAIN sync = Syncs
    /\ \A s \in Syncs : DOMAIN sync[s] = Fields

Own(p, ids) == \A c \in ids : c[1] = p

\* What PostgreSQL holds comes from resumes, and chunks name their person.
PostgresFits ==
    /\ known \subseteq People
    /\ DOMAIN chunks = People
    /\ \A p \in People : Own(p, chunks[p])
    /\ \A l \in links : /\ Target(l) \notin People
                        /\ Source(l) \in People => Kind(l) \in Kinds

\* A snapshot is of people and relations that exist, with their own chunks.
SnapshotsFit ==
    \A s \in Syncs :
        /\ sync[s].people \subseteq known /\ sync[s].links \subseteq links
        /\ sync[s].todo \subseteq sync[s].people
        /\ sync[s].phase \in {"next", "copy", "done"} =>
              /\ DOMAIN sync[s].evidence = sync[s].people
              /\ \A p \in sync[s].people : Own(p, sync[s].evidence[p])

\* The queries that are left are among those of the person in hand.
QueriesFit ==
    \A s \in Syncs : sync[s].phase = "copy" =>
        /\ sync[s].person \in sync[s].people
        /\ sync[s].pending \subseteq Queries(s, sync[s].person)

\* Relations start at nodes, and no person is a target.
NodesExist ==
    /\ targets \cap People = {}
    /\ \A l \in DOMAIN edges : Source(l) \in DOMAIN nodes \cup targets

IInv == Shape /\ PostgresFits /\ SnapshotsFit /\ QueriesFit /\ NodesExist
          /\ GraphIsBacked

-----------------------------------------------------------------------------
\* More relations have more holders.
LEMMA HoldersGrow ==
    ASSUME NEW e, NEW k, NEW among, NEW more, among \subseteq more
    PROVE  Holders(e, k, among) \subseteq Holders(e, k, more)
  BY DEF Holders

\* The relations that a query writes are in PostgreSQL, and the evidence they
\* get is of their person or of one who has their company or project.
LEMMA ItemsAreBacked ==
    ASSUME IInv, NEW s \in Syncs, sync[s].phase = "copy",
           NEW q \in sync[s].pending, q[2] # "node", NEW l \in Items(s, q),
           NEW c \in sync[s].evidence[sync[s].person]
    PROVE  c[1] \in {Source(l)} \cup Holders(Source(l), Kind(l), links)
<1> DEFINE p == sync[s].person
<1>1. /\ p \in sync[s].people /\ c[1] = p /\ p \in People
      /\ q \in Queries(s, p)
      /\ sync[s].links \subseteq links
  BY DEF IInv, SnapshotsFit, QueriesFit, PostgresFits, Own
<1>2. Source(l) = q[1] /\ Kind(l) = q[2]
  BY DEF Items
<1>3. CASE q[1] = p
  BY <1>1, <1>2, <1>3
<1>4. CASE q[1] # p
  <2>1. PICK m \in sync[s].links :
          Source(m) = p /\ q \in {Target(m)} \X EntityKinds[Kind(m)]
    BY <1>1, <1>4 DEF Queries
  <2>2. m \in links /\ Kind(m) \in Kinds
    BY <1>1, <2>1 DEF IInv, PostgresFits
  <2>3. Target(m) = Source(l) /\ Kind(l) \in EntityKinds[Kind(m)]
    BY <1>2, <2>1
  <2> QED
    BY <1>1, <2>1, <2>2, <2>3 DEF Holders
<1> QED
  BY <1>3, <1>4

-----------------------------------------------------------------------------
\* The initial state has nothing in either database.
LEMMA InitHolds == Init => IInv
<1> SUFFICES ASSUME Init PROVE IInv
  OBVIOUS
<1>1. Shape /\ SnapshotsFit /\ QueriesFit
  BY DEF Init, Idle, Shape, Fields, SnapshotsFit, QueriesFit
<1>2. PostgresFits
  BY DEF Init, PostgresFits, Own
<1>3. NodesExist /\ GraphIsBacked
  BY DEF Init, NodesExist, GraphIsBacked
<1> QED
  BY <1>1, <1>2, <1>3 DEF IInv

\* A step of the other stages only adds people and relations, and changes the
\* chunks of a person.
LEMMA OthersKeep ==
    ASSUME IInv, UNCHANGED <<neo4j, sync>>, PostgresFits',
           known \subseteq known', links \subseteq links'
    PROVE  IInv'
<1>1. Shape' /\ NodesExist'
  BY DEF IInv, Shape, NodesExist, neo4j
<1>2. SnapshotsFit'
  BY DEF IInv, SnapshotsFit
<1>3. QueriesFit'
  BY DEF IInv, QueriesFit, Queries
<1>4. GraphIsBacked'
  <2>1. DOMAIN nodes' \subseteq known'
    BY DEF IInv, GraphIsBacked, neo4j
  <2>2. ASSUME NEW l \in DOMAIN edges', NEW c \in edges'[l]
        PROVE  c[1] \in {Source(l)} \cup Holders(Source(l), Kind(l), links')
    BY <2>2, HoldersGrow DEF IInv, GraphIsBacked, neo4j
  <2>3. \A l \in DOMAIN edges' : l \in links'
    BY DEF IInv, GraphIsBacked, neo4j
  <2> QED
    BY <2>1, <2>2, <2>3 DEF GraphIsBacked
<1> QED
  BY <1>1, <1>2, <1>3, <1>4 DEF IInv

LEMMA OtherStep == IInv /\ Other => IInv'
<1> SUFFICES ASSUME IInv, Other PROVE IInv'
  OBVIOUS
<1>1. ASSUME NEW b \in Resumes, PersistCommits(b) PROVE IInv'
  <2>1. known \subseteq known' /\ links \subseteq links'
    BY <1>1 DEF PersistCommits
  <2>2. PostgresFits'
    <3>1. \A l \in b.links : /\ Target(l) \notin People
                             /\ Source(l) \in People => Kind(l) \in Kinds
      BY ResumesFit DEF Kinds
    <3>2. b.person \in People
      BY ConstantTypes
    <3> QED
      BY <1>1, <3>1, <3>2 DEF PersistCommits, IInv, PostgresFits
  <2> QED
    BY <1>1, <2>1, <2>2, OthersKeep DEF PersistCommits, Commit
<1>2. ASSUME NEW p \in People, ChunkAdded(p) PROVE IInv'
  <2>1. PostgresFits'
    BY <1>2 DEF ChunkAdded, IInv, PostgresFits, Own
  <2> QED
    BY <1>2, <2>1, OthersKeep DEF ChunkAdded, Commit
<1>3. ASSUME NEW p \in People, ChunkDeleted(p) PROVE IInv'
  <2>1. PostgresFits'
    BY <1>3 DEF ChunkDeleted, IInv, PostgresFits, Own
  <2> QED
    BY <1>3, <2>1, OthersKeep DEF ChunkDeleted, Commit
<1> QED
  BY <1>1, <1>2, <1>3 DEF Other

\* A step that only changes the state of synchronisations.
LEMMA SyncsKeep ==
    ASSUME IInv, UNCHANGED <<postgres, neo4j>>, Shape', SnapshotsFit', QueriesFit'
    PROVE  IInv'
<1>1. PostgresFits'
  BY DEF IInv, PostgresFits, postgres
<1>2. NodesExist' /\ GraphIsBacked'
  BY DEF IInv, NodesExist, GraphIsBacked, postgres, neo4j
<1> QED
  BY <1>1, <1>2 DEF IInv

LEMMA ReadingStep ==
    ASSUME IInv, NEW s \in Syncs,
           ListPeople(s) \/ ReadLinks(s) \/ ReadEvidence(s)
    PROVE  IInv'
<1>1. CASE ListPeople(s)
  <2>1. \A r \in Syncs : \/ r = s /\ sync'[r].phase = "links" /\ sync'[r].links = {}
                                  /\ sync'[r].people = known /\ sync'[r].todo = known
                                  /\ DOMAIN sync'[r] = Fields
                         \/ sync'[r] = sync[r]
                         \/ sync'[r] = [sync[r] EXCEPT !.alone = FALSE]
    BY <1>1 DEF ListPeople, Idle, Fields
  <2>2. UNCHANGED <<postgres, neo4j>> /\ DOMAIN sync' = Syncs
    BY <1>1 DEF ListPeople
  <2>3. Shape'
    BY <2>1, <2>2 DEF IInv, Shape
  <2>4. SnapshotsFit'
    BY <2>1, <2>2 DEF IInv, Shape, Fields, SnapshotsFit, postgres
  <2>5. QueriesFit'
    BY <2>1, <2>2 DEF IInv, Shape, Fields, QueriesFit, Queries
  <2> QED
    BY <2>2, <2>3, <2>4, <2>5, SyncsKeep
<1>2. CASE ReadLinks(s)
  <2>1. PICK k : sync' = [sync EXCEPT
               ![s].unread = @ \ {k},
               ![s].links = @ \cup {l \in links : Kind(l) = k /\ Reached(s, l)}]
    BY <1>2 DEF ReadLinks
  <2>2. UNCHANGED <<postgres, neo4j>> /\ sync[s].phase = "links"
    BY <1>2 DEF ReadLinks
  <2>3. Shape' /\ SnapshotsFit' /\ QueriesFit'
    BY <2>1, <2>2 DEF IInv, Shape, Fields, SnapshotsFit, QueriesFit, Queries, postgres
  <2> QED
    BY <2>2, <2>3, SyncsKeep
<1>3. CASE ReadEvidence(s)
  <2>1. UNCHANGED <<postgres, neo4j>>
    BY <1>3 DEF ReadEvidence
  <2>2. Shape' /\ SnapshotsFit' /\ QueriesFit'
    BY <1>3 DEF ReadEvidence, IInv, Shape, Fields, SnapshotsFit, QueriesFit,
                Queries, postgres, PostgresFits
  <2> QED
    BY <2>1, <2>2, SyncsKeep
<1> QED
  BY <1>1, <1>2, <1>3

LEMMA LoopStep ==
    ASSUME IInv, NEW s \in Syncs,
           NextPerson(s) \/ QueryRaises(s) \/ Finish(s) \/ Abort(s)
    PROVE  IInv'
<1>1. UNCHANGED <<postgres, neo4j>>
  BY DEF NextPerson, QueryRaises, Finish, Abort
<1>2. CASE NextPerson(s)
  <2>1. PICK p \in sync[s].todo :
          sync' = [sync EXCEPT ![s] =
                     [sync[s] EXCEPT !.phase = "copy", !.todo = @ \ {p},
                                     !.person = p, !.pending = Queries(s, p)]]
    BY <1>2 DEF NextPerson
  <2>2. Shape'
    BY <2>1 DEF IInv, Shape
  <2>3. /\ \A r \in Syncs \ {s} : sync'[r] = sync[r]
        /\ sync'[s].phase = "copy" /\ sync'[s].todo = sync[s].todo \ {p}
        /\ sync'[s].person = p /\ sync'[s].pending = Queries(s, p)
        /\ sync'[s].people = sync[s].people /\ sync'[s].links = sync[s].links
        /\ sync'[s].evidence = sync[s].evidence
    BY <2>1 DEF IInv, Shape, Fields
  <2>4. sync[s].phase = "next"
    BY <1>2 DEF NextPerson
  <2>5. SnapshotsFit'
    BY <1>1, <2>3, <2>4 DEF IInv, SnapshotsFit, postgres
  <2>6. QueriesFit'
    BY <1>1, <2>3 DEF IInv, SnapshotsFit, QueriesFit, Queries
  <2> QED
    BY <1>1, <2>2, <2>5, <2>6, SyncsKeep
<1>3. CASE QueryRaises(s)
  BY <1>1, <1>3, SyncsKeep
     DEF QueryRaises, Remain, IInv, Shape, Fields, SnapshotsFit, QueriesFit, Queries, postgres
<1>4. CASE Finish(s)
  BY <1>1, <1>4, SyncsKeep
     DEF Finish, IInv, Shape, Fields, SnapshotsFit, QueriesFit, Queries, postgres
<1>5. CASE Abort(s)
  BY <1>1, <1>5, SyncsKeep
     DEF Abort, Idle, IInv, Shape, Fields, SnapshotsFit, QueriesFit, Queries, postgres
<1> QED
  BY <1>2, <1>3, <1>4, <1>5

LEMMA QueryStep ==
    ASSUME IInv, NEW s \in Syncs, Query(s)
    PROVE  IInv'
<1>1. PICK q \in sync[s].pending :
        /\ MergePerson(s, q) \/ ReplaceRelations(s, q)
        /\ sync' = [sync EXCEPT ![s] = Remain(s, sync[s].pending \ {q})]
  BY DEF Query, Due
<1>2. sync[s].phase = "copy" /\ UNCHANGED postgres
  BY DEF Query
<1>3. Shape' /\ SnapshotsFit' /\ QueriesFit' /\ PostgresFits'
  BY <1>1, <1>2 DEF Remain, IInv, Shape, Fields, SnapshotsFit, QueriesFit, Queries,
                    postgres, PostgresFits
<1>4. sync[s].person \in People /\ q \in Queries(s, sync[s].person)
  BY <1>2 DEF IInv, QueriesFit, SnapshotsFit, PostgresFits
<1>5. CASE MergePerson(s, q)
  <2>1. q[1] = sync[s].person
    <3>1. CASE q \in {<<sync[s].person, "node">>} \cup ({sync[s].person} \X Kinds)
      BY <3>1
    <3>2. CASE q \notin {<<sync[s].person, "node">>} \cup ({sync[s].person} \X Kinds)
      <4>1. PICK m \in sync[s].links :
              Source(m) = sync[s].person /\ q \in {Target(m)} \X EntityKinds[Kind(m)]
        BY <1>4, <3>2 DEF Queries
      <4>2. Kind(m) \in Kinds
        BY <1>4, <4>1 DEF IInv, PostgresFits, SnapshotsFit
      <4>3. "node" \notin EntityKinds[Kind(m)]
        BY <4>2, ConstantTypes DEF Kinds
      <4> QED
        BY <1>5, <4>1, <4>3 DEF MergePerson
    <3> QED
      BY <3>1, <3>2
  <2>2. /\ DOMAIN nodes' = DOMAIN nodes \cup {sync[s].person}
        /\ UNCHANGED <<targets, edges>>
    BY <1>5, <2>1 DEF MergePerson
  <2>3. sync[s].person \in known
    BY <1>2 DEF IInv, QueriesFit, SnapshotsFit
  <2>4. NodesExist' /\ GraphIsBacked'
    BY <1>2, <2>2, <2>3 DEF IInv, NodesExist, GraphIsBacked, postgres
  <2> QED
    BY <1>3, <2>4 DEF IInv
<1>6. CASE ReplaceRelations(s, q)
  <2> DEFINE items == Items(s, q)
             kept == {l \in DOMAIN edges : ~(Source(l) = q[1] /\ Kind(l) = q[2])}
             ids == sync[s].evidence[sync[s].person]
  <2>1. nodes' = nodes /\ q[2] # "node"
    BY <1>6 DEF ReplaceRelations
  <2>2. CASE UNCHANGED <<edges, targets>>
    BY <1>2, <1>3, <2>1, <2>2 DEF IInv, NodesExist, GraphIsBacked, postgres
  <2>3. CASE /\ q[1] \in DOMAIN nodes \cup targets
             /\ edges' = [l \in kept \cup items |-> IF l \in items THEN ids ELSE edges[l]]
             /\ targets' = targets \cup {Target(l) : l \in items}
    <3>1. items \subseteq links
      BY DEF Items, IInv, SnapshotsFit
    <3>2. NodesExist'
      <4>1. targets' \cap People = {}
        BY <2>3, <3>1 DEF IInv, PostgresFits, NodesExist
      <4>2. \A l \in items : Source(l) = q[1]
        BY DEF Items
      <4>3. \A l \in kept : Source(l) \in DOMAIN nodes \cup targets
        BY DEF IInv, NodesExist
      <4>4. DOMAIN edges' = kept \cup items /\ targets \subseteq targets'
        BY <2>3
      <4> QED
        BY <2>1, <2>3, <4>1, <4>2, <4>3, <4>4 DEF NodesExist
    <3>3. \A l \in DOMAIN edges' : l \in links
      BY <2>3, <3>1 DEF IInv, GraphIsBacked
    <3>4. ASSUME NEW l \in DOMAIN edges', NEW c \in edges'[l]
          PROVE  c[1] \in {Source(l)} \cup Holders(Source(l), Kind(l), links)
      <4>1. CASE l \in items
        <5>1. c \in ids
          BY <2>3, <3>4, <4>1
        <5> QED
          BY <1>2, <2>1, <4>1, <5>1, ItemsAreBacked
      <4>2. CASE l \notin items
        <5>1. l \in DOMAIN edges /\ c \in edges[l]
          BY <2>3, <3>4, <4>2
        <5> QED
          BY <5>1 DEF IInv, GraphIsBacked
      <4> QED
        BY <4>1, <4>2
    <3>5. GraphIsBacked'
      BY <1>2, <2>1, <3>3, <3>4 DEF IInv, GraphIsBacked, postgres
    <3> QED
      BY <1>3, <3>2, <3>5 DEF IInv
  <2> QED
    BY <1>6, <2>2, <2>3 DEF ReplaceRelations
<1> QED
  BY <1>1, <1>5, <1>6

\* Every step of the synchronisations, of the other stages and of a fault.
LEMMA NextKeeps == IInv /\ [Next]_vars => IInv'
<1> SUFFICES ASSUME IInv, [Next]_vars PROVE IInv'
  OBVIOUS
<1>1. ASSUME NEW s \in Syncs, Step(s) \/ Fault(s) PROVE IInv'
  BY <1>1, ReadingStep, LoopStep, QueryStep DEF Step, Fault
<1>2. CASE Other
  BY <1>2, OtherStep
<1>3. CASE UNCHANGED vars
  <2>1. Shape' /\ SnapshotsFit' /\ QueriesFit'
    BY <1>3 DEF vars, postgres, IInv, Shape, SnapshotsFit, QueriesFit, Queries
  <2> QED
    BY <1>3, <2>1, SyncsKeep DEF vars
<1> QED
  BY <1>1, <1>2, <1>3 DEF Next

\* Whatever synchronisations overlap, fail or die, and whatever others commit
\* meanwhile, the graph holds nothing that PostgreSQL does not, and its evidence
\* is that of people who have the relation or its company or project
\* (graph/neo4j.py:89, graph/sync.py:32).
THEOREM NothingIsMadeUp == Spec => []GraphIsBacked
<1>1. IInv => GraphIsBacked
  BY DEF IInv
<1> QED
  BY <1>1, InitHolds, NextKeeps, PTL DEF Spec

-----------------------------------------------------------------------------
\* The query q has done its work: the node or the relations of its kind are those
\* of the snapshot.
Relations(e, k) == {l \in DOMAIN edges : Source(l) = e /\ Kind(l) = k}

NodeExact(s, p) == p \in DOMAIN nodes /\ nodes[p] = sync[s].evidence[p]

PersonExact(s, q) ==
    /\ Relations(q[1], q[2]) = Items(s, q)
    /\ \A l \in Items(s, q) : /\ edges[l] = sync[s].evidence[q[1]]
                              /\ Target(l) \in targets

EntityExact(s, q) ==
    /\ Relations(q[1], q[2]) = Items(s, q)
    /\ \A l \in Items(s, q) :
          \E p \in Holders(q[1], q[2], sync[s].links) :
              edges[l] = sync[s].evidence[p]

Holds(s, q) ==
    IF q[2] = "node" THEN NodeExact(s, q[1])
    ELSE IF q[1] \in People THEN PersonExact(s, q) ELSE EntityExact(s, q)

Lone(s) == Active(s) /\ sync[s].alone

\* Query q has been sent for person p.
Sent(s, p, q) ==
    /\ p \in sync[s].people \ (sync[s].todo \cup sync[s].failed)
    /\ q \in Queries(s, p)
    /\ sync[s].phase = "copy" /\ p = sync[s].person => q \notin sync[s].pending

\* Nobody has undone what a synchronisation that is alone has done.
LoneFits(s) ==
    Lone(s) =>
        /\ \A r \in Syncs \ {s} : ~Active(r)
        /\ sync[s].phase = "links" => sync[s].todo = sync[s].people
        /\ sync[s].phase = "copy" => sync[s].person \notin sync[s].todo \cup sync[s].failed
        /\ sync[s].failed \cap sync[s].todo = {}
        /\ \A p \in People : \A q \in Queries(s, p) : Sent(s, p, q) => Holds(s, q)

LoneInv == IInv /\ \A s \in Syncs : LoneFits(s)

\* Of the queries of p, those of other nodes are of what it has.
LEMMA QueryCases ==
    ASSUME IInv, NEW s \in Syncs, NEW p \in sync[s].people, NEW q \in Queries(s, p)
    PROVE  /\ p \in People /\ q = <<q[1], q[2]>>
           /\ \/ q = <<p, "node">>
              \/ q[1] = p /\ q[2] \in Kinds
              \/ /\ q[1] \notin People
                 /\ \E m \in sync[s].links :
                       /\ Source(m) = p /\ Target(m) = q[1] /\ Kind(m) \in Kinds
                       /\ q[2] \in EntityKinds[Kind(m)]
<1>1. p \in People /\ sync[s].links \subseteq links
  BY DEF IInv, SnapshotsFit, PostgresFits
<1>2. CASE \E m \in sync[s].links : Source(m) = p /\ q \in {Target(m)} \X EntityKinds[Kind(m)]
  BY <1>1, <1>2 DEF IInv, PostgresFits
<1>3. CASE q \in {<<p, "node">>} \cup ({p} \X Kinds)
  BY <1>1, <1>3
<1> QED
  BY <1>1, <1>2, <1>3 DEF Queries

\* "node" is no kind of relations.
LEMMA NodeIsNoKind ==
    /\ "node" \notin Kinds
    /\ \A k \in Kinds : "node" \notin EntityKinds[k]
  BY ConstantTypes DEF Kinds

\* The query for the node comes first, and those of companies and projects last.
LEMMA Ranks ==
    ASSUME NEW p \in People
    PROVE  /\ Rank(<<p, "node">>) = 0
           /\ \A k \in Kinds : Rank(<<p, k>>) \in 1..Len(PersonKinds)
           /\ \A q : q[2] # "node" /\ q[1] \notin People =>
                 Rank(q) = Len(PersonKinds) + 1
<1>1. Len(PersonKinds) \in Nat /\ DOMAIN PersonKinds = 1..Len(PersonKinds)
  BY ConstantTypes
<1>2. ASSUME NEW k \in Kinds PROVE Rank(<<p, k>>) \in 1..Len(PersonKinds)
  <2>1. PICK j \in DOMAIN PersonKinds : PersonKinds[j] = k
    BY DEF Kinds
  <2>2. Rank(<<p, k>>) = CHOOSE i \in DOMAIN PersonKinds : PersonKinds[i] = k
    BY NodeIsNoKind DEF Rank
  <2> QED
    BY <1>1, <2>1, <2>2
<1>3. Rank(<<p, "node">>) = 0
  BY DEF Rank
<1>4. ASSUME NEW q, q[2] # "node", q[1] \notin People
      PROVE  Rank(q) = Len(PersonKinds) + 1
  BY <1>4 DEF Rank
<1> QED
  BY <1>2, <1>3, <1>4

\* So the query finds its node.
LEMMA NodeIsThere ==
    ASSUME LoneInv, NEW s \in Syncs, Lone(s), sync[s].phase = "copy",
           NEW q \in Due(s), q[2] # "node"
    PROVE  q[1] \in DOMAIN nodes \cup targets
<1>1. PICK p : p = sync[s].person
  OBVIOUS
<1>2. /\ p \in sync[s].people /\ q \in Queries(s, p) /\ q \in sync[s].pending
      /\ p \notin sync[s].todo \cup sync[s].failed
      /\ \A r \in sync[s].pending : Rank(q) <= Rank(r)
      /\ \A r \in Queries(s, p) : Sent(s, p, r) => Holds(s, r)
  BY <1>1 DEF LoneInv, IInv, QueriesFit, SnapshotsFit, PostgresFits, LoneFits, Due
<1>3. p \in People /\ Len(PersonKinds) \in Nat
  BY <1>2, QueryCases, ConstantTypes DEF LoneInv
<1>4. ASSUME NEW r \in Queries(s, p), ~(Rank(q) <= Rank(r)) PROVE Holds(s, r)
  BY <1>1, <1>2, <1>4 DEF Sent
<1>5. CASE q[1] = p
  <2>1. q[2] \in Kinds /\ q = <<p, q[2]>>
    <3>1. q = <<q[1], q[2]>> /\ q # <<p, "node">>
      BY <1>2, QueryCases DEF LoneInv
    <3>2. ~(q[1] \notin People)
      BY <1>3, <1>5
    <3>3. q[2] \in Kinds
      BY <1>2, <3>1, <3>2, QueryCases DEF LoneInv
    <3> QED
      BY <1>5, <3>1, <3>3
  <2>2. ~(Rank(q) <= Rank(<<p, "node">>))
    BY <1>3, <2>1, Ranks
  <2>3. Holds(s, <<p, "node">>)
    BY <1>4, <2>2 DEF Queries
  <2> QED
    BY <1>5, <2>3 DEF Holds, NodeExact
<1>6. CASE q[1] # p
  <2>1. PICK m \in sync[s].links :
          Source(m) = p /\ Target(m) = q[1] /\ Kind(m) \in Kinds
    BY <1>2, <1>6, QueryCases DEF LoneInv
  <2>2. q[1] \notin People
    BY <1>2, <1>6, QueryCases DEF LoneInv
  <2>3. ~(Rank(q) <= Rank(<<p, Kind(m)>>))
    <3>1. Rank(<<p, Kind(m)>>) \in 1..Len(PersonKinds)
      BY <1>3, <2>1, Ranks
    <3>2. Rank(q) = Len(PersonKinds) + 1
      BY <1>3, <2>2, Ranks
    <3> QED
      BY <1>3, <3>1, <3>2
  <2>4. Holds(s, <<p, Kind(m)>>)
    BY <1>4, <2>1, <2>3 DEF Queries
  <2>5. PersonExact(s, <<p, Kind(m)>>)
    BY <1>3, <2>1, <2>4, NodeIsNoKind DEF Holds
  <2> QED
    BY <2>1, <2>5 DEF PersonExact, Items
<1> QED
  BY <1>5, <1>6

\* What one query leaves of what another one has done, and does itself.
LEMMA QueryExact ==
    ASSUME LoneInv, NEW s \in Syncs, Lone(s), sync[s].phase = "copy",
           NEW q \in Due(s), MergePerson(s, q) \/ ReplaceRelations(s, q),
           sync'[s].links = sync[s].links, sync'[s].evidence = sync[s].evidence
    PROVE  /\ Holds(s, q)'
           /\ \A p \in sync[s].people : \A r \in Queries(s, p) :
                 Holds(s, r) => Holds(s, r)'
<1>1. PICK p : p = sync[s].person
  OBVIOUS
<1>2. /\ p \in sync[s].people /\ q \in Queries(s, p) /\ q \in sync[s].pending
  BY <1>1 DEF LoneInv, IInv, QueriesFit, Due
<1>3. \A r : Items(s, r)' = Items(s, r)
  BY DEF Items
<1>4. CASE MergePerson(s, q)
  <2>1. q = <<p, "node">>
    BY <1>2, <1>4, QueryCases, NodeIsNoKind DEF LoneInv, MergePerson
  <2>2. /\ nodes' = [x \in DOMAIN nodes \cup {p} |->
                       IF x = p THEN sync[s].evidence[p] ELSE nodes[x]]
        /\ targets' = targets /\ edges' = edges
    BY <1>4, <2>1 DEF MergePerson
  <2>3. \A x : NodeExact(s, x) => NodeExact(s, x)'
    BY <2>2 DEF NodeExact
  <2>4. \A r : /\ PersonExact(s, r) => PersonExact(s, r)'
               /\ EntityExact(s, r) => EntityExact(s, r)'
    BY <1>3, <2>2 DEF PersonExact, EntityExact, Relations
  <2>5. NodeExact(s, p)'
    BY <2>2 DEF NodeExact
  <2> QED
    BY <2>1, <2>3, <2>4, <2>5 DEF Holds
<1>5. CASE ReplaceRelations(s, q)
  <2> DEFINE items == Items(s, q)
             kept == {l \in DOMAIN edges : ~(Source(l) = q[1] /\ Kind(l) = q[2])}
             ids == sync[s].evidence[p]
  <2>1. q[2] # "node" /\ nodes' = nodes
    BY <1>5 DEF ReplaceRelations
  <2>2. /\ edges' = [l \in kept \cup items |-> IF l \in items THEN ids ELSE edges[l]]
        /\ targets' = targets \cup {Target(l) : l \in items}
    BY <1>1, <1>5, <2>1, NodeIsThere DEF ReplaceRelations
  <2>3. \A l \in items : Source(l) = q[1] /\ Kind(l) = q[2]
    BY DEF Items
  <2>4. Relations(q[1], q[2])' = items
    BY <2>2, <2>3 DEF Relations
  <2>5. \A l \in items : edges'[l] = ids /\ Target(l) \in targets'
    BY <2>2
  <2>6. ASSUME NEW r, ~(r[1] = q[1] /\ r[2] = q[2])
        PROVE  /\ Relations(r[1], r[2])' = Relations(r[1], r[2])
               /\ \A l \in Relations(r[1], r[2]) : edges'[l] = edges[l]
    BY <2>2, <2>3, <2>6 DEF Relations
  <2>7. targets \subseteq targets'
    BY <2>2
  <2> HIDE DEF items, kept, ids
  <2>8. Holds(s, q)'
    <3>1. CASE q[1] \in People
      <4>1. q[1] = p
        BY <1>2, <3>1, QueryCases DEF LoneInv
      <4>2. PersonExact(s, q)'
        BY <1>3, <2>4, <2>5, <4>1 DEF PersonExact, items, ids
      <4> QED
        BY <2>1, <3>1, <4>2 DEF Holds
    <3>2. CASE q[1] \notin People
      <4>1. PICK m \in sync[s].links :
              /\ Source(m) = p /\ Target(m) = q[1] /\ Kind(m) \in Kinds
              /\ q[2] \in EntityKinds[Kind(m)]
        BY <1>2, <3>2, QueryCases DEF LoneInv
      <4>2. p \in Holders(q[1], q[2], sync[s].links)
        BY <4>1 DEF Holders
      <4>3. EntityExact(s, q)'
        BY <1>3, <2>4, <2>5, <4>2 DEF EntityExact, items, ids
      <4> QED
        BY <2>1, <3>2, <4>3 DEF Holds
    <3> QED
      BY <3>1, <3>2
  <2>9. ASSUME NEW x \in sync[s].people, NEW r \in Queries(s, x), Holds(s, r)
        PROVE  Holds(s, r)'
    <3>1. CASE r[2] = "node"
      BY <2>1, <2>9, <3>1 DEF Holds, NodeExact
    <3>2. CASE r = q
      BY <2>8, <3>2
    <3>3. CASE r # q /\ r[2] # "node"
      <4>1. ~(r[1] = q[1] /\ r[2] = q[2])
        BY <1>2, <2>9, <3>3, QueryCases DEF LoneInv
      <4>2. /\ Relations(r[1], r[2])' = Relations(r[1], r[2])
            /\ \A l \in Relations(r[1], r[2]) : edges'[l] = edges[l]
        BY <2>6, <4>1
      <4>3. PersonExact(s, r) => PersonExact(s, r)'
        BY <1>3, <2>7, <4>2 DEF PersonExact
      <4>4. EntityExact(s, r) => EntityExact(s, r)'
        BY <1>3, <4>2 DEF EntityExact
      <4> QED
        BY <2>9, <3>3, <4>3, <4>4 DEF Holds
    <3> QED
      BY <3>1, <3>2, <3>3
  <2> QED
    BY <2>8, <2>9
<1> QED
  BY <1>4, <1>5

LEMMA QueryKeepsLone ==
    ASSUME LoneInv, NEW s \in Syncs, Query(s)
    PROVE  \A r \in Syncs : LoneFits(r)'
<1>1. PICK q \in Due(s) :
        /\ MergePerson(s, q) \/ ReplaceRelations(s, q)
        /\ sync' = [sync EXCEPT ![s] = Remain(s, sync[s].pending \ {q})]
  BY DEF Query
<1>2. /\ sync[s].phase = "copy" /\ Active(s) /\ DOMAIN sync = Syncs
      /\ DOMAIN sync[s] = Fields
  BY DEF Query, Active, LoneInv, IInv, Shape
<1>3. /\ \A r \in Syncs \ {s} : sync'[r] = sync[r]
      /\ sync'[s].phase \in {"next", "copy"}
      /\ sync'[s].phase = "next" => sync'[s].pending = {}
      /\ sync'[s].pending = sync[s].pending \ {q}
      /\ sync'[s].people = sync[s].people /\ sync'[s].todo = sync[s].todo
      /\ sync'[s].links = sync[s].links /\ sync'[s].evidence = sync[s].evidence
      /\ sync'[s].failed = sync[s].failed /\ sync'[s].person = sync[s].person
      /\ sync'[s].alone = sync[s].alone
  BY <1>1, <1>2 DEF Remain, Fields
<1>4. ASSUME NEW r \in Syncs \ {s} PROVE LoneFits(r)'
  BY <1>2, <1>3 DEF LoneInv, LoneFits, Lone, Active
<1>5. LoneFits(s)'
  <2>1. SUFFICES ASSUME Lone(s)' PROVE LoneFits(s)'
    BY DEF LoneFits
  <2>2. Lone(s) /\ LoneFits(s)
    BY <1>2, <1>3, <2>1 DEF Lone, LoneInv
  <2>3. \A p : Queries(s, p)' = Queries(s, p)
    BY <1>3 DEF Queries
  <2>4. /\ Holds(s, q)'
        /\ \A p \in sync[s].people : \A r \in Queries(s, p) : Holds(s, r) => Holds(s, r)'
    BY <1>1, <1>2, <1>3, <2>2, QueryExact
  <2>5. ASSUME NEW p \in People, NEW r \in Queries(s, p), Sent(s, p, r)'
        PROVE  Holds(s, r)'
    <3>1. p \in sync[s].people
      BY <1>3, <2>5 DEF Sent
    <3>2. CASE r = q
      BY <2>4, <3>2
    <3>3. CASE r # q
      <4>1. Sent(s, p, r)
        BY <1>3, <2>3, <2>5, <3>3 DEF Sent
      <4> QED
        BY <2>2, <2>4, <3>1, <4>1 DEF LoneFits
    <3> QED
      BY <3>2, <3>3
  <2>6. \A r \in Syncs \ {s} : ~Active(r)'
    BY <1>3, <2>2 DEF LoneFits, Active
  <2> QED
    BY <1>2, <1>3, <2>2, <2>3, <2>5, <2>6 DEF LoneFits
<1> QED
  BY <1>4, <1>5

\* The other steps of a synchronisation send no query, and leave the graph alone.
LEMMA OthersKeepLone ==
    ASSUME LoneInv, NEW s \in Syncs, UNCHANGED neo4j, DOMAIN sync'[s] = Fields,
           Lone(s)' => /\ Lone(s)
                       /\ \A r \in Syncs \ {s} : ~Active(r)'
                       /\ sync'[s].phase = "links" => sync'[s].todo = sync'[s].people
                       /\ sync'[s].phase = "copy" =>
                             sync'[s].person \notin sync'[s].todo \cup sync'[s].failed
                       /\ sync'[s].failed \cap sync'[s].todo = {}
                       /\ \/ sync'[s].people = sync'[s].todo
                          \/ /\ sync'[s].people = sync[s].people
                             /\ sync'[s].links = sync[s].links
                             /\ sync'[s].evidence = sync[s].evidence
                             /\ \A p \in People : \A q \in Queries(s, p) :
                                   Sent(s, p, q)' => Sent(s, p, q)
    PROVE  LoneFits(s)'
<1>1. SUFFICES ASSUME Lone(s)', NEW p \in People, NEW q \in Queries(s, p)', Sent(s, p, q)'
               PROVE  Holds(s, q)'
  BY DEF LoneFits
<1>2. sync'[s].people # sync'[s].todo
  BY <1>1 DEF Sent
<1>3. /\ sync'[s].links = sync[s].links
      /\ sync'[s].evidence = sync[s].evidence
  BY <1>1, <1>2
<1>4. q \in Queries(s, p)
  BY <1>1, <1>3 DEF Queries
<1>5. Holds(s, q)
  BY <1>1, <1>2, <1>4 DEF LoneInv, LoneFits
<1> QED
  BY <1>3, <1>5 DEF Holds, NodeExact, PersonExact, EntityExact, Relations, Items, neo4j

\* Nobody is alone while another synchronisation makes a step.
LEMMA OnlyOneIsAlone ==
    ASSUME LoneInv, NEW s \in Syncs, Active(s), NEW r \in Syncs \ {s},
           sync'[r] = sync[r]
    PROVE  LoneFits(r)'
  BY DEF LoneInv, LoneFits, Lone, Active

LEMMA ListKeepsLone ==
    ASSUME LoneInv, NEW s \in Syncs, ListPeople(s), NEW r \in Syncs
    PROVE  LoneFits(r)'
<1> DEFINE others == {x \in Syncs : Active(x)}
<1>1. /\ DOMAIN sync' = Syncs /\ sync[s].phase = "idle"
      /\ sync'[s].phase = "links" /\ sync'[s].todo = sync'[s].people
      /\ sync'[s].failed = {} /\ sync'[s].alone = (others = {})
  BY DEF ListPeople, Idle
<1>2. \A x \in others : ~sync'[x].alone
  <2>1. \A x \in others : x # s
    BY <1>1 DEF Active
  <2> QED
    BY <2>1 DEF ListPeople, LoneInv, IInv, Shape, Fields
<1>3. \A x \in Syncs \ {s} : x \notin others => ~Active(x)'
  BY DEF ListPeople, Active
<1> HIDE DEF others
<1>4. CASE r = s
  <2>1. SUFFICES ASSUME Lone(s)' PROVE LoneFits(s)'
    BY <1>4 DEF LoneFits
  <2>2. others = {}
    BY <1>1, <2>1 DEF Lone
  <2>3. \A x \in Syncs \ {s} : ~Active(x)'
    BY <1>3, <2>2
  <2> QED
    BY <1>1, <2>3 DEF LoneFits, Sent
<1>5. CASE r # s
  BY <1>2, <1>3, <1>5 DEF LoneFits, Lone
<1> QED
  BY <1>4, <1>5

LEMMA ReadingKeepsLone ==
    ASSUME LoneInv, NEW s \in Syncs, ReadLinks(s) \/ ReadEvidence(s), NEW r \in Syncs
    PROVE  LoneFits(r)'
<1>1. UNCHANGED neo4j /\ sync[s].phase = "links" /\ Active(s)
  BY DEF ReadLinks, ReadEvidence, Active
<1>2. /\ DOMAIN sync' = Syncs /\ DOMAIN sync'[s] = Fields
      /\ \A x \in Syncs \ {s} : sync'[x] = sync[x]
      /\ sync'[s].phase \in {"links", "next"} /\ sync'[s].failed = sync[s].failed
      /\ sync'[s].todo = sync[s].todo /\ sync'[s].people = sync[s].people
      /\ sync'[s].alone = sync[s].alone
  <2>1. DOMAIN sync = Syncs /\ DOMAIN sync[s] = Fields
    BY DEF LoneInv, IInv, Shape
  <2>2. CASE ReadLinks(s)
    <3>1. PICK k : sync' = [sync EXCEPT
                 ![s].unread = @ \ {k},
                 ![s].links = @ \cup {l \in links : Kind(l) = k /\ Reached(s, l)}]
      BY <2>2 DEF ReadLinks
    <3> QED
      BY <1>1, <2>1, <3>1 DEF Fields
  <2>3. CASE ReadEvidence(s)
    <3>1. sync' = [sync EXCEPT
             ![s].phase = "next",
             ![s].evidence = [p \in sync[s].people |-> chunks[p]]]
      BY <2>3 DEF ReadEvidence
    <3> QED
      BY <2>1, <3>1 DEF Fields
  <2> QED
    BY <2>2, <2>3
<1>3. CASE r = s
  <2>1. Lone(s)' => Lone(s)
    BY <1>1, <1>2 DEF Lone
  <2>2. Lone(s) => /\ sync[s].todo = sync[s].people
                   /\ sync[s].failed \cap sync[s].todo = {}
                   /\ \A x \in Syncs \ {s} : ~Active(x)'
    BY <1>1, <1>2 DEF LoneInv, LoneFits, Active
  <2> QED
    BY <1>1, <1>2, <1>3, <2>1, <2>2, OthersKeepLone
<1>4. CASE r # s
  BY <1>1, <1>2, <1>4, OnlyOneIsAlone
<1> QED
  BY <1>3, <1>4

LEMMA LoopKeepsLone ==
    ASSUME LoneInv, NEW s \in Syncs, NextPerson(s) \/ QueryRaises(s), NEW r \in Syncs
    PROVE  LoneFits(r)'
<1>1. UNCHANGED neo4j /\ Active(s)
  BY DEF NextPerson, QueryRaises, Active
<1>2. /\ DOMAIN sync' = Syncs /\ DOMAIN sync'[s] = Fields
      /\ \A x \in Syncs \ {s} : sync'[x] = sync[x]
      /\ sync'[s].people = sync[s].people /\ sync'[s].alone = sync[s].alone
      /\ sync'[s].links = sync[s].links /\ sync'[s].evidence = sync[s].evidence
  <2>1. DOMAIN sync = Syncs /\ DOMAIN sync[s] = Fields
    BY DEF LoneInv, IInv, Shape
  <2>2. CASE NextPerson(s)
    <3>1. PICK p \in sync[s].todo :
            sync' = [sync EXCEPT ![s] =
                       [sync[s] EXCEPT !.phase = "copy", !.todo = @ \ {p},
                                       !.person = p, !.pending = Queries(s, p)]]
      BY <2>2 DEF NextPerson
    <3> QED
      BY <2>1, <3>1 DEF Fields
  <2>3. CASE QueryRaises(s)
    BY <2>1, <2>3 DEF QueryRaises, Remain, Fields
  <2> QED
    BY <2>2, <2>3
<1>3. CASE r = s
  <2>1. SUFFICES ASSUME Lone(s)' PROVE LoneFits(s)'
    BY <1>3 DEF LoneFits
  <2>2. Lone(s) /\ LoneFits(s)
    BY <1>1, <1>2, <2>1 DEF Lone, LoneInv
  <2>3. \A x \in Syncs \ {s} : ~Active(x)'
    BY <1>2, <2>2 DEF LoneFits, Active
  <2>4. CASE NextPerson(s)
    <3>1. PICK p \in sync[s].todo :
            sync' = [sync EXCEPT ![s] =
                       [sync[s] EXCEPT !.phase = "copy", !.todo = @ \ {p},
                                       !.person = p, !.pending = Queries(s, p)]]
      BY <2>4 DEF NextPerson
    <3>2. /\ sync[s].phase = "next" /\ sync'[s].phase = "copy"
          /\ sync'[s].person = p /\ sync'[s].todo = sync[s].todo \ {p}
          /\ sync'[s].pending = Queries(s, p) /\ sync'[s].failed = sync[s].failed
      BY <2>4, <3>1 DEF NextPerson, LoneInv, IInv, Shape, Fields
    <3>3. \A x \in People : \A q \in Queries(s, x) : Sent(s, x, q)' => Sent(s, x, q)
      BY <3>2, <1>2 DEF Sent
    <3> QED
      BY <1>1, <1>2, <2>2, <2>3, <3>2, <3>3, OthersKeepLone DEF LoneFits
  <2>5. CASE QueryRaises(s)
    <3>1. /\ sync[s].phase = "copy" /\ sync'[s].phase = "next"
          /\ sync'[s].todo = sync[s].todo
          /\ sync'[s].failed = sync[s].failed \cup {sync[s].person}
      BY <2>5 DEF QueryRaises, Remain, LoneInv, IInv, Shape, Fields
    <3>2. \A x \in People : \A q \in Queries(s, x) : Sent(s, x, q)' => Sent(s, x, q)
      BY <3>1, <1>2 DEF Sent, Queries
    <3> QED
      BY <1>1, <1>2, <2>2, <2>3, <3>1, <3>2, OthersKeepLone DEF LoneFits
  <2> QED
    BY <2>4, <2>5
<1>4. CASE r # s
  BY <1>1, <1>2, <1>4, OnlyOneIsAlone
<1> QED
  BY <1>3, <1>4

LEMMA EndKeepsLone ==
    ASSUME LoneInv, NEW s \in Syncs, Finish(s) \/ Abort(s), NEW r \in Syncs
    PROVE  LoneFits(r)'
<1>1. /\ Active(s) /\ DOMAIN sync' = Syncs /\ ~Active(s)'
      /\ \A x \in Syncs \ {s} : sync'[x] = sync[x]
  BY DEF Finish, Abort, Active, Idle, LoneInv, IInv, Shape, Fields
<1>2. CASE r = s
  BY <1>1, <1>2 DEF LoneFits, Lone
<1>3. CASE r # s
  BY <1>1, <1>3, OnlyOneIsAlone
<1> QED
  BY <1>2, <1>3

LEMMA LoneHolds == Init => LoneInv
<1>1. ASSUME Init, NEW s \in Syncs PROVE ~Lone(s)
  BY <1>1 DEF Init, Idle, Lone, Active
<1> QED
  BY <1>1, InitHolds DEF LoneInv, LoneFits

LEMMA NextKeepsLone == LoneInv /\ [Next]_vars => LoneInv'
<1> SUFFICES ASSUME LoneInv, [Next]_vars, NEW r \in Syncs PROVE LoneFits(r)'
  BY NextKeeps DEF LoneInv
<1>1. ASSUME NEW s \in Syncs, Step(s) \/ Fault(s) PROVE LoneFits(r)'
  BY <1>1, ListKeepsLone, ReadingKeepsLone, LoopKeepsLone, EndKeepsLone, QueryKeepsLone
     DEF Step, Fault
<1>2. CASE UNCHANGED <<neo4j, sync>>
  BY <1>2 DEF LoneInv, LoneFits, Lone, Active, Sent, Queries, Holds, NodeExact,
              PersonExact, EntityExact, Relations, Items, neo4j
<1>3. Other => UNCHANGED <<neo4j, sync>>
  BY DEF Other, PersistCommits, ChunkAdded, ChunkDeleted, Commit
<1> QED
  BY <1>1, <1>2, <1>3 DEF Next, vars

\* Whatever others commit meanwhile, and whatever fails, a synchronisation that
\* no other one overlaps leaves the snapshot of everybody it does not report as
\* failed in the graph: nothing it wrote for one person is undone by what it
\* writes for the next (graph/sync.py:35, graph/neo4j.py:112).
THEOREM LoneSyncsAreExact == Spec => LoneSyncIsExact
<1>1. ASSUME LoneInv, NEW s \in Syncs, Finish(s) /\ sync[s].alone,
             NEW p \in sync[s].people \ sync[s].failed
      PROVE  /\ NodeExact(s, p)
             /\ \A k \in Kinds : PersonExact(s, <<p, k>>)
             /\ \A k \in Kinds : \A l \in Items(s, <<p, k>>) :
                   \A j \in EntityKinds[k] : EntityExact(s, <<Target(l), j>>)
  <2>1. Lone(s) /\ LoneFits(s) /\ sync[s].phase = "next" /\ sync[s].todo = {}
    BY <1>1 DEF Finish, Lone, Active, LoneInv
  <2>2. p \in People
    BY <1>1 DEF LoneInv, IInv, SnapshotsFit, PostgresFits
  <2>3. \A q \in Queries(s, p) : Holds(s, q)
    BY <1>1, <2>1, <2>2 DEF LoneFits, Sent
  <2>4. NodeExact(s, p)
    <3>1. Holds(s, <<p, "node">>)
      BY <2>3 DEF Queries
    <3> QED
      BY <3>1 DEF Holds
  <2>5. ASSUME NEW k \in Kinds PROVE PersonExact(s, <<p, k>>)
    <3>1. Holds(s, <<p, k>>)
      BY <2>3 DEF Queries
    <3> QED
      BY <2>2, <3>1, NodeIsNoKind DEF Holds
  <2>6. ASSUME NEW k \in Kinds, NEW l \in Items(s, <<p, k>>), NEW j \in EntityKinds[k]
        PROVE  EntityExact(s, <<Target(l), j>>)
    <3>1. l \in sync[s].links /\ Source(l) = p /\ Kind(l) = k
      BY DEF Items
    <3>2. <<Target(l), j>> \in Queries(s, p)
      BY <3>1 DEF Queries
    <3>3. Target(l) \notin People /\ j # "node"
      BY <1>1, <3>1, NodeIsNoKind DEF LoneInv, IInv, SnapshotsFit, PostgresFits
    <3>4. Holds(s, <<Target(l), j>>)
      BY <2>3, <3>2
    <3> QED
      BY <3>3, <3>4 DEF Holds
  <2> QED
    BY <2>4, <2>5, <2>6
<1>2. ASSUME LoneInv, NEW s \in Syncs, Finish(s) /\ sync[s].alone,
             NEW p \in sync[s].people \ sync[s].failed, NEW k \in Kinds
      PROVE  Items(s, <<p, k>>) = {l \in sync[s].links : Source(l) = p /\ Kind(l) = k}
  BY DEF Items
<1>3. LoneInv => \A s \in Syncs : Finish(s) /\ sync[s].alone =>
        LET run == sync[s]
            copied == run.people \ run.failed
            From(e, k, where) == {l \in where : Source(l) = e /\ Kind(l) = k}
        IN  \A p \in copied :
              /\ p \in DOMAIN nodes /\ nodes[p] = run.evidence[p]
              /\ \A k \in Kinds :
                    /\ From(p, k, DOMAIN edges) = From(p, k, run.links)
                    /\ \A l \in From(p, k, run.links) :
                         /\ edges[l] = run.evidence[p]
                         /\ \A j \in EntityKinds[k] :
                              LET e == Target(l)
                                  own == From(e, j, run.links)
                              IN  /\ From(e, j, DOMAIN edges) = own
                                  /\ \A m \in own :
                                       \E q \in Holders(e, j, run.links) :
                                          edges[m] = run.evidence[q]
  BY <1>1, <1>2 DEF NodeExact, PersonExact, EntityExact, Relations, Items
<1> QED
  BY <1>3, LoneHolds, NextKeepsLone, PTL DEF Spec, LoneSyncIsExact

-----------------------------------------------------------------------------
(* Retrieval *)

SearchFields == {"phase", "intent", "structured", "vector", "graph", "evidence",
                 "candidates", "claim", "gone"}

Fitting == {p \in People : Satisfies(p, search.intent, links)}

\* Whatever a search has collected fits its intent; the nearest chunks only name
\* people, and are the pool only without hard filters.
SearchFits ==
    /\ DOMAIN search = SearchFields
    /\ search.structured \cup search.candidates \subseteq Fitting
    /\ search.phase \in {"paths", "rank"} => DOMAIN search.evidence \subseteq Fitting
    /\ search.phase = "idle" => search.candidates = {}
    /\ \A c \in search.vector : c[1] \in People
    /\ search.phase = "graph" => UsesGraph(search.intent)

SearchInv == IInv /\ SearchFits

-----------------------------------------------------------------------------
\* The pool fits, whichever sources are empty: with hard filters it comes from
\* those whom the filters found, and without any, anybody fits.
LEMMA PoolFits == SearchInv => Pool \subseteq Fitting
<1> SUFFICES ASSUME SearchInv, NEW p \in Pool PROVE p \in Fitting
  OBVIOUS
<1>1. CASE HasHardFilters(search.intent)
  BY <1>1 DEF Pool, CandidatePool, SearchInv, SearchFits
<1>2. CASE ~HasHardFilters(search.intent)
  <2>1. p \in search.structured \/ p \in {c[1] : c \in search.vector}
    BY <1>2 DEF Pool, CandidatePool
  <2>2. p \in People
    BY <2>1 DEF SearchInv, SearchFits, Fitting
  <2>3. Satisfies(p, search.intent, links)
    BY <1>2, <2>2 DEF Satisfies, HasHardFilters
  <2> QED
    BY <2>2, <2>3 DEF Fitting
<1> QED
  BY <1>1, <1>2

\* Relations are only added, so who fits goes on fitting.
LEMMA FittingGrows ==
    ASSUME UNCHANGED search, links \subseteq links'
    PROVE  Fitting \subseteq Fitting'
  BY DEF Fitting, Satisfies

LEMMA LinksGrow == IInv /\ Next => links \subseteq links'
<1> SUFFICES ASSUME IInv, Next PROVE links \subseteq links'
  OBVIOUS
<1>1. ASSUME NEW s \in Syncs, Step(s) \/ Fault(s) PROVE links' = links
  BY <1>1 DEF Step, Fault, ListPeople, ReadLinks, ReadEvidence, NextPerson,
              Query, Finish, QueryRaises, Abort, postgres
<1>2. CASE Other
  BY <1>2 DEF Other, PersistCommits, ChunkAdded, ChunkDeleted
<1> QED
  BY <1>1, <1>2 DEF Next, vars, postgres

-----------------------------------------------------------------------------
LEMMA SearchBegins == SearchInit => SearchInv
<1> SUFFICES ASSUME SearchInit PROVE SearchInv
  OBVIOUS
<1>1. IInv
  BY InitHolds DEF SearchInit
<1>2. SearchFits
  BY DEF SearchInit, SearchFits, SearchFields
<1> QED
  BY <1>1, <1>2 DEF SearchInv

\* While the search waits, the others may add relations.
LEMMA OthersStep ==
    ASSUME SearchInv, Next \/ UNCHANGED vars, UNCHANGED search
    PROVE  SearchInv'
<1>1. IInv' /\ links \subseteq links'
  BY NextKeeps, LinksGrow DEF SearchInv, vars, postgres
<1>2. Fitting \subseteq Fitting'
  BY <1>1, FittingGrows
<1>3. SearchFits'
  BY <1>2 DEF SearchInv, SearchFits
<1> QED
  BY <1>1, <1>3 DEF SearchInv

\* An action that only moves the search.
LEMMA GotoKeeps ==
    ASSUME SearchInv, UNCHANGED vars, SearchFits'
    PROVE  SearchInv'
  BY NextKeeps DEF SearchInv

LEMMA FirstOfIsSubset ==
    ASSUME NEW S, NEW limit
    PROVE  FirstOf(S, limit) \subseteq S
  BY DEF FirstOf

LEMMA SearchStepKeeps == SearchInv /\ SearchStep => SearchInv'
<1> SUFFICES ASSUME SearchInv, SearchStep PROVE SearchInv'
  OBVIOUS
<1> USE DEF Goto
<1>0. SearchFits /\ PostgresFits
  BY DEF SearchInv, IInv
<1>1. ASSUME NEW i \in Intents, FilterIds(i) PROVE SearchInv'
  <2> DEFINE ids == FirstOf({p \in known : Satisfies(p, i, links)}, PoolSize)
  <2>1. ids \subseteq {p \in People : Satisfies(p, i, links)}
    BY <1>0, FirstOfIsSubset DEF PostgresFits
  <2>2. /\ search'.intent = i /\ search'.structured = ids
        /\ search'.candidates = {} /\ search'.vector = search.vector
        /\ search'.phase \in {"done", "vector"}
        /\ DOMAIN search' = SearchFields /\ UNCHANGED vars
    BY <1>0, <1>1 DEF FilterIds, SearchFits, SearchFields
  <2>3. SearchFits'
    BY <1>0, <2>1, <2>2 DEF SearchFits, Fitting, vars, postgres
  <2> QED
    BY <2>2, <2>3, GotoKeeps
<1>2. CASE VectorSearch
  <2> DEFINE people == IF HasHardFilters(search.intent) THEN search.structured
                       ELSE People
             near == IF search.intent.semantic THEN UNION {chunks[p] : p \in people}
                     ELSE {}
  <2>1. PICK found \in SUBSET near :
           search' = [search EXCEPT !.vector = found,
                         !.phase = IF UsesGraph(search.intent) THEN "graph" ELSE "evidence"]
    BY <1>2 DEF VectorSearch
  <2>2. people \subseteq People
    BY <1>0 DEF SearchFits, Fitting
  <2>3. \A c \in found : c[1] \in People
    BY <1>0, <2>2 DEF PostgresFits, Own
  <2>4. UNCHANGED vars
    BY <1>2 DEF VectorSearch
  <2>5. /\ search'.phase = IF UsesGraph(search.intent) THEN "graph" ELSE "evidence"
        /\ search'.vector = found /\ search'.intent = search.intent
        /\ search'.structured = search.structured
        /\ search'.candidates = search.candidates
        /\ DOMAIN search' = SearchFields
    BY <1>0, <2>1 DEF SearchFits, SearchFields
  <2>6. SearchFits'
    BY <1>0, <2>3, <2>4, <2>5 DEF SearchFits, Fitting, vars, postgres
  <2> QED
    BY <2>4, <2>6, GotoKeeps
<1>3. CASE GraphSearchIds
  <2>1. /\ search'.phase = "evidence" /\ search'.intent = search.intent
        /\ search'.structured = search.structured /\ search'.vector = search.vector
        /\ search'.candidates = search.candidates
        /\ DOMAIN search' = SearchFields /\ UNCHANGED vars
    BY <1>0, <1>3 DEF GraphSearchIds, SearchFits, SearchFields
  <2>2. SearchFits'
    BY <1>0, <2>1 DEF SearchFits, Fitting, vars, postgres
  <2> QED
    BY <2>1, <2>2, GotoKeeps
<1>4. CASE ReadPool
  <2>1. /\ search'.phase \in {"paths", "rank"} /\ search'.intent = search.intent
        /\ search'.structured = search.structured /\ search'.vector = search.vector
        /\ search'.candidates = search.candidates
        /\ DOMAIN search'.evidence = Pool
        /\ DOMAIN search' = SearchFields /\ UNCHANGED vars
    BY <1>0, <1>4 DEF ReadPool, SearchFits, SearchFields
  <2>2. SearchFits'
    BY <1>0, <2>1, PoolFits DEF SearchFits, Fitting, vars, postgres
  <2> QED
    BY <2>1, <2>2, GotoKeeps
<1>5. CASE ReadPaths
  <2>1. /\ search'.phase = "rank" /\ search'.intent = search.intent
        /\ search'.structured = search.structured /\ search'.vector = search.vector
        /\ search'.candidates = search.candidates
        /\ DOMAIN search'.evidence = Pool
        /\ DOMAIN search' = SearchFields /\ UNCHANGED vars
    BY <1>0, <1>5 DEF ReadPaths, SearchFits, SearchFields
  <2>2. SearchFits'
    BY <1>0, <2>1, PoolFits DEF SearchFits, Fitting, vars, postgres
  <2> QED
    BY <2>1, <2>2, GotoKeeps
<1>6. CASE RankPool
  <2>1. /\ search'.phase \in {"done", "answer"} /\ search'.intent = search.intent
        /\ search'.structured = search.structured /\ search'.vector = search.vector
        /\ search.phase = "rank"
        /\ search'.candidates \subseteq DOMAIN search.evidence
        /\ DOMAIN search' = SearchFields /\ UNCHANGED vars
    BY <1>0, <1>6 DEF RankPool, SearchFits, SearchFields
  <2>2. SearchFits'
    BY <1>0, <2>1 DEF SearchFits, Fitting, vars, postgres
  <2> QED
    BY <2>1, <2>2, GotoKeeps
<1>7. CASE Answer
  <2>1. /\ search'.phase = "done" /\ search'.intent = search.intent
        /\ search'.structured = search.structured /\ search'.vector = search.vector
        /\ search'.candidates = search.candidates
        /\ DOMAIN search' = SearchFields /\ UNCHANGED vars
    BY <1>0, <1>7 DEF Answer, SearchFits, SearchFields
  <2>2. SearchFits'
    BY <1>0, <2>1 DEF SearchFits, Fitting, vars, postgres
  <2> QED
    BY <2>1, <2>2, GotoKeeps
<1>8. CASE SearchRaises
  <2>1. /\ search'.phase = "done" /\ search'.intent = search.intent
        /\ search'.structured = search.structured /\ search'.vector = search.vector
        /\ search'.candidates = {}
        /\ DOMAIN search' = SearchFields /\ UNCHANGED <<postgres, neo4j, sync>>
    BY <1>0, <1>8 DEF SearchRaises, SearchFits, SearchFields
  <2>2. SearchFits'
    BY <1>0, <2>1 DEF SearchFits, Fitting, postgres
  <2>3. PostgresFits' /\ known \subseteq known' /\ links \subseteq links'
    BY <1>0, <2>1 DEF PostgresFits, postgres
  <2> QED
    BY <2>1, <2>2, <2>3, OthersKeep DEF SearchInv
<1> QED
  BY <1>1, <1>2, <1>3, <1>4, <1>5, <1>6, <1>7, <1>8 DEF SearchStep

LEMMA SearchNextKeeps == SearchInv /\ [SearchNext]_<<vars, search>> => SearchInv'
  BY SearchStepKeeps, OthersStep DEF SearchNext

-----------------------------------------------------------------------------
\* Whichever source of candidates is empty, however old the graph is and
\* whatever is committed during the search, everybody returned satisfies the
\* hard filters (retrieval/hybrid.py:79-82).
THEOREM FiltersAlwaysHold == SearchSpec => []FiltersHold
<1>1. SearchInv => FiltersHold
  BY DEF SearchInv, SearchFits, FiltersHold, Fitting
<1> QED
  BY <1>1, SearchBegins, SearchNextKeeps, PTL DEF SearchSpec

\* A number of people below the limit is not cut.
LEMMA ShortListIsWhole ==
    ASSUME NEW S, S \subseteq known, known \subseteq People, N \in Nat,
           GraphLimit \in Nat, Cardinality(known) <= GraphLimit
    PROVE  S \subseteq FirstOf(S, GraphLimit)
<1> SUFFICES ASSUME NEW x \in S PROVE Cardinality({y \in S : y < x}) < GraphLimit
  BY DEF FirstOf
<1>1. IsFiniteSet(known)
  <2>1. IsFiniteSet(1..N)
    BY FS_Interval
  <2> QED
    BY <2>1, FS_Subset DEF People
<1>2. IsFiniteSet(known \ {x}) /\ Cardinality(known \ {x}) = Cardinality(known) - 1
  BY <1>1, FS_RemoveElement
<1>3. {y \in S : y < x} \subseteq known \ {x}
  <2>1. ASSUME NEW y \in S, y < x PROVE y \in known /\ y # x
    <3>1. x \in Int /\ y \in Int
      BY DEF People
    <3> QED
      BY <2>1, <3>1
  <2> QED
    BY <2>1
<1>4. Cardinality({y \in S : y < x}) <= Cardinality(known \ {x})
  BY <1>2, <1>3, FS_Subset
<1>5. /\ Cardinality(known) \in Nat
      /\ Cardinality({y \in S : y < x}) \in Nat
  BY <1>1, <1>2, <1>3, FS_CardinalityType, FS_Subset
<1> QED
  BY <1>2, <1>4, <1>5

\* Where PostgreSQL's filter finds somebody, the graph's query does, unless it
\* is given an alias.
LEMMA GraphMatchesMore ==
    ASSUME NEW p, NEW i, Satisfies(p, i, links), links \subseteq DOMAIN edges,
           UsesStoredNames(i)
    PROVE  GraphMatches(p, i, DOMAIN edges)
<1>0. \A t \in i.companies \cup i.domains : Canonical[t] = t
  BY DEF UsesStoredNames, Terms
<1>1. \A c \in i.companies : <<p, "WORKED_AT", c>> \in DOMAIN edges
  BY <1>0 DEF Satisfies
<1>2. ASSUME NEW d \in i.domains
      PROVE  \E l \in DOMAIN edges :
                Source(l) = p /\ Kind(l) = "SPECIALIZES_IN" /\ Target(l) = d
  <2>1. <<p, "SPECIALIZES_IN", d>> \in DOMAIN edges
    BY <1>0 DEF Satisfies
  <2> QED
    BY <2>1 DEF Source, Kind, Target
<1> QED
  BY <1>1, <1>2 DEF GraphMatches

\* Intersecting with the graph's list costs nobody, as long as the graph is up
\* to date, the list is not cut (graph/neo4j.py:31) and the query names what it
\* asks for as the database does: PostgreSQL compares canonical names, Neo4j the
\* terms themselves.
THEOREM UpToDateGraphLosesNobody == SearchSpec => GraphLosesNobody
<1>1. ASSUME SearchInv, GraphSearchIds, UsesStoredNames(search.intent),
             links \subseteq DOMAIN edges, Cardinality(known) <= GraphLimit
      PROVE  search.structured \subseteq search'.graph
  <2> DEFINE matching == {p \in DOMAIN nodes :
                            GraphMatches(p, search.intent, DOMAIN edges)}
  <2>1. search.structured \subseteq matching
    <3> SUFFICES ASSUME NEW p \in search.structured PROVE p \in matching
      OBVIOUS
    <3>1. Satisfies(p, search.intent, links) /\ p \in People
      BY <1>1 DEF SearchInv, SearchFits, Fitting
    <3>2. UsesGraph(search.intent)
      BY <1>1 DEF SearchInv, SearchFits, GraphSearchIds
    <3>3. PICK l \in DOMAIN edges : Source(l) = p
      BY <1>1, <3>1, <3>2 DEF Satisfies, UsesGraph, Source
    <3>4. p \in DOMAIN nodes
      BY <1>1, <3>1, <3>3 DEF SearchInv, IInv, NodesExist
    <3> QED
      BY <1>1, <3>1, <3>4, GraphMatchesMore
  <2>2. matching \subseteq known /\ known \subseteq People
    BY <1>1 DEF SearchInv, IInv, PostgresFits, GraphIsBacked
  <2>3. matching \subseteq FirstOf(matching, GraphLimit)
    BY <1>1, <2>2, ShortListIsWhole, ConstantTypes, SearchConstantTypes
  <2>4. search'.graph = FirstOf(matching, GraphLimit)
    BY <1>1 DEF GraphSearchIds, Goto, SearchInv, SearchFits, SearchFields
  <2> QED
    BY <2>1, <2>3, <2>4
<1>2. SearchInv /\ [SearchNext]_<<vars, search>> =>
        [GraphSearchIds /\ UsesStoredNames(search.intent)
                        /\ links \subseteq DOMAIN edges
                        /\ Cardinality(known) <= GraphLimit
         => search.structured \subseteq search'.graph]_<<vars, search>>
  BY <1>1
<1> QED
  BY <1>2, SearchBegins, SearchNextKeeps, PTL DEF SearchSpec, GraphLosesNobody

-----------------------------------------------------------------------------
(* Evidence *)

\* The numbers of the chunks of a person are given out once, in order.
NumbersFit ==
    /\ DOMAIN used = People
    /\ \A p \in People : /\ used[p] \in Nat
                         /\ \A c \in chunks[p] : c[2] \in 1..used[p]

\* What was deleted before the search does not come back.
GoneFits ==
    \A c \in search.gone : /\ c[1] \in People
                           /\ c[2] \in 1..used[c[1]]
                           /\ c \notin chunks[c[1]]

\* Those to whom a person is connected by a path on which some name contains a
\* term of the query.
Connected(p) ==
    LET path == OnPaths(p, search.intent, links)
    IN  {Source(l) : l \in path}
          \cup UNION {Holders(Source(l), Kind(l), links) : l \in path}

\* A chunk that may be evidence of p.
Backs(c, p) ==
    \/ c[1] = p /\ c \notin search.gone
    \/ UsesGraph(search.intent) /\ c[1] \in Connected(p)

EvidenceFits ==
    /\ \A c \in search.vector : c \notin search.gone
    /\ search.phase = "idle" => search.vector = {}
    /\ search.phase \in {"paths", "rank", "answer"} =>
          \A p \in DOMAIN search.evidence :
              \A c \in search.evidence[p] : Backs(c, p)

PhasesFit ==
    /\ search.phase = "paths" =>
          UsesGraph(search.intent) /\ DOMAIN search.evidence = Pool
    /\ search.phase = "answer" => search.candidates \subseteq DOMAIN search.evidence
    /\ search.phase # "done" => search.claim = NoClaim

ClaimFits ==
    /\ search.claim.ids \subseteq People \X (1..MaxChunks)
    /\ search.claim # NoClaim =>
          /\ search.claim.candidate \in search.candidates
          /\ \A c \in search.claim.ids : Backs(c, search.claim.candidate)

BackedInv == NumbersFit /\ GoneFits /\ EvidenceFits /\ PhasesFit /\ ClaimFits

-----------------------------------------------------------------------------

\* A walk among relations is one among more of them.
LEMMA LongerGrows ==
    ASSUME NEW w, NEW among, NEW more, among \subseteq more
    PROVE  Longer(w, among) \subseteq Longer(w, more)
  BY DEF Longer

\* The definition of the walks, step by step: three hops are the most.
LEMMA WalksBegin ==
    ASSUME NEW p, NEW among
    PROVE  \E W : /\ Walks(p, among) = W[MaxHops]
                  /\ W[0] = {[over |-> {}, at |-> p, nodes |-> {p}]}
                  /\ \A n \in 1..MaxHops :
                        W[n] = W[n - 1] \cup UNION {Longer(w, among) : w \in W[n - 1]}
<1> DEFINE start == {[over |-> {}, at |-> p, nodes |-> {p}]}
           Further(S) == S \cup UNION {Longer(w, among) : w \in S}
           Fits(f) == f = [n \in 0..MaxHops |-> IF n = 0 THEN start
                                                ELSE Further(f[n - 1])]
           walks == CHOOSE f : Fits(f)
           g == [n \in 0..MaxHops |->
                   IF n = 0 THEN start
                   ELSE IF n = 1 THEN Further(start)
                   ELSE IF n = 2 THEN Further(Further(start))
                   ELSE Further(Further(Further(start)))]
<1>1. MaxHops \in 1..3
  BY SearchConstantTypes
<1>2. Walks(p, among) = walks[MaxHops]
  BY DEF Walks
<1>3. \E f : Fits(f)
  <2> HIDE DEF Further, start
  <2>1. \A n \in 0..MaxHops : g[n] = IF n = 0 THEN start ELSE Further(g[n - 1])
    BY <1>1
  <2>2. g = [n \in 0..MaxHops |-> IF n = 0 THEN start ELSE Further(g[n - 1])]
    BY <2>1
  <2> QED
    BY <2>2
<1>4. Fits(walks)
  <2> HIDE DEF Fits
  <2> QED
    BY <1>3
<1>5. walks[0] = start
  <2> HIDE DEF Further, start, walks
  <2> QED
    BY <1>1, <1>4
<1>6. \A n \in 1..MaxHops : walks[n] = Further(walks[n - 1])
  <2> HIDE DEF Further, start, walks
  <2> QED
    BY <1>1, <1>4
<1> HIDE DEF walks
<1> QED
  BY <1>2, <1>5, <1>6

LEMMA WalksGrow ==
    ASSUME NEW p, NEW among, NEW more, among \subseteq more
    PROVE  Walks(p, among) \subseteq Walks(p, more)
<1>1. PICK V : /\ Walks(p, among) = V[MaxHops]
               /\ V[0] = {[over |-> {}, at |-> p, nodes |-> {p}]}
               /\ \A n \in 1..MaxHops :
                     V[n] = V[n - 1] \cup UNION {Longer(w, among) : w \in V[n - 1]}
  BY WalksBegin
<1>2. PICK W : /\ Walks(p, more) = W[MaxHops]
               /\ W[0] = {[over |-> {}, at |-> p, nodes |-> {p}]}
               /\ \A n \in 1..MaxHops :
                     W[n] = W[n - 1] \cup UNION {Longer(w, more) : w \in W[n - 1]}
  BY WalksBegin
<1>3. ASSUME NEW n \in 1..MaxHops, V[n - 1] \subseteq W[n - 1]
      PROVE  V[n] \subseteq W[n]
  <2>1. \A w \in V[n - 1] : Longer(w, among) \subseteq Longer(w, more)
    BY LongerGrows
  <2>2. /\ V[n] = V[n - 1] \cup UNION {Longer(w, among) : w \in V[n - 1]}
        /\ W[n] = W[n - 1] \cup UNION {Longer(w, more) : w \in W[n - 1]}
    BY <1>1, <1>2
  <2> QED
    BY <1>3, <2>1, <2>2
<1>4. V[0] \subseteq W[0]
  BY <1>1, <1>2
<1>5. MaxHops \in 1..3
  BY SearchConstantTypes
<1>6. V[1] \subseteq W[1]
  BY <1>3, <1>4, <1>5
<1>7. CASE MaxHops = 1
  BY <1>1, <1>2, <1>6, <1>7
<1>8. CASE MaxHops > 1
  <2>1. V[2] \subseteq W[2]
    BY <1>3, <1>5, <1>6, <1>8
  <2>2. CASE MaxHops = 3
    BY <1>1, <1>2, <1>3, <2>1, <2>2
  <2>3. CASE MaxHops = 2
    BY <1>1, <1>2, <2>1, <2>3
  <2> QED
    BY <1>5, <1>8, <2>2, <2>3
<1> QED
  BY <1>5, <1>7, <1>8

\* Who a person is connected with over some relations, they are over more.
LEMMA PathsGrow ==
    ASSUME NEW p, NEW i, NEW among, NEW more, among \subseteq more
    PROVE  OnPaths(p, i, among) \subseteq OnPaths(p, i, more)
  BY WalksGrow DEF OnPaths

\* A walk among relations goes along them.
LEMMA WalksAlong ==
    ASSUME NEW p, NEW among, NEW w \in Walks(p, among)
    PROVE  w.over \subseteq among
<1>1. PICK W : /\ Walks(p, among) = W[MaxHops]
               /\ W[0] = {[over |-> {}, at |-> p, nodes |-> {p}]}
               /\ \A n \in 1..MaxHops :
                     W[n] = W[n - 1] \cup UNION {Longer(v, among) : v \in W[n - 1]}
  BY WalksBegin
<1>2. ASSUME NEW n \in 1..MaxHops, \A v \in W[n - 1] : v.over \subseteq among
      PROVE  \A v \in W[n] : v.over \subseteq among
  <2> SUFFICES ASSUME NEW v \in W[n] PROVE v.over \subseteq among
    OBVIOUS
  <2>1. CASE v \in W[n - 1]
    BY <1>2, <2>1
  <2>2. ASSUME NEW u \in W[n - 1], v \in Longer(u, among) PROVE v.over \subseteq among
    BY <1>2, <2>2 DEF Longer
  <2> QED
    BY <1>1, <2>1, <2>2
<1>3. \A v \in W[0] : v.over \subseteq among
  BY <1>1
<1>4. MaxHops \in 1..3
  BY SearchConstantTypes
<1>5. \A v \in W[1] : v.over \subseteq among
  BY <1>2, <1>3, <1>4
<1>6. CASE MaxHops = 1
  BY <1>1, <1>5, <1>6
<1>7. CASE MaxHops > 1
  <2>1. \A v \in W[2] : v.over \subseteq among
    BY <1>2, <1>4, <1>5, <1>7
  <2>2. CASE MaxHops = 3
    BY <1>1, <1>2, <2>1, <2>2
  <2>3. CASE MaxHops = 2
    BY <1>1, <2>1, <2>3
  <2> QED
    BY <1>4, <1>7, <2>2, <2>3
<1> QED
  BY <1>4, <1>6, <1>7

\* The same for the people, while relations are added.
LEMMA ConnectedGrows ==
    ASSUME UNCHANGED search, links \subseteq links', NEW p
    PROVE  Connected(p) \subseteq Connected(p)'
<1> DEFINE path == OnPaths(p, search.intent, links)
           more == OnPaths(p, search.intent, links')
<1>1. path \subseteq more
  BY PathsGrow
<1>2. \A l \in path : Holders(Source(l), Kind(l), links)
                        \subseteq Holders(Source(l), Kind(l), links')
  BY HoldersGrow
<1>3. Connected(p) = {Source(l) : l \in path}
                       \cup UNION {Holders(Source(l), Kind(l), links) : l \in path}
  BY DEF Connected
<1>4. Connected(p)' = {Source(l) : l \in more}
                       \cup UNION {Holders(Source(l), Kind(l), links') : l \in more}
  BY DEF Connected
<1> HIDE DEF path, more
<1> QED
  BY <1>1, <1>2, <1>3, <1>4

LEMMA BacksOn ==
    ASSUME UNCHANGED search, links \subseteq links', NEW p, NEW c, Backs(c, p)
    PROVE  Backs(c, p)'
  BY ConnectedGrows DEF Backs

\* Commits of the other stages take new numbers and add relations.
LEMMA OthersKeepNumbers ==
    ASSUME IInv, NumbersFit, GoneFits, Next \/ UNCHANGED vars, UNCHANGED search
    PROVE  NumbersFit' /\ GoneFits'
<1>1. CASE UNCHANGED postgres
  BY <1>1 DEF postgres, NumbersFit, GoneFits
<1>2. ASSUME NEW b \in Resumes, PersistCommits(b) PROVE NumbersFit' /\ GoneFits'
  BY <1>2 DEF PersistCommits, NumbersFit, GoneFits
<1>3. ASSUME NEW p \in People, ChunkAdded(p) PROVE NumbersFit' /\ GoneFits'
  <2>1. /\ used' = [used EXCEPT ![p] = @ + 1]
        /\ chunks' = [chunks EXCEPT ![p] = @ \cup {<<p, used'[p]>>}]
    BY <1>3 DEF ChunkAdded
  <2>2. DOMAIN chunks = People /\ used[p] \in Nat
    BY DEF IInv, PostgresFits, NumbersFit
  <2>3. DOMAIN used = People
    BY DEF NumbersFit
  <2>4. /\ used'[p] = used[p] + 1 /\ chunks'[p] = chunks[p] \cup {<<p, used[p] + 1>>}
        /\ \A r \in People \ {p} : used'[r] = used[r] /\ chunks'[r] = chunks[r]
    BY <2>1, <2>2, <2>3
  <2>5. NumbersFit'
    <3>1. used'[p] \in Nat /\ \A c \in chunks'[p] : c[2] \in 1..used'[p]
      BY <2>2, <2>4 DEF NumbersFit
    <3>2. \A r \in People \ {p} : /\ used'[r] \in Nat
                                 /\ \A c \in chunks'[r] : c[2] \in 1..used'[r]
      BY <2>4 DEF NumbersFit
    <3>3. DOMAIN used' = People
      BY <2>1, <2>3
    <3> QED
      BY <3>1, <3>2, <3>3 DEF NumbersFit
  <2>6. ASSUME NEW c \in search.gone
        PROVE  c[2] \in 1..used'[c[1]] /\ c \notin chunks'[c[1]]
    <3>1. c[1] \in People /\ c[2] \in 1..used[c[1]] /\ c \notin chunks[c[1]]
      BY DEF GoneFits
    <3>2. CASE c[1] = p
      BY <2>2, <2>4, <3>1, <3>2
    <3>3. CASE c[1] # p
      BY <2>4, <3>1, <3>3
    <3> QED
      BY <3>2, <3>3
  <2> QED
    BY <2>5, <2>6 DEF GoneFits
<1>4. ASSUME NEW p \in People, ChunkDeleted(p) PROVE NumbersFit' /\ GoneFits'
  <2>1. \A r \in People : chunks'[r] \subseteq chunks[r]
    BY <1>4 DEF ChunkDeleted, IInv, PostgresFits
  <2> QED
    BY <1>4, <2>1 DEF ChunkDeleted, NumbersFit, GoneFits
<1>5. ASSUME NEW s \in Syncs, Step(s) \/ Fault(s) PROVE UNCHANGED postgres
  BY <1>5 DEF Step, Fault, ListPeople, ReadLinks, ReadEvidence, NextPerson,
              Query, Finish, QueryRaises, Abort
<1> QED
  BY <1>1, <1>2, <1>3, <1>4, <1>5 DEF Next, Other, vars

\* The property, with the operators of its proof.
LEMMA ClaimIsBacked == ClaimFits => ClaimsAreBacked
<1> DEFINE p == search.claim.candidate
           own == {<<p, n>> : n \in 1..MaxChunks} \ search.gone
<1> SUFFICES ASSUME ClaimFits, search.claim # NoClaim PROVE ClaimsAreBacked
  BY DEF ClaimsAreBacked
<1>1. ASSUME NEW c \in search.claim.ids, c[1] = p, c \notin search.gone
      PROVE  c \in own
  BY <1>1 DEF ClaimFits
<1>2. p \in search.candidates
  BY DEF ClaimFits
<1>3. ASSUME NEW c \in search.claim.ids
      PROVE  c \in own \/ (UsesGraph(search.intent) /\ c[1] \in Connected(p))
  BY <1>1 DEF ClaimFits, Backs
<1> HIDE DEF own
<1>4. \A c \in search.claim.ids :
         c \in own \/ (UsesGraph(search.intent) /\ c[1] \in Connected(p))
  BY <1>3
<1> QED
  BY <1>2, <1>4 DEF own, ClaimsAreBacked, Connected

LEMMA BackedBegins == SearchInit => BackedInv
<1> SUFFICES ASSUME SearchInit PROVE BackedInv
  OBVIOUS
<1>1. NumbersFit /\ GoneFits
  BY DEF SearchInit, Init, NumbersFit, GoneFits
<1>2. EvidenceFits /\ PhasesFit /\ search.claim = NoClaim
  BY DEF SearchInit, NoClaim, EvidenceFits, PhasesFit
<1>3. ClaimFits
  BY <1>2 DEF ClaimFits, NoClaim
<1> QED
  BY <1>1, <1>2, <1>3 DEF BackedInv

LEMMA OthersKeepBacked ==
    ASSUME SearchInv, BackedInv, Next \/ UNCHANGED vars, UNCHANGED search
    PROVE  BackedInv'
<1>1. links \subseteq links'
  BY LinksGrow DEF SearchInv, vars, postgres
<1>2. NumbersFit' /\ GoneFits'
  BY OthersKeepNumbers DEF SearchInv, BackedInv
<1>3. EvidenceFits'
  BY <1>1, BacksOn DEF BackedInv, EvidenceFits
<1>4. PhasesFit'
  BY DEF BackedInv, PhasesFit, Pool
<1>5. ClaimFits'
  BY <1>1, BacksOn DEF BackedInv, ClaimFits
<1> QED
  BY <1>2, <1>3, <1>4, <1>5 DEF BackedInv

\* A step of the search leaves PostgreSQL alone, and but for its beginning the
\* chunks that were gone.
LEMMA SearchKeepsNumbers ==
    ASSUME NumbersFit, GoneFits, UNCHANGED postgres, search'.gone = search.gone
    PROVE  NumbersFit' /\ GoneFits'
  BY DEF NumbersFit, GoneFits, postgres

\* What backs a person goes on doing so for the same query.
LEMMA BacksStill ==
    ASSUME search'.gone = search.gone, search'.intent = search.intent,
           UNCHANGED postgres, NEW c, NEW p, Backs(c, p)
    PROVE  Backs(c, p)'
  BY DEF Backs, Connected, postgres

LEMMA FilterKeepsBacked ==
    ASSUME SearchInv, BackedInv, NEW i \in Intents, FilterIds(i)
    PROVE  BackedInv'
<1> DEFINE gone == UNION {({p} \X (1..used[p])) \ chunks[p] : p \in People}
<1>1. DOMAIN search = SearchFields /\ search.phase = "idle"
  BY DEF SearchInv, SearchFits, FilterIds
<1>2. /\ search'.gone = gone /\ search'.vector = search.vector
      /\ search'.phase \in {"done", "vector"} /\ search'.claim = search.claim
      /\ UNCHANGED vars
  BY <1>1 DEF FilterIds, Goto, SearchFields
<1>3. NumbersFit' /\ GoneFits'
  BY <1>2 DEF BackedInv, NumbersFit, GoneFits, vars, postgres
<1>4. EvidenceFits' /\ PhasesFit'
  BY <1>1, <1>2 DEF BackedInv, EvidenceFits, PhasesFit
<1>5. ClaimFits'
  BY <1>1, <1>2 DEF BackedInv, PhasesFit, ClaimFits
<1> QED
  BY <1>3, <1>4, <1>5 DEF BackedInv

LEMMA VectorKeepsBacked ==
    ASSUME SearchInv, BackedInv, VectorSearch
    PROVE  BackedInv'
<1> DEFINE people == IF HasHardFilters(search.intent) THEN search.structured
                     ELSE People
<1>1. DOMAIN search = SearchFields /\ search.phase = "vector"
  BY DEF SearchInv, SearchFits, VectorSearch
<1>2. /\ search'.gone = search.gone /\ search'.intent = search.intent
      /\ search'.vector \subseteq UNION {chunks[p] : p \in people}
      /\ search'.phase \in {"graph", "evidence"} /\ search'.claim = search.claim
      /\ UNCHANGED vars
  BY <1>1 DEF VectorSearch, Goto, SearchFields
<1>3. people \subseteq People
  BY DEF SearchInv, SearchFits, Fitting
<1>4. \A c \in search'.vector : c \notin search.gone
  BY <1>2, <1>3 DEF BackedInv, GoneFits, SearchInv, IInv, PostgresFits, Own
<1>5. EvidenceFits' /\ PhasesFit' /\ ClaimFits'
  BY <1>1, <1>2, <1>4 DEF BackedInv, EvidenceFits, PhasesFit, ClaimFits
<1>6. NumbersFit' /\ GoneFits'
  BY <1>2, SearchKeepsNumbers DEF BackedInv, vars
<1> QED
  BY <1>5, <1>6 DEF BackedInv

LEMMA GraphKeepsBacked ==
    ASSUME SearchInv, BackedInv, GraphSearchIds
    PROVE  BackedInv'
<1>1. DOMAIN search = SearchFields /\ search.phase = "graph"
  BY DEF SearchInv, SearchFits, GraphSearchIds
<1>2. /\ search'.gone = search.gone /\ search'.vector = search.vector
      /\ search'.phase = "evidence" /\ search'.claim = search.claim
      /\ UNCHANGED vars
  BY <1>1 DEF GraphSearchIds, Goto, SearchFields
<1>3. EvidenceFits' /\ PhasesFit' /\ ClaimFits'
  BY <1>1, <1>2 DEF BackedInv, EvidenceFits, PhasesFit, ClaimFits
<1>4. NumbersFit' /\ GoneFits'
  BY <1>2, SearchKeepsNumbers DEF BackedInv, vars
<1> QED
  BY <1>3, <1>4 DEF BackedInv

\* The first chunks of a person and the nearest ones exist.
LEMMA ReadKeepsBacked ==
    ASSUME SearchInv, BackedInv, ReadPool
    PROVE  BackedInv'
<1> DEFINE First(p) == {c \in chunks[p] :
                          c[2] \in FirstOf({d[2] : d \in chunks[p]}, EvidenceLimit)}
           Near(p) == {c \in search.vector : c[1] = p}
<1>1. DOMAIN search = SearchFields /\ search.phase = "evidence"
  BY DEF SearchInv, SearchFits, ReadPool
<1>2. /\ search'.gone = search.gone /\ search'.vector = search.vector
      /\ search'.intent = search.intent /\ search'.structured = search.structured
      /\ search'.graph = search.graph
      /\ search'.phase = IF UsesGraph(search.intent) THEN "paths" ELSE "rank"
      /\ search'.claim = search.claim
      /\ search'.evidence = [p \in Pool |-> First(p) \cup Near(p)]
      /\ UNCHANGED vars
  BY <1>1 DEF ReadPool, Goto, SearchFields
<1>3. Pool \subseteq People
  BY PoolFits DEF Fitting
<1>4. ASSUME NEW p \in Pool, NEW c \in search'.evidence[p]
      PROVE  c[1] = p /\ c \notin search.gone
  <2>1. CASE c \in First(p)
    BY <1>3, <2>1 DEF BackedInv, GoneFits, SearchInv, IInv, PostgresFits, Own
  <2>2. CASE c \in Near(p)
    BY <2>2 DEF BackedInv, EvidenceFits
  <2>3. c \in First(p) \cup Near(p)
    BY <1>2, <1>4
  <2> QED
    BY <2>1, <2>2, <2>3
<1>5. EvidenceFits'
  <2>1. DOMAIN search'.evidence = Pool
    BY <1>2
  <2>2. \A p \in DOMAIN search'.evidence : \A c \in search'.evidence[p] : Backs(c, p)'
    BY <1>2, <1>4, <2>1 DEF Backs
  <2>3. \A c \in search'.vector : c \notin search'.gone
    BY <1>2 DEF BackedInv, EvidenceFits
  <2> QED
    BY <1>2, <2>2, <2>3 DEF EvidenceFits
<1>6. PhasesFit' /\ ClaimFits'
  BY <1>1, <1>2 DEF BackedInv, PhasesFit, ClaimFits, Pool
<1>7. NumbersFit' /\ GoneFits'
  BY <1>2, SearchKeepsNumbers DEF BackedInv, vars
<1> QED
  BY <1>5, <1>6, <1>7 DEF BackedInv

\* What the graph says of a relation on a path is evidence of people on it.
LEMMA PathsKeepBacked ==
    ASSUME SearchInv, BackedInv, ReadPaths
    PROVE  BackedInv'
<1> DEFINE Found(p) == UNION {edges[l] : l \in OnPaths(p, search.intent,
                                                       DOMAIN edges)}
<1>1. DOMAIN search = SearchFields /\ search.phase = "paths"
  BY DEF SearchInv, SearchFits, ReadPaths
<1>2. /\ search'.gone = search.gone /\ search'.vector = search.vector
      /\ search'.intent = search.intent
      /\ search'.phase = "rank" /\ search'.claim = search.claim
      /\ search'.evidence = [p \in Pool |-> search.evidence[p] \cup Found(p)]
      /\ UNCHANGED vars
  BY <1>1 DEF ReadPaths, Goto, SearchFields
<1>3. UsesGraph(search.intent) /\ DOMAIN search.evidence = Pool
  BY <1>1 DEF BackedInv, PhasesFit
<1>4. ASSUME NEW p \in Pool, NEW c \in Found(p)
      PROVE  c[1] \in Connected(p)
  <2>1. PICK l \in OnPaths(p, search.intent, DOMAIN edges) : c \in edges[l]
    BY <1>4
  <2>2. DOMAIN edges \subseteq links
    BY DEF SearchInv, IInv, GraphIsBacked
  <2>3. l \in OnPaths(p, search.intent, links)
    BY <2>1, <2>2, PathsGrow
  <2>4. l \in DOMAIN edges
    <3>1. PICK w \in Walks(p, DOMAIN edges) : l \in w.over
      BY <2>1 DEF OnPaths
    <3> QED
      BY <3>1, WalksAlong
  <2>5. c[1] \in {Source(l)} \cup Holders(Source(l), Kind(l), links)
    BY <2>1, <2>4 DEF SearchInv, IInv, GraphIsBacked
  <2> QED
    BY <2>3, <2>5 DEF Connected
<1>5. EvidenceFits'
  <2>1. ASSUME NEW p \in Pool, NEW c \in search'.evidence[p] PROVE Backs(c, p)
    <3>1. CASE c \in search.evidence[p]
      BY <1>1, <1>3, <3>1 DEF BackedInv, EvidenceFits
    <3>2. CASE c \in Found(p)
      BY <1>3, <1>4, <3>2 DEF Backs
    <3>3. c \in search.evidence[p] \cup Found(p)
      BY <1>2, <2>1
    <3> QED
      BY <3>1, <3>2, <3>3
  <2>2. DOMAIN search'.evidence = Pool
    BY <1>2
  <2>3. \A p \in DOMAIN search'.evidence : \A c \in search'.evidence[p] : Backs(c, p)'
    BY <1>2, <2>1, <2>2, BacksStill DEF vars
  <2>4. \A c \in search'.vector : c \notin search'.gone
    BY <1>2 DEF BackedInv, EvidenceFits
  <2> QED
    BY <2>3, <2>4, <1>2 DEF EvidenceFits
<1>6. PhasesFit' /\ ClaimFits'
  BY <1>1, <1>2 DEF BackedInv, PhasesFit, ClaimFits
<1>7. NumbersFit' /\ GoneFits'
  BY <1>2, SearchKeepsNumbers DEF BackedInv, vars
<1> QED
  BY <1>5, <1>6, <1>7 DEF BackedInv

LEMMA RankKeepsBacked ==
    ASSUME SearchInv, BackedInv, RankPool
    PROVE  BackedInv'
<1>1. DOMAIN search = SearchFields /\ search.phase = "rank"
  BY DEF SearchInv, SearchFits, RankPool
<1>2. /\ search'.gone = search.gone /\ search'.vector = search.vector
      /\ search'.intent = search.intent /\ search'.evidence = search.evidence
      /\ search'.phase \in {"done", "answer"} /\ search'.claim = search.claim
      /\ search'.candidates \subseteq DOMAIN search.evidence
      /\ UNCHANGED vars
  BY <1>1 DEF RankPool, Goto, SearchFields
<1>3. EvidenceFits'
  BY <1>1, <1>2, BacksStill DEF BackedInv, EvidenceFits, vars
<1>4. PhasesFit' /\ ClaimFits'
  BY <1>1, <1>2 DEF BackedInv, PhasesFit, ClaimFits
<1>5. NumbersFit' /\ GoneFits'
  BY <1>2, SearchKeepsNumbers DEF BackedInv, vars
<1> QED
  BY <1>3, <1>4, <1>5 DEF BackedInv

\* The check of the answer holds a claim to the evidence of its candidate.
LEMMA AnswerKeepsBacked ==
    ASSUME SearchInv, BackedInv, Answer
    PROVE  BackedInv'
<1>1. DOMAIN search = SearchFields /\ search.phase = "answer"
  BY DEF SearchInv, SearchFits, Answer
<1>2. PICK p \in People, ids \in SUBSET (People \X (1..MaxChunks)) :
        LET claim == [candidate |-> p, ids |-> ids]
        IN  Goto("done", [search EXCEPT !.claim = IF Valid(claim) THEN claim
                                                  ELSE NoClaim])
  BY DEF Answer
<1> DEFINE claim == [candidate |-> p, ids |-> ids]
<1>3. /\ search'.gone = search.gone /\ search'.vector = search.vector
      /\ search'.intent = search.intent /\ search'.phase = "done"
      /\ search'.candidates = search.candidates
      /\ search'.claim = IF Valid(claim) THEN claim ELSE NoClaim
      /\ UNCHANGED vars
  BY <1>1, <1>2 DEF Goto, SearchFields
<1>4. EvidenceFits' /\ PhasesFit'
  BY <1>3 DEF BackedInv, EvidenceFits, PhasesFit
<1>5. CASE Valid(claim)
  <2>1. /\ p \in search.candidates /\ search.candidates \subseteq DOMAIN search.evidence
        /\ ids \subseteq search.evidence[p]
    BY <1>1, <1>5 DEF Valid, BackedInv, PhasesFit
  <2>2. \A c \in ids : Backs(c, p)
    BY <1>1, <2>1 DEF BackedInv, EvidenceFits
  <2>3. \A c \in ids : Backs(c, p)'
    BY <1>3, <2>2, BacksStill DEF vars
  <2>4. search'.claim.candidate = p /\ search'.claim.ids = ids
    BY <1>3, <1>5
  <2>5. ClaimFits'
    BY <1>3, <2>1, <2>3, <2>4 DEF ClaimFits, Backs, Connected
  <2> QED
    BY <2>5, <1>3, <1>4, SearchKeepsNumbers DEF BackedInv, vars
<1>6. CASE ~Valid(claim)
  <2>1. search'.claim = NoClaim
    BY <1>3, <1>6
  <2>2. ClaimFits'
    BY <2>1 DEF ClaimFits, NoClaim
  <2> QED
    BY <2>2, <1>3, <1>4, SearchKeepsNumbers DEF BackedInv, vars
<1> QED
  BY <1>5, <1>6

LEMMA RaisingKeepsBacked ==
    ASSUME SearchInv, BackedInv, SearchRaises
    PROVE  BackedInv'
<1>1. DOMAIN search = SearchFields /\ search.phase \notin {"idle", "done"}
  BY DEF SearchInv, SearchFits, SearchRaises
<1>2. /\ search'.gone = search.gone /\ search'.vector = search.vector
      /\ search'.phase = "done" /\ search'.claim = search.claim
      /\ UNCHANGED postgres
  BY <1>1 DEF SearchRaises, SearchFields
<1>3. EvidenceFits' /\ PhasesFit' /\ ClaimFits'
  BY <1>1, <1>2 DEF BackedInv, EvidenceFits, PhasesFit, ClaimFits
<1> QED
  BY <1>2, <1>3, SearchKeepsNumbers DEF BackedInv

LEMMA BackedKeeps ==
    SearchInv /\ BackedInv /\ [SearchNext]_<<vars, search>> => BackedInv'
<1> SUFFICES ASSUME SearchInv, BackedInv, [SearchNext]_<<vars, search>>
             PROVE  BackedInv'
  OBVIOUS
<1>1. CASE SearchStep
  BY <1>1, FilterKeepsBacked, VectorKeepsBacked, GraphKeepsBacked,
     ReadKeepsBacked, PathsKeepBacked, RankKeepsBacked, AnswerKeepsBacked,
     RaisingKeepsBacked DEF SearchStep
<1> QED
  BY <1>1, OthersKeepBacked DEF SearchNext

\* An answer cites no chunk that was gone when its search began, and nobody's
\* but its candidate's and, after a graph search, those of people to whom the
\* candidate is connected, in PostgreSQL and not only in the graph, by a path on
\* which a name contains a term of the query (EvidenceAnswerGenerator._validate,
\* app/generation/evidence.py, HybridRetriever._relevant_paths).
THEOREM ClaimsCiteTheirOwn == SearchSpec => []ClaimsAreBacked
<1>1. BackedInv => ClaimsAreBacked
  BY ClaimIsBacked DEF BackedInv
<1> QED
  BY <1>1, SearchBegins, SearchNextKeeps, BackedBegins, BackedKeeps, PTL
     DEF SearchSpec
=============================================================================
