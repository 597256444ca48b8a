------------------------------- MODULE Search -------------------------------
(***************************************************************************)
(* A search while the graph is being synchronised: HybridRetriever.search   *)
(* (app/retrieval/hybrid.py) and the check of the generated answer          *)
(* (app/generation/evidence.py), composed with GraphSync.                   *)
(*                                                                          *)
(* A search reads PostgreSQL three times and Neo4j twice, in transactions   *)
(* of their own, and language and embedding models in between. What it      *)
(* combines was true at different moments, and the graph is as old as the   *)
(* last synchronisation.                                                    *)
(***************************************************************************)
EXTENDS GraphSync

CONSTANTS
    Intents,       \* what a query may be parsed to, see HasHardFilters
    PoolSize,      \* candidate_pool_size
    VectorLimit,   \* vector_limit
    GraphLimit,    \* graph_limit
    EvidenceLimit, \* chunks that evidence() returns for a person
    MaxHops,       \* max_graph_hops
    Limit,         \* limit of the request
    Canonical,     \* Canonical[t]: the name under which a term is stored
    NamesWith      \* NamesWith[t]: the nodes, of people too, whose names
                   \* contain the term t

ASSUME SearchConstantTypes ==
    /\ {PoolSize, VectorLimit, GraphLimit, EvidenceLimit, Limit} \subseteq Nat \ {0}
    /\ MaxHops \in 1..3

VARIABLE search  \* the control state of the one search

-----------------------------------------------------------------------------
(* An intent names companies and domains, and the people that its other      *)
(* filters (location, years, skills) admit; semantic: it has a query text.   *)

HasHardFilters(i) == i.people # People \/ i.companies # {} \/ i.domains # {}

UsesGraph(i) == i.companies # {} \/ i.domains # {}

Terms(i) == i.companies \cup i.domains

ASSUME TermsHaveNames ==
    \A t \in UNION {Terms(i) : i \in Intents} :
        t \in DOMAIN Canonical \cap DOMAIN NamesWith /\ t \in NamesWith[t]

\* The WHERE clause of filter_ids: an alias stands for the name it has in the
\* database.
Satisfies(p, i, among) ==
    /\ p \in i.people
    /\ \A c \in i.companies : <<p, "WORKED_AT", Canonical[c]>> \in among
    /\ \A d \in i.domains : <<p, "SPECIALIZES_IN", Canonical[d]>> \in among

\* Mutant of GraphMatches: a domain counts only as that of a company.
GraphMatchesCompanies(p, i, among) ==
    /\ \A c \in i.companies : <<p, "WORKED_AT", c>> \in among
    /\ \A d \in i.domains : \E l \in among :
          /\ Source(l) = p /\ Kind(l) = "WORKED_AT"
          /\ <<Target(l), "OPERATES_IN", d>> \in among

\* _SEARCH_QUERY: a domain may also be that of a company or project. The terms
\* are normalized and no more, so that an alias is the name of no node.
GraphMatches(p, i, among) ==
    /\ \A c \in i.companies : <<p, "WORKED_AT", c>> \in among
    /\ \A d \in i.domains : \E l \in among :
          /\ Source(l) = p
          /\ \/ Kind(l) = "SPECIALIZES_IN" /\ Target(l) = d
             \/ /\ Kind(l) \in {"WORKED_AT", "WORKED_ON"}
                /\ \E k \in {"OPERATES_IN", "BELONGS_TO"} :
                      <<Target(l), k, d>> \in among

\* ORDER BY ... LIMIT of a set of numbers.
FirstOf(S, limit) == {x \in S : Cardinality({y \in S : y < x}) < limit}

FarEnd(l, node) == IF Source(l) = node THEN Target(l) ELSE Source(l)

\* The walks that go one relation further than w, along another one.
Longer(w, among) ==
    {[over |-> w.over \cup {l}, at |-> FarEnd(l, w.at),
      nodes |-> w.nodes \cup {FarEnd(l, w.at)}] :
     l \in {l \in among \ w.over : w.at \in {Source(l), Target(l)}}}

\* The walks of up to MaxHops relations from p, in either direction: the
\* relations, the nodes, and where each ends.
Walks(p, among) ==
    LET W[n \in 0..MaxHops] ==
            IF n = 0 THEN {[over |-> {}, at |-> p, nodes |-> {p}]}
            ELSE W[n - 1] \cup UNION {Longer(w, among) : w \in W[n - 1]}
    IN  W[MaxHops]

\* paths and _relevant_paths: the relations on walks by way of a node, be it a
\* person, whose name contains a term.
OnPaths(p, i, among) ==
    UNION {w.over : w \in {w \in Walks(p, among) :
                             \E t \in Terms(i) : w.nodes \cap NamesWith[t] # {}}}

\* Mutant of CandidatePool: the filters and the graph complete each other.
CandidatePoolWide(i, structured, vector, graph) ==
    IF UsesGraph(i) THEN structured \cup graph ELSE structured \cup vector

CandidatePool(i, structured, vector, graph) ==
    IF HasHardFilters(i)
    THEN IF UsesGraph(i) THEN structured \cap graph ELSE structured
    ELSE IF vector # {} THEN vector ELSE structured

\* Mutant of Valid: the evidence of any candidate is good for each of them.
ValidForAnybody(claim) ==
    /\ claim.candidate \in search.candidates
    /\ claim.ids # {}
    /\ claim.ids \subseteq UNION {search.evidence[p] : p \in search.candidates}

\* EvidenceAnswerGenerator._validate, for one claim.
Valid(claim) ==
    /\ claim.candidate \in search.candidates
    /\ claim.ids # {}
    /\ claim.ids \subseteq search.evidence[claim.candidate]

-----------------------------------------------------------------------------
NoClaim == [candidate |-> 0, ids |-> {}]

SearchInit ==
    /\ Init
    /\ search = [phase |-> "idle", intent |-> 0, structured |-> {},
                 vector |-> {}, graph |-> {}, evidence |-> <<>>,
                 candidates |-> {}, claim |-> NoClaim,
                 gone |-> {}]   \* history: chunks deleted before the search

Goto(phase, next) ==
    /\ search' = [next EXCEPT !.phase = phase]
    /\ UNCHANGED vars

\* Filters, if any, that nobody satisfies end the search.
FilterIds(i) ==
    /\ search.phase = "idle"
    /\ LET ids == FirstOf({p \in known : Satisfies(p, i, links)}, PoolSize)
           next == [search EXCEPT
                      !.intent = i, !.structured = ids,
                      !.gone = UNION {({p} \X (1..used[p])) \ chunks[p] :
                                      p \in People}]
       IN  Goto(IF HasHardFilters(i) /\ ids = {} THEN "done" ELSE "vector",
                next)

\* The nearest chunks, by an index that is approximate.
VectorSearch ==
    /\ search.phase = "vector"
    /\ LET i == search.intent
           people == IF HasHardFilters(i) THEN search.structured ELSE People
           near == IF i.semantic THEN UNION {chunks[p] : p \in people} ELSE {}
       IN  \E found \in SUBSET near :
              /\ Cardinality(found) <= VectorLimit
              /\ Goto(IF UsesGraph(i) THEN "graph" ELSE "evidence",
                      [search EXCEPT !.vector = found])

GraphSearchIds ==
    /\ search.phase = "graph"
    /\ LET matching == {p \in DOMAIN nodes :
                          GraphMatches(p, search.intent, DOMAIN edges)}
       IN  Goto("evidence",
                [search EXCEPT !.graph = FirstOf(matching, GraphLimit)])

Pool == CandidatePool(search.intent, search.structured,
                      {c[1] : c \in search.vector}, search.graph)

\* profiles and evidence; the vector evidence is added.
ReadPool ==
    /\ search.phase = "evidence"
    /\ LET First(p) == {c \in chunks[p] :
                          c[2] \in FirstOf({d[2] : d \in chunks[p]},
                                           EvidenceLimit)}
           Near(p) == {c \in search.vector : c[1] = p}
       IN  Goto(IF UsesGraph(search.intent) THEN "paths" ELSE "rank",
                [search EXCEPT
                   !.evidence = [p \in Pool |-> First(p) \cup Near(p)]])

\* paths (whose LIMIT is not modelled); their evidence ids become evidence of the person they start at.
ReadPaths ==
    /\ search.phase = "paths"
    /\ LET Found(p) == UNION {edges[l] : l \in OnPaths(p, search.intent,
                                                       DOMAIN edges)}
       IN  Goto("rank",
                [search EXCEPT
                   !.evidence = [p \in Pool |-> @[p] \cup Found(p)]])

\* Ranking, whatever the scores: the best of the pool, and without hard filters
\* only those above the minimum score.
RankPool ==
    /\ search.phase = "rank"
    /\ \E chosen \in SUBSET DOMAIN search.evidence :
          /\ Cardinality(chosen) <= Limit
          /\ HasHardFilters(search.intent) =>
                Cardinality(chosen) = Limit \/ chosen = DOMAIN search.evidence
          /\ Goto(IF chosen = {} THEN "done" ELSE "answer",
                  [search EXCEPT !.candidates = chosen])

\* The language model answers with a claim; it is dropped unless it is valid.
Answer ==
    /\ search.phase = "answer"
    /\ \E p \in People, ids \in SUBSET (People \X (1..MaxChunks)) :
          LET claim == [candidate |-> p, ids |-> ids]
          IN  Goto("done",
                   [search EXCEPT !.claim = IF Valid(claim) THEN claim
                                            ELSE NoClaim])

\* A database or a model raises.
SearchRaises ==
    /\ search.phase \notin {"idle", "done"}
    /\ budget.faults > 0
    /\ budget' = [budget EXCEPT !.faults = @ - 1]
    /\ search' = [search EXCEPT !.phase = "done", !.candidates = {}]
    /\ UNCHANGED <<postgres, neo4j, sync>>

SearchStep ==
    \/ \E i \in Intents : FilterIds(i)
    \/ VectorSearch \/ GraphSearchIds \/ ReadPool \/ ReadPaths
    \/ RankPool \/ Answer \/ SearchRaises

SearchNext ==
    \/ SearchStep
    \/ Next /\ UNCHANGED search

SearchSpec == SearchInit /\ [][SearchNext]_<<vars, search>>

-----------------------------------------------------------------------------
(* Properties *)

\* "An empty structured result must never fall back to an unrestricted semantic
\* search" (hybrid.py:79-81), nor does the graph, whose idea of a domain is
\* wider, bring anybody in: who is returned satisfies the filters in PostgreSQL.
FiltersHold ==
    \A p \in search.candidates : Satisfies(p, search.intent, links)

\* A claim that passes the check cites chunks of its own candidate that existed
\* at some moment of the search; after a graph search also chunks of people to
\* whom the candidate is connected, in PostgreSQL's data, by a path with a node
\* whose name contains a term of the query. That is less than it seems: "ai" is
\* contained in "retail", and the node may be a person (hybrid.py:217-221).
ClaimsAreBacked ==
    LET own == {<<search.claim.candidate, n>> : n \in 1..MaxChunks} \ search.gone
        path == OnPaths(search.claim.candidate, search.intent, links)
        people == {Source(l) : l \in path}
                    \cup UNION {Holders(Source(l), Kind(l), links) : l \in path}
    IN  search.claim # NoClaim =>
          /\ search.claim.candidate \in search.candidates
          /\ \A c \in search.claim.ids :
                \/ c \in own
                \/ UsesGraph(search.intent) /\ c[1] \in people

\* The names that the query uses are those of the database, none is an alias.
UsesStoredNames(i) == \A t \in Terms(i) : Canonical[t] = t

\* A graph that is up to date loses nobody whom PostgreSQL has found, although
\* the two filters are written in two languages over two models of the data,
\* and the one in PostgreSQL was evaluated earlier. This is so for queries that
\* use the stored names: an alias ("gnn", "aws") is made canonical for
\* PostgreSQL (search.py:149-153) and not for Neo4j (neo4j.py:181-183), whose
\* nodes have canonical names, so that a query with one loses everybody.
GraphLosesNobody ==
    [][GraphSearchIds /\ UsesStoredNames(search.intent)
                      /\ links \subseteq DOMAIN edges
                      /\ Cardinality(known) <= GraphLimit
       => search.structured \subseteq search'.graph]_<<vars, search>>

\* "FACT requires existing candidate id and chunk evidence ids" (README.md:300).
ClaimsCiteExistingChunks == search.claim.ids \cap search.gone = {}
=============================================================================
