------------------------------- MODULE Finder -------------------------------
(***************************************************************************)
(* One search from the query to the ordered result: IntentParser.parse,     *)
(* HybridRetriever.search (app/retrieval/hybrid.py) and the calls it makes, *)
(* on a corpus that does not change (Search is about one that does).        *)
(***************************************************************************)
EXTENDS Ranking

CONSTANTS
    Queries,       \* what may be asked
    Answers,       \* what the language model may make of it
    Rankings,      \* what it may answer to the reranker: sequences of ids
    Similarities,  \* of a chunk and a query, in 1/Unit
    Resume,        \* person -> sequence of chunks, each a set of words
    Paths,         \* walks in the graph: [person, nodes, ids, score]
    DomainsOf,     \* company or project -> its domains in the graph
    NamesWith,     \* NamesWith[t]: the nodes, of people too, whose names
                   \* contain the term t
    MinScore,      \* minimum_score
    PoolSize, VectorLimit, GraphLimit, EvidenceLimit

ASSUME FinderTypes ==
    /\ DOMAIN Resume = People
    /\ \A query \in Queries : IsQuery(query)
    /\ \A answer \in Answers : IsIntent(answer)
    /\ Rankings \subseteq Seq(Nat)
    /\ Similarities \subseteq 0..Unit /\ MinScore \in Nat
    /\ {PoolSize, VectorLimit, GraphLimit, EvidenceLimit} \subseteq Nat \ {0}
    /\ \A path \in Paths : path.person \in People /\ path.score \in 0..Unit

VARIABLES
    asked,  \* the query of a search request
    call    \* the state of HybridRetriever.search, and of the parser before it

-----------------------------------------------------------------------------
GraphTerms(intent) == intent.domains \cup intent.companies \cup intent.projects

UsesGraph(intent) == GraphTerms(intent) # {}

\* Mutant of GraphMatches: a domain counts only as that of an employer.
GraphMatchesEmployers(p, intent) ==
    LET x == Profile[p]
    IN  /\ intent.companies \subseteq x.companies
        /\ intent.projects \subseteq x.projects
        /\ intent.domains \subseteq UNION {DomainsOf[c] : c \in x.companies}

\* _SEARCH_QUERY, in a graph that is up to date. Unlike in filter_ids an alias
\* is not made canonical, and so the name of no node.
GraphMatches(p, intent) ==
    LET x == Profile[p]
    IN  /\ intent.companies \subseteq x.companies
        /\ intent.projects \subseteq x.projects
        /\ intent.domains \subseteq
              x.domains \cup UNION {DomainsOf[c] : c \in x.companies \cup x.projects}

\* ORDER BY id LIMIT.
FirstOf(S, limit) == {p \in S : Cardinality({q \in S : q < p}) < limit}

CandidatePool(intent, structured, vector, graph) ==
    IF Hard(intent) /\ structured # {}
    THEN IF UsesGraph(intent) THEN structured \cap graph ELSE structured
    ELSE IF vector # {} THEN vector
    ELSE IF UsesGraph(intent) THEN graph
    ELSE structured

ChunksOf(p) == {p} \X DOMAIN Resume[p]

Evidence(source, chunk, words, score) ==
    [source |-> source, chunk |-> chunk, words |-> words, score |-> score]

ChunkEvidence(source, chunk, score) ==
    Evidence(source, chunk, Resume[chunk[1]][chunk[2]], score)

\* SqlAlchemyStructuredSearchRepository.evidence
FirstChunks(p) ==
    {ChunkEvidence("structured", c, Unit) :
     c \in {c \in ChunksOf(p) : c[2] <= EvidenceLimit}}

\* _relevant_paths; without terms, all of them.
Relevant(intent, paths) ==
    {path \in paths :
        \/ GraphTerms(intent) = {}
        \/ \E t \in GraphTerms(intent) : path.nodes \cap NamesWith[t] # {}}

\* The ids along the paths of a person, each as the first path gives it.
PathEvidence(p, paths) ==
    UNION {{Evidence("graph", id, paths[i].nodes, paths[i].score) :
            id \in paths[i].ids \ UNION {paths[j].ids :
                     j \in {j \in 1..(i - 1) : paths[j].person = p}}} :
           i \in {i \in DOMAIN paths : paths[i].person = p}}

\* The end of search. Mutant: the reranker's order stays.
VisibleAsReranked(intent, list, limit) ==
    FirstN(SelectSeq(list,
                     LAMBDA m : Hard(intent) \/ m.score >= MinScore), limit)

\* Filtered first and sorted then, which is the same.
Visible(intent, list, limit) ==
    FirstN(Sorted({m \in Range(list) : Hard(intent) \/ m.score >= MinScore}), limit)

-----------------------------------------------------------------------------
Nothing == [p \in People |-> {}]

Called(phase, intent, limit) ==
    [phase |-> phase, intent |-> intent, limit |-> limit, structured |-> {},
     near |-> Nothing, graph |-> {}, paths |-> <<>>, evidence |-> Nothing,
     ranked |-> <<>>, result |-> <<>>]

Idle == Called("idle", NoIntent, 0)

FinderInit == asked = {} /\ call = Idle

Goto(phase, next) ==
    /\ call' = [next EXCEPT !.phase = phase]
    /\ UNCHANGED asked

\* POST /search
Ask(query, limit) ==
    /\ call.phase = "idle" /\ asked = {}
    /\ asked' = {query}
    /\ call' = Called("parse", NoIntent, limit)

\* IntentParser.parse: an answer that does not validate raises.
Parse ==
    /\ call.phase = "parse"
    /\ \E query \in asked, answer \in Answers, vocabulary \in Vocabularies :
          IF Validates(answer)
          THEN \E intent \in Parsed(query, answer, vocabulary) :
                  Goto("filter", [call EXCEPT !.intent = intent])
          ELSE Goto("failed", call)

FilterIds ==
    /\ call.phase = "filter"
    /\ LET ids == FirstOf({p \in People : Satisfies(p, call.intent)}, PoolSize)
       IN  Goto(IF Hard(call.intent) /\ ids = {} THEN "done" ELSE "vector",
                [call EXCEPT !.structured = ids])

\* The nearest chunks, by an approximate index; the intent has a query text.
VectorSearch ==
    /\ call.phase = "vector"
    /\ LET among == IF Hard(call.intent) THEN call.structured ELSE People
       IN  \E found \in SUBSET UNION {ChunksOf(p) : p \in among} :
              /\ Cardinality(found) <= VectorLimit
              /\ \E score \in [found -> Similarities] :
                    Goto(IF UsesGraph(call.intent) THEN "graph" ELSE "evidence",
                         [call EXCEPT !.near = [p \in People |->
                            {ChunkEvidence("vector", c, score[c]) :
                             c \in found \cap ChunksOf(p)}]])

GraphSearchIds ==
    /\ call.phase = "graph"
    /\ LET ids == FirstOf({p \in People : GraphMatches(p, call.intent)},
                          GraphLimit)
       IN  Goto("evidence", [call EXCEPT !.graph = ids])

Pool == CandidatePool(call.intent, call.structured,
                      {p \in People : call.near[p] # {}}, call.graph)

ReadPool ==
    /\ call.phase = "evidence"
    /\ Goto(IF UsesGraph(call.intent) /\ Pool # {} THEN "paths" ELSE "rank",
            [call EXCEPT !.evidence = [p \in People |->
               IF p \in Pool THEN FirstChunks(p) \cup call.near[p] ELSE {}]])

\* Neo4jGraphRepository.paths: LIMIT without an order.
ReadPaths ==
    /\ call.phase = "paths"
    /\ LET among == {path \in Paths : path.person \in Pool}
           n == Min({GraphLimit, Cardinality(among)})
       IN  \E chosen \in kSubset(n, among) :
              \E paths \in SetToSeqs(Relevant(call.intent, chosen)) :
                 Goto("rank",
                      [call EXCEPT !.paths = paths,
                         !.evidence = [p \in People |->
                            @[p] \cup PathEvidence(p, paths)]])

RankPool ==
    /\ call.phase = "rank"
    /\ Goto("rerank",
            [call EXCEPT !.ranked = Ranked(Pool, call.intent, call.evidence,
                                           call.paths, call.limit)])

\* A head of one is not worth a call.
Rerank ==
    /\ call.phase = "rerank"
    /\ \E answer \in IF Len(FirstN(call.ranked, TopN)) < 2 THEN {<<>>}
                     ELSE Rankings :
          Goto("done",
               [call EXCEPT !.result = Visible(call.intent,
                                               Reranked(call.ranked, answer),
                                               call.limit)])

\* A database or a model raises.
CallRaises ==
    /\ call.phase \notin {"idle", "done", "failed"}
    /\ Goto("failed", call)

FinderStep ==
    \/ Parse \/ FilterIds \/ VectorSearch \/ GraphSearchIds \/ ReadPool
    \/ ReadPaths \/ RankPool \/ Rerank \/ CallRaises

-----------------------------------------------------------------------------
(* Properties *)

\* What a query mentions of the names that the database has of a kind.
Said(query, kind) == Mentions(query, kind) \cap Corpus[kind]

\* Whatever the language model answers, an age, company or city that the rules
\* find in a query is never relaxed: everybody returned satisfies it ("makes an
\* explicit city constraint deterministic", query_understanding.py:20-22). A
\* city may also be one of the other cities that the query names.
StatedLimitsHold ==
    \A query \in asked : \A m \in Range(call.result) :
        LET x == Profile[m.person]
            cities == query.cities \cup Said(query, "city")
        IN  /\ \A n \in query.older : \E a \in x.age : a > n
            /\ \A n \in query.younger : \E a \in x.age : a < n
            /\ query.older = {} =>
                  \A n \in query.from : \E a \in x.age : a >= n
            /\ query.younger = {} =>
                  \A n \in query.upTo : \E a \in x.age : a <= n
            /\ "mts" \in query.terms => MTS \in x.companies
            /\ query.cities # {} =>
                  \E c \in cities : x.city \cap Spellings[c] # {}

\* Who has everything that the query says, as the code reads it: names that it
\* contains, resembles or has an alias of, and what the rules add, of which one
\* takes a wish for an ML engineer for one for MLOps (query_understanding.py:58,
\* 93-101, test_query_planner.py:41-47, although line 67 says "without turning
\* an inference into a hard filter").
HasAllThatIsSaid(p, query) ==
    LET x == Profile[p]
        If(condition, S) == IF condition THEN S ELSE {}
    IN  /\ Said(query, "country") \subseteq x.country
        /\ \A c \in Said(query, "city") \cup query.cities : x.city \cap Spellings[c] # {}
        /\ Said(query, "company") \cup If("mts" \in query.terms, {MTS})
              \subseteq x.companies
        /\ CanonicalNames(Said(query, "skill") \cup Said(query, "technology")
                             \cup If(WantsMLOps(query), {MLOps})
                             \cup If("python" \in query.terms, {Python}))
              \subseteq Competencies(p)
        /\ Said(query, "domain") \subseteq x.domains
        /\ \A n \in query.older : \E a \in x.age : a > n
        /\ \A n \in query.younger : \E a \in x.age : a < n
        /\ \A n \in query.from : \E a \in x.age : a >= n
        /\ \A n \in query.upTo : \E a \in x.age : a <= n

\* "Use only constraints explicitly stated by the user" (intent.py:43), although
\* the model may state others: whoever has everything that the query says
\* satisfies the filters in SQL, whatever places, companies, skills, technologies
\* and domains the model invents and however the vocabulary is cut. What it
\* invents of projects, years and, where the query has no number, ages is
\* applied (metadata_grounding.py:64-78).
InventionsExcludeNobody ==
    \A query \in asked, p \in People :
        HasAllThatIsSaid(p, query) =>
            Satisfies(p, [call.intent EXCEPT
                            !.projects = {}, !.years = {},
                            !.minAge = IF query.older \cup query.from = {}
                                       THEN {} ELSE @,
                            !.maxAge = IF query.younger \cup query.upTo = {}
                                       THEN {} ELSE @])

\* Whatever the reranker answers - unknown ids, repeated ones, none - the result
\* is the best of the pool in the order of the composite score, of everyone but,
\* without hard filters, those below the minimum score.
RerankerChangesNothing ==
    call.phase = "done" =>
        LET all == {Match(p, call.intent, call.evidence, call.paths) : p \in Pool}
            good == {m \in all : Hard(call.intent) \/ m.score >= MinScore}
        IN  call.result = FirstN(Sorted(good), call.limit)

\* The terms of an intent that are not checked against the database: those of a
\* role of a team, and the projects that a model's answer names.
Ungrounded(intent) ==
    intent.projects \cup IF asked = {} THEN intent.domains \cup intent.companies
                         ELSE {}

\* Nobody who satisfies hard filters is missing from the pool unless a list of
\* ids is full, although the two lists are cut apart, the graph's by its own,
\* wider idea of a domain; or unless an alias gets through to the graph's query,
\* which does not know aliases (neo4j.py:181-183) as the one in SQL does
\* (search.py:149-151). None does of a domain or company in a free-form query.
OnlyFullListsLose ==
    call.phase \in {"evidence", "paths", "rank", "rerank"} /\ Hard(call.intent) =>
        \/ {p \in People : Satisfies(p, call.intent)} \subseteq Pool
        \/ Cardinality(call.structured) = PoolSize
        \/ UsesGraph(call.intent) /\ Cardinality(call.graph) = GraphLimit
        \/ \E n \in Ungrounded(call.intent) : Canonical[n] # n
=============================================================================
