------------------------------- MODULE Ranking -------------------------------
(***************************************************************************)
(* Who satisfies an intent, and in which order: the WHERE clause of         *)
(* filter_ids (app/repositories/search.py), CompositeRanker                 *)
(* (app/ranking/scoring.py) and LLMReranker (app/ranking/reranker.py).      *)
(*                                                                         *)
(* Numbers between 0 and 1 are multiples of 1/Unit, rounded down; a score   *)
(* is in 1/(Unit * the sum of the weights), and names are compared after    *)
(* normalize_name.                                                         *)
(***************************************************************************)
EXTENDS Intent, SequencesExt

CONSTANTS
    People,     \* candidates, numbered in the order of their ids
    Profile,    \* person -> what CandidateProfile has of them: sets, and a name
    Canonical,  \* alias or name -> canonical name
    Spellings,  \* city -> the locations that contain one of its search terms
    Unit,
    Weight,     \* RankingWeights, by criterion
    TopN        \* top_n of the reranker

\* What is in the database has its canonical name.
ASSUME StoredNamesAreCanonical ==
    \A n \in Corpus["company"] \cup Corpus["domain"] \cup {MTS} : Canonical[n] = n

Criteria == {"semantic", "skills", "domains", "experience", "graph",
             "location", "preference"}

ASSUME RankingTypes ==
    /\ IsFiniteSet(People) /\ People \subseteq Nat
    /\ DOMAIN Profile = People
    /\ \A p \in People :
          /\ Profile[p].name \in Nat /\ Profile[p].years \cup Profile[p].age \subseteq Nat
          /\ \E n \in Profile[p].years \cup {0} : Profile[p].years \subseteq {n}
    /\ Unit \in Nat \ {0} /\ TopN \in Nat
    /\ Weight \in [Criteria -> Nat]
    /\ \E c \in Criteria : Weight[c] > 0   \* validate_total

\* _canonical_names and _normalized_names, which do the same.
CanonicalNames(names) == {Canonical[n] : n \in names}

Competencies(p) == CanonicalNames(Profile[p].skills \cup Profile[p].technologies)

\* The WHERE clause of filter_ids; a comparison with NULL is not true.
Satisfies(p, intent) ==
    LET x == Profile[p]
    IN  /\ intent.country \subseteq x.country
        /\ intent.cities # {} =>
              x.city \cap UNION {Spellings[c] : c \in intent.cities} # {}
        /\ \A y \in intent.years : \E z \in x.years : z >= y
        /\ \A y \in intent.minAge : \E z \in x.age : z >= y
        /\ \A y \in intent.maxAge : \E z \in x.age : z <= y
        /\ CanonicalNames(intent.skills \cup intent.technologies)
              \subseteq Competencies(p)
        /\ CanonicalNames(intent.domains) \subseteq x.domains
        /\ CanonicalNames(intent.companies) \subseteq x.companies
        /\ CanonicalNames(intent.projects) \subseteq x.projects

-----------------------------------------------------------------------------
(* Scores. Evidence is a set of [source, chunk, words, score], a path is    *)
(* [person, nodes, ids, score].                                             *)

Share(matched, requested) ==
    IF requested = {} THEN 0
    ELSE (Unit * Cardinality(matched)) \div Cardinality(requested)

Best(numbers) == Max(numbers \cup {0})

\* The mean of up to three numbers, each in a set of at most one.
Mean(r, s, t) ==
    LET n == Cardinality(r) + Cardinality(s) + Cardinality(t)
    IN  IF n = 0 THEN 0 ELSE (Best(r) + Best(s) + Best(t)) \div n

\* _match_ratio of <<kind, name>> pairs, canonical.
Ratio(requested, actual) ==
    Share({r \in requested : Canonical[r[2]] \in actual}, requested)

\* _experience_score
Experience(p, intent) ==
    LET x == Profile[p]
        has == Best(x.years)
    IN  Mean(IF intent.role = {} THEN {}
             ELSE {Share(intent.role \cap x.title, intent.role)},
             {IF s \in x.title THEN Unit ELSE 0 : s \in intent.seniority},
             {IF y = 0 \/ has >= y THEN Unit ELSE (Unit * has) \div y :
              y \in intent.years})

\* _location_score: the city as it is written.
Located(p, intent) ==
    LET x == Profile[p]
        Given(requested, has) ==
            IF requested = {} THEN {}
            ELSE {IF requested \cap has # {} THEN Unit ELSE 0}
    IN  Mean(Given(intent.country, x.country), Given(intent.cities, x.city), {})

Breakdown(p, intent, evidence, paths) ==
    [semantic |-> Best({e.score : e \in {e \in evidence :
                                            e.source = "vector"}}),
     skills |-> Ratio(({"skill"} \X intent.skills)
                         \cup ({"technology"} \X intent.technologies),
                      Competencies(p)),
     domains |-> Share(intent.domains \cap Profile[p].domains, intent.domains),
     experience |-> Experience(p, intent),
     graph |-> Best({path.score : path \in paths}),
     location |-> Located(p, intent),
     preference |-> Ratio(intent.liked,
                          Competencies(p) \cup
                          CanonicalNames(Profile[p].domains))]

Weighted(parts) ==
    Weight["semantic"] * parts.semantic + Weight["skills"] * parts.skills
    + Weight["domains"] * parts.domains + Weight["experience"] * parts.experience
    + Weight["graph"] * parts.graph + Weight["location"] * parts.location
    + Weight["preference"] * parts.preference

\* _reasons: what the evidence mentions, and the first paths that have any.
Reasons(intent, evidence, first) ==
    LET Supporting(name) ==
            {e.chunk : e \in {e \in evidence : name \in e.words}}
        required == intent.skills \cup intent.technologies \cup intent.domains
    IN  {reason \in {[claim |-> {n}, ids |-> Supporting(n)] : n \in required}
                    \cup {[claim |-> q.nodes, ids |-> q.ids] : q \in first} :
            reason.ids # {}}

\* _match, for one person with all the evidence and paths of the search.
Match(p, intent, evidence, paths) ==
    LET own == {i \in DOMAIN paths : paths[i].person = p}
        first == {i \in own : Cardinality({j \in own : j < i}) < 2}
        parts == Breakdown(p, intent, evidence[p], {paths[i] : i \in own})
    IN  [person |-> p,
         score |-> Weighted(parts),
         evidence |-> evidence[p],
         reasons |-> Reasons(intent, evidence[p], {paths[i] : i \in first})]

\* The sort key of rank and of the end of search.
Before(m, n) ==
    \/ m.score > n.score
    \/ /\ m.score = n.score
       /\ \/ Profile[m.person].name < Profile[n.person].name
          \/ /\ Profile[m.person].name = Profile[n.person].name
             /\ m.person < n.person

\* The elements of a finite set S in the order of Ahead, a strict total order.
Arranged(S, Ahead(_, _)) ==
    CHOOSE s \in SetToSeqs(S) :
        \A i, j \in DOMAIN s : i < j => Ahead(s[i], s[j])

Sorted(matches) == Arranged(matches, Before)

FirstN(list, n) == SubSeq(list, 1, IF n < Len(list) THEN n ELSE Len(list))

\* CompositeRanker.rank
Ranked(pool, intent, evidence, paths, limit) ==
    FirstN(Sorted({Match(p, intent, evidence, paths) : p \in pool}), limit)

\* LLMReranker.rerank: those of the head that the model names, in its order,
\* then all others as they were.
Reranked(list, answer) ==
    LET Named(i) == {k \in DOMAIN answer : i <= TopN /\ answer[k] = list[i].person}
        Ahead(i, j) ==
            \/ \E k \in Named(i) : \A l \in Named(j) : k < l
            \/ Named(i) = {} /\ Named(j) = {} /\ i < j
        order == Arranged(DOMAIN list, Ahead)
    IN  [i \in DOMAIN list |-> list[order[i]]]
=============================================================================
