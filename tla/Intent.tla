------------------------------- MODULE Intent -------------------------------
(***************************************************************************)
(* What a free-form query is turned into: IntentParser.parse               *)
(* (app/retrieval/intent.py), which asks the language model, grounds its    *)
(* answer in the corpus (metadata_grounding.py) and adds what rules find in *)
(* the text (query_understanding.py).                                      *)
(*                                                                         *)
(* A text is what the rules find in it: the names it contains, those that   *)
(* have an alias in it and those that a phrase of it resembles; the cities  *)
(* of enrichment's own table; a few terms ("ai" is any that is expanded);   *)
(* and the numbers of the four age patterns. An optional number is a set of *)
(* at most one.                                                             *)
(***************************************************************************)
EXTENDS Integers, FiniteSets

CONSTANTS
    Corpus,     \* kind of name -> the names the database has of it
    Limits,     \* kind of name -> how many of them SearchVocabulary takes
    MLOps, MachineLearning, Python, MTS  \* the names the rules know

Kinds == {"country", "city", "company", "skill", "technology", "domain"}

ASSUME VocabularyTypes ==
    /\ DOMAIN Corpus = Kinds
    /\ Limits \in [Kinds -> Nat]
    /\ \A kind \in Kinds : IsFiniteSet(Corpus[kind])

\* SELECT DISTINCT ... LIMIT, in any order.
Listed(kind) ==
    {S \in SUBSET Corpus[kind] :
        \/ S = Corpus[kind] /\ Cardinality(S) <= Limits[kind]
        \/ Cardinality(S) = Limits[kind]}

\* SearchVocabulary
Vocabularies ==
    [country: Listed("country"), city: Listed("city"),
     company: Listed("company"), skill: Listed("skill"),
     technology: Listed("technology"), domain: Listed("domain")]

\* A query: the names it contains ("ai" of "retail", too), has an alias of, or
\* resembles by 0.82; the cities of the table, the terms, and the numbers of
\* "older than", "from", "younger than" and "up to ... years".
Query(names, aliased, similar, cities, terms, older, from, younger, upTo) ==
    [names |-> names, aliased |-> aliased, similar |-> similar,
     cities |-> cities, terms |-> terms,
     older |-> older, from |-> from, younger |-> younger, upTo |-> upTo]

IsQuery(query) ==
    /\ \A S \in {query.cities, query.older, query.from, query.younger, query.upTo} :
          IsFiniteSet(S)
    /\ query.older \cup query.from \cup query.younger \cup query.upTo \subseteq Nat

\* CandidateSearchIntent. Cities stands for location.city and .cities, liked
\* for the preferred skills, technologies and domains, by kind.
NoIntent ==
    [role |-> {}, seniority |-> {}, country |-> {}, cities |-> {},
     years |-> {}, minAge |-> {}, maxAge |-> {},
     skills |-> {}, technologies |-> {}, domains |-> {},
     companies |-> {}, projects |-> {}, liked |-> {}]

IsIntent(intent) ==
    /\ DOMAIN intent = DOMAIN NoIntent
    /\ \A field \in DOMAIN intent : IsFiniteSet(intent[field])
    /\ \E n \in intent.years \cup {0} : intent.years \subseteq {n}

\* model_validate_json: the ranges of the fields.
Validates(answer) ==
    /\ answer.years \subseteq Nat
    /\ answer.minAge \cup answer.maxAge \subseteq 14..100

\* What counts as said: only cities and companies have aliases here.
Mentions(query, kind) ==
    query.names \cup query.similar
        \cup IF kind \in {"city", "company"} THEN query.aliased ELSE {}

\* _detect_in_query
Detected(query, vocabulary, kind) == Mentions(query, kind) \cap vocabulary[kind]

\* Mutant of Required: a name is only looked up in the corpus.
RequiredInCorpus(names, query, vocabulary, kind) == names \cap vocabulary[kind]

\* _intersection of what the model requires with what the query says.
Required(names, query, vocabulary, kind) ==
    names \cap Detected(query, vocabulary, kind)

\* ground_intent_to_corpus: places and companies are those found in the query,
\* whatever the model answered; projects and numbers are the model's. Of
\* several countries the first in the vocabulary counts.
Grounded(query, answer, vocabulary) ==
    LET countries == Detected(query, vocabulary, "country")
    IN  {[answer EXCEPT
            !.country = country,
            !.cities = Detected(query, vocabulary, "city"),
            !.companies = Detected(query, vocabulary, "company"),
            !.skills = Required(@, query, vocabulary, "skill"),
            !.technologies = Required(@, query, vocabulary, "technology"),
            !.domains = Required(@, query, vocabulary, "domain")] :
         country \in IF countries = {} THEN {{}} ELSE {{c} : c \in countries}}

MentionsAge(query) ==
    query.older \cup query.younger # {} \/ "age" \in query.terms

\* Mutant of Enriched: the alias table completes only an empty location.
EnrichedIfEmpty(query, intent) ==
    [intent EXCEPT
       !.cities = IF @ = {} /\ intent.country = {} THEN query.cities ELSE @]

\* _MLOPS_TERMS: whoever asks for an ML engineer is taken to ask for MLOps.
WantsMLOps(query) == query.terms \cap {"mlops", "ml engineer"} # {}

\* enrich_free_form_intent
Enriched(query, intent) ==
    LET has(term) == term \in query.terms
        If(condition, S) == IF condition THEN S ELSE {}
        First(S, T) == IF S # {} THEN S ELSE T
    IN  [intent EXCEPT
           !.cities = @ \cup query.cities,
           !.skills = @ \cup If(WantsMLOps(query), {MLOps})
                        \cup If(has("python"), {Python}),
           !.technologies = @ \ If(WantsMLOps(query), {MLOps}),
           !.companies = @ \cup If(has("mts"), {MTS}),
           !.liked = @ \cup If(has("ai"), {"technology"} \X
                                          {MachineLearning, MLOps})
                       \cup If(WantsMLOps(query), {<<"skill", MachineLearning>>}),
           !.years = IF MentionsAge(query) THEN {} ELSE @,
           !.minAge = First({n + 1 : n \in query.older},
                            First(query.from, @)),
           !.maxAge = First({n - 1 : n \in query.younger},
                            First(query.upTo, @))]

\* IntentParser.parse, after a valid answer.
Parsed(query, answer, vocabulary) ==
    {Enriched(query, intent) : intent \in Grounded(query, answer, vocabulary)}

\* TeamBuilderAgent._intent takes the fields of a role as they are, and
\* QueryPlanner.plan looks whether any of these constrains the result.
Hard(intent) ==
    \E field \in {"country", "cities", "years", "minAge", "maxAge", "skills",
                  "technologies", "domains", "companies", "projects"} :
        intent[field] # {}
=============================================================================
