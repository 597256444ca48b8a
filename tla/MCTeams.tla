------------------------------- MODULE MCTeams -------------------------------
(***************************************************************************)
(* Instances of Teams for TLC: three people, of whom person 2 is in fintech *)
(* only by way of an employer, and has told nobody an age.                  *)
(***************************************************************************)
EXTENDS Teams

CONSTANTS germany, poland, berlin, warsaw, bank, shop, fintech, kafka, k8s,
          payments, ft, store

MCPeople == 1..3

Person(name, country, city, years, age, title, skills, technologies, domains,
       companies, projects) ==
    [name |-> name, country |-> {country}, city |-> {city}, years |-> years,
     age |-> age, title |-> title, skills |-> skills,
     technologies |-> technologies, domains |-> domains,
     companies |-> companies, projects |-> projects]

MCProfile ==
    <<Person(2, germany, berlin, {5}, {30}, {"engineer"}, {Python}, {MLOps},
             {fintech}, {bank}, {}),
      Person(1, poland, warsaw, {2}, {}, {"junior", "engineer"}, {MLOps},
             {kafka}, {}, {bank}, {shop}),
      Person(1, germany, berlin, {8}, {45}, {}, {Python, MLOps}, {}, {fintech},
             {MTS}, {})>>

MCCorpus ==
    [country |-> {germany, poland}, city |-> {berlin, warsaw},
     company |-> {bank, MTS}, skill |-> {Python, MLOps},
     technology |-> {MLOps, kafka}, domain |-> {fintech}]

\* One city more than the vocabulary has room for.
MCLimits == [kind \in {"country", "city", "company", "skill", "technology",
                       "domain"} |-> IF kind = "city" THEN 1 ELSE 3]

\* k8s, ft and store are aliases here.
MCCanonical ==
    [n \in {Python, MLOps, MachineLearning, kafka, k8s, fintech, ft, bank, MTS,
            shop, store} |->
        IF n = k8s THEN kafka ELSE IF n = ft THEN fintech
        ELSE IF n = store THEN shop ELSE n]

MCSpellings == [c \in {berlin, warsaw} |-> {c}]

MCWeight == [semantic |-> 6, skills |-> 5, domains |-> 3, experience |-> 2,
             graph |-> 2, location |-> 1, preference |-> 1]

MCResume == <<<<{Python, payments}, {fintech}>>, <<{kafka, payments}>>,
              <<{Python, MLOps}>>>>

Walk(person, nodes, ids, hops) ==
    [person |-> person, nodes |-> nodes, ids |-> ids, score |-> Unit \div hops]

MCPaths ==
    {Walk(1, {1, bank}, {<<1, 1>>}, 1), Walk(1, {1, fintech}, {<<1, 2>>}, 1),
     Walk(1, {1, bank, 2}, {<<1, 1>>, <<2, 1>>}, 2), Walk(3, {3, fintech}, {}, 1)}

\* The name of person 2 contains that of MTS.
MCNamesWith ==
    [t \in {fintech, ft, bank, MTS, shop, store} |->
        IF t = MTS THEN {MTS, 2} ELSE {t}]

MCDomainsOf == [x \in {bank, MTS, shop} |-> IF x = bank THEN {fintech} ELSE {}]

\* A query that only contains names and has no aliases.
Plain(names, cities, terms, older, from, younger, upTo) ==
    Query(names, {}, {}, cities, terms, older, from, younger, upTo)

MCQueries ==
    {Plain({}, {}, {"ai"}, {}, {}, {}, {}),
     Plain({berlin, warsaw, germany, poland}, {berlin}, {}, {}, {}, {}, {}),
     Plain({fintech, Python}, {}, {"python"}, {30}, {}, {}, {}),
     Query({kafka}, {}, {MLOps}, {}, {"ml engineer"}, {}, {}, {}, {}),
     Query({fintech}, {MTS}, {}, {}, {"mts"}, {}, {}, {50}, {}),
     Plain({bank}, {}, {}, {}, {20}, {}, {60}),
     Plain({warsaw, poland}, {}, {}, {}, {}, {}, {})}

\* Nothing; wishes; more than was said; and a number that the schema refuses.
MCAnswers ==
    {NoIntent,
     [NoIntent EXCEPT !.role = {"engineer"}, !.seniority = {"junior"},
                      !.years = {3}, !.liked = {<<"domain", fintech>>}],
     [NoIntent EXCEPT !.country = {poland}, !.cities = {warsaw},
                      !.companies = {bank}, !.skills = {Python},
                      !.technologies = {MLOps, k8s}, !.domains = {fintech},
                      !.minAge = {20}, !.maxAge = {40}],
     [NoIntent EXCEPT !.projects = {shop}],
     [NoIntent EXCEPT !.projects = {store}],
     [NoIntent EXCEPT !.minAge = {5}]}

MCRankings == {<<>>, <<2, 1>>, <<0, 3, 3>>}

RoleOf(skills, domains) ==
    [NoIntent EXCEPT !.role = {"engineer"}, !.skills = skills,
                     !.domains = domains]

\* Two roles that want the same people, and one that finds nobody.
MCRequests ==
    {[roles |-> <<[intent |-> RoleOf({MLOps}, {}), count |-> 2],
                  [intent |-> RoleOf({Python}, {}), count |-> 3]>>,
      limit |-> 2],
     [roles |-> <<[intent |-> RoleOf({MLOps}, {fintech}), count |-> 1],
                  [intent |-> RoleOf({kafka, Python}, {ft}), count |-> 1],
                  [intent |-> RoleOf({}, {}), count |-> 1]>>,
      limit |-> 3]}
=============================================================================
