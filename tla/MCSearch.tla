------------------------------ MODULE MCSearch ------------------------------
(***************************************************************************)
(* Instances of Search for TLC, with the data of MCGraphSync.               *)
(***************************************************************************)
EXTENDS Search, TLC

CONSTANTS s1, bank, sales, fintech, ft

MCPersonKinds == <<"WORKED_AT", "SPECIALIZES_IN">>
MCEntityKinds == ("WORKED_AT" :> {"OPERATES_IN"}) @@ ("SPECIALIZES_IN" :> {})

\* Two people share a company, of which only one of the resumes names a domain
\* (which is then a domain of that person, too).
MCResumes ==
    {[person |-> 1, links |-> {<<1, "WORKED_AT", bank>>,
                               <<1, "SPECIALIZES_IN", sales>>}],
     [person |-> 2, links |-> {<<2, "WORKED_AT", bank>>,
                               <<2, "SPECIALIZES_IN", fintech>>,
                               <<bank, "OPERATES_IN", fintech>>}]}

Intent(people, companies, domains, semantic) ==
    [people |-> people, companies |-> companies, domains |-> domains,
     semantic |-> semantic]

\* ft is an alias of fintech; the name of person 2 contains "sales".
MCCanonical == [t \in {bank, sales, fintech, ft} |-> IF t = ft THEN fintech ELSE t]
MCNamesWith ==
    [t \in {bank, sales, fintech, ft} |-> IF t = sales THEN {sales, 2} ELSE {t}]

\* No filter, a filter on columns that person 2 alone satisfies, a company,
\* each domain, an alias, and a company with a domain.
MCIntents ==
    {Intent(People, {}, {}, TRUE), Intent({2}, {}, {}, TRUE),
     Intent(People, {bank}, {}, TRUE), Intent(People, {}, {fintech}, TRUE),
     Intent(People, {}, {sales}, FALSE), Intent(People, {}, {ft}, FALSE),
     Intent(People, {bank}, {fintech}, FALSE)}

GraphIntents == {i \in MCIntents : UsesGraph(i)}
=============================================================================
