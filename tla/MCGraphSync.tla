---------------------------- MODULE MCGraphSync ----------------------------
(***************************************************************************)
(* Instances of GraphSync for TLC.                                         *)
(***************************************************************************)
EXTENDS GraphSync, TLC

CONSTANTS s1, s2, s3, bank, sales, fintech

\* Two of the six kinds of relations of a person, one of which leads to
\* companies with relations of their own.
MCPersonKinds == <<"WORKED_AT", "SPECIALIZES_IN">>
MCEntityKinds == ("WORKED_AT" :> {"OPERATES_IN"}) @@ ("SPECIALIZES_IN" :> {})

\* Two people share a company, of which only one of the resumes names a domain
\* (which is then a domain of that person, too).
MCResumes ==
    {[person |-> 1, links |-> {<<1, "WORKED_AT", bank>>,
                               <<1, "SPECIALIZES_IN", sales>>}],
     [person |-> 2, links |-> {<<2, "WORKED_AT", bank>>,
                               <<2, "SPECIALIZES_IN", fintech>>,
                               <<bank, "OPERATES_IN", fintech>>}]}

SyncSymmetry == Permutations(Syncs)
=============================================================================
