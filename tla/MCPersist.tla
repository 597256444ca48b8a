----------------------------- MODULE MCPersist -----------------------------
(***************************************************************************)
(* Instances of Persist for TLC.                                           *)
(***************************************************************************)
EXTENDS Persist, TLC

CONSTANTS t1, t2, k1, k2, k3, a1, a2, b1, c1, alice, bob, noid,
          py, python, pandas, work

TwoTxs == {t1, t2}

\* a1, a2: two versions of Alice's resume; b1: Bob's; c1: one without a country.
\* py and python are spellings of one skill, pandas is a technology, work a
\* project.
AllTexts == {a1, a2, b1, c1}
MCIdentityOf == (a1 :> alice) @@ (a2 :> alice) @@ (b1 :> bob) @@ (c1 :> noid)
MCNameOf == (py :> "python") @@ (python :> "python") @@ (pandas :> "pandas")
             @@ (work :> "work")
MCMentionsOf == (a1 :> <<py, pandas>>) @@ (a2 :> <<pandas, python, work>>)
                @@ (b1 :> <<work, py>>) @@ (c1 :> <<>>)
MCSkills == {py, python}
MCProjects == {"work"}

OneOf(records) == {<<d>> : d \in records}
TwoOf(records) == {<<d, e>> : d, e \in records}

\* Races: the same document, the same person from two documents, a rename, and
\* files whose documents take locks in opposite orders.
AliceDocs == [key : {k1, k2}, text : {a1, a2}]
BobDocs == {[key |-> k3, text |-> b1], [key |-> k1, text |-> b1]}
RaceFiles ==
    OneOf(AliceDocs \cup BobDocs) \cup
    TwoOf({[key |-> k1, text |-> a1], [key |-> k2, text |-> a2],
           [key |-> k3, text |-> b1]})
Resumes == OneOf({[key |-> k1, text |-> a2], [key |-> k1, text |-> b1]})

\* Sequences of legal calls: every file of one or two records.
AnyFile == OneOf([key : {k1, k2}, text : AllTexts])
             \cup TwoOf([key : {k1, k2}, text : AllTexts])

\* Every key keeps its identity: Alice has two documents and Bob one.
SteadyFiles ==
    OneOf(AliceDocs \cup {[key |-> k3, text |-> b1]})
      \cup TwoOf(AliceDocs \cup {[key |-> k3, text |-> b1]})

TxSymmetry == Permutations(Txs)
=============================================================================
