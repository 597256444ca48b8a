---------------------------- MODULE MCInferences ----------------------------
(***************************************************************************)
(* Instance of Inferences for TLC.                                         *)
(***************************************************************************)
EXTENDS Inferences, TLC

CONSTANTS r1, r2, r3

\* Three people, two of them of one name; the limit of two peers leaves Ada out
\* of the others' rebuilds, but not of her own.
MCNameOf == (1 :> "bob") @@ (2 :> "bob") @@ (3 :> "ada")
MCOwnerOf == (1 :> 1) @@ (2 :> 3) @@ (3 :> 3) @@ (4 :> 3)

Lawyer == [domains |-> {"law"}, others |-> {}, companies |-> {"acme"}]
Coder == [domains |-> {}, others |-> {"go", "sql"}, companies |-> {}]
Both == [domains |-> {"law"}, others |-> {"go", "sql"}, companies |-> {"acme"}]
MCProfiles == {Lawyer, Coder, Both}

\* Ada has two chunks on law. The first Bob has nothing in common with her until
\* an ingestion makes the two Bobs equal.
MCStarts ==
    {[profile |-> (1 :> Coder) @@ (2 :> Lawyer) @@ (3 :> Lawyer),
      chunks |-> (1 :> {"law"}) @@ (2 :> {"law"}) @@ (3 :> {"law"})]}

RequestSymmetry == Permutations(Requests)
=============================================================================
