------------------------------ MODULE MCChunks ------------------------------
(***************************************************************************)
(* Instances of Chunks for TLC.                                            *)
(***************************************************************************)
EXTENDS Chunks, TLC

CONSTANTS r1, r2, r3, ab, aB, a, cd, m1, m2

\* Versions of a resume whose chunks change one at a time, grow and shrink,
\* and a resume that has nothing in common with them.
AllChunks == (ab :> <<"a", "b">>) @@ (aB :> <<"a", "B">>)
             @@ (a :> <<"a">>) @@ (cd :> <<"c", "d">>)
MCChunksOf == [x \in Texts |-> AllChunks[x]]
MCPassages == {"a", "b", "B", "c", "d"}

TwoModels == [r \in Runs |-> IF r = r1 THEN m1 ELSE m2]
=============================================================================
