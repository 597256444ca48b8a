-------------------------- MODULE MCIngestionJobs --------------------------
(***************************************************************************)
(* An instance of IngestionJobs for TLC.                                    *)
(***************************************************************************)
EXTENDS IngestionJobs, TLC

CONSTANTS j1, r1, r2

OneJob == {j1}
TwoExecutors == {r1, r2}
=============================================================================
