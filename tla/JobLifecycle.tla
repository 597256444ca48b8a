---------------------------- MODULE JobLifecycle ----------------------------
(***************************************************************************)
(* What an ingestion job promises to whoever polls                         *)
(* GET /ingestion/jobs/{id}: a submitted job never goes back to queued, no *)
(* execution result appears before an execution has claimed the job, and   *)
(* "succeeded" is only ever written when all its stages have been done.    *)
(* A result may be replaced (a message may be executed again).             *)
(***************************************************************************)
CONSTANTS Jobs, Plans, Stages

VARIABLES
    status,     \* what the API reports of each job
    plan,       \* the stages each job asks for
    effects     \* the stages that have been completed for it

vars == <<status, plan, effects>>

Init == /\ status = [j \in Jobs |-> "absent"]
        /\ plan \in [Jobs -> Plans]
        /\ effects = [j \in Jobs |-> {}]

Become(j, s) == /\ status' = [status EXCEPT ![j] = s]
                /\ UNCHANGED <<plan, effects>>

Submit(j)  == status[j] = "absent" /\ Become(j, "queued")
Claim(j)   == status[j] # "absent" /\ Become(j, "running")
Fail(j)    == status[j] # "absent" /\ Become(j, "failed")
Succeed(j) == /\ status[j] \notin {"absent", "queued"}
              /\ plan[j] \subseteq effects[j]
              /\ Become(j, "succeeded")

Complete(j, s) == /\ status[j] # "absent"
                  /\ effects' = [effects EXCEPT ![j] = @ \cup {s}]
                  /\ UNCHANGED <<status, plan>>

Next == \E j \in Jobs :
            \/ Submit(j) \/ Claim(j) \/ Fail(j) \/ Succeed(j)
            \/ \E s \in Stages : Complete(j, s)

Spec == Init /\ [][Next]_vars
=============================================================================
