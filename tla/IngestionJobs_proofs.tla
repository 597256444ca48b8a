------------------------ MODULE IngestionJobs_proofs ------------------------
(***************************************************************************)
(* Theorems about IngestionJobs, for every set of jobs and executors and   *)
(* every number of faults.                                                 *)
(***************************************************************************)
EXTENDS IngestionJobs, TLAPS

Outcomes == [status : Statuses, report : SUBSET Stages, error : Errors]

Executions == [pc : RunPhases, job : Jobs \cup {NoJob}, done : SUBSET Stages,
               held : BOOLEAN, copy : Rows]

\* What the callers of update_status assign is well typed.
LEMMA OutcomeTypes ==
    /\ Claimed \in Outcomes /\ Broken \in Outcomes /\ Refused \in Outcomes
    /\ \A done \in SUBSET Stages : Finished(done) \in Outcomes
    /\ NoRow \in Rows
  BY DEF Claimed, Broken, Refused, Finished, Outcomes, NoRow, Rows, Statuses,
         Stages, Errors

\* A partial UPDATE of a row is a row.
LEMMA UpdatedType ==
    ASSUME NEW current \in Rows, NEW copy \in Rows, NEW new \in Outcomes
    PROVE  Updated(current, copy, new) \in Rows
  BY DEF Updated, Rows, Outcomes

\* The next stage of an unfinished plan is one of the plan's remaining stages.
LEMMA NextStageRemains ==
    ASSUME TypeOK, NEW r \in Executors, run[r].pc # "idle", Remaining(r) # {}
    PROVE  NextStage(r) \in Remaining(r) /\ NextStage(r) \in Stages
<1>1. plan[run[r].job] \subseteq Stages
  BY DEF TypeOK, Plans
<1>2. \E s \in Remaining(r) :
        /\ "ingestion" \in Remaining(r) => s = "ingestion"
        /\ "embeddings" \in Remaining(r) => s \in {"ingestion", "embeddings"}
  <2>1. CASE "ingestion" \in Remaining(r)
    BY <2>1
  <2>2. CASE "ingestion" \notin Remaining(r) /\ "embeddings" \in Remaining(r)
    BY <2>2
  <2>3. CASE "ingestion" \notin Remaining(r) /\ "embeddings" \notin Remaining(r)
    BY <2>3
  <2> QED
    BY <2>1, <2>2, <2>3
<1> QED
  BY <1>1, <1>2 DEF NextStage, Remaining

\* Every variable keeps its type in every reachable state of the job system.
LEMMA TypeStep == TypeOK /\ [Next]_vars => TypeOK'
<1> SUFFICES ASSUME TypeOK, [Next]_vars PROVE TypeOK'
  OBVIOUS
<1> USE OutcomeTypes DEF TypeOK, Spend, ApiGoes, ApiEnds, NoteRace
<1>1. ASSUME NEW j \in Jobs, CreateJob(j) PROVE TypeOK'
  <2>1. row' \in [Jobs -> Rows]
    <3>1. row' = [row EXCEPT ![j].status = "queued"]
      BY <1>1 DEF CreateJob
    <3>2. [row[j] EXCEPT !.status = "queued"] \in Rows
      BY DEF Rows, Statuses
    <3> QED
      BY <3>1, <3>2
  <2>2. api' \in [Jobs -> [pc : ApiPhases, copy : Rows]]
    BY <1>1 DEF CreateJob, ApiPhases
  <2> QED
    BY <1>1, <2>1, <2>2 DEF CreateJob
<1>2. ASSUME NEW j \in Jobs, SendTask(j) PROVE TypeOK'
  BY <1>2 DEF SendTask, ApiPhases
<1>3. ASSUME NEW j \in Jobs, SendTaskTwice(j) PROVE TypeOK'
  BY <1>3 DEF SendTaskTwice, ApiPhases
<1>4. ASSUME NEW j \in Jobs, SendTaskRaises(j) PROVE TypeOK'
  <2>1. CASE UNCHANGED <<queue, suspect>>
    BY <1>4, <2>1 DEF SendTaskRaises, ApiPhases
  <2>2. CASE /\ queue' = [queue EXCEPT ![j] = @ + 1]
             /\ suspect' = suspect \cup {j}
    BY <1>4, <2>2 DEF SendTaskRaises, ApiPhases
  <2> QED
    BY <1>4, <2>1, <2>2 DEF SendTaskRaises
<1>5. ASSUME NEW j \in Jobs, SetTaskId(j) PROVE TypeOK'
  BY <1>5 DEF SetTaskId, Rows, ApiPhases
<1>6. ASSUME NEW j \in Jobs, SetTaskIdRaises(j) PROVE TypeOK'
  BY <1>6 DEF SetTaskIdRaises, ApiPhases
<1>7. ASSUME NEW j \in Jobs, RefuseLoads(j) PROVE TypeOK'
  BY <1>7 DEF RefuseLoads, ApiPhases
<1>8. ASSUME NEW j \in Jobs, RefuseCommits(j) PROVE TypeOK'
  BY <1>8, UpdatedType DEF RefuseCommits, ApiPhases
<1>9. ASSUME NEW j \in Jobs, RefuseRaises(j) PROVE TypeOK'
  BY <1>9 DEF RefuseRaises, ApiPhases
<1>10. ASSUME NEW j \in Jobs, ApiDies(j) PROVE TypeOK'
  BY <1>10 DEF ApiDies, ApiPhases
<1>11. ASSUME NEW r \in Executors, ClaimLoads(r) PROVE TypeOK'
  BY <1>11 DEF ClaimLoads, Loads, RunPhases
<1>12. ASSUME NEW r \in Executors, ClaimCommits(r) PROVE TypeOK'
  BY <1>12, UpdatedType DEF ClaimCommits, Commits, RunPhases
<1>13. ASSUME NEW r \in Executors, ClaimRaises(r) PROVE TypeOK'
  BY <1>13 DEF ClaimRaises, Ends, Idle, RunPhases
<1>14. ASSUME NEW r \in Executors, StageCompletes(r) PROVE TypeOK'
  BY <1>14, NextStageRemains DEF StageCompletes, RunPhases
<1>15. ASSUME NEW r \in Executors, StageRaises(r) PROVE TypeOK'
  BY <1>15 DEF StageRaises, Goes, RunPhases
<1>16. ASSUME NEW r \in Executors, SucceedLoads(r) PROVE TypeOK'
  BY <1>16 DEF SucceedLoads, Loads, RunPhases
<1>17. ASSUME NEW r \in Executors, SucceedCommits(r) PROVE TypeOK'
  BY <1>17, UpdatedType DEF SucceedCommits, Commits, Idle, RunPhases
<1>18. ASSUME NEW r \in Executors, SucceedRaises(r) PROVE TypeOK'
  <2>1. run[r].pc # "idle" /\ "fail" \in RunPhases
    BY <1>18 DEF SucceedRaises, RunPhases
  <2>2. budget' \in [{"send", "db", "redeliver", "crash"} -> Nat]
    <3>1. Spend("db")
      BY <1>18 DEF SucceedRaises
    <3> QED
      BY <3>1
  <2>3. /\ run' \in [Executors -> Executions]
        /\ \A e \in Executors : run'[e].pc # "idle" => run'[e].job \in Jobs
    <3>1. run' = [run EXCEPT ![r].pc = "fail", ![r].copy = NoRow]
      BY <1>18 DEF SucceedRaises
    <3> QED
      BY <2>1, <3>1 DEF Executions
  <2> QED
    BY <1>18, <2>2, <2>3 DEF SucceedRaises, Executions
<1>19. ASSUME NEW r \in Executors, FailLoads(r) PROVE TypeOK'
  BY <1>19 DEF FailLoads, Loads, RunPhases
<1>20. ASSUME NEW r \in Executors, FailCommits(r) PROVE TypeOK'
  BY <1>20, UpdatedType DEF FailCommits, Commits, Idle, RunPhases
<1>21. ASSUME NEW r \in Executors, FailRaises(r) PROVE TypeOK'
  BY <1>21 DEF FailRaises, Ends, Idle, RunPhases
<1>22. ASSUME NEW r \in Executors, NEW j \in Jobs, Receive(r, j) PROVE TypeOK'
  BY <1>22 DEF Receive, RunPhases
<1>23. ASSUME NEW r \in Executors, VisibilityTimeout(r) PROVE TypeOK'
  <2>1. run[r].job \in Jobs
    BY <1>23 DEF VisibilityTimeout
  <2>2. queue' \in [Jobs -> Nat] /\ suspect' \subseteq Jobs
    BY <1>23, <2>1 DEF VisibilityTimeout
  <2>3. /\ run' \in [Executors -> Executions]
        /\ \A e \in Executors : run'[e].pc # "idle" => run'[e].job \in Jobs
    BY <1>23 DEF VisibilityTimeout, Executions
  <2> QED
    BY <1>23, <2>2, <2>3 DEF VisibilityTimeout, Executions
<1>24. ASSUME NEW r \in Executors, WorkerDies(r) PROVE TypeOK'
  BY <1>24 DEF WorkerDies, Ends, Idle, RunPhases
<1>25. ASSUME NEW r \in Executors, ChildDies(r) PROVE TypeOK'
  BY <1>25 DEF ChildDies, Ends, Idle, RunPhases
<1>26. CASE UNCHANGED vars
  BY <1>26 DEF vars
<1> QED
  BY <1>1, <1>2, <1>3, <1>4, <1>5, <1>6, <1>7, <1>8, <1>9, <1>10, <1>11,
     <1>12, <1>13, <1>14, <1>15, <1>16, <1>17, <1>18, <1>19, <1>20, <1>21,
     <1>22, <1>23, <1>24, <1>25, <1>26
     DEF Next, ApiStep, Execute, Fault

(***************************************************************************)
(* The inductive invariant behind the other theorems.                      *)
(***************************************************************************)

\* A job has a row as soon as its handler has begun; messages and executions
\* exist only of jobs with a row; only a job that was sent can be recanted.
HasRow ==
    /\ \A j \in Jobs : api[j].pc = "idle" <=> row[j].status = "absent"
    /\ \A j \in recanted : api[j].pc \notin {"idle", "created", "sent"}
    /\ \A j \in Jobs : row[j].status = "absent" => queue[j] = 0
    /\ \A r \in Executors :
          run[r].pc # "idle" => row[run[r].job].status # "absent"

\* "queued" is left for good: by the first claim, or by a refusal.  A copy
\* that was loaded after that shows it.
HasLeftQueue ==
    /\ \A r \in Executors :
          run[r].pc \in {"work", "succeeding", "fail", "failing"} =>
              row[run[r].job].status # "queued"
    /\ \A r \in Executors :
          run[r].pc \in LoadedPhases /\ run[r].copy.status # "queued" =>
              row[run[r].job].status # "queued"
    /\ \A j \in Jobs :
          api[j].pc = "refusing" /\ api[j].copy.status # "queued" =>
              row[j].status # "queued"

\* What an execution has done is recorded, belongs to the plan, and is the
\* whole plan when it is about to write "succeeded".
HasDone ==
    \A r \in Executors : run[r].pc # "idle" =>
        /\ run[r].done \subseteq effects[run[r].job]
        /\ run[r].done \subseteq plan[run[r].job]
        /\ run[r].pc = "succeeding" => run[r].done = plan[run[r].job]

\* Of a job that was never raced, at most one session holds a loaded copy,
\* and the copy is what the row still is.
SameColumns(copy, w) == /\ copy.status = w.status
                        /\ copy.report = w.report
                        /\ copy.error = w.error

SoleCopy ==
    /\ \A r \in Executors :
          run[r].pc \in LoadedPhases /\ run[r].job \notin raced =>
              /\ SameColumns(run[r].copy, row[run[r].job])
              /\ api[run[r].job].pc # "refusing"
              /\ \A e \in Executors \ {r} :
                    run[e].pc \in LoadedPhases => run[e].job # run[r].job
    /\ \A j \in Jobs \ raced :
          api[j].pc = "refusing" => SameColumns(api[j].copy, row[j])

LEMMA HasDoneStep == TypeOK /\ HasDone /\ [Next]_vars => HasDone'
<1> SUFFICES ASSUME TypeOK, HasDone, [Next]_vars PROVE HasDone'
  OBVIOUS
<1> USE DEF HasDone
<1>1. CASE UNCHANGED <<run, plan, effects>>
  BY <1>1
<1>2. ASSUME NEW r \in Executors, NEW j \in Jobs, Receive(r, j) PROVE HasDone'
  BY <1>2 DEF Receive, TypeOK
<1>3. ASSUME NEW r \in Executors, StageCompletes(r) PROVE HasDone'
  <2>1. NextStage(r) \in plan[run[r].job] /\ run[r].job \in Jobs
    BY <1>3, NextStageRemains DEF StageCompletes, Remaining, TypeOK
  <2> QED
    BY <1>3, <2>1 DEF StageCompletes, TypeOK
<1>4. ASSUME NEW r \in Executors, SucceedLoads(r) PROVE HasDone'
  <2>1. plan[run[r].job] \subseteq run[r].done /\ run[r].pc = "work"
    BY <1>4 DEF SucceedLoads, Remaining
  <2>2. /\ run' = [run EXCEPT ![r].pc = "succeeding",
                            ![r].copy = row[run[r].job]]
        /\ UNCHANGED <<plan, effects>>
    BY <1>4 DEF SucceedLoads, Loads
  <2>3. \A q \in Executors : /\ run'[q].job = run[q].job
                             /\ run'[q].done = run[q].done
                             /\ q # r => run'[q].pc = run[q].pc
    BY <2>2 DEF TypeOK
  <2>4. run[r].done = plan[run[r].job]
    BY <2>1
  <2>5. /\ effects' = effects /\ plan' = plan
        /\ run[r].done \subseteq effects[run[r].job]
    BY <2>1, <2>2
  <2> QED
    BY <2>1, <2>3, <2>4, <2>5
<1>5. ASSUME NEW r \in Executors,
             ClaimLoads(r) \/ FailLoads(r) \/ VisibilityTimeout(r)
      PROVE  HasDone'
  <2>1. CASE ClaimLoads(r)
    BY <2>1 DEF ClaimLoads, Loads, TypeOK
  <2>2. CASE FailLoads(r)
    BY <2>2 DEF FailLoads, Loads, TypeOK
  <2>3. CASE VisibilityTimeout(r)
    BY <2>3 DEF VisibilityTimeout, TypeOK
  <2> QED
    BY <1>5, <2>1, <2>2, <2>3
<1>6. ASSUME NEW r \in Executors,
             ClaimCommits(r) \/ SucceedCommits(r) \/ FailCommits(r)
      PROVE  HasDone'
  <2>1. CASE ClaimCommits(r)
    BY <2>1 DEF ClaimCommits, Commits, TypeOK
  <2>2. CASE SucceedCommits(r)
    BY <2>2 DEF SucceedCommits, Commits, Idle, TypeOK
  <2>3. CASE FailCommits(r)
    BY <2>3 DEF FailCommits, Commits, Idle, TypeOK
  <2> QED
    BY <1>6, <2>1, <2>2, <2>3
<1>7. ASSUME NEW r \in Executors, StageRaises(r) \/ SucceedRaises(r)
      PROVE  HasDone'
  <2>1. CASE StageRaises(r)
    BY <2>1 DEF StageRaises, Goes, TypeOK
  <2>2. CASE SucceedRaises(r)
    <3>1. run[r].pc # "idle"
      BY <2>2 DEF SucceedRaises
    <3> QED
      BY <2>2, <3>1 DEF SucceedRaises, TypeOK
  <2> QED
    BY <1>7, <2>1, <2>2
<1>8. ASSUME NEW r \in Executors,
             ClaimRaises(r) \/ FailRaises(r) \/ WorkerDies(r) \/ ChildDies(r)
      PROVE  HasDone'
  <2>1. Ends(r) /\ UNCHANGED <<plan, effects>>
    BY <1>8 DEF ClaimRaises, FailRaises, WorkerDies, ChildDies
  <2>2. run' = [run EXCEPT ![r] = Idle] /\ Idle.pc = "idle"
    BY <2>1 DEF Ends, Idle
  <2>3. \A q \in Executors : q # r => run'[q] = run[q]
    BY <2>2 DEF TypeOK
  <2>4. run'[r].pc = "idle"
    BY <2>2 DEF TypeOK
  <2> QED
    BY <2>1, <2>3, <2>4
<1>9. ASSUME NEW j \in Jobs, ApiStep(j) \/ ApiDies(j)
      PROVE  UNCHANGED <<run, plan, effects>>
  BY <1>9 DEF ApiStep, CreateJob, SendTask, SendTaskTwice, SendTaskRaises,
     SetTaskId, SetTaskIdRaises, RefuseLoads, RefuseCommits, RefuseRaises,
     ApiDies
<1> QED
  BY <1>1, <1>2, <1>3, <1>4, <1>5, <1>6, <1>7, <1>8, <1>9
     DEF Next, Execute, Fault, vars

\* A commit of update_status writes a status or leaves the column alone.
LEMMA UpdatedStatus ==
    ASSUME NEW current \in Rows, NEW copy, NEW new
    PROVE  /\ Updated(current, copy, new).status =
                  IF new.status = copy.status THEN current.status ELSE new.status
           /\ Updated(current, copy, new).report =
                  IF new.report = copy.report THEN current.report ELSE new.report
           /\ Updated(current, copy, new).error =
                  IF new.error = copy.error THEN current.error ELSE new.error
           /\ Updated(current, copy, new).task = current.task
  BY DEF Updated, Rows

\* "succeeded" is only written by an execution that has done the whole plan.
LEMMA EarnedStep ==
    TypeOK /\ HasDone /\ SucceededIsEarned /\ [Next]_vars => SucceededIsEarned'
<1> SUFFICES ASSUME TypeOK, HasDone, SucceededIsEarned, [Next]_vars
             PROVE  SucceededIsEarned'
  OBVIOUS
<1> USE DEF SucceededIsEarned
<1>1. CASE UNCHANGED <<row, plan, effects>>
  BY <1>1
<1>2. ASSUME NEW r \in Executors, StageCompletes(r) PROVE SucceededIsEarned'
  BY <1>2 DEF StageCompletes, TypeOK
<1>3. ASSUME NEW j \in Jobs, CreateJob(j) \/ SetTaskId(j)
      PROVE  SucceededIsEarned'
  <2>1. CASE CreateJob(j)
    BY <2>1 DEF CreateJob, TypeOK, Rows
  <2>2. CASE SetTaskId(j)
    BY <2>2 DEF SetTaskId, TypeOK, Rows
  <2> QED
    BY <1>3, <2>1, <2>2
<1>4. ASSUME NEW j \in Jobs, RefuseCommits(j) PROVE SucceededIsEarned'
  BY <1>4, UpdatedStatus DEF RefuseCommits, Refused, TypeOK
<1>5. ASSUME NEW r \in Executors, NEW new, NEW pc, new.status # "succeeded",
             run[r].pc # "idle", Commits(r, new, pc)
      PROVE  SucceededIsEarned'
  <2>1. /\ run[r].job \in Jobs /\ UNCHANGED <<plan, effects>>
        /\ row' = [row EXCEPT ![run[r].job] =
                      Updated(row[run[r].job], run[r].copy, new)]
    BY <1>5 DEF Commits, TypeOK
  <2>2. row'[run[r].job].status \in {row[run[r].job].status, new.status}
    BY <2>1, UpdatedStatus DEF TypeOK
  <2>3. \A j \in Jobs \ {run[r].job} : row'[j] = row[j]
    BY <2>1 DEF TypeOK
  <2> QED
    BY <1>5, <2>1, <2>2, <2>3
<1>6. ASSUME NEW r \in Executors, ClaimCommits(r) \/ FailCommits(r)
      PROVE  SucceededIsEarned'
  BY <1>5, <1>6 DEF ClaimCommits, FailCommits, Claimed, Broken
<1>7. ASSUME NEW r \in Executors, SucceedCommits(r) PROVE SucceededIsEarned'
  <2>1. run[r].job \in Jobs /\ plan[run[r].job] \subseteq effects[run[r].job]
    BY <1>7 DEF SucceedCommits, HasDone, TypeOK
  <2> QED
    BY <1>7, <2>1, UpdatedStatus DEF SucceedCommits, Commits, TypeOK
<1>8. ASSUME NEW j \in Jobs,
             \/ SendTask(j) \/ SendTaskTwice(j) \/ SendTaskRaises(j)
             \/ SetTaskIdRaises(j) \/ RefuseLoads(j) \/ RefuseRaises(j)
             \/ ApiDies(j)
      PROVE  UNCHANGED <<row, plan, effects>>
  BY <1>8 DEF SendTask, SendTaskTwice, SendTaskRaises, SetTaskIdRaises,
     RefuseLoads, RefuseRaises, ApiDies
<1>9. ASSUME NEW r \in Executors,
             \/ ClaimLoads(r) \/ SucceedLoads(r) \/ FailLoads(r)
             \/ ClaimRaises(r) \/ SucceedRaises(r) \/ FailRaises(r)
             \/ StageRaises(r) \/ VisibilityTimeout(r) \/ WorkerDies(r)
             \/ ChildDies(r) \/ \E j \in Jobs : Receive(r, j)
      PROVE  UNCHANGED <<row, plan, effects>>
  BY <1>9 DEF ClaimLoads, SucceedLoads, FailLoads, Loads, ClaimRaises,
     SucceedRaises, FailRaises, StageRaises, VisibilityTimeout, WorkerDies,
     ChildDies, Receive
<1> QED
  BY <1>1, <1>2, <1>3, <1>4, <1>5, <1>6, <1>7, <1>8, <1>9
     DEF Next, ApiStep, Execute, Fault, vars

\* Messages and executions of a job exist only once its row is committed.
LEMMA HasRowStep == TypeOK /\ HasRow /\ [Next]_vars => HasRow'
<1> SUFFICES ASSUME TypeOK, HasRow, [Next]_vars PROVE HasRow'
  OBVIOUS
<1> USE DEF HasRow
<1>1. CASE UNCHANGED vars
  BY <1>1 DEF vars
<1>2. ASSUME NEW j \in Jobs, CreateJob(j) PROVE HasRow'
  BY <1>2 DEF CreateJob, ApiGoes, TypeOK, Rows
<1>3. ASSUME NEW j \in Jobs,
             SendTask(j) \/ SendTaskTwice(j) \/ SendTaskRaises(j)
      PROVE  HasRow'
  <2>1. /\ api[j].pc = "created" /\ api'[j].pc \in {"sent", "refused"}
        /\ \A i \in Jobs \ {j} : api'[i] = api[i] /\ queue'[i] = queue[i]
        /\ UNCHANGED <<row, run, recanted>>
    <3>1. CASE SendTask(j)
      BY <3>1 DEF SendTask, ApiGoes, TypeOK
    <3>2. CASE SendTaskTwice(j)
      BY <3>2 DEF SendTaskTwice, ApiGoes, TypeOK
    <3>3. CASE SendTaskRaises(j)
      BY <3>3 DEF SendTaskRaises, ApiGoes, TypeOK
    <3> QED
      BY <1>3, <3>1, <3>2, <3>3
  <2>2. recanted \subseteq Jobs
    BY DEF TypeOK
  <2> QED
    BY <2>1, <2>2
<1>4. ASSUME NEW j \in Jobs, SetTaskId(j) PROVE HasRow'
  BY <1>4 DEF SetTaskId, ApiEnds, TypeOK, Rows
<1>5. ASSUME NEW j \in Jobs,
             \/ SetTaskIdRaises(j) \/ RefuseLoads(j) \/ RefuseRaises(j)
             \/ ApiDies(j)
      PROVE  HasRow'
  BY <1>5 DEF SetTaskIdRaises, RefuseLoads, RefuseRaises, ApiDies, ApiEnds,
     ApiGoes, TypeOK
<1>6. ASSUME NEW j \in Jobs, RefuseCommits(j) PROVE HasRow'
  BY <1>6, UpdatedStatus DEF RefuseCommits, ApiEnds, Refused, TypeOK
<1>7. ASSUME NEW r \in Executors, ClaimCommits(r) PROVE HasRow'
  BY <1>7, UpdatedStatus DEF ClaimCommits, Commits, Claimed, TypeOK
<1>8. ASSUME NEW r \in Executors, SucceedCommits(r) PROVE HasRow'
  BY <1>8, UpdatedStatus DEF SucceedCommits, Commits, Finished, Idle, TypeOK
<1>9. ASSUME NEW r \in Executors, FailCommits(r) PROVE HasRow'
  BY <1>9, UpdatedStatus DEF FailCommits, Commits, Broken, Idle, TypeOK
<1>10. ASSUME NEW r \in Executors, NEW j \in Jobs, Receive(r, j) PROVE HasRow'
  BY <1>10 DEF Receive, TypeOK
<1>11. ASSUME NEW r \in Executors,
              ClaimLoads(r) \/ SucceedLoads(r) \/ FailLoads(r)
       PROVE  HasRow'
  <2>1. PICK pc \in RunPhases : run[r].pc # "idle" /\ Loads(r, pc)
    BY <1>11 DEF ClaimLoads, SucceedLoads, FailLoads, RunPhases
  <2>2. /\ \A e \in Executors \ {r} : run'[e] = run[e]
        /\ run'[r].job = run[r].job
        /\ UNCHANGED <<row, api, queue, recanted>>
    BY <2>1 DEF Loads, TypeOK
  <2> QED
    BY <2>1, <2>2
<1>12. ASSUME NEW r \in Executors,
              \/ ClaimRaises(r) \/ FailRaises(r) \/ WorkerDies(r) \/ ChildDies(r)
       PROVE  HasRow'
  BY <1>12 DEF ClaimRaises, FailRaises, WorkerDies, ChildDies, Ends, Idle, TypeOK
<1>13. ASSUME NEW r \in Executors, StageCompletes(r) \/ StageRaises(r)
       PROVE  HasRow'
  <2>1. CASE StageCompletes(r)
    BY <2>1 DEF StageCompletes, TypeOK
  <2>2. CASE StageRaises(r)
    BY <2>2 DEF StageRaises, Goes, TypeOK
  <2> QED
    BY <1>13, <2>1, <2>2
<1>14. ASSUME NEW r \in Executors, SucceedRaises(r) PROVE HasRow'
  <2>1. run[r].pc # "idle"
    BY <1>14 DEF SucceedRaises
  <2> QED
    BY <1>14, <2>1 DEF SucceedRaises, TypeOK
<1>15. ASSUME NEW r \in Executors, VisibilityTimeout(r) PROVE HasRow'
  BY <1>15 DEF VisibilityTimeout, TypeOK
<1> QED
  BY <1>1, <1>2, <1>3, <1>4, <1>5, <1>6, <1>7, <1>8, <1>9, <1>10, <1>11,
     <1>12, <1>13, <1>14, <1>15
     DEF Next, ApiStep, Execute, Fault

\* No write brings a row back to "queued".
LEMMA HasLeftQueueStep ==
    TypeOK /\ HasRow /\ HasLeftQueue /\ [Next]_vars => HasLeftQueue'
<1> SUFFICES ASSUME TypeOK, HasRow, HasLeftQueue, [Next]_vars
             PROVE  HasLeftQueue'
  OBVIOUS
<1> USE DEF HasLeftQueue, LoadedPhases
<1>1. CASE UNCHANGED <<row, run, api>>
  BY <1>1
<1>2. ASSUME NEW j \in Jobs, CreateJob(j) PROVE HasLeftQueue'
  BY <1>2 DEF CreateJob, ApiGoes, HasRow, TypeOK, Rows
<1>3. ASSUME NEW j \in Jobs,
             SendTask(j) \/ SendTaskTwice(j) \/ SendTaskRaises(j)
      PROVE  HasLeftQueue'
  <2>1. CASE SendTask(j)
    BY <2>1 DEF SendTask, ApiGoes, TypeOK
  <2>2. CASE SendTaskTwice(j)
    BY <2>2 DEF SendTaskTwice, ApiGoes, TypeOK
  <2>3. CASE SendTaskRaises(j)
    BY <2>3 DEF SendTaskRaises, ApiGoes, TypeOK
  <2> QED
    BY <1>3, <2>1, <2>2, <2>3
<1>4. ASSUME NEW j \in Jobs, SetTaskId(j) PROVE HasLeftQueue'
  BY <1>4 DEF SetTaskId, ApiEnds, TypeOK, Rows
<1>5. ASSUME NEW j \in Jobs,
             SetTaskIdRaises(j) \/ RefuseRaises(j) \/ ApiDies(j)
      PROVE  HasLeftQueue'
  <2>1. CASE SetTaskIdRaises(j)
    BY <2>1 DEF SetTaskIdRaises, ApiEnds, ApiGoes, TypeOK
  <2>2. CASE RefuseRaises(j) \/ ApiDies(j)
    BY <2>2 DEF RefuseRaises, ApiDies, ApiEnds, TypeOK
  <2> QED
    BY <1>5, <2>1, <2>2
<1>6. ASSUME NEW j \in Jobs, RefuseLoads(j) PROVE HasLeftQueue'
  BY <1>6 DEF RefuseLoads, TypeOK
<1>7. ASSUME NEW j \in Jobs, RefuseCommits(j) PROVE HasLeftQueue'
  BY <1>7, UpdatedStatus DEF RefuseCommits, ApiEnds, Refused, TypeOK
<1>8. ASSUME NEW r \in Executors, ClaimCommits(r) PROVE HasLeftQueue'
  BY <1>8, UpdatedStatus DEF ClaimCommits, Commits, Claimed, TypeOK
<1>9. ASSUME NEW r \in Executors, SucceedCommits(r) PROVE HasLeftQueue'
  BY <1>9, UpdatedStatus DEF SucceedCommits, Commits, Finished, Idle, TypeOK
<1>10. ASSUME NEW r \in Executors, FailCommits(r) PROVE HasLeftQueue'
  BY <1>10, UpdatedStatus DEF FailCommits, Commits, Broken, Idle, TypeOK
<1>11. ASSUME NEW r \in Executors, NEW j \in Jobs, Receive(r, j)
       PROVE  HasLeftQueue'
  BY <1>11 DEF Receive, TypeOK
<1>12. ASSUME NEW r \in Executors,
              ClaimLoads(r) \/ SucceedLoads(r) \/ FailLoads(r)
       PROVE  HasLeftQueue'
  <2>1. CASE ClaimLoads(r)
    BY <2>1 DEF ClaimLoads, Loads, TypeOK
  <2>2. CASE SucceedLoads(r)
    BY <2>2 DEF SucceedLoads, Loads, TypeOK
  <2>3. CASE FailLoads(r)
    BY <2>3 DEF FailLoads, Loads, TypeOK
  <2> QED
    BY <1>12, <2>1, <2>2, <2>3
<1>13. ASSUME NEW r \in Executors,
              \/ ClaimRaises(r) \/ FailRaises(r) \/ WorkerDies(r) \/ ChildDies(r)
       PROVE  HasLeftQueue'
  <2>1. CASE ClaimRaises(r)
    BY <2>1 DEF ClaimRaises, Ends, Idle, TypeOK
  <2>2. CASE FailRaises(r)
    BY <2>2 DEF FailRaises, Ends, Idle, TypeOK
  <2>3. CASE WorkerDies(r)
    BY <2>3 DEF WorkerDies, Ends, Idle, TypeOK
  <2>4. CASE ChildDies(r)
    BY <2>4 DEF ChildDies, Ends, Idle, TypeOK
  <2> QED
    BY <1>13, <2>1, <2>2, <2>3, <2>4
<1>14. ASSUME NEW r \in Executors, StageCompletes(r) PROVE HasLeftQueue'
  BY <1>14 DEF StageCompletes, TypeOK
<1>15. ASSUME NEW r \in Executors, StageRaises(r) PROVE HasLeftQueue'
  BY <1>15 DEF StageRaises, Goes, TypeOK
<1>16. ASSUME NEW r \in Executors, SucceedRaises(r) PROVE HasLeftQueue'
  BY <1>16 DEF SucceedRaises, TypeOK
<1>17. ASSUME NEW r \in Executors, VisibilityTimeout(r) PROVE HasLeftQueue'
  BY <1>17 DEF VisibilityTimeout, TypeOK
<1> QED
  BY <1>1, <1>2, <1>3, <1>4, <1>5, <1>6, <1>7, <1>8, <1>9, <1>10, <1>11,
     <1>12, <1>13, <1>14, <1>15, <1>16, <1>17
     DEF Next, ApiStep, Execute, Fault, vars

\* A load before a terminal write sees the unfinished row, so the write settles.
LEMMA LoadsKeepAttended ==
    ASSUME TypeOK, NoSilentStall, NEW r \in Executors, NEW pc,
           run[r].pc # "idle", pc # "idle", Loads(r, pc)
    PROVE  NoSilentStall'
<1> SUFFICES ASSUME NEW j \in Jobs, row'[j].status \in {"queued", "running"}
             PROVE  Attended(j)'
  BY DEF NoSilentStall
<1>1. row[j].status \in {"queued", "running"} /\ Attended(j)
  BY DEF Loads, NoSilentStall
<1>2. CASE j \in abandoned \/ queue[j] > 0 \/ WillRefuse(j)
  BY <1>2 DEF Attended, WillRefuse, Loads
<1>3. CASE \E e \in Runs(j) : WillSettle(e)
  <2>1. PICK e \in Runs(j) : WillSettle(e)
    BY <1>3
  <2>2. CASE e # r
    <3>1. run'[e] = run[e]
      BY <2>1, <2>2 DEF Loads, Runs, TypeOK
    <3> QED
      BY <2>1, <3>1 DEF Attended, Runs, WillSettle
  <2>3. CASE e = r
    <3>1. /\ run'[r].pc = pc /\ run'[r].job = j
          /\ run'[r].copy = row[j]
      BY <2>1, <2>3 DEF Loads, Runs, TypeOK
    <3> QED
      BY <1>1, <3>1 DEF Attended, Runs, WillSettle
  <2> QED
    BY <2>2, <2>3
<1> QED
  BY <1>1, <1>2, <1>3 DEF Attended

\* Somebody remains who will settle an unfinished job.
LEMMA StallStep ==
    TypeOK /\ HasRow /\ NoSilentStall /\ [Next]_vars => NoSilentStall'
<1> SUFFICES ASSUME TypeOK, HasRow, NoSilentStall, [Next]_vars
             PROVE  NoSilentStall'
  OBVIOUS
<1> USE DEF NoSilentStall, Attended, WillRefuse, WillSettle, Runs
<1>1. CASE UNCHANGED vars
  BY <1>1 DEF vars
<1>2. ASSUME NEW j \in Jobs, CreateJob(j) PROVE NoSilentStall'
  <2>1. j \notin recanted
    BY <1>2 DEF CreateJob, HasRow
  <2>2. /\ api'[j].pc = "created"
        /\ \A i \in Jobs \ {j} : api'[i] = api[i] /\ row'[i] = row[i]
        /\ UNCHANGED <<queue, run, recanted, abandoned>>
    BY <1>2 DEF CreateJob, ApiGoes, TypeOK
  <2> QED
    BY <2>1, <2>2
<1>3. ASSUME NEW j \in Jobs,
             SendTask(j) \/ SendTaskTwice(j) \/ SendTaskRaises(j)
      PROVE  NoSilentStall'
  <2>1. CASE SendTask(j)
    BY <2>1 DEF SendTask, ApiGoes, TypeOK
  <2>2. CASE SendTaskTwice(j)
    BY <2>2 DEF SendTaskTwice, ApiGoes, TypeOK
  <2>3. CASE SendTaskRaises(j)
    BY <2>3 DEF SendTaskRaises, ApiGoes, TypeOK
  <2> QED
    BY <1>3, <2>1, <2>2, <2>3
<1>4. ASSUME NEW j \in Jobs, SetTaskId(j) PROVE NoSilentStall'
  BY <1>4 DEF SetTaskId, ApiEnds, TypeOK, Rows
<1>5. ASSUME NEW j \in Jobs,
             SetTaskIdRaises(j) \/ RefuseRaises(j) \/ ApiDies(j)
      PROVE  NoSilentStall'
  BY <1>5 DEF SetTaskIdRaises, RefuseRaises, ApiDies, ApiEnds, ApiGoes, TypeOK
<1>6. ASSUME NEW j \in Jobs, RefuseLoads(j) PROVE NoSilentStall'
  BY <1>6 DEF RefuseLoads, TypeOK
<1>7. ASSUME NEW j \in Jobs, RefuseCommits(j) PROVE NoSilentStall'
  BY <1>7, UpdatedStatus DEF RefuseCommits, ApiEnds, Refused, TypeOK
<1>8. ASSUME NEW r \in Executors, ClaimCommits(r) PROVE NoSilentStall'
  BY <1>8, UpdatedStatus DEF ClaimCommits, Commits, Claimed, TypeOK
<1>9. ASSUME NEW r \in Executors, SucceedCommits(r) PROVE NoSilentStall'
  <2> SUFFICES ASSUME NEW j \in Jobs, row'[j].status \in {"queued", "running"}
               PROVE  Attended(j)'
    OBVIOUS
  <2>1. run[r].job \in Jobs /\ run[r].copy \in Rows
    BY <1>9 DEF SucceedCommits, TypeOK
  <2>2. /\ row[j].status \in {"queued", "running"}
        /\ run[r].job = j => ~WillSettle(r)
    BY <1>9, <2>1, UpdatedStatus DEF SucceedCommits, Commits, Finished, TypeOK
  <2>3. CASE \E e \in Runs(j) : WillSettle(e)
    <3>1. PICK e \in Runs(j) : WillSettle(e)
      BY <2>3
    <3>2. e # r
      BY <2>2, <3>1
    <3>3. run'[e] = run[e]
      BY <1>9, <3>1, <3>2 DEF SucceedCommits, Commits, TypeOK
    <3> QED
      BY <3>1, <3>3
  <2>4. CASE j \in abandoned \/ queue[j] > 0 \/ WillRefuse(j)
    BY <1>9, <2>4 DEF SucceedCommits, Commits
  <2> QED
    BY <2>2, <2>3, <2>4
<1>10. ASSUME NEW r \in Executors, FailCommits(r) PROVE NoSilentStall'
  <2> SUFFICES ASSUME NEW j \in Jobs, row'[j].status \in {"queued", "running"}
               PROVE  Attended(j)'
    OBVIOUS
  <2>1. run[r].job \in Jobs /\ run[r].copy \in Rows
    BY <1>10 DEF FailCommits, TypeOK
  <2>2. /\ row[j].status \in {"queued", "running"}
        /\ run[r].job = j => ~WillSettle(r)
    BY <1>10, <2>1, UpdatedStatus DEF FailCommits, Commits, Broken, TypeOK
  <2>3. CASE \E e \in Runs(j) : WillSettle(e)
    <3>1. PICK e \in Runs(j) : WillSettle(e)
      BY <2>3
    <3>2. e # r
      BY <2>2, <3>1
    <3>3. run'[e] = run[e]
      BY <1>10, <3>1, <3>2 DEF FailCommits, Commits, TypeOK
    <3> QED
      BY <3>1, <3>3
  <2>4. CASE j \in abandoned \/ queue[j] > 0 \/ WillRefuse(j)
    BY <1>10, <2>4 DEF FailCommits, Commits
  <2> QED
    BY <2>2, <2>3, <2>4
<1>11. ASSUME NEW r \in Executors, NEW j \in Jobs, Receive(r, j)
       PROVE  NoSilentStall'
  BY <1>11 DEF Receive, HasRow, TypeOK
<1>12. ASSUME NEW r \in Executors,
              ClaimLoads(r) \/ SucceedLoads(r) \/ FailLoads(r)
       PROVE  NoSilentStall'
  <2>1. CASE ClaimLoads(r)
    BY <2>1, LoadsKeepAttended DEF ClaimLoads
  <2>2. CASE SucceedLoads(r)
    BY <2>2, LoadsKeepAttended DEF SucceedLoads
  <2>3. CASE FailLoads(r)
    BY <2>3, LoadsKeepAttended DEF FailLoads
  <2> QED
    BY <1>12, <2>1, <2>2, <2>3
<1>13. ASSUME NEW r \in Executors,
              ClaimRaises(r) \/ FailRaises(r) \/ ChildDies(r)
       PROVE  NoSilentStall'
  <2>1. CASE ClaimRaises(r)
    BY <2>1 DEF ClaimRaises, Ends, Idle, TypeOK
  <2>2. CASE FailRaises(r)
    BY <2>2 DEF FailRaises, Ends, Idle, TypeOK
  <2>3. CASE ChildDies(r)
    BY <2>3 DEF ChildDies, Ends, Idle, TypeOK
  <2> QED
    BY <1>13, <2>1, <2>2, <2>3
<1>14. ASSUME NEW r \in Executors, StageCompletes(r) PROVE NoSilentStall'
  BY <1>14 DEF StageCompletes, TypeOK
<1>15. ASSUME NEW r \in Executors, StageRaises(r) PROVE NoSilentStall'
  BY <1>15 DEF StageRaises, Goes, TypeOK
<1>16. ASSUME NEW r \in Executors, SucceedRaises(r) PROVE NoSilentStall'
  BY <1>16 DEF SucceedRaises, TypeOK
<1>17. ASSUME NEW r \in Executors, VisibilityTimeout(r) PROVE NoSilentStall'
  BY <1>17 DEF VisibilityTimeout, TypeOK
<1>18. ASSUME NEW r \in Executors, WorkerDies(r) PROVE NoSilentStall'
  BY <1>18 DEF WorkerDies, Ends, Idle, TypeOK
<1> QED
  BY <1>1, <1>2, <1>3, <1>4, <1>5, <1>6, <1>7, <1>8, <1>9, <1>10, <1>11,
     <1>12, <1>13, <1>14, <1>15, <1>16, <1>17, <1>18
     DEF Next, ApiStep, Execute, Fault

\* A load makes its session the sole holder of a copy, or notes the race.
LEMMA LoadsKeepCoherence ==
    ASSUME TypeOK, SoleCopy, RowCoherent, NEW r \in Executors, NEW pc,
           run[r].pc \notin LoadedPhases \cup {"idle"}, Loads(r, pc)
    PROVE  SoleCopy' /\ RowCoherent'
<1> DEFINE j == run[r].job
<1>1. j \in Jobs /\ UNCHANGED <<row, plan, api>> /\ raced \subseteq raced'
  BY DEF Loads, NoteRace, TypeOK, LoadedPhases
<1>2. /\ run'[r].copy = row[j] /\ run'[r].job = j
      /\ \A e \in Executors \ {r} : run'[e] = run[e]
  BY DEF Loads, TypeOK
<1>3. j \notin raced' =>
          /\ api[j].pc # "refusing"
          /\ \A e \in Executors \ {r} :
                run[e].pc \in LoadedPhases => run[e].job # j
  BY <1>1 DEF Loads, NoteRace, Updating, Runs, LoadedPhases
<1>4. RowCoherent'
  BY <1>1 DEF RowCoherent
<1>5. SoleCopy'
  BY <1>1, <1>2, <1>3 DEF SoleCopy, SameColumns
<1> QED
  BY <1>4, <1>5

\* The commit of a sole holder writes the three columns as one.
LEMMA CommitsKeepCoherence ==
    ASSUME TypeOK, SoleCopy, RowCoherent, NEW r \in Executors, NEW pc, NEW new,
           run[r].pc \in LoadedPhases, pc \notin LoadedPhases,
           Coherent(new, plan[run[r].job]), Commits(r, new, pc)
    PROVE  SoleCopy' /\ RowCoherent'
<1> DEFINE j == run[r].job
<1>1. j \in Jobs /\ UNCHANGED <<plan, api, raced>>
  BY DEF Commits, TypeOK, LoadedPhases
<1>2. /\ run'[r].pc \notin LoadedPhases
      /\ \A e \in Executors \ {r} : run'[e] = run[e]
      /\ \A i \in Jobs \ {j} : row'[i] = row[i]
  BY DEF Commits, TypeOK, Idle, LoadedPhases
<1>3. row'[j] = Updated(row[j], run[r].copy, new)
  BY <1>1 DEF Commits, TypeOK
<1>4. j \notin raced => Coherent(row'[j], plan[j])
  BY <1>1, <1>3, UpdatedStatus DEF SoleCopy, SameColumns, Coherent, TypeOK
<1>5. RowCoherent'
  BY <1>1, <1>2, <1>4 DEF RowCoherent
<1>6. SoleCopy'
  <2>1. j \notin raced =>
            /\ api[j].pc # "refusing"
            /\ \A e \in Executors \ {r} :
                  run[e].pc \in LoadedPhases => run[e].job # j
    BY DEF SoleCopy
  <2>2. \A e \in Executors :
            run[e].pc \in LoadedPhases => run[e].job \in Jobs
    BY DEF TypeOK, LoadedPhases
  <2>3. \A e \in Executors :
            run'[e].pc \in LoadedPhases /\ run'[e].job \notin raced' =>
                /\ e # r /\ run'[e] = run[e]
                /\ run[e].job # j /\ row'[run[e].job] = row[run[e].job]
    BY <1>1, <1>2, <2>1, <2>2
  <2>4. \A i \in Jobs \ raced' : api'[i].pc = "refusing" =>
            i # j /\ row'[i] = row[i]
    BY <1>1, <1>2, <2>1
  <2> QED
    BY <1>1, <1>2, <2>3, <2>4 DEF SoleCopy
<1> QED
  BY <1>5, <1>6

\* An unraced row is always written as a whole, hence coherent.
LEMMA CoherentStep ==
    TypeOK /\ HasRow /\ HasDone /\ SoleCopy /\ RowCoherent /\ [Next]_vars
        => SoleCopy' /\ RowCoherent'
<1> SUFFICES ASSUME TypeOK, HasRow, HasDone, SoleCopy, RowCoherent, [Next]_vars
             PROVE  SoleCopy' /\ RowCoherent'
  OBVIOUS
<1> USE DEF LoadedPhases
<1>1. CASE UNCHANGED vars
  BY <1>1 DEF vars, SoleCopy, RowCoherent
<1>2. ASSUME NEW j \in Jobs, CreateJob(j) PROVE SoleCopy' /\ RowCoherent'
  <2>1. row'[j] = [row[j] EXCEPT !.status = "queued"] /\ row[j].status = "absent"
    BY <1>2 DEF CreateJob, HasRow, TypeOK
  <2>2. Coherent(row'[j], plan[j]) \/ j \in raced
    BY <2>1 DEF Coherent, RowCoherent, TypeOK, Rows
  <2>3. /\ api'[j].pc = "created"
        /\ \A i \in Jobs \ {j} : api'[i] = api[i] /\ row'[i] = row[i]
        /\ UNCHANGED <<plan, run, raced>>
    BY <1>2 DEF CreateJob, ApiGoes, TypeOK
  <2>4. \A r \in Executors : run[r].pc # "idle" => run[r].job # j
    BY <2>1 DEF HasRow
  <2> QED
    BY <2>2, <2>3, <2>4 DEF SoleCopy, RowCoherent, TypeOK
<1>3. ASSUME NEW j \in Jobs,
             SendTask(j) \/ SendTaskTwice(j) \/ SendTaskRaises(j)
      PROVE  SoleCopy' /\ RowCoherent'
  <2>1. /\ api'[j].pc # "refusing"
        /\ \A i \in Jobs \ {j} : api'[i] = api[i]
        /\ UNCHANGED <<row, plan, run, raced>>
    BY <1>3 DEF SendTask, SendTaskTwice, SendTaskRaises, ApiGoes, TypeOK
  <2> QED
    BY <2>1 DEF SoleCopy, RowCoherent, TypeOK
<1>4. ASSUME NEW j \in Jobs, SetTaskId(j) PROVE SoleCopy' /\ RowCoherent'
  <2>1. /\ api'[j].pc # "refusing"
        /\ \A i \in Jobs \ {j} : api'[i] = api[i] /\ row'[i] = row[i]
        /\ SameColumns(row[j], row'[j])
        /\ UNCHANGED <<plan, run, raced>>
    BY <1>4 DEF SetTaskId, ApiEnds, SameColumns, TypeOK, Rows
  <2>2. \A i \in Jobs : SameColumns(row[i], row'[i])
    BY <2>1 DEF SameColumns
  <2>3. RowCoherent'
    BY <2>1, <2>2 DEF RowCoherent, Coherent, SameColumns
  <2>4. \A r \in Executors :
            run[r].pc \in LoadedPhases => run[r].job \in Jobs
    BY DEF TypeOK
  <2>5. SoleCopy'
    BY <2>1, <2>2, <2>4 DEF SoleCopy, SameColumns
  <2> QED
    BY <2>3, <2>5
<1>5. ASSUME NEW j \in Jobs,
             SetTaskIdRaises(j) \/ RefuseRaises(j) \/ ApiDies(j)
      PROVE  SoleCopy' /\ RowCoherent'
  <2>1. /\ api'[j].pc # "refusing"
        /\ \A i \in Jobs \ {j} : api'[i] = api[i]
        /\ UNCHANGED <<row, plan, run, raced>>
    BY <1>5 DEF SetTaskIdRaises, RefuseRaises, ApiDies, ApiEnds, ApiGoes, TypeOK
  <2> QED
    BY <2>1 DEF SoleCopy, RowCoherent, TypeOK
<1>6. ASSUME NEW j \in Jobs, RefuseLoads(j) PROVE SoleCopy' /\ RowCoherent'
  <2>1. /\ api'[j].copy = row[j]
        /\ \A i \in Jobs \ {j} : api'[i] = api[i]
        /\ UNCHANGED <<row, plan, run>> /\ raced \subseteq raced'
    BY <1>6 DEF RefuseLoads, NoteRace, TypeOK
  <2>2. j \notin raced' =>
            \A r \in Executors : run[r].pc \in LoadedPhases => run[r].job # j
    BY <1>6 DEF RefuseLoads, NoteRace, Updating, Runs
  <2> QED
    BY <2>1, <2>2 DEF SoleCopy, RowCoherent, SameColumns, TypeOK
<1>7. ASSUME NEW j \in Jobs, RefuseCommits(j) PROVE SoleCopy' /\ RowCoherent'
  <2>1. /\ api[j].pc = "refusing" /\ api'[j].pc # "refusing"
        /\ \A i \in Jobs \ {j} : api'[i] = api[i] /\ row'[i] = row[i]
        /\ row'[j] = Updated(row[j], api[j].copy, Refused)
        /\ UNCHANGED <<plan, run, raced>>
    BY <1>7 DEF RefuseCommits, ApiEnds, TypeOK
  <2>2. j \notin raced => Coherent(row'[j], plan[j])
    BY <2>1, UpdatedStatus
       DEF SoleCopy, SameColumns, Coherent, Refused, TypeOK
  <2> QED
    BY <2>1, <2>2 DEF SoleCopy, RowCoherent, TypeOK
<1>8. ASSUME NEW r \in Executors, ClaimCommits(r)
      PROVE  SoleCopy' /\ RowCoherent'
  <2>1. Coherent(Claimed, plan[run[r].job])
    BY DEF Coherent, Claimed
  <2> QED
    BY <1>8, <2>1, CommitsKeepCoherence DEF ClaimCommits
<1>9. ASSUME NEW r \in Executors, SucceedCommits(r)
      PROVE  SoleCopy' /\ RowCoherent'
  <2>1. Coherent(Finished(run[r].done), plan[run[r].job])
    BY <1>9 DEF SucceedCommits, HasDone, Coherent, Finished
  <2> QED
    BY <1>9, <2>1, CommitsKeepCoherence DEF SucceedCommits
<1>10. ASSUME NEW r \in Executors, FailCommits(r)
       PROVE  SoleCopy' /\ RowCoherent'
  <2>1. Coherent(Broken, plan[run[r].job])
    BY DEF Coherent, Broken
  <2> QED
    BY <1>10, <2>1, CommitsKeepCoherence DEF FailCommits
<1>11. ASSUME NEW r \in Executors,
              ClaimLoads(r) \/ SucceedLoads(r) \/ FailLoads(r)
       PROVE  SoleCopy' /\ RowCoherent'
  BY <1>11, LoadsKeepCoherence DEF ClaimLoads, SucceedLoads, FailLoads
<1>12. ASSUME NEW r \in Executors,
              \/ ClaimRaises(r) \/ FailRaises(r) \/ WorkerDies(r)
              \/ ChildDies(r) \/ StageCompletes(r) \/ StageRaises(r)
              \/ SucceedRaises(r) \/ VisibilityTimeout(r)
              \/ \E j \in Jobs : Receive(r, j)
       PROVE  SoleCopy' /\ RowCoherent'
  <2>1. /\ run'[r].pc \in LoadedPhases =>
               /\ run[r].pc \in LoadedPhases /\ run'[r].job = run[r].job
               /\ run'[r].copy = run[r].copy
        /\ \A e \in Executors \ {r} : run'[e] = run[e]
        /\ UNCHANGED <<row, plan, api, raced>>
    <3>1. CASE ClaimRaises(r) \/ FailRaises(r)
      BY <3>1 DEF ClaimRaises, FailRaises, Ends, Idle, TypeOK
    <3>2. CASE WorkerDies(r)
      BY <3>2 DEF WorkerDies, Ends, Idle, TypeOK
    <3>3. CASE ChildDies(r)
      BY <3>3 DEF ChildDies, Ends, Idle, TypeOK
    <3>4. CASE StageCompletes(r)
      BY <3>4 DEF StageCompletes, TypeOK
    <3>5. CASE StageRaises(r)
      BY <3>5 DEF StageRaises, Goes, TypeOK
    <3>6. CASE SucceedRaises(r)
      BY <3>6 DEF SucceedRaises, TypeOK
    <3>7. CASE VisibilityTimeout(r)
      BY <3>7 DEF VisibilityTimeout, TypeOK
    <3>8. CASE \E j \in Jobs : Receive(r, j)
      BY <3>8 DEF Receive, TypeOK
    <3> QED
      BY <1>12, <3>1, <3>2, <3>3, <3>4, <3>5, <3>6, <3>7, <3>8
  <2> QED
    BY <2>1 DEF SoleCopy, RowCoherent
<1> QED
  BY <1>1, <1>2, <1>3, <1>4, <1>5, <1>6, <1>7, <1>8, <1>9, <1>10, <1>11, <1>12
     DEF Next, ApiStep, Execute, Fault

\* A job the broker treats exactly once, and the handler does not refuse after
\* it was sent, has one token: its handler, then one
\* queued message, then one execution, then the result.
OneToken ==
    \A j \in Jobs \ (suspect \cup recanted) :
        /\ api[j].pc \in {"idle", "created", "refused", "refusing"} =>
               queue[j] = 0 /\ \A r \in Executors : run[r].pc # "idle" => run[r].job # j
        /\ queue[j] \in {0, 1}
        /\ \A r \in Executors : run[r].pc # "idle" /\ run[r].job = j =>
               /\ queue[j] = 0
               /\ \A e \in Executors \ {r} : run[e].pc # "idle" => run[e].job # j
        /\ row[j].status \in Terminal =>
               /\ queue[j] = 0
               /\ \A r \in Executors : run[r].pc # "idle" => run[r].job # j
               /\ api[j].pc \in {"sent", "answered"}

\* An executor that only proceeds, or gives up, moves no token to another job.
LEMMA ExecutorKeepsToken ==
    ASSUME TypeOK, OneToken, NEW r \in Executors, run[r].pc # "idle",
           \A e \in Executors \ {r} : run'[e] = run[e],
           run'[r].pc # "idle" => run'[r].job = run[r].job,
           UNCHANGED <<api, queue, recanted>>, suspect \subseteq suspect',
           \A i \in Jobs \ {run[r].job} : row'[i] = row[i],
           \/ row' = row
           \/ run[r].job \in suspect' \cup recanted'
           \/ run'[r].pc # "idle" /\ row'[run[r].job].status \notin Terminal
           \/ run'[r].pc = "idle"
    PROVE  OneToken'
<1> SUFFICES ASSUME NEW j \in Jobs \ (suspect' \cup recanted')
             PROVE  /\ api[j].pc \in {"idle", "created", "refused", "refusing"} =>
                          /\ queue[j] = 0
                          /\ \A e \in Executors : run'[e].pc # "idle" => run'[e].job # j
                    /\ queue[j] \in {0, 1}
                    /\ \A e \in Executors : run'[e].pc # "idle" /\ run'[e].job = j =>
                          /\ queue[j] = 0
                          /\ \A f \in Executors \ {e} :
                                run'[f].pc # "idle" => run'[f].job # j
                    /\ row'[j].status \in Terminal =>
                          /\ queue[j] = 0
                          /\ \A e \in Executors : run'[e].pc # "idle" => run'[e].job # j
                          /\ api[j].pc \in {"sent", "answered"}
  BY DEF OneToken
<1>1. j \in Jobs \ (suspect \cup recanted) /\ run[r].job \in Jobs
  BY DEF TypeOK
<1>2. \A e \in Executors : run'[e].pc # "idle" =>
          run[e].pc # "idle" /\ run'[e].job = run[e].job
  OBVIOUS
<1>3. CASE j # run[r].job
  <2>1. row'[j] = row[j]
    BY <1>1, <1>3
  <2> QED
    BY <1>1, <1>2, <2>1 DEF OneToken
<1>4. CASE j = run[r].job
  <2>1. /\ queue[j] = 0 /\ row[j].status \notin Terminal
        /\ api[j].pc \notin {"idle", "created", "refused", "refusing"}
        /\ \A e \in Executors \ {r} : run[e].pc # "idle" => run[e].job # j
    BY <1>1, <1>4 DEF OneToken
  <2>2. api[j].pc \in {"sent", "answered"}
    BY <2>1 DEF TypeOK, ApiPhases
  <2>3. row'[j].status \in Terminal => run'[r].pc = "idle"
    BY <1>4, <2>1
  <2> QED
    BY <1>2, <1>4, <2>1, <2>2, <2>3
<1> QED
  BY <1>3, <1>4

LEMMA OneTokenStep == TypeOK /\ HasRow /\ OneToken /\ [Next]_vars => OneToken'
<1> SUFFICES ASSUME TypeOK, HasRow, OneToken, [Next]_vars PROVE OneToken'
  OBVIOUS
<1>1. CASE UNCHANGED vars
  BY <1>1 DEF vars, OneToken
<1>2. ASSUME NEW j \in Jobs, CreateJob(j) PROVE OneToken'
  <2>1. /\ api'[j].pc = "created" /\ api[j].pc = "idle"
        /\ row'[j].status = "queued"
        /\ \A i \in Jobs \ {j} : api'[i] = api[i] /\ row'[i] = row[i]
        /\ UNCHANGED <<run, queue, suspect, recanted>>
    BY <1>2 DEF CreateJob, ApiGoes, TypeOK, Rows
  <2> QED
    BY <2>1 DEF OneToken, Terminal
<1>3. ASSUME NEW j \in Jobs,
             SendTask(j) \/ SendTaskTwice(j) \/ SendTaskRaises(j)
      PROVE  OneToken'
  <2>1. /\ api[j].pc = "created" /\ suspect \subseteq suspect'
        /\ \/ queue'[j] = queue[j] + 1 /\ api'[j].pc = "sent"
           \/ queue'[j] = queue[j]
           \/ j \in suspect'
        /\ api'[j].pc \in {"sent", "refused"}
        /\ \A i \in Jobs \ {j} : api'[i] = api[i] /\ queue'[i] = queue[i]
        /\ UNCHANGED <<run, row, recanted>>
    <3>1. CASE SendTask(j)
      BY <3>1 DEF SendTask, ApiGoes, TypeOK
    <3>2. CASE SendTaskTwice(j)
      BY <3>2 DEF SendTaskTwice, ApiGoes, TypeOK
    <3>3. CASE SendTaskRaises(j)
      BY <3>3 DEF SendTaskRaises, ApiGoes, TypeOK
    <3> QED
      BY <1>3, <3>1, <3>2, <3>3
  <2>2. j \notin suspect \cup recanted =>
            /\ queue[j] = 0 /\ row[j].status \notin Terminal
            /\ \A r \in Executors : run[r].pc # "idle" => run[r].job # j
    BY <2>1 DEF OneToken
  <2> QED
    BY <2>1, <2>2 DEF OneToken
<1>4. ASSUME NEW j \in Jobs,
             SetTaskId(j) \/ SetTaskIdRaises(j) \/ RefuseRaises(j) \/ ApiDies(j)
      PROVE  OneToken'
  <2>1. /\ api'[j].pc = "answered" \/ j \in recanted'
        /\ recanted \subseteq recanted'
        /\ \A i \in Jobs \ {j} : api'[i] = api[i]
        /\ \A i \in Jobs : row'[i].status = row[i].status
        /\ UNCHANGED <<run, queue, suspect>>
    <3>1. CASE SetTaskId(j)
      BY <3>1 DEF SetTaskId, ApiEnds, TypeOK, Rows
    <3>2. CASE RefuseRaises(j) \/ ApiDies(j)
      BY <3>2 DEF RefuseRaises, ApiDies, ApiEnds, TypeOK
    <3>3. CASE SetTaskIdRaises(j)
      BY <3>3 DEF SetTaskIdRaises, ApiEnds, ApiGoes, TypeOK
    <3> QED
      BY <1>4, <3>1, <3>2, <3>3
  <2> QED
    BY <2>1 DEF OneToken
<1>5. ASSUME NEW j \in Jobs, RefuseLoads(j) PROVE OneToken'
  <2>1. /\ api[j].pc = "refused" /\ api'[j].pc = "refusing"
        /\ \A i \in Jobs \ {j} : api'[i] = api[i]
        /\ UNCHANGED <<row, run, queue, suspect, recanted>>
    BY <1>5 DEF RefuseLoads, TypeOK
  <2> QED
    BY <2>1 DEF OneToken
<1>6. ASSUME NEW j \in Jobs, RefuseCommits(j) PROVE OneToken'
  <2>1. /\ api[j].pc = "refusing" /\ api'[j].pc = "answered"
        /\ \A i \in Jobs \ {j} : api'[i] = api[i] /\ row'[i] = row[i]
        /\ UNCHANGED <<run, queue, suspect, recanted>>
    BY <1>6 DEF RefuseCommits, ApiEnds, TypeOK
  <2> QED
    BY <2>1 DEF OneToken
<1>7. ASSUME NEW r \in Executors, NEW j \in Jobs, Receive(r, j) PROVE OneToken'
  <2>1. /\ run[r].pc = "idle" /\ queue[j] > 0
        /\ queue'[j] = queue[j] - 1
        /\ run'[r].pc # "idle" /\ run'[r].job = j
        /\ \A i \in Jobs \ {j} : queue'[i] = queue[i]
        /\ \A e \in Executors \ {r} : run'[e] = run[e]
        /\ UNCHANGED <<row, api, suspect, recanted>>
    BY <1>7 DEF Receive, HasRow, TypeOK
  <2>2. j \notin suspect \cup recanted =>
            /\ queue[j] = 1 /\ queue'[j] = 0 /\ row[j].status \notin Terminal
            /\ api[j].pc \notin {"idle", "created", "refused", "refusing"}
            /\ \A e \in Executors : run[e].pc # "idle" => run[e].job # j
    BY <2>1 DEF OneToken
  <2> QED
    BY <2>1, <2>2 DEF OneToken
<1>8. ASSUME NEW r \in Executors,
             \/ ClaimLoads(r) \/ SucceedLoads(r) \/ FailLoads(r)
             \/ StageCompletes(r) \/ StageRaises(r) \/ SucceedRaises(r)
             \/ ClaimRaises(r) \/ FailRaises(r) \/ ChildDies(r)
      PROVE  OneToken'
  <2>1. /\ run[r].pc # "idle"
        /\ \A e \in Executors \ {r} : run'[e] = run[e]
        /\ run'[r].pc # "idle" => run'[r].job = run[r].job
        /\ UNCHANGED <<row, api, queue, suspect, recanted>>
    <3>1. CASE ClaimLoads(r) \/ SucceedLoads(r) \/ FailLoads(r)
      BY <3>1 DEF ClaimLoads, SucceedLoads, FailLoads, Loads, TypeOK
    <3>2. CASE StageCompletes(r)
      BY <3>2 DEF StageCompletes, TypeOK
    <3>3. CASE StageRaises(r)
      BY <3>3 DEF StageRaises, Goes, TypeOK
    <3>4. CASE SucceedRaises(r)
      BY <3>4 DEF SucceedRaises, TypeOK
    <3>5. CASE ClaimRaises(r)
      BY <3>5 DEF ClaimRaises, Ends, Idle, TypeOK
    <3>6. CASE FailRaises(r)
      BY <3>6 DEF FailRaises, Ends, Idle, TypeOK
    <3>7. CASE ChildDies(r)
      BY <3>7 DEF ChildDies, Ends, Idle, TypeOK
    <3> QED
      BY <1>8, <3>1, <3>2, <3>3, <3>4, <3>5, <3>6, <3>7
  <2> QED
    BY <2>1, ExecutorKeepsToken
<1>9. ASSUME NEW r \in Executors,
             ClaimCommits(r) \/ SucceedCommits(r) \/ FailCommits(r)
      PROVE  OneToken'
  <2>1. run[r].pc # "idle" /\ run[r].job \in Jobs
    BY <1>9 DEF ClaimCommits, SucceedCommits, FailCommits, TypeOK
  <2>2. /\ \A e \in Executors \ {r} : run'[e] = run[e]
        /\ \A i \in Jobs \ {run[r].job} : row'[i] = row[i]
        /\ UNCHANGED <<api, queue, suspect, recanted>>
    BY <1>9 DEF ClaimCommits, SucceedCommits, FailCommits, Commits, TypeOK
  <2>3. CASE ClaimCommits(r)
    <3>1. /\ run'[r].pc = "work" /\ run'[r].job = run[r].job
          /\ row'[run[r].job] = Updated(row[run[r].job], run[r].copy, Claimed)
      BY <2>1, <2>3 DEF ClaimCommits, Commits, TypeOK
    <3>2. \/ row'[run[r].job].status = "running"
          \/ row'[run[r].job].status = row[run[r].job].status
      BY <2>1, <3>1, UpdatedStatus DEF Claimed, TypeOK
    <3>3. run[r].job \in suspect \cup recanted \/ row'[run[r].job].status \notin Terminal
      BY <2>1, <3>2 DEF OneToken, Terminal
    <3> QED
      BY <2>1, <2>2, <3>1, <3>3, ExecutorKeepsToken
  <2>4. CASE SucceedCommits(r) \/ FailCommits(r)
    <3>1. run'[r].pc = "idle"
      BY <2>4 DEF SucceedCommits, FailCommits, Commits, Idle, TypeOK
    <3> QED
      BY <2>1, <2>2, <3>1, ExecutorKeepsToken
  <2> QED
    BY <1>9, <2>3, <2>4
<1>10. ASSUME NEW r \in Executors, VisibilityTimeout(r) \/ WorkerDies(r)
       PROVE  OneToken'
  <2>1. /\ run[r].pc # "idle" /\ run[r].job \in Jobs
        /\ run[r].job \in suspect' /\ suspect \subseteq suspect'
        /\ \A e \in Executors \ {r} : run'[e] = run[e]
        /\ run'[r].pc # "idle" => run'[r].job = run[r].job
        /\ \A i \in Jobs \ {run[r].job} : queue'[i] = queue[i]
        /\ UNCHANGED <<row, api, recanted>>
    <3>1. CASE VisibilityTimeout(r)
      BY <3>1 DEF VisibilityTimeout, TypeOK
    <3>2. CASE WorkerDies(r)
      BY <3>2 DEF WorkerDies, Ends, Idle, TypeOK
    <3> QED
      BY <1>10, <3>1, <3>2
  <2> QED
    BY <2>1 DEF OneToken
<1> QED
  BY <1>1, <1>2, <1>3, <1>4, <1>5, <1>6, <1>7, <1>8, <1>9, <1>10
     DEF Next, ApiStep, Execute, Fault

(***************************************************************************)
(* The theorems.                                                           *)
(***************************************************************************)

IInv == /\ TypeOK
        /\ HasRow /\ HasLeftQueue /\ HasDone /\ SoleCopy /\ OneToken
        /\ SucceededIsEarned /\ RowCoherent /\ NoSilentStall

\* The initial states satisfy the inductive invariant.
LEMMA InitIInv == Init => IInv
<1> SUFFICES ASSUME Init PROVE IInv
  OBVIOUS
<1> USE DEF Init
<1>1. TypeOK
  BY BoundsAreNatural DEF TypeOK, Rows, NoRow, Idle, Stages, Statuses,
     Errors, ApiPhases, RunPhases
<1>2. HasRow /\ HasLeftQueue /\ HasDone
  BY DEF HasRow, HasLeftQueue, HasDone, NoRow, Idle, LoadedPhases
<1>3. SoleCopy /\ OneToken
  BY DEF SoleCopy, OneToken, NoRow, Idle, LoadedPhases, Terminal
<1>4. SucceededIsEarned /\ RowCoherent /\ NoSilentStall
  BY DEF SucceededIsEarned, RowCoherent, Coherent, NoSilentStall, NoRow
<1> QED
  BY <1>1, <1>2, <1>3, <1>4 DEF IInv

\* Every step preserves the inductive invariant.
LEMMA StepIInv == IInv /\ [Next]_vars => IInv'
  BY TypeStep, HasRowStep, HasLeftQueueStep, HasDoneStep, CoherentStep,
     OneTokenStep, EarnedStep, StallStep DEF IInv

LEMMA Invariance == Spec => []IInv
<1> QED
  BY InitIInv, StepIInv, PTL DEF Spec

\* Every variable keeps its type.
THEOREM TypeCorrect == Spec => []TypeOK
<1>1. IInv => TypeOK
  BY DEF IInv
<1> QED
  BY <1>1, Invariance, PTL

\* No row says succeeded before all its stages have been completed.
THEOREM Earned == Spec => []SucceededIsEarned
<1>1. IInv => SucceededIsEarned
  BY DEF IInv
<1> QED
  BY <1>1, Invariance, PTL

\* The columns of a row whose writers never overlapped tell one story.
THEOREM Coherence == Spec => []RowCoherent
<1>1. IInv => RowCoherent
  BY DEF IInv
<1> QED
  BY <1>1, Invariance, PTL

\* An unfinished job is attended, or a named fault abandoned it.
THEOREM NoStall == Spec => []NoSilentStall
<1>1. IInv => NoSilentStall
  BY DEF IInv
<1> QED
  BY <1>1, Invariance, PTL

\* Only a commit of update_status, create and set_task_id write a row.
LEMMA RowWriters ==
    ASSUME TypeOK, HasRow, HasLeftQueue, HasDone, [Next]_vars, NEW j \in Jobs
    PROVE  \/ row'[j] = row[j]
           \/ CreateJob(j) /\ row'[j] = [row[j] EXCEPT !.status = "queued"]
           \/ SetTaskId(j) /\ row'[j] = [row[j] EXCEPT !.task = TRUE]
           \/ /\ api[j].pc = "refusing"
              /\ row'[j] = Updated(row[j], api[j].copy, Refused)
           \/ \E r \in Executors, new \in {Claimed, Broken, Finished(plan[j])} :
                 /\ run[r].pc \in LoadedPhases /\ run[r].job = j
                 /\ new.status = "succeeded" => run[r].pc = "succeeding"
                 /\ row'[j] = Updated(row[j], run[r].copy, new)
<1>1. CASE UNCHANGED row
  BY <1>1
<1>2. ASSUME NEW i \in Jobs,
             CreateJob(i) \/ SetTaskId(i) \/ RefuseCommits(i)
      PROVE  \/ row'[j] = row[j]
             \/ CreateJob(j) /\ row'[j] = [row[j] EXCEPT !.status = "queued"]
             \/ SetTaskId(j) /\ row'[j] = [row[j] EXCEPT !.task = TRUE]
             \/ /\ api[j].pc = "refusing"
                /\ row'[j] = Updated(row[j], api[j].copy, Refused)
  BY <1>2 DEF CreateJob, SetTaskId, RefuseCommits, TypeOK
<1>3. ASSUME NEW r \in Executors,
             ClaimCommits(r) \/ SucceedCommits(r) \/ FailCommits(r)
      PROVE  \/ row'[j] = row[j]
             \/ \E new \in {Claimed, Broken, Finished(plan[j])} :
                 /\ run[r].pc \in LoadedPhases /\ run[r].job = j
                 /\ new.status = "succeeded" => run[r].pc = "succeeding"
                 /\ row'[j] = Updated(row[j], run[r].copy, new)
  <2>1. CASE j # run[r].job
    BY <1>3, <2>1 DEF ClaimCommits, SucceedCommits, FailCommits, Commits, TypeOK
  <2>2. CASE j = run[r].job /\ ClaimCommits(r)
    BY <2>2 DEF ClaimCommits, Commits, Claimed, LoadedPhases, TypeOK
  <2>3. CASE j = run[r].job /\ SucceedCommits(r)
    BY <2>3 DEF SucceedCommits, Commits, HasDone, LoadedPhases, TypeOK
  <2>4. CASE j = run[r].job /\ FailCommits(r)
    BY <2>4 DEF FailCommits, Commits, Broken, LoadedPhases, TypeOK
  <2> QED
    BY <1>3, <2>1, <2>2, <2>3, <2>4
<1>4. ASSUME NEW i \in Jobs,
             \/ SendTask(i) \/ SendTaskTwice(i) \/ SendTaskRaises(i)
             \/ SetTaskIdRaises(i) \/ RefuseLoads(i) \/ RefuseRaises(i)
             \/ ApiDies(i)
      PROVE  UNCHANGED row
  BY <1>4 DEF SendTask, SendTaskTwice, SendTaskRaises, SetTaskIdRaises,
     RefuseLoads, RefuseRaises, ApiDies
<1>5. ASSUME NEW r \in Executors,
             \/ ClaimLoads(r) \/ SucceedLoads(r) \/ FailLoads(r)
             \/ ClaimRaises(r) \/ SucceedRaises(r) \/ FailRaises(r)
             \/ StageCompletes(r) \/ StageRaises(r) \/ VisibilityTimeout(r)
             \/ WorkerDies(r) \/ ChildDies(r) \/ \E i \in Jobs : Receive(r, i)
      PROVE  UNCHANGED row
  BY <1>5 DEF ClaimLoads, SucceedLoads, FailLoads, Loads, ClaimRaises,
     SucceedRaises, FailRaises, StageCompletes, StageRaises,
     VisibilityTimeout, WorkerDies, ChildDies, Receive
<1> QED
  BY <1>1, <1>2, <1>3, <1>4, <1>5 DEF Next, ApiStep, Execute, Fault, vars

\* What the broker delivers once is written once: a result is final.
THEOREM ResultIsFinal == Spec => TerminalIsFinal
<1>1. IInv /\ [Next]_vars =>
          [\A j \in Jobs \ (suspect' \cup recanted') :
              row[j].status \in Terminal =>
                  row'[j] = [row[j] EXCEPT !.task = @ \/ row'[j].task]]_vars
  <2> SUFFICES ASSUME IInv, [Next]_vars, NEW j \in Jobs \ (suspect' \cup recanted'),
                      row[j].status \in Terminal
               PROVE  row'[j] = [row[j] EXCEPT !.task = @ \/ row'[j].task]
    OBVIOUS
  <2> USE DEF IInv
  <2>1. suspect \subseteq suspect' /\ recanted \subseteq recanted'
    BY DEF vars, Next, ApiStep, Execute, Fault, CreateJob, SendTask,
       SendTaskTwice, SendTaskRaises, SetTaskId, SetTaskIdRaises, RefuseLoads,
       RefuseCommits, RefuseRaises, ApiDies, ClaimLoads, ClaimCommits,
       ClaimRaises, StageCompletes, StageRaises, SucceedLoads, SucceedCommits,
       SucceedRaises, FailLoads, FailCommits, FailRaises, Loads, Commits,
       Receive, VisibilityTimeout, WorkerDies, ChildDies
  <2>2. /\ \A r \in Executors : run[r].pc # "idle" => run[r].job # j
        /\ api[j].pc \in {"sent", "answered"}
    BY <2>1 DEF OneToken
  <2>3. row'[j] = row[j] \/ row'[j] = [row[j] EXCEPT !.task = TRUE]
    BY <2>2, RowWriters DEF CreateJob, LoadedPhases
  <2>4. row[j].task \in BOOLEAN /\ row[j] \in Rows
    BY DEF TypeOK, Rows
  <2>5. CASE row'[j] = row[j]
    BY <2>4, <2>5 DEF Rows
  <2>6. CASE row'[j] = [row[j] EXCEPT !.task = TRUE]
    BY <2>4, <2>6 DEF Rows
  <2> QED
    BY <2>3, <2>5, <2>6
<1> QED
  BY <1>1, Invariance, PTL DEF Spec, TerminalIsFinal

\* A step that changes the status of one job is a Become of the abstraction.
LEMMA OneStatus ==
    ASSUME NEW j \in Jobs, NEW s, UNCHANGED <<plan, effects>>,
           \A i \in Jobs \ {j} : row'[i].status = row[i].status,
           row'[j].status = s
    PROVE  Lifecycle!Become(j, s)
<1>1. [i \in Jobs |-> row'[i].status] =
          [[i \in Jobs |-> row[i].status] EXCEPT ![j] = s]
  OBVIOUS
<1> QED
  BY <1>1 DEF Lifecycle!Become

\* A step that leaves every status, plan and effect alone is a stutter.
LEMMA NoStatus ==
    ASSUME UNCHANGED <<plan, effects>>,
           \A i \in Jobs : row'[i].status = row[i].status
    PROVE  UNCHANGED Lifecycle!vars
<1>1. [i \in Jobs |-> row'[i].status] = [i \in Jobs |-> row[i].status]
  OBVIOUS
<1> QED
  BY <1>1 DEF Lifecycle!vars

\* Every step of the job system is a step of the life cycle, or invisible.
LEMMA LifecycleStep == IInv /\ [Next]_vars => [Lifecycle!Next]_(Lifecycle!vars)
<1> SUFFICES ASSUME IInv, [Next]_vars PROVE [Lifecycle!Next]_(Lifecycle!vars)
  OBVIOUS
<1> USE DEF IInv
<1>1. CASE UNCHANGED <<row, plan, effects>>
  BY <1>1, NoStatus
<1>2. ASSUME NEW j \in Jobs, CreateJob(j) PROVE Lifecycle!Next
  <2>1. /\ row[j].status = "absent" /\ row'[j].status = "queued"
        /\ \A i \in Jobs \ {j} : row'[i] = row[i]
        /\ UNCHANGED <<plan, effects>>
    BY <1>2 DEF CreateJob, HasRow, TypeOK, Rows
  <2>2. Lifecycle!Submit(j)
    BY <2>1, OneStatus DEF Lifecycle!Submit
  <2> QED
    BY <2>2 DEF Lifecycle!Next
<1>3. ASSUME NEW j \in Jobs, SetTaskId(j) PROVE UNCHANGED Lifecycle!vars
  <2>1. /\ \A i \in Jobs : row'[i].status = row[i].status
        /\ UNCHANGED <<plan, effects>>
    BY <1>3 DEF SetTaskId, TypeOK, Rows
  <2> QED
    BY <2>1, NoStatus
<1>4. ASSUME NEW j \in Jobs, RefuseCommits(j)
      PROVE  [Lifecycle!Next]_(Lifecycle!vars)
  <2>1. /\ row[j].status # "absent"
        /\ row'[j].status \in {row[j].status, "failed"}
        /\ \A i \in Jobs \ {j} : row'[i] = row[i]
        /\ UNCHANGED <<plan, effects>>
    BY <1>4, UpdatedStatus DEF RefuseCommits, Refused, HasRow, TypeOK
  <2>2. CASE row'[j].status = row[j].status
    BY <2>1, <2>2, NoStatus
  <2>3. CASE row'[j].status = "failed"
    <3>1. Lifecycle!Fail(j)
      BY <2>1, <2>3, OneStatus DEF Lifecycle!Fail
    <3> QED
      BY <3>1 DEF Lifecycle!Next
  <2> QED
    BY <2>1, <2>2, <2>3
<1>5. ASSUME NEW r \in Executors, ClaimCommits(r)
      PROVE  [Lifecycle!Next]_(Lifecycle!vars)
  <2>0. PICK j \in Jobs : j = run[r].job
    BY <1>5 DEF ClaimCommits, TypeOK
  <2>1. /\ row[j].status # "absent"
        /\ row'[j].status \in {row[j].status, "running"}
        /\ \A i \in Jobs \ {j} : row'[i] = row[i]
        /\ UNCHANGED <<plan, effects>>
    BY <1>5, <2>0, UpdatedStatus DEF ClaimCommits, Commits, Claimed, HasRow, TypeOK
  <2>2. CASE row'[j].status = row[j].status
    BY <2>1, <2>2, NoStatus
  <2>3. CASE row'[j].status = "running"
    <3>1. Lifecycle!Claim(j)
      BY <2>1, <2>3, OneStatus DEF Lifecycle!Claim
    <3> QED
      BY <3>1 DEF Lifecycle!Next
  <2> QED
    BY <2>1, <2>2, <2>3
<1>6. ASSUME NEW r \in Executors, FailCommits(r)
      PROVE  [Lifecycle!Next]_(Lifecycle!vars)
  <2>0. PICK j \in Jobs : j = run[r].job
    BY <1>6 DEF FailCommits, TypeOK
  <2>1. /\ row[j].status # "absent"
        /\ row'[j].status \in {row[j].status, "failed"}
        /\ \A i \in Jobs \ {j} : row'[i] = row[i]
        /\ UNCHANGED <<plan, effects>>
    BY <1>6, <2>0, UpdatedStatus DEF FailCommits, Commits, Broken, HasRow, TypeOK
  <2>2. CASE row'[j].status = row[j].status
    BY <2>1, <2>2, NoStatus
  <2>3. CASE row'[j].status = "failed"
    <3>1. Lifecycle!Fail(j)
      BY <2>1, <2>3, OneStatus DEF Lifecycle!Fail
    <3> QED
      BY <3>1 DEF Lifecycle!Next
  <2> QED
    BY <2>1, <2>2, <2>3
<1>7. ASSUME NEW r \in Executors, SucceedCommits(r)
      PROVE  [Lifecycle!Next]_(Lifecycle!vars)
  <2>0. PICK j \in Jobs : j = run[r].job
    BY <1>7 DEF SucceedCommits, TypeOK
  <2>1. /\ row[j].status \notin {"absent", "queued"}
        /\ plan[j] \subseteq effects[j]
        /\ row'[j].status \in {row[j].status, "succeeded"}
        /\ \A i \in Jobs \ {j} : row'[i] = row[i]
        /\ UNCHANGED <<plan, effects>>
    BY <1>7, <2>0, UpdatedStatus DEF SucceedCommits, Commits, Finished, HasRow,
       HasLeftQueue, HasDone, TypeOK
  <2>2. CASE row'[j].status = row[j].status
    BY <2>1, <2>2, NoStatus
  <2>3. CASE row'[j].status = "succeeded"
    <3>1. Lifecycle!Succeed(j)
      BY <2>1, <2>3, OneStatus DEF Lifecycle!Succeed
    <3> QED
      BY <3>1 DEF Lifecycle!Next
  <2> QED
    BY <2>1, <2>2, <2>3
<1>8. ASSUME NEW r \in Executors, StageCompletes(r) PROVE Lifecycle!Next
  <2> DEFINE j == run[r].job
  <2>1. /\ j \in Jobs /\ row[j].status # "absent" /\ NextStage(r) \in Stages
        /\ effects' = [effects EXCEPT ![j] = @ \cup {NextStage(r)}]
        /\ UNCHANGED <<row, plan>>
    BY <1>8, NextStageRemains DEF StageCompletes, HasRow, TypeOK
  <2>2. Lifecycle!Complete(j, NextStage(r))
    BY <2>1 DEF Lifecycle!Complete
  <2> QED
    BY <2>1, <2>2 DEF Lifecycle!Next
<1>9. ASSUME NEW j \in Jobs,
             \/ SendTask(j) \/ SendTaskTwice(j) \/ SendTaskRaises(j)
             \/ SetTaskIdRaises(j) \/ RefuseLoads(j) \/ RefuseRaises(j)
             \/ ApiDies(j)
      PROVE  UNCHANGED <<row, plan, effects>>
  BY <1>9 DEF SendTask, SendTaskTwice, SendTaskRaises, SetTaskIdRaises,
     RefuseLoads, RefuseRaises, ApiDies
<1>10. ASSUME NEW r \in Executors,
              \/ ClaimLoads(r) \/ SucceedLoads(r) \/ FailLoads(r)
              \/ ClaimRaises(r) \/ SucceedRaises(r) \/ FailRaises(r)
              \/ StageRaises(r) \/ VisibilityTimeout(r)
              \/ WorkerDies(r) \/ ChildDies(r) \/ \E i \in Jobs : Receive(r, i)
       PROVE  UNCHANGED <<row, plan, effects>>
  BY <1>10 DEF ClaimLoads, SucceedLoads, FailLoads, Loads, ClaimRaises,
     SucceedRaises, FailRaises, StageRaises, VisibilityTimeout, WorkerDies,
     ChildDies, Receive
<1> QED
  BY <1>1, <1>2, <1>3, <1>4, <1>5, <1>6, <1>7, <1>8, <1>9, <1>10
     DEF Next, ApiStep, Execute, Fault, vars

\* The rows that the API serves implement the abstract job life cycle.
THEOREM Refinement == Spec => ImplementsLifecycle
<1>1. Init => Lifecycle!Init
  BY DEF Init, Lifecycle!Init, NoRow
<1> QED
  BY <1>1, LifecycleStep, Invariance, PTL
     DEF Spec, ImplementsLifecycle, Lifecycle!Spec
=============================================================================
