--------------------------- MODULE IngestionJobs ---------------------------
(***************************************************************************)
(* The life of an ingestion job: the HTTP handler that creates its row and *)
(* enqueues it (app/api/v1/routes/ingestion.py), the row itself            *)
(* (app/repositories/jobs.py), the Celery queue (external), and the worker *)
(* processes that execute it (app/workers/tasks.py).                       *)
(*                                                                         *)
(* What makes it hard: the row and the queue are two systems with no       *)
(* common transaction; the broker delivers at least once (acks_late), so   *)
(* executions of one job may overlap; and update_status is a read followed *)
(* by an UPDATE of only the columns that differ from what was read.        *)
(***************************************************************************)
EXTENDS Naturals, FiniteSets

CONSTANTS
    Jobs,           \* ingestion jobs that may be submitted
    NoJob,          \* what an idle executor works on
    Executors,      \* pool processes of all Celery workers
    SendFaults,     \* bound: how often send_task raises or sends twice
    DbFaults,       \* bound: how often a call of the job repository raises
    Redeliveries,   \* bound: how often the visibility timeout expires
    Crashes         \* bound: how often an API or worker process dies

ASSUME BoundsAreNatural ==
    /\ SendFaults \in Nat /\ DbFaults \in Nat
    /\ Redeliveries \in Nat /\ Crashes \in Nat

VARIABLES
    row,        \* the ingestion_jobs table
    plan,       \* the stages the options of a job ask for
    api,        \* the request handler of each job: phase, row copy it loaded
    queue,      \* copies of the job's message waiting in Redis
    run,        \* what each executor is doing
    effects,    \* history: stages some execution of the job has completed
    suspect,    \* history: jobs whose message was queued more than once, or
                \*          although send_task raised
    recanted,   \* history: jobs the handler began to refuse after sending them
    raced,      \* history: jobs two of whose update_status calls overlapped
    abandoned,  \* history: jobs a named fault left with nobody to finish them
    budget      \* faults that may still happen

vars == <<row, plan, api, queue, run, effects, suspect, recanted, raced,
          abandoned, budget>>

-----------------------------------------------------------------------------
(* Data *)

Stages   == {"ingestion", "embeddings", "graph"}  \* keys of the report dict
Statuses == {"queued", "running", "succeeded", "failed"}
Terminal == {"succeeded", "failed"}
Errors   == {"none", "enqueue", "execution"}

\* A row of ingestion_jobs; status "absent" stands for no row, the empty
\* report for NULL (a report that is written always has key "ingestion").
Rows == [status : Statuses \cup {"absent"}, report : SUBSET Stages,
         error : Errors, task : BOOLEAN]

NoRow == [status |-> "absent", report |-> {}, error |-> "none", task |-> FALSE]

\* generate_embeddings and update_graph for a structured file, update_graph
\* for an unstructured one, whose ingest embeds within the ingestion stage.
Plans == {p \in SUBSET Stages : "ingestion" \in p}

ApiPhases == {"idle", "created", "sent", "refused", "refusing", "answered"}
RunPhases == {"idle", "claim", "claiming", "work", "succeeding", "fail",
              "failing"}
LoadedPhases == {"claiming", "succeeding", "failing"}

Idle == [pc |-> "idle", job |-> NoJob, done |-> {}, held |-> FALSE,
         copy |-> NoRow]

\* What update_status sets, per caller.
Claimed        == [status |-> "running",   report |-> {}, error |-> "none"]
Finished(done) == [status |-> "succeeded", report |-> done, error |-> "none"]
Broken         == [status |-> "failed",    report |-> {}, error |-> "execution"]
Refused        == [status |-> "failed",    report |-> {}, error |-> "enqueue"]

\* Mutant of Updated: "if error is not None: model.error = error".
UpdatedKeepingError(current, copy, new) ==
    [current EXCEPT
        !.status = IF new.status = copy.status THEN @ ELSE new.status,
        !.report = IF new.report = copy.report THEN @ ELSE new.report,
        !.error  = IF new.error = "none" THEN @ ELSE new.error]

\* The UPDATE a commit emits: only columns whose new value differs from the
\* value loaded; the others keep what other sessions committed meanwhile.
Updated(current, copy, new) ==
    [current EXCEPT
        !.status = IF new.status = copy.status THEN @ ELSE new.status,
        !.report = IF new.report = copy.report THEN @ ELSE new.report,
        !.error  = IF new.error  = copy.error  THEN @ ELSE new.error]

Runs(j) == {r \in Executors : run[r].pc # "idle" /\ run[r].job = j}

\* Some session is between the load and the commit of an update_status(j).
Updating(j) == \/ api[j].pc = "refusing"
               \/ \E r \in Runs(j) : run[r].pc \in LoadedPhases

NoteRace(j) == raced' = IF Updating(j) THEN raced \cup {j} ELSE raced

Spend(fault) == /\ budget[fault] > 0
                /\ budget' = [budget EXCEPT ![fault] = @ - 1]

Init ==
    /\ row = [j \in Jobs |-> NoRow]
    /\ plan \in [Jobs -> Plans]
    /\ api = [j \in Jobs |-> [pc |-> "idle", copy |-> NoRow]]
    /\ queue = [j \in Jobs |-> 0]
    /\ run = [r \in Executors |-> Idle]
    /\ effects = [j \in Jobs |-> {}]
    /\ suspect = {}
    /\ recanted = {}
    /\ raced = {}
    /\ abandoned = {}
    /\ budget = [send |-> SendFaults, db |-> DbFaults,
                 redeliver |-> Redeliveries, crash |-> Crashes]

-----------------------------------------------------------------------------
(* The request handler: _enqueue_job *)

ApiGoes(j, pc) == api' = [api EXCEPT ![j].pc = pc]
ApiEnds(j) == api' = [api EXCEPT ![j] = [pc |-> "answered", copy |-> NoRow]]

\* repository.create: the row is committed before anything is sent.
CreateJob(j) ==
    /\ api[j].pc = "idle"
    /\ row' = [row EXCEPT ![j].status = "queued"]
    /\ ApiGoes(j, "created")
    /\ UNCHANGED <<plan, recanted, queue, run, effects, suspect, raced,
                   abandoned, budget>>

SendTask(j) ==
    /\ api[j].pc = "created"
    /\ queue' = [queue EXCEPT ![j] = @ + 1]
    /\ ApiGoes(j, "sent")
    /\ UNCHANGED <<row, plan, recanted, run, effects, suspect, raced,
                   abandoned, budget>>

\* kombu retries a publish whose answer was lost: the message is there twice.
SendTaskTwice(j) ==
    /\ api[j].pc = "created"
    /\ Spend("send")
    /\ queue' = [queue EXCEPT ![j] = @ + 2]
    /\ suspect' = suspect \cup {j}
    /\ ApiGoes(j, "sent")
    /\ UNCHANGED <<row, plan, recanted, run, effects, raced, abandoned>>

\* send_task raises, with or without the message in the queue.
SendTaskRaises(j) ==
    /\ api[j].pc = "created"
    /\ Spend("send")
    /\ \/ UNCHANGED <<queue, suspect>>
       \/ /\ queue' = [queue EXCEPT ![j] = @ + 1]
          /\ suspect' = suspect \cup {j}
    /\ ApiGoes(j, "refused")
    /\ UNCHANGED <<row, plan, recanted, run, effects, raced, abandoned>>

\* Mutant of SetTaskId: the job that create returned is merged into the row.
SetTaskIdMerges(j) ==
    /\ api[j].pc = "sent"
    /\ row' = [row EXCEPT ![j] = [NoRow EXCEPT !.status = "queued",
                                             !.task = TRUE]]
    /\ ApiEnds(j)
    /\ UNCHANGED <<plan, recanted, queue, run, effects, suspect, raced,
                   abandoned, budget>>

SetTaskId(j) ==
    /\ api[j].pc = "sent"
    /\ row' = [row EXCEPT ![j].task = TRUE]
    /\ ApiEnds(j)
    /\ UNCHANGED <<plan, recanted, queue, run, effects, suspect, raced,
                   abandoned, budget>>

\* set_task_id raises.  When its SELECT or its commit failed, update_status is
\* called on a session that was not rolled back and raises too: the request
\* fails, the row is as it was.  When it got no connection to begin with, the
\* session is sound, and the handler goes on to refuse a job it has sent.
SetTaskIdRaises(j) ==
    /\ api[j].pc = "sent"
    /\ Spend("db")
    /\ \/ ApiEnds(j) /\ UNCHANGED recanted
       \/ ApiGoes(j, "refused") /\ recanted' = recanted \cup {j}
    /\ UNCHANGED <<row, plan, queue, run, effects, suspect, raced, abandoned>>

\* update_status(FAILED, "Unable to enqueue ingestion job"): the load.
RefuseLoads(j) ==
    /\ api[j].pc = "refused"
    /\ api' = [api EXCEPT ![j] = [pc |-> "refusing", copy |-> row[j]]]
    /\ NoteRace(j)
    /\ UNCHANGED <<row, plan, recanted, queue, run, effects, suspect,
                   abandoned, budget>>

RefuseCommits(j) ==
    /\ api[j].pc = "refusing"
    /\ row' = [row EXCEPT ![j] = Updated(@, api[j].copy, Refused)]
    /\ ApiEnds(j)
    /\ UNCHANGED <<plan, recanted, queue, run, effects, suspect, raced,
                   abandoned, budget>>

RefuseRaises(j) ==
    /\ api[j].pc \in {"refused", "refusing"}
    /\ Spend("db")
    /\ ApiEnds(j)
    /\ abandoned' = abandoned \cup ({j} \ recanted)
    /\ UNCHANGED <<row, plan, recanted, queue, run, effects, suspect, raced>>

\* The API process dies inside the handler; before send_task has been called,
\* or while it refuses a job it did not send, nobody else finishes the row.
ApiDies(j) ==
    /\ api[j].pc \in {"created", "sent", "refused", "refusing"}
    /\ Spend("crash")
    /\ ApiEnds(j)
    /\ abandoned' = IF api[j].pc = "sent" THEN abandoned
                    ELSE abandoned \cup ({j} \ recanted)
    /\ UNCHANGED <<row, plan, recanted, queue, run, effects, suspect, raced>>

-----------------------------------------------------------------------------
(* An executor: run_ingestion_job / _execute_job *)

Goes(r, pc) == run' = [run EXCEPT ![r].pc = pc]

\* The task returns or raises; Celery acknowledges the message either way.
Ends(r) == run' = [run EXCEPT ![r] = Idle]

\* A session loads the row (_required) before it assigns the columns.
Loads(r, pc) ==
    /\ run' = [run EXCEPT ![r].pc = pc, ![r].copy = row[run[r].job]]
    /\ NoteRace(run[r].job)
    /\ UNCHANGED <<row, plan, recanted, api, queue, effects, suspect,
                   abandoned, budget>>

Commits(r, new, pc) ==
    /\ row' = [row EXCEPT ![run[r].job] = Updated(@, run[r].copy, new)]
    /\ run' = [run EXCEPT ![r] = IF pc = "idle" THEN Idle
                                 ELSE [@ EXCEPT !.pc = pc, !.copy = NoRow]]
    /\ UNCHANGED <<plan, recanted, api, queue, effects, suspect, raced,
                   abandoned, budget>>

\* Mutant of Receive: the message of a job that is not queued is rejected and
\* put back.
ReceiveQueued(r, j) ==
    /\ run[r].pc = "idle"
    /\ queue[j] > 0 /\ row[j].status = "queued"
    /\ queue' = [queue EXCEPT ![j] = @ - 1]
    /\ run' = [run EXCEPT ![r] = [pc |-> "claim", job |-> j, done |-> {},
                                 held |-> TRUE, copy |-> NoRow]]
    /\ UNCHANGED <<row, plan, recanted, api, effects, suspect, raced,
                   abandoned, budget>>

\* Celery hands a message to a free process, which looks the job up.  A job
\* without a row is a LookupError, and the message is gone.
Receive(r, j) ==
    /\ run[r].pc = "idle"
    /\ queue[j] > 0
    /\ queue' = [queue EXCEPT ![j] = @ - 1]
    /\ run' = IF row[j].status = "absent" THEN run
              ELSE [run EXCEPT ![r] = [pc |-> "claim", job |-> j, done |-> {},
                                       held |-> TRUE, copy |-> NoRow]]
    /\ UNCHANGED <<row, plan, recanted, api, effects, suspect, raced,
                   abandoned, budget>>

\* Mutant of ClaimCommits: the commit after status = running is missing.
ClaimNotCommitted(r) ==
    /\ run[r].pc = "claiming"
    /\ run' = [run EXCEPT ![r].pc = "work", ![r].copy = NoRow]
    /\ UNCHANGED <<row, plan, recanted, api, queue, effects, suspect, raced,
                   abandoned, budget>>

ClaimLoads(r)   == run[r].pc = "claim" /\ Loads(r, "claiming")
ClaimCommits(r) == run[r].pc = "claiming" /\ Commits(r, Claimed, "work")

\* update_status(RUNNING) is outside the try: when it raises, nothing is written.
ClaimRaises(r) ==
    /\ run[r].pc \in {"claim", "claiming"}
    /\ Spend("db")
    /\ Ends(r)
    /\ abandoned' = abandoned \cup {run[r].job}
    /\ UNCHANGED <<row, plan, recanted, api, queue, effects, suspect, raced>>

\* Mutant of Remaining: the graph stage is forgotten.
RemainingButGraph(r) == (plan[run[r].job] \ run[r].done) \ {"graph"}

\* The stages in the order of the code: ingestion, embeddings, graph.
Remaining(r) == plan[run[r].job] \ run[r].done

NextStage(r) ==
    CHOOSE s \in Remaining(r) :
        /\ "ingestion" \in Remaining(r) => s = "ingestion"
        /\ "embeddings" \in Remaining(r) => s \in {"ingestion", "embeddings"}

StageCompletes(r) ==
    /\ run[r].pc = "work"
    /\ Remaining(r) # {}
    /\ run' = [run EXCEPT ![r].done = @ \cup {NextStage(r)}]
    /\ effects' = [effects EXCEPT ![run[r].job] = @ \cup {NextStage(r)}]
    /\ UNCHANGED <<row, plan, recanted, api, queue, suspect, raced, abandoned,
                   budget>>

\* Mutant of StageRaises: no except clause around the stages.
StageRaisesUncaught(r) ==
    /\ run[r].pc = "work"
    /\ Remaining(r) # {}
    /\ Ends(r)
    /\ UNCHANGED <<row, plan, recanted, api, queue, effects, suspect, raced,
                   abandoned, budget>>

\* A stage raises, or a provider cannot be created: rollback, then FAILED.
StageRaises(r) ==
    /\ run[r].pc = "work"
    /\ Remaining(r) # {}
    /\ Goes(r, "fail")
    /\ UNCHANGED <<row, plan, recanted, api, queue, effects, suspect, raced,
                   abandoned, budget>>

SucceedLoads(r) ==
    run[r].pc = "work" /\ Remaining(r) = {} /\ Loads(r, "succeeding")
SucceedCommits(r) ==
    /\ run[r].pc = "succeeding"
    /\ Commits(r, Finished(run[r].done), "idle")

\* update_status(SUCCEEDED) is inside the try: the except clause takes over.
SucceedRaises(r) ==
    /\ \/ run[r].pc = "work" /\ Remaining(r) = {}
       \/ run[r].pc = "succeeding"
    /\ Spend("db")
    /\ run' = [run EXCEPT ![r].pc = "fail", ![r].copy = NoRow]
    /\ UNCHANGED <<row, plan, recanted, api, queue, effects, suspect, raced,
                   abandoned>>

FailLoads(r)   == run[r].pc = "fail" /\ Loads(r, "failing")
FailCommits(r) == run[r].pc = "failing" /\ Commits(r, Broken, "idle")

\* update_status(FAILED) raises as well: the row stays what it was.
FailRaises(r) ==
    /\ run[r].pc \in {"fail", "failing"}
    /\ Spend("db")
    /\ Ends(r)
    /\ abandoned' = abandoned \cup {run[r].job}
    /\ UNCHANGED <<row, plan, recanted, api, queue, effects, suspect, raced>>

-----------------------------------------------------------------------------
(* Celery and Redis (external), as celery_app.py configures them:           *)
(* task_acks_late, no task_reject_on_worker_lost, default visibility timeout *)

\* An execution outlives the visibility timeout: its unacknowledged message is
\* put back although the execution goes on.
VisibilityTimeout(r) ==
    /\ run[r].pc # "idle" /\ run[r].held
    /\ Spend("redeliver")
    /\ queue' = [queue EXCEPT ![run[r].job] = @ + 1]
    /\ run' = [run EXCEPT ![r].held = FALSE]
    /\ suspect' = suspect \cup {run[r].job}
    /\ UNCHANGED <<row, plan, recanted, api, effects, raced, abandoned>>

\* The whole worker dies.  The message it still holds comes back; one that was
\* put back before, under the same delivery tag, may be gone.
WorkerDies(r) ==
    /\ run[r].pc # "idle"
    /\ Spend("crash")
    /\ Ends(r)
    /\ suspect' = suspect \cup {run[r].job}
    /\ \/ /\ run[r].held
          /\ queue' = [queue EXCEPT ![run[r].job] = @ + 1]
          /\ UNCHANGED abandoned
       \/ /\ ~run[r].held \/ run[r].job \in suspect
          /\ abandoned' = abandoned \cup {run[r].job}
          /\ UNCHANGED queue
    /\ UNCHANGED <<row, plan, recanted, api, effects, raced>>

\* Only the pool process dies: the worker acknowledges the message for it.
ChildDies(r) ==
    /\ run[r].pc # "idle"
    /\ Spend("crash")
    /\ Ends(r)
    /\ abandoned' = abandoned \cup {run[r].job}
    /\ UNCHANGED <<row, plan, recanted, api, queue, effects, suspect, raced>>

-----------------------------------------------------------------------------
ApiStep(j) ==
    \/ CreateJob(j) \/ SendTask(j) \/ SendTaskTwice(j) \/ SendTaskRaises(j)
    \/ SetTaskId(j) \/ SetTaskIdRaises(j)
    \/ RefuseLoads(j) \/ RefuseCommits(j) \/ RefuseRaises(j)

Execute(r) ==
    \/ ClaimLoads(r) \/ ClaimCommits(r) \/ ClaimRaises(r)
    \/ StageCompletes(r) \/ StageRaises(r)
    \/ SucceedLoads(r) \/ SucceedCommits(r) \/ SucceedRaises(r)
    \/ FailLoads(r) \/ FailCommits(r) \/ FailRaises(r)

Fault ==
    \/ \E j \in Jobs : ApiDies(j)
    \/ \E r \in Executors : VisibilityTimeout(r) \/ WorkerDies(r) \/ ChildDies(r)

Next ==
    \/ \E j \in Jobs : ApiStep(j)
    \/ \E r \in Executors : Execute(r)
    \/ \E r \in Executors, j \in Jobs : Receive(r, j)
    \/ Fault

Spec == Init /\ [][Next]_vars

\* A started handler runs on, a started task runs on (its calls return or
\* raise), and a free worker takes a waiting message.  Nothing forces a client
\* to submit a job, and no fault has to happen.
HandlerRuns(j) == api[j].pc # "idle" /\ ApiStep(j)

Fairness ==
    /\ \A j \in Jobs : WF_vars(HandlerRuns(j))
    /\ \A r \in Executors : WF_vars(Execute(r))
    /\ \A j \in Jobs : WF_vars(\E r \in Executors : Receive(r, j))

FairSpec == Spec /\ Fairness

-----------------------------------------------------------------------------
(* Properties *)

\* Every variable has its type; a busy executor has a job and holds a loaded
\* row exactly between a load and a commit of update_status.
TypeOK ==
    /\ row \in [Jobs -> Rows]
    /\ plan \in [Jobs -> Plans]
    /\ api \in [Jobs -> [pc : ApiPhases, copy : Rows]]
    /\ queue \in [Jobs -> Nat]
    /\ run \in [Executors -> [pc : RunPhases, job : Jobs \cup {NoJob},
                              done : SUBSET Stages, held : BOOLEAN,
                              copy : Rows]]
    /\ \A r \in Executors : run[r].pc # "idle" => run[r].job \in Jobs
    /\ effects \in [Jobs -> SUBSET Stages]
    /\ suspect \subseteq Jobs /\ recanted \subseteq Jobs
    /\ raced \subseteq Jobs /\ abandoned \subseteq Jobs
    /\ budget \in [{"send", "db", "redeliver", "crash"} -> Nat]

\* A row says succeeded only when every stage its options ask for has been
\* completed by some execution, whatever was redelivered, raced or crashed.
SucceededIsEarned ==
    \A j \in Jobs : row[j].status = "succeeded" => plan[j] \subseteq effects[j]

\* Status, report and error tell one story, as long as no two update_status
\* calls on the row overlapped: a running row carries no result of an earlier
\* execution, a succeeded one a full report and no error, a failed one an
\* error and no report.
Coherent(w, stages) ==
    /\ w.status \in {"absent", "queued", "running"} =>
           w.report = {} /\ w.error = "none"
    /\ w.status = "succeeded" => w.report = stages /\ w.error = "none"
    /\ w.status = "failed" => w.report = {} /\ w.error # "none"

RowCoherent == \A j \in Jobs \ raced : Coherent(row[j], plan[j])

\* The execution's next terminal write reaches the row: what it loaded differs.
WillSettle(r) ==
    /\ run[r].pc = "succeeding" => run[r].copy.status # "succeeded"
    /\ run[r].pc = "failing" => run[r].copy.status # "failed"

WillRefuse(j) ==
    /\ j \notin recanted
    /\ \/ api[j].pc \in {"created", "refused"}
       \/ api[j].pc = "refusing" /\ api[j].copy.status # "failed"

Attended(j) == \/ j \in abandoned
               \/ queue[j] > 0
               \/ WillRefuse(j)
               \/ \E r \in Runs(j) : WillSettle(r)

\* A job that is not finished always has somebody to finish it - its request
\* handler while the job is unsent, a queued message, or an execution whose
\* next status write will really be written - unless one of the named faults
\* abandoned it.  A job refused after it was sent is left to the workers.
NoSilentStall ==
    \A j \in Jobs : row[j].status \in {"queued", "running"} => Attended(j)

\* A result that has been written is final, whatever the handler, set_task_id
\* and an early worker do in between - as long as the broker delivers the job's
\* message once and the handler refuses no job it has sent.
TerminalIsFinal ==
    [][\A j \in Jobs \ (suspect' \cup recanted') :
        row[j].status \in Terminal =>
            row'[j] = [row[j] EXCEPT !.task = @ \/ row'[j].task]
      ]_vars

\* Every submitted job ends as succeeded or failed, unless abandoned.
JobSettles ==
    \A j \in Jobs :
        row[j].status \in {"queued", "running"} ~>
            row[j].status \in Terminal \/ j \in abandoned

\* The job row, polled over HTTP, implements the abstract life cycle.
Lifecycle == INSTANCE JobLifecycle
                 WITH status <- [j \in Jobs |-> row[j].status]
ImplementsLifecycle == Lifecycle!Spec

=============================================================================
