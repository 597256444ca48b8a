------------------------------- MODULE Uploads -------------------------------
(***************************************************************************)
(* The requests that bring files: POST /jobs, /jobs/upload,                 *)
(* /jobs/upload-archive and /jobs/demo (app/api/v1/routes/ingestion.py),    *)
(* and the workers that read those files. What becomes of one job is in     *)
(* IngestionJobs.                                                           *)
(*                                                                         *)
(* A path is <<request, n>>: the uploaded file itself (n = 0) or its n-th   *)
(* member, both under a fresh uuid; request 0 is not a request but the data *)
(* directory: <<0, 0>> is the demo corpus, shared by all requests.          *)
(***************************************************************************)
EXTENDS Naturals, FiniteSets, SequencesExt

CONSTANTS
    Requests,    \* numbers of the requests, from 1
    Bodies,      \* what a request may bring, see Receive
    SizeLimit,   \* upload_max_file_size_mb, in reads of one MiB
    MaxEntries,  \* 100
    Faults       \* bound: calls that raise, and dying processes

ASSUME UploadTypes ==
    /\ Requests \subseteq Nat \ {0} /\ IsFiniteSet(Requests)
    /\ {SizeLimit, MaxEntries, Faults} \subseteq Nat

\* Nobody guesses a uuid: a path that a request names is not one of a request.
ASSUME BodiesFit ==
    \A body \in Bodies :
        /\ body.kind \in {"file", "archive", "demo", "path"}
        /\ body.entries \in Seq({"resume", "other", "broken"})
        /\ body.kind # "archive" => body.entries = <<>>
        /\ body.path \in {0} \X Nat

VARIABLES
    files,    \* path -> [whole, content]: the files that exist
    handler,  \* request -> the state of its handler
    jobs,     \* rows of ingestion_jobs: [request, path, sent, failed]
    read,     \* history: what workers found at the paths of jobs
    faults    \* faults so far

vars == <<files, handler, jobs, read, faults>>

Demo == <<0, 0>>

NoFile == [whole |-> FALSE, content |-> {}]

At(path) == IF path \in DOMAIN files THEN files[path] ELSE NoFile

-----------------------------------------------------------------------------
(* A body is [kind, size, valid, entries, path]: valid is false for a suffix *)
(* that is not accepted. Of an archive, entries is the sequence of its       *)
(* members, each "resume" (a supported suffix), "other", or "broken" (it     *)
(* cannot be read), or <<>> when it is no ZIP file at all.                   *)

Supported(body) ==
    {i \in DOMAIN body.entries : body.entries[i] # "other"}

Target(r, body) == IF body.kind = "demo" THEN Demo ELSE <<r, 0>>

NoBody == [kind |-> "none", size |-> 0, valid |-> FALSE, entries |-> <<>>,
           path |-> Demo]

Idle == [phase |-> "idle", body |-> NoBody, written |-> 0, paths |-> <<>>,
         made |-> 0, answer |-> 0, skipped |-> {}]

Init ==
    /\ files = [path \in {Demo} |-> [whole |-> TRUE, content |-> {0}]]
    /\ handler = [r \in Requests |-> Idle]
    /\ jobs = {} /\ read = {} /\ faults = 0

Answered(r, status) ==
    handler' = [handler EXCEPT ![r].phase = "answered", ![r].answer = status]

Enqueueing(r, paths) ==
    handler' = [handler EXCEPT ![r].phase = "enqueueing", ![r].paths = paths]

With(path, file) ==
    [p \in DOMAIN files \cup {path} |-> IF p = path THEN file ELSE files[p]]

Without(path) == [p \in DOMAIN files \ {path} |-> files[p]]

Fault == faults < Faults /\ faults' = faults + 1

\* Wrong suffixes are refused, and POST /jobs asks for a file that exists. The
\* others open a new file, /demo the one it has.
Receive(r, body) ==
    /\ handler[r].phase = "idle"
    /\ handler' = [handler EXCEPT ![r] =
          IF ~body.valid
          THEN [Idle EXCEPT !.body = body, !.phase = "answered", !.answer = 400]
          ELSE IF body.kind # "path"
          THEN [Idle EXCEPT !.body = body, !.phase = "writing"]
          ELSE IF body.path \in DOMAIN files
          THEN [Idle EXCEPT !.body = body, !.phase = "enqueueing",
                            !.paths = <<body.path>>]
          ELSE [Idle EXCEPT !.body = body, !.phase = "answered", !.answer = 404]]
    /\ files' = IF body.valid /\ body.kind # "path"
                THEN With(Target(r, body), NoFile) ELSE files
    /\ UNCHANGED <<jobs, read, faults>>

\* Mutant of AfterFailure: only what raises by itself is cleaned up.
AfterFailureOfSystem(r, status) ==
    IF handler[r].body.kind = "file" /\ status # 413 THEN Without(<<r, 0>>)
    ELSE files

\* except Exception: unlink, in /upload alone.
AfterFailure(r, status) ==
    IF handler[r].body.kind = "file" THEN Without(<<r, 0>>) ELSE files

\* A read from the request and a write to the file.
Write(r) ==
    LET body == handler[r].body
    IN  /\ handler[r].phase = "writing"
        /\ handler[r].written < body.size
        /\ IF handler[r].written < SizeLimit \/ body.kind = "demo"
           THEN /\ handler' = [handler EXCEPT ![r].written = @ + 1]
                /\ UNCHANGED files
           ELSE /\ Answered(r, 413)
                /\ files' = AfterFailure(r, 413)
        /\ UNCHANGED <<jobs, read, faults>>

\* The file system, the request or the archive raises anything else.
BodyRaises(r) ==
    /\ handler[r].phase \in {"writing", "inspecting", "unpacking"}
    /\ Fault
    /\ Answered(r, 500)
    /\ files' = AfterFailure(r, 500)
    /\ UNCHANGED <<jobs, read>>

\* Everything is written, and the file closed.
Close(r) ==
    LET body == handler[r].body
    IN  /\ handler[r].phase = "writing" /\ handler[r].written = body.size
        /\ files' = [files EXCEPT ![Target(r, body)] =
                        [whole |-> TRUE, content |-> {0}]]
        /\ IF body.kind = "archive"
           THEN handler' = [handler EXCEPT ![r].phase = "inspecting"]
           ELSE Enqueueing(r, <<Target(r, body)>>)
        /\ UNCHANGED <<jobs, read, faults>>

\* What is refused of an archive before anything is unpacked: MaxEntries stands
\* for the limit of the unpacked size, too.
Inspect(r) ==
    LET body == handler[r].body
    IN  /\ handler[r].phase = "inspecting"
        /\ IF body.entries = <<>> THEN Answered(r, 400)
           ELSE IF Len(body.entries) > MaxEntries THEN Answered(r, 413)
           ELSE IF Supported(body) = {} THEN Answered(r, 400)
           ELSE handler' = [handler EXCEPT ![r].phase = "unpacking"]
        /\ UNCHANGED <<files, jobs, read, faults>>

\* The supported members that are not unpacked yet.
Ahead(r) ==
    {i \in Supported(handler[r].body) : <<r, i>> \notin Range(handler[r].paths)}

\* A turn of the loop over the supported members; one that is broken ends it.
Unpack(r) ==
    /\ handler[r].phase = "unpacking"
    /\ \E i \in Ahead(r) :
          /\ \A j \in Ahead(r) : i <= j
          /\ IF handler[r].body.entries[i] = "broken"
             THEN /\ files' = With(<<r, i>>, NoFile)
                  /\ Answered(r, 400)
             ELSE /\ files' = With(<<r, i>>, [whole |-> TRUE, content |-> {i}])
                  /\ handler' = [handler EXCEPT ![r].paths = Append(@, <<r, i>>)]
    /\ UNCHANGED <<jobs, read, faults>>

Unpacked(r) ==
    /\ handler[r].phase = "unpacking"
    /\ Ahead(r) = {}
    /\ Enqueueing(r, handler[r].paths)
    /\ UNCHANGED <<files, jobs, read, faults>>

Job(r, sent, failed) ==
    [request |-> r, path |-> handler[r].paths[handler[r].made + 1],
     sent |-> sent, failed |-> failed]

\* _enqueue_job for the next path. After the last, the request is answered.
Enqueue(r) ==
    LET h == handler[r]
        last == h.made + 1 = Len(h.paths)
    IN  /\ h.phase = "enqueueing"
        /\ jobs' = jobs \cup {Job(r, TRUE, FALSE)}
        /\ handler' = [handler EXCEPT ![r] =
              IF last
              THEN [h EXCEPT !.made = @ + 1, !.phase = "answered", !.answer = 202,
                             !.skipped = DOMAIN h.body.entries \ Supported(h.body)]
              ELSE [h EXCEPT !.made = @ + 1]]
        /\ UNCHANGED <<files, read, faults>>

\* Mutant of EnqueueRaises: the file goes with the request.
EnqueueRaisesAndUnlinks(r) ==
    /\ handler[r].phase = "enqueueing"
    /\ Fault
    /\ \E job \in {Job(r, FALSE, TRUE), Job(r, TRUE, FALSE)} :
          jobs' = jobs \cup {job}
    /\ Answered(r, 503)
    /\ files' = AfterFailure(r, 503)
    /\ UNCHANGED read

\* Mutant of EnqueueRaises: one bad member does not stop the others.
EnqueueRaisesAndGoesOn(r) ==
    /\ handler[r].phase = "enqueueing"
    /\ handler[r].made + 1 < Len(handler[r].paths)
    /\ Fault
    /\ jobs' = jobs \cup {Job(r, FALSE, TRUE)}
    /\ handler' = [handler EXCEPT ![r].made = @ + 1]
    /\ UNCHANGED <<files, read>>

\* It raises: before the row is committed, at the broker, which may have the
\* task or not, or at the row again, which may be left queued. The loop over the
\* paths ends, and the files stay.
EnqueueRaises(r) ==
    /\ handler[r].phase = "enqueueing"
    /\ Fault
    /\ \/ jobs' = jobs /\ Answered(r, 500)
       \/ \E sent, failed \in BOOLEAN :
             /\ jobs' = jobs \cup {Job(r, sent, failed)}
             /\ Answered(r, IF failed THEN 503 ELSE 500)
    /\ UNCHANGED <<files, read>>

\* The request is cancelled, or the process dies (and then all, one by one).
HandlerDies(r) ==
    /\ handler[r].phase \notin {"idle", "answered", "dead"}
    /\ Fault
    /\ handler' = [handler EXCEPT ![r].phase = "dead"]
    /\ UNCHANGED <<files, jobs, read>>

\* A worker reads the file of a job, as often as the message is delivered.
ReadFile(job) ==
    /\ job.sent
    /\ read' = read \cup {[job |-> job, found |-> At(job.path)]}
    /\ UNCHANGED <<files, handler, jobs, faults>>

Next ==
    \/ \E r \in Requests :
          \/ \E body \in Bodies : Receive(r, body)
          \/ Write(r) \/ BodyRaises(r) \/ Close(r)
          \/ Inspect(r) \/ Unpack(r) \/ Unpacked(r)
          \/ Enqueue(r) \/ EnqueueRaises(r) \/ HandlerDies(r)
    \/ \E job \in jobs : ReadFile(job)

Spec == Init /\ [][Next]_vars

-----------------------------------------------------------------------------
(* Properties *)

JobsOf(r) == {job \in jobs : job.request = r}

\* However requests fail, and whatever others do meanwhile, a worker finds the
\* whole file that its request brought. Only the demo corpus, which each request
\* writes in place (ingestion.py:209), may be found half written, and only if
\* another request has rewritten it.
JobsReadTheirFile ==
    \A x \in read :
        LET r == x.job.request
            Rewrites(q) == handler[q].body.kind = "demo" /\ q # r
        IN  \/ x.found.whole /\ x.job.path \in {Demo} \cup ({r} \X Nat)
            \/ x.job.path = Demo /\ \E q \in Requests : Rewrites(q)

\* "Each file becomes a task of its own" (README.md:146-148): for an accepted
\* request, each part - the file, or each supported member of an archive - has
\* exactly one job, that of the file which holds it; all these jobs were sent and
\* none was refused, and all other members are named as skipped. A request that
\* fails while it makes the jobs leaves those of the first parts, all sent and
\* not refused but perhaps the last one.
AnswerIsComplete ==
    \A r \in Requests :
        LET h == handler[r]
            files0 == IF h.body.kind = "archive" THEN Supported(h.body) ELSE {0}
            Holding(i) == {job \in JobsOf(r) :
                              job.path = Demo \/ At(job.path).content = {i}}
            made == {i \in files0 : Holding(i) # {}}
        IN  /\ \A i \in files0 : Cardinality(Holding(i)) <= 1
            /\ h.answer = 202 =>
                  /\ made = files0
                  /\ \A job \in JobsOf(r) : job.sent /\ ~job.failed
                  /\ h.skipped = DOMAIN h.body.entries \ files0
            /\ \A i \in made, j \in files0 \ made : i < j
            /\ \A job, other \in JobsOf(r) :
                  job.failed \/ ~job.sent => other.path[2] <= job.path[2]

\* A request that is refused because of what it brings has made no job, and an
\* upload no file either: nothing refused is ever ingested or kept.
RefusalLeavesNothing ==
    \A r \in Requests :
        handler[r].answer \in {400, 404, 413} =>
            /\ JobsOf(r) = {}
            /\ handler[r].body.kind = "file" => <<r, 0>> \notin DOMAIN files
=============================================================================
