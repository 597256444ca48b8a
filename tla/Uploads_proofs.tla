--------------------------- MODULE Uploads_proofs ---------------------------
(***************************************************************************)
(* Theorems about Uploads, for any requests, bodies and limits, and any     *)
(* number of calls that raise and processes that die.                       *)
(***************************************************************************)
EXTENDS Uploads, FiniteSetTheorems, SequenceTheorems, TLAPS

\* The fields of a handler.
Fields == {"phase", "body", "written", "paths", "made", "answer", "skipped"}

\* The files that may be of request r: its own, and the demo corpus.
PathsOf(r) == {Demo} \cup ({r} \X Nat)

Shape ==
    /\ DOMAIN handler = Requests
    /\ \A r \in Requests : /\ DOMAIN handler[r] = Fields
                           /\ handler[r].paths \in Seq(PathsOf(r))
    /\ \A path \in DOMAIN files : path = Demo \/ path \in Requests \X Nat
    /\ Demo \in DOMAIN files

\* The life of a handler. It has made no job before it enqueues, and only an
\* archive is unpacked.
Stage(r) ==
    LET h == handler[r]
    IN  /\ h.phase = "idle" => h = Idle /\ <<r, 0>> \notin DOMAIN files
        /\ h.phase # "idle" => h.body \in Bodies
        /\ h.phase \in {"writing", "inspecting"} => h.paths = <<>>
        /\ h.phase \in {"idle", "writing", "inspecting", "unpacking"} =>
              JobsOf(r) = {} /\ h.made = 0
        /\ h.phase = "writing" =>
              h.body.kind \in {"file", "archive", "demo"}
                /\ Target(r, h.body) \in DOMAIN files
        /\ h.phase \in {"inspecting", "unpacking"} => h.body.kind = "archive"
        /\ h.phase = "unpacking" => Supported(h.body) # {}
        /\ h.phase = "enqueueing" => h.made \in Nat /\ h.made < Len(h.paths)
        /\ h.phase # "answered" => h.answer = 0
        /\ h.answer \in {400, 404, 413} =>
              /\ JobsOf(r) = {}
              /\ h.body.kind = "file" => <<r, 0>> \notin DOMAIN files

\* What a handler will make jobs of is whole, the demo corpus aside.
PathsAreWhole(r) ==
    handler[r].phase \in {"unpacking", "enqueueing"} =>
        \A p \in Range(handler[r].paths) : p # Demo => At(p).whole

\* So is what jobs are for.
JobsAreWhole ==
    \A job \in jobs :
        /\ job.request \in Requests /\ job.path \in PathsOf(job.request)
        /\ job.path # Demo => At(job.path).whole

\* Of a demo corpus that is half written, somebody has the pen who has made no
\* job and will make none before it is whole.
DemoIsInHand ==
    ~At(Demo).whole =>
        \E q \in Requests : /\ handler[q].body.kind = "demo" /\ JobsOf(q) = {}
                            /\ handler[q].phase # "enqueueing"

\* The parts of a body that become files. The n-th path of a request is that of
\* its n-th part, and ends with its number.
Parts(body) == IF body.kind = "archive" THEN Supported(body) ELSE {0}

\* The paths of a handler h are of the first parts, and of all while jobs are made.
OrderIs(h) ==
    /\ \A a \in DOMAIN h.paths : /\ h.paths[a][2] \in Parts(h.body)
                                 /\ h.paths[a] = Demo => h.body.kind # "archive"
    /\ \A a, b \in DOMAIN h.paths : a < b => h.paths[a][2] < h.paths[b][2]
    /\ \A i \in Parts(h.body) :
          (\A b \in DOMAIN h.paths : h.paths[b][2] # i) =>
             /\ \A a \in DOMAIN h.paths : h.paths[a][2] < i
             /\ h.phase # "enqueueing" /\ h.answer # 202

\* The jobs of h, own, are those of the first paths, one for each, and perhaps
\* that of the path at which a call raised.
MadeIs(h, own) ==
    /\ h.made \in Nat /\ h.made <= Len(h.paths)
    /\ \A k \in 1..h.made : \E job \in own : job.path = h.paths[k]
    /\ \A job \in own : \E k \in DOMAIN h.paths :
          /\ job.path = h.paths[k]
          /\ \/ k <= h.made /\ job.sent /\ ~job.failed
             \/ k = h.made + 1 /\ h.phase = "answered"
    /\ \A job, other \in own : job.path = other.path => job = other
    /\ h.answer = 202 =>
          /\ h.made = Len(h.paths)
          /\ h.skipped = DOMAIN h.body.entries \ Supported(h.body)

\* Each unpacked file holds the part of its number.
Complete(r) ==
    LET h == handler[r]
    IN  /\ OrderIs(h) /\ MadeIs(h, JobsOf(r))
        /\ \A a \in DOMAIN h.paths :
              h.paths[a] # Demo => At(h.paths[a]).content = {h.paths[a][2]}

ReadsFit ==
    /\ JobsReadTheirFile
    /\ \A x \in read : x.job.request \in Requests

Stages == \A r \in Requests : Stage(r) /\ PathsAreWhole(r) /\ Complete(r)

IInv == Shape /\ Stages /\ JobsAreWhole /\ DemoIsInHand /\ ReadsFit

-----------------------------------------------------------------------------
LEMMA IdleFits ==
    /\ DOMAIN Idle = Fields
    /\ \A r : Idle.paths \in Seq(PathsOf(r))
<1>1. DOMAIN Idle = Fields
  BY DEF Idle, Fields
<1>2. Idle.paths = <<>>
  BY DEF Idle
<1> QED
  BY <1>1, <1>2, EmptySeq

\* The paths of one request are not those of another.
LEMMA OwnPaths ==
    ASSUME NEW r \in Requests, NEW q \in Requests, q # r
    PROVE  /\ \A n : <<q, n>> \notin PathsOf(r)
           /\ <<q, 0>> # Demo
           /\ \A path \in PathsOf(q) : path = Demo \/ path \notin PathsOf(r)
  BY UploadTypes DEF PathsOf, Demo

LEMMA ShortLists ==
    /\ Range(<<>>) = {}
    /\ \A S : \A x \in S : <<x>> \in Seq(S) /\ Len(<<x>>) = 1 /\ Range(<<x>>) = {x}
  BY DEF Range

LEMMA Blank ==
    ASSUME NEW h, h.paths = <<>>, h.made = 0, h.phase # "enqueueing", h.answer # 202
    PROVE  OrderIs(h) /\ MadeIs(h, {})
<1>1. DOMAIN <<>> = {} /\ Len(<<>>) = 0 /\ 1..0 = {}
  OBVIOUS
<1> QED
  BY <1>1 DEF OrderIs, MadeIs

LEMMA OnePath ==
    ASSUME NEW h, NEW p, h.paths = <<p>>, p[2] = 0, h.body.kind # "archive"
    PROVE  OrderIs(h)
<1>1. DOMAIN <<p>> = {1} /\ <<p>>[1] = p
  OBVIOUS
<1>2. Parts(h.body) = {0}
  BY DEF Parts
<1> QED
  BY <1>1, <1>2 DEF OrderIs

LEMMA SamePaths ==
    ASSUME NEW g, NEW h, OrderIs(g), h.paths = g.paths, h.body = g.body,
           g.phase = "enqueueing" \/ (h.phase # "enqueueing" /\ h.answer # 202)
    PROVE  OrderIs(h)
  BY DEF OrderIs

LEMMA NoneMade ==
    ASSUME NEW h, NEW S, h.paths \in Seq(S), h.made = 0, h.answer # 202
    PROVE  MadeIs(h, {})
<1>1. Len(h.paths) \in Nat /\ 1..0 = {}
  OBVIOUS
<1> QED
  BY <1>1 DEF MadeIs

LEMMA SameMade ==
    ASSUME NEW g, NEW h, NEW own, MadeIs(g, own), h.paths = g.paths, h.made = g.made,
           g.phase # "answered", h.answer # 202
    PROVE  MadeIs(h, own)
  BY DEF MadeIs

LEMMA InitHolds == Init => IInv
<1> SUFFICES ASSUME Init PROVE IInv
  OBVIOUS
<1>1. files = [p \in {Demo} |-> [whole |-> TRUE, content |-> {0}]]
  BY DEF Init
<1>2. \A r \in Requests : <<r, 0>> # Demo
  BY UploadTypes DEF Demo
<1>3. Shape
  BY <1>1, IdleFits DEF Init, Shape
<1>4. Stages
  <2>1. Idle.paths = <<>> /\ Idle.made = 0 /\ Idle.phase = "idle" /\ Idle.answer = 0
    BY DEF Idle
  <2>2. OrderIs(Idle) /\ MadeIs(Idle, {}) /\ DOMAIN Idle.paths = {}
    BY <2>1, Blank
  <2>3. \A r \in Requests : handler[r] = Idle /\ JobsOf(r) = {}
    BY DEF Init, JobsOf
  <2>4. \A r \in Requests : Complete(r)
    BY <2>2, <2>3 DEF Complete
  <2>5. \A r \in Requests : Stage(r) /\ PathsAreWhole(r)
    BY <1>1, <1>2 DEF Init, Stage, PathsAreWhole, JobsOf, Idle
  <2> QED
    BY <2>4, <2>5 DEF Stages
<1>5. JobsAreWhole /\ DemoIsInHand /\ ReadsFit
  BY <1>1 DEF Init, JobsAreWhole, DemoIsInHand, At, ReadsFit, JobsReadTheirFile
<1> QED
  BY <1>3, <1>4, <1>5 DEF IInv

\* Request r takes a step: the files and jobs of the others stay.
StepOf(r) ==
    /\ DOMAIN handler' = Requests
    /\ \A q \in Requests \ {r} : handler'[q] = handler[q]
    /\ \A path : path \notin PathsOf(r) =>
          /\ path \in DOMAIN files' <=> path \in DOMAIN files
          /\ At(path)' = At(path)
    /\ Demo \in DOMAIN files'
    /\ jobs \subseteq jobs'
    /\ \A job \in jobs' \ jobs : job.request = r
    /\ UNCHANGED read

\* What it has to show for itself.
Fits(r) ==
    /\ DOMAIN handler[r] = Fields
    /\ handler[r].paths \in Seq(PathsOf(r))
    /\ Stage(r) /\ PathsAreWhole(r) /\ Complete(r)
    /\ \A job \in JobsOf(r) :
          job.path \in PathsOf(r) /\ (job.path # Demo => At(job.path).whole)

LEMMA FitsBefore ==
    ASSUME IInv, NEW r \in Requests
    PROVE  Fits(r)
  BY DEF IInv, Shape, Stages, JobsAreWhole, Fits, JobsOf

LEMMA StepKeeps ==
    ASSUME IInv, NEW r \in Requests, StepOf(r), Fits(r)', DemoIsInHand',
           handler[r].body.kind = "demo" => handler'[r].body.kind = "demo"
    PROVE  IInv'
<1>1. Shape'
  <2>1. ASSUME NEW path \in DOMAIN files'
        PROVE  path = Demo \/ path \in Requests \X Nat
    BY <2>1 DEF StepOf, IInv, Shape, PathsOf
  <2>2. ASSUME NEW q \in Requests
        PROVE  DOMAIN handler'[q] = Fields /\ handler'[q].paths \in Seq(PathsOf(q))
    BY <2>2 DEF StepOf, Fits, IInv, Shape
  <2> QED
    BY <2>1, <2>2 DEF StepOf, Shape
<1>2. ASSUME NEW q \in Requests \ {r}
      PROVE  /\ Stage(q)' /\ PathsAreWhole(q)' /\ Complete(q)'
             /\ JobsOf(q)' = JobsOf(q)
  <2>1. handler'[q] = handler[q] /\ Stage(q) /\ PathsAreWhole(q) /\ Complete(q)
    BY <1>2 DEF StepOf, IInv, Stages
  <2>2. JobsOf(q)' = JobsOf(q)
    BY <1>2 DEF StepOf, JobsOf
  <2>3. <<q, 0>> \in DOMAIN files' <=> <<q, 0>> \in DOMAIN files
    BY <1>2, OwnPaths DEF StepOf
  <2>4. \A body : Target(q, body) \in DOMAIN files => Target(q, body) \in DOMAIN files'
    BY <2>3 DEF Target, StepOf
  <2>5. Stage(q)'
    BY <2>1, <2>2, <2>3, <2>4 DEF Stage
  <2>0. \A path \in PathsOf(q) : path # Demo => At(path)' = At(path)
    BY <1>2, OwnPaths DEF StepOf
  <2>6. PathsAreWhole(q)'
    <3>2. Range(handler[q].paths) \subseteq PathsOf(q)
      BY <1>2 DEF IInv, Shape, Range
    <3> QED
      BY <2>0, <2>1, <3>2 DEF PathsAreWhole
  <2>7. Complete(q)'
    <3>1. \A a \in DOMAIN handler[q].paths : handler[q].paths[a] \in PathsOf(q)
      BY <1>2 DEF IInv, Shape
    <3>2. OrderIs(handler[q])' /\ MadeIs(handler[q], JobsOf(q))'
      <4>1. PICK h, own : h = handler[q] /\ own = JobsOf(q)
        OBVIOUS
      <4>2. OrderIs(h) /\ MadeIs(h, own)
        BY <2>1, <4>1 DEF Complete
      <4>3. handler'[q] = h /\ JobsOf(q)' = own
        BY <2>1, <2>2, <4>1
      <4> QED
        BY <4>2, <4>3
    <3> QED
      BY <2>0, <2>1, <3>1, <3>2 DEF Complete
  <2> QED
    BY <2>2, <2>5, <2>6, <2>7
<1>3. Stages'
  BY <1>2 DEF Stages, Fits
<1>4. JobsAreWhole'
  <2> SUFFICES ASSUME NEW job \in jobs'
               PROVE  /\ job.request \in Requests /\ job.path \in PathsOf(job.request)
                      /\ job.path # Demo => At(job.path)'.whole
    BY DEF JobsAreWhole
  <2>1. CASE job.request = r
    BY <2>1 DEF Fits, JobsOf
  <2>2. CASE job.request # r
    <3>1. job \in jobs
      BY <2>2 DEF StepOf
    <3>2. /\ job.request \in Requests /\ job.path \in PathsOf(job.request)
          /\ job.path # Demo => At(job.path).whole
      BY <3>1 DEF IInv, JobsAreWhole
    <3>3. job.path # Demo => At(job.path)' = At(job.path)
      BY <2>2, <3>2, OwnPaths DEF StepOf
    <3> QED
      BY <3>2, <3>3
  <2> QED
    BY <2>1, <2>2
<1>5. ReadsFit'
  <2>1. \A q \in Requests :
          handler[q].body.kind = "demo" => handler'[q].body.kind = "demo"
    BY DEF StepOf
  <2> QED
    BY <2>1 DEF IInv, ReadsFit, JobsReadTheirFile, StepOf
<1> QED
  BY <1>1, <1>3, <1>4, <1>5 DEF IInv

\* Nobody touches the demo corpus: who has the pen goes on having it.
LEMMA DemoStays ==
    ASSUME IInv, NEW r \in Requests, StepOf(r), At(Demo)' = At(Demo),
           handler[r].body.kind = "demo" /\ JobsOf(r) = {}
             /\ handler[r].phase # "enqueueing"
           => /\ handler'[r].body.kind = "demo" /\ JobsOf(r)' = {}
              /\ handler'[r].phase # "enqueueing"
    PROVE  DemoIsInHand'
<1> SUFFICES ASSUME ~At(Demo).whole PROVE DemoIsInHand'
  BY DEF DemoIsInHand
<1>1. PICK q \in Requests : /\ handler[q].body.kind = "demo" /\ JobsOf(q) = {}
                            /\ handler[q].phase # "enqueueing"
  BY DEF IInv, DemoIsInHand
<1>2. CASE q = r
  BY <1>1, <1>2 DEF DemoIsInHand
<1>3. CASE q # r
  <2>1. handler'[q] = handler[q] /\ JobsOf(q)' = JobsOf(q)
    BY <1>3 DEF StepOf, JobsOf
  <2> QED
    BY <1>1, <2>1 DEF DemoIsInHand
<1> QED
  BY <1>2, <1>3

\* A file of r is written or removed: the others stay.
LEMMA WithFile ==
    ASSUME IInv, NEW r \in Requests, NEW file, NEW path \in PathsOf(r),
           files' = With(path, file)
    PROVE  /\ \A p : p \notin PathsOf(r) =>
                 /\ p \in DOMAIN files' <=> p \in DOMAIN files
                 /\ At(p)' = At(p)
           /\ \A p : p # path => At(p)' = At(p)
           /\ At(path)' = file
           /\ DOMAIN files' = DOMAIN files \cup {path}
  BY DEF With, At

LEMMA AfterFailureFiles ==
    ASSUME IInv, NEW r \in Requests, NEW status, files' = AfterFailure(r, status)
    PROVE  /\ \A p : p \notin PathsOf(r) =>
                 /\ p \in DOMAIN files' <=> p \in DOMAIN files
                 /\ At(p)' = At(p)
           /\ Demo \in DOMAIN files' /\ At(Demo)' = At(Demo)
           /\ handler[r].body.kind = "file" => <<r, 0>> \notin DOMAIN files'
<1>1. <<r, 0>> # Demo /\ <<r, 0>> \in PathsOf(r) /\ Demo \in DOMAIN files
  BY UploadTypes DEF Demo, PathsOf, IInv, Shape
<1>2. CASE handler[r].body.kind = "file"
  BY <1>1, <1>2 DEF AfterFailure, Without, At
<1>3. CASE handler[r].body.kind # "file"
  BY <1>1, <1>3 DEF AfterFailure, At
<1> QED
  BY <1>2, <1>3
-----------------------------------------------------------------------------
LEMMA ReceiveStep ==
    ASSUME IInv, NEW r \in Requests, NEW body \in Bodies, Receive(r, body)
    PROVE  IInv'
<1>1. /\ handler[r] = Idle /\ handler[r].body.kind = "none"
      /\ JobsOf(r) = {} /\ <<r, 0>> \notin DOMAIN files
  <2>1. handler[r] = Idle /\ JobsOf(r) = {} /\ <<r, 0>> \notin DOMAIN files
    BY DEF Receive, IInv, Stages, Stage
  <2>2. Idle.body.kind = "none"
    BY DEF Idle, NoBody
  <2> QED
    BY <2>1, <2>2
<1>2. /\ DOMAIN handler' = Requests
      /\ \A q \in Requests \ {r} : handler'[q] = handler[q]
      /\ UNCHANGED <<jobs, read>> /\ JobsOf(r)' = {}
      /\ Demo \in DOMAIN files
  BY <1>1 DEF Receive, IInv, Shape, JobsOf
<1>3. CASE ~body.valid \/ (body.kind = "path" /\ body.path \notin DOMAIN files)
  <2>1. /\ handler'[r].phase = "answered" /\ handler'[r].paths = <<>>
        /\ handler'[r].body = body /\ handler'[r].made = 0
        /\ handler'[r].answer = IF ~body.valid THEN 400 ELSE 404
        /\ DOMAIN handler'[r] = Fields
        /\ files' = files
    BY <1>2, <1>3, IdleFits DEF Receive, IInv, Shape, Idle, Fields
  <2>2. StepOf(r)
    BY <1>2, <2>1 DEF StepOf, At
  <2>5. Complete(r)'
    <3>1. PICK h : h = handler'[r]
      OBVIOUS
    <3>2. OrderIs(h) /\ MadeIs(h, {}) /\ DOMAIN h.paths = {}
      BY <2>1, <3>1, Blank
    <3> QED
      BY <1>2, <3>1, <3>2 DEF Complete
  <2>3. Fits(r)'
    BY <1>1, <1>2, <2>1, <2>5, EmptySeq DEF Fits, Stage, PathsAreWhole
  <2>4. DemoIsInHand'
    BY <1>1, <2>1, <2>2, DemoStays DEF At
  <2> QED
    BY <1>1, <2>2, <2>3, <2>4, StepKeeps
<1>4. CASE body.valid /\ body.kind # "path"
  <2>1. /\ handler'[r].phase = "writing" /\ handler'[r].paths = <<>>
        /\ handler'[r].body = body /\ handler'[r].made = 0 /\ handler'[r].answer = 0
        /\ DOMAIN handler'[r] = Fields
        /\ files' = With(Target(r, body), NoFile)
    BY <1>2, <1>4 DEF Receive, IInv, Shape, Idle, Fields
  <2>2. Target(r, body) \in PathsOf(r)
    BY DEF Target, PathsOf
  <2>3. StepOf(r) /\ Target(r, body) \in DOMAIN files'
    BY <1>2, <2>1, <2>2, WithFile DEF StepOf
  <2>6. Complete(r)'
    <3>1. PICK h : h = handler'[r]
      OBVIOUS
    <3>2. OrderIs(h) /\ MadeIs(h, {}) /\ DOMAIN h.paths = {}
      BY <2>1, <3>1, Blank
    <3> QED
      BY <1>2, <3>1, <3>2 DEF Complete
  <2>4. Fits(r)'
    BY <1>2, <1>4, <2>1, <2>3, <2>6, EmptySeq, BodiesFit
       DEF Fits, Stage, PathsAreWhole
  <2>5. DemoIsInHand'
    <3>1. CASE body.kind = "demo"
      BY <1>2, <2>1, <3>1 DEF DemoIsInHand
    <3>2. CASE body.kind # "demo"
      <4>1. Target(r, body) # Demo
        BY <3>2, UploadTypes DEF Target, Demo
      <4>2. At(Demo)' = At(Demo)
        BY <2>1, <2>2, <4>1, WithFile
      <4> QED
        BY <1>1, <2>3, <4>2, DemoStays
    <3> QED
      BY <3>1, <3>2
  <2> QED
    BY <1>1, <2>3, <2>4, <2>5, StepKeeps
<1>5. CASE body.valid /\ body.kind = "path" /\ body.path \in DOMAIN files
  <2>1. body.path = Demo
    <3>1. body.path \in {0} \X Nat /\ (body.path = Demo \/ body.path \in Requests \X Nat)
      BY <1>5, BodiesFit DEF IInv, Shape
    <3> QED
      BY <3>1, UploadTypes
  <2>2. /\ handler'[r].phase = "enqueueing" /\ handler'[r].paths = <<Demo>>
        /\ handler'[r].made = 0 /\ handler'[r].answer = 0
        /\ handler'[r].body = body /\ DOMAIN handler'[r] = Fields
        /\ files' = files
    BY <1>2, <1>5, <2>1 DEF Receive, IInv, Shape, Idle, Fields
  <2>3. /\ handler'[r].paths \in Seq(PathsOf(r)) /\ Len(handler'[r].paths) = 1
        /\ Range(handler'[r].paths) = {Demo}
    BY <2>2, ShortLists DEF PathsOf
  <2>4. StepOf(r)
    BY <1>2, <2>2 DEF StepOf, At
  <2>5. Fits(r)'
    <3>1. Stage(r)'
      BY <1>2, <1>5, <2>2, <2>3 DEF Stage
    <3>2. PathsAreWhole(r)'
      BY <2>3 DEF PathsAreWhole
    <3>3. Complete(r)'
      <4>1. PICK h : h = handler'[r]
        OBVIOUS
      <4>2. Demo[2] = 0 /\ DOMAIN <<Demo>> = {1} /\ <<Demo>>[1] = Demo
        BY DEF Demo
      <4>3. OrderIs(h)
        BY <1>5, <2>2, <4>1, <4>2, OnePath
      <4>4. MadeIs(h, {})
        <5>1. h.paths \in Seq(PathsOf(r))
          BY <2>3, <4>1
        <5>2. h.made = 0 /\ h.answer # 202
          BY <2>2, <4>1
        <5> QED
          BY <5>1, <5>2, NoneMade
      <4> QED
        BY <1>2, <2>2, <4>1, <4>2, <4>3, <4>4 DEF Complete
    <3> QED
      BY <1>2, <2>2, <2>3, <3>1, <3>2, <3>3 DEF Fits
  <2>6. DemoIsInHand'
    BY <1>1, <2>2, <2>4, DemoStays DEF At
  <2> QED
    BY <1>1, <2>4, <2>5, <2>6, StepKeeps
<1> QED
  BY <1>3, <1>4, <1>5, BodiesFit

\* The files stay, and the handler does not move on to make jobs.
LEMMA HandlerOnly ==
    ASSUME IInv, NEW r \in Requests, UNCHANGED <<files, jobs, read>>,
           handler[r].phase # "idle", NEW h, handler' = [handler EXCEPT ![r] = h],
           DOMAIN h = Fields, h.body = handler[r].body,
           h.paths \in Seq(PathsOf(r)), Stage(r)', PathsAreWhole(r)',
           h.paths = handler[r].paths, h.made = handler[r].made,
           h.phase # "answered", handler[r].phase # "answered", OrderIs(h),
           h.body.kind = "demo" => h.phase # "enqueueing"
    PROVE  IInv'
<1>1. /\ DOMAIN handler' = Requests /\ handler'[r] = h
      /\ \A q \in Requests \ {r} : handler'[q] = handler[q]
      /\ JobsOf(r)' = JobsOf(r) /\ Demo \in DOMAIN files
  BY DEF IInv, Shape, JobsOf
<1>2. StepOf(r)
  BY <1>1 DEF StepOf, At
<1>5. Complete(r)'
  <2>1. PICK g, own : g = handler[r] /\ own = JobsOf(r)
    OBVIOUS
  <2>2. MadeIs(g, own) /\ Complete(r)
    BY <2>1 DEF IInv, Stages, Complete
  <2>3. h.answer # 202
    BY <1>1 DEF Stage
  <2>4. MadeIs(h, own)
    BY <2>1, <2>2, <2>3, SameMade
  <2> QED
    BY <1>1, <2>1, <2>2, <2>4 DEF Complete, At
<1>3. Fits(r)'
  BY <1>1, <1>5, FitsBefore DEF Fits, At
<1>4. DemoIsInHand'
  BY <1>1, <1>2, DemoStays DEF At
<1> QED
  BY <1>1, <1>2, <1>3, <1>4, StepKeeps

\* An answer in front of the jobs.
LEMMA RefusedStep ==
    ASSUME IInv, NEW r \in Requests, NEW status, Answered(r, status), status # 202,
           handler[r].phase \in {"writing", "inspecting", "unpacking"},
           UNCHANGED <<jobs, read>>, files' = AfterFailure(r, status)
    PROVE  IInv'
<1>1. /\ DOMAIN handler' = Requests
      /\ \A q \in Requests \ {r} : handler'[q] = handler[q]
      /\ handler'[r].phase = "answered" /\ handler'[r].body = handler[r].body
      /\ handler'[r].paths = handler[r].paths
      /\ handler'[r].made = handler[r].made /\ handler'[r].answer = status
      /\ DOMAIN handler'[r] = Fields
  BY DEF Answered, IInv, Shape, Fields
<1>2. JobsOf(r) = {} /\ JobsOf(r)' = {} /\ handler[r].made = 0 /\ Complete(r)
  BY DEF IInv, Stages, Stage, JobsOf
<1>6. Complete(r)'
  <2>1. PICK g, h : g = handler[r] /\ h = handler'[r]
    OBVIOUS
  <2>2. OrderIs(h)
    <3>1. OrderIs(g)
      BY <1>2, <2>1 DEF Complete
    <3> QED
      BY <1>1, <2>1, <3>1, SamePaths
  <2>3. MadeIs(h, {})
    <3>1. h.paths \in Seq(PathsOf(r)) /\ h.made = 0 /\ h.answer # 202
      BY <1>1, <1>2, <2>1 DEF IInv, Shape
    <3> QED
      BY <3>1, NoneMade
  <2>4. g.paths = <<>> \/ files' = files
    BY <2>1 DEF AfterFailure, IInv, Stages, Stage
  <2>5. DOMAIN <<>> = {}
    OBVIOUS
  <2> QED
    BY <1>1, <1>2, <2>1, <2>2, <2>3, <2>4, <2>5 DEF Complete, At
<1>3. StepOf(r)
  BY <1>1, AfterFailureFiles DEF StepOf
<1>4. Fits(r)'
  BY <1>1, <1>2, <1>6, FitsBefore, AfterFailureFiles DEF Fits, Stage, PathsAreWhole
<1>5. DemoIsInHand'
  BY <1>1, <1>2, <1>3, AfterFailureFiles, DemoStays
<1> QED
  BY <1>1, <1>3, <1>4, <1>5, StepKeeps

LEMMA WriteStep ==
    ASSUME IInv, NEW r \in Requests, Write(r)
    PROVE  IInv'
<1>1. handler[r].phase = "writing" /\ UNCHANGED <<jobs, read>>
  BY DEF Write
<1>2. CASE Answered(r, 413) /\ files' = AfterFailure(r, 413)
  BY <1>1, <1>2, RefusedStep
<1>3. CASE handler' = [handler EXCEPT ![r].written = @ + 1] /\ UNCHANGED files
  <2> DEFINE h == [handler[r] EXCEPT !.written = @ + 1]
  <2>1. /\ handler' = [handler EXCEPT ![r] = h] /\ DOMAIN h = Fields
        /\ h.phase = "writing" /\ h.body = handler[r].body /\ h.made = handler[r].made
        /\ h.paths = handler[r].paths /\ h.answer = handler[r].answer
        /\ handler'[r] = h /\ JobsOf(r)' = JobsOf(r)
    BY <1>1, <1>3 DEF IInv, Shape, Fields, JobsOf
  <2>2. h.paths \in Seq(PathsOf(r))
    BY <2>1 DEF IInv, Shape
  <2>3. Stage(r)' /\ PathsAreWhole(r)'
    BY <1>1, <1>3, <2>1 DEF IInv, Stages, Stage, PathsAreWhole
  <2> HIDE DEF h
  <2>4. OrderIs(h)
    <3>1. PICK g : g = handler[r]
      OBVIOUS
    <3>2. OrderIs(g) /\ g.answer = 0
      BY <1>1, <3>1 DEF IInv, Stages, Stage, Complete
    <3> QED
      BY <2>1, <3>1, <3>2, SamePaths
  <2> QED
    BY <1>1, <1>3, <2>1, <2>2, <2>3, <2>4, HandlerOnly
<1> QED
  BY <1>2, <1>3 DEF Write

LEMMA CloseStep ==
    ASSUME IInv, NEW r \in Requests, Close(r)
    PROVE  IInv'
<1>0. PICK body, path, file : /\ body = handler[r].body /\ path = Target(r, body)
                             /\ file = [whole |-> TRUE, content |-> {0}]
  OBVIOUS
<1>1. /\ handler[r].phase = "writing" /\ UNCHANGED <<jobs, read>>
      /\ files' = [files EXCEPT ![path] = file]
  BY <1>0 DEF Close
<1>2. /\ body.kind \in {"file", "archive", "demo"} /\ body \in Bodies
      /\ path \in DOMAIN files
      /\ JobsOf(r) = {} /\ JobsOf(r)' = {} /\ handler[r].made = 0
      /\ handler[r].answer = 0 /\ handler[r].paths = <<>>
  BY <1>0, <1>1 DEF IInv, Stages, Stage, JobsOf
<1>3. path \in PathsOf(r) /\ (body.kind = "demo" <=> path = Demo)
  BY <1>0, UploadTypes DEF Target, PathsOf, Demo
<1>4. files' = With(path, file)
  BY <1>1, <1>2 DEF With
<1>10. file.whole
  BY <1>0
<1>11. path \in PathsOf(r)
  BY <1>3
<1>12. /\ \A p : p \notin PathsOf(r) =>
             /\ p \in DOMAIN files' <=> p \in DOMAIN files
             /\ At(p)' = At(p)
       /\ \A p : p # path => At(p)' = At(p)
       /\ At(path)' = file
  BY <1>4, <1>11, WithFile
<1>5. /\ DOMAIN handler' = Requests
      /\ \A q \in Requests \ {r} : handler'[q] = handler[q]
      /\ DOMAIN handler'[r] = Fields
      /\ handler'[r].body = body /\ handler'[r].made = 0 /\ handler'[r].answer = 0
      /\ \/ body.kind = "archive" /\ handler'[r].phase = "inspecting"
                                  /\ handler'[r].paths = <<>>
         \/ body.kind # "archive" /\ handler'[r].phase = "enqueueing"
                                  /\ handler'[r].paths = <<path>>
  BY <1>0, <1>2 DEF Close, Enqueueing, IInv, Shape, Fields
<1>6. StepOf(r) /\ At(path)'.whole
  <2>1. At(path)'.whole
    BY <1>10, <1>12
  <2>2. Demo \in DOMAIN files'
    BY <1>1 DEF IInv, Shape
  <2> QED
    BY <1>1, <1>5, <1>12, <2>1, <2>2 DEF StepOf
<1>9. Complete(r)'
  <2>1. PICK h : h = handler'[r]
    OBVIOUS
  <2>2. CASE body.kind = "archive"
    <3>1. OrderIs(h) /\ MadeIs(h, {}) /\ DOMAIN h.paths = {}
      BY <1>5, <2>1, <2>2, Blank
    <3> QED
      BY <1>2, <2>1, <3>1 DEF Complete
  <2>3. CASE body.kind # "archive"
    <3>1. path[2] = 0 /\ DOMAIN <<path>> = {1} /\ <<path>>[1] = path
      BY <1>0 DEF Target, Demo
    <3>2. OrderIs(h)
      BY <1>5, <2>1, <2>3, <3>1, OnePath
    <3>3. MadeIs(h, {})
      <4>1. h.paths = <<path>> /\ h.made = 0 /\ h.answer # 202
        BY <1>5, <2>1, <2>3
      <4>2. h.paths \in Seq(PathsOf(r))
        BY <1>3, <4>1, ShortLists
      <4> QED
        BY <4>1, <4>2, NoneMade
    <3>4. At(path)'.content = {0}
      BY <1>0, <1>12
    <3> QED
      BY <1>2, <1>5, <2>1, <2>3, <3>1, <3>2, <3>3, <3>4 DEF Complete
  <2> QED
    BY <2>2, <2>3
<1>7. Fits(r)'
  <2>1. CASE body.kind = "archive"
    BY <1>2, <1>5, <1>9, <2>1, EmptySeq DEF Fits, Stage, PathsAreWhole
  <2>2. CASE body.kind # "archive"
    <3>1. /\ handler'[r].paths \in Seq(PathsOf(r)) /\ Len(handler'[r].paths) = 1
          /\ Range(handler'[r].paths) = {path}
      BY <1>3, <1>5, <2>2, ShortLists
    <3> QED
      BY <1>2, <1>5, <1>6, <1>9, <2>2, <3>1 DEF Fits, Stage, PathsAreWhole
  <2> QED
    BY <2>1, <2>2
<1>8. DemoIsInHand'
  <2>1. CASE body.kind = "demo"
    BY <1>3, <1>6, <2>1 DEF DemoIsInHand
  <2>2. CASE body.kind # "demo"
    <3>1. At(Demo)' = At(Demo)
      BY <1>3, <1>12, <2>2
    <3> QED
      BY <1>0, <1>6, <2>2, <3>1, DemoStays
  <2> QED
    BY <2>1, <2>2
<1> QED
  BY <1>0, <1>5, <1>6, <1>7, <1>8, StepKeeps

\* A handler that only moves on to another phase.
LEMMA PhaseOnly ==
    ASSUME IInv, NEW r \in Requests, NEW phase,
           handler' = [handler EXCEPT ![r].phase = phase]
    PROVE  LET h == [handler[r] EXCEPT !.phase = phase]
           IN  /\ handler' = [handler EXCEPT ![r] = h] /\ handler'[r] = h
               /\ DOMAIN h = Fields /\ h.paths \in Seq(PathsOf(r))
               /\ h.phase = phase /\ h.body = handler[r].body
               /\ h.made = handler[r].made /\ h.paths = handler[r].paths
               /\ h.answer = handler[r].answer
  BY DEF IInv, Shape, Fields

LEMMA InspectStep ==
    ASSUME IInv, NEW r \in Requests, Inspect(r)
    PROVE  IInv'
<1>1. /\ handler[r].phase = "inspecting" /\ handler[r].body.kind = "archive"
      /\ UNCHANGED <<files, jobs, read>> /\ handler[r].paths = <<>>
      /\ JobsOf(r)' = JobsOf(r)
  BY DEF Inspect, IInv, Stages, Stage, JobsOf
<1>2. CASE \E status \in {400, 413} : Answered(r, status)
  <2>1. PICK status : status \in {400, 413} /\ Answered(r, status)
    BY <1>2
  <2>2. files' = AfterFailure(r, status) /\ status # 202
    BY <1>1, <2>1 DEF AfterFailure
  <2> QED
    BY <1>1, <2>1, <2>2, RefusedStep
<1>3. CASE /\ handler' = [handler EXCEPT ![r].phase = "unpacking"]
           /\ Supported(handler[r].body) # {}
  <2> DEFINE h == [handler[r] EXCEPT !.phase = "unpacking"]
  <2>1. /\ handler' = [handler EXCEPT ![r] = h] /\ handler'[r] = h
        /\ DOMAIN h = Fields /\ h.paths \in Seq(PathsOf(r))
        /\ h.phase = "unpacking" /\ h.body = handler[r].body
        /\ h.made = handler[r].made /\ h.paths = handler[r].paths
        /\ h.answer = handler[r].answer
    BY <1>3, PhaseOnly
  <2> HIDE DEF h
  <2>2. Stage(r)'
    BY <1>1, <1>3, <2>1 DEF IInv, Stages, Stage
  <2>3. PathsAreWhole(r)'
    BY <1>1, <2>1, ShortLists DEF PathsAreWhole
  <2>4. OrderIs(h)
    <3>1. PICK g : g = handler[r]
      OBVIOUS
    <3>2. OrderIs(g) /\ g.answer = 0
      BY <1>1, <3>1 DEF IInv, Stages, Stage, Complete
    <3> QED
      BY <2>1, <3>1, <3>2, SamePaths
  <2> QED
    BY <1>1, <2>1, <2>2, <2>3, <2>4, HandlerOnly
<1> QED
  BY <1>2, <1>3 DEF Inspect

\* Members are numbered from 1, and a path of an archive ends with its number.
LEMMA NumbersAre ==
    ASSUME IInv, NEW r \in Requests, handler[r].body \in Bodies,
           NEW h, h = handler[r]
    PROVE  /\ Parts(h.body) \subseteq Nat /\ 0 \notin Supported(h.body)
           /\ h.paths \in Seq(PathsOf(r))
           /\ \A a \in DOMAIN h.paths :
                 /\ h.paths[a] = Demo \/ h.paths[a] = <<r, h.paths[a][2]>>
                 /\ h.paths[a][2] \in Parts(h.body)
                 /\ h.paths[a] = Demo => h.body.kind # "archive"
<1>1. h.body.entries \in Seq({"resume", "other", "broken"})
  BY BodiesFit
<1>2. Supported(h.body) \subseteq Nat /\ 0 \notin Supported(h.body)
  BY <1>1 DEF Supported
<1>3. Parts(h.body) \subseteq Nat
  BY <1>2 DEF Parts
<1>4. h.paths \in Seq(PathsOf(r))
  BY DEF IInv, Shape
<1>5. \A a \in DOMAIN h.paths : h.paths[a] = Demo \/ h.paths[a] = <<r, h.paths[a][2]>>
  BY <1>4 DEF PathsOf
<1>6. OrderIs(h)
  BY DEF IInv, Stages, Complete
<1> QED
  BY <1>2, <1>3, <1>4, <1>5, <1>6 DEF OrderIs

\* The next path is that of the next part.
LEMMA NextPath ==
    ASSUME NEW g, NEW h, NEW r, NEW S, NEW i \in Parts(g.body), OrderIs(g),
           g.paths \in Seq(S), <<r, i>> \in S, Parts(g.body) \subseteq Nat,
           \A a \in DOMAIN g.paths : g.paths[a][2] # i,
           \A j \in Parts(g.body) :
              (\A a \in DOMAIN g.paths : g.paths[a][2] # j) => i <= j,
           <<r, i>> # Demo, h.paths = Append(g.paths, <<r, i>>), h.body = g.body,
           h.phase # "enqueueing", h.answer # 202
    PROVE  OrderIs(h)
<1> DEFINE n == Len(g.paths)
<1>1. /\ n \in Nat /\ DOMAIN g.paths = 1..n /\ DOMAIN h.paths = 1..(n + 1)
      /\ \A a \in 1..n : h.paths[a] = g.paths[a]
      /\ h.paths[n + 1] = <<r, i>>
  OBVIOUS
<1>2. \A a \in 1..n : g.paths[a][2] \in Nat /\ g.paths[a][2] < i
  BY <1>1 DEF OrderIs
<1> HIDE DEF n
<1>3. \A a \in DOMAIN h.paths : /\ h.paths[a][2] \in Parts(h.body)
                                /\ h.paths[a] = Demo => h.body.kind # "archive"
  BY <1>1 DEF OrderIs
<1>4. \A a, b \in DOMAIN h.paths : a < b => h.paths[a][2] < h.paths[b][2]
  BY <1>1, <1>2 DEF OrderIs
<1>5. ASSUME NEW j \in Parts(h.body), \A b \in DOMAIN h.paths : h.paths[b][2] # j
      PROVE  \A a \in DOMAIN h.paths : h.paths[a][2] < j
  <2>1. (\A a \in DOMAIN g.paths : g.paths[a][2] # j) /\ i # j
    BY <1>1, <1>5
  <2>2. i <= j /\ \A a \in DOMAIN g.paths : g.paths[a][2] < j
    BY <1>5, <2>1 DEF OrderIs
  <2>3. i < j
    BY <1>5, <2>1, <2>2
  <2> QED
    BY <1>1, <2>2, <2>3
<1> QED
  BY <1>3, <1>4, <1>5 DEF OrderIs

LEMMA UnpackStep ==
    ASSUME IInv, NEW r \in Requests, Unpack(r)
    PROVE  IInv'
<1>1. /\ handler[r].phase = "unpacking" /\ handler[r].body.kind = "archive"
      /\ JobsOf(r) = {} /\ JobsOf(r)' = {} /\ UNCHANGED <<jobs, read>>
      /\ Supported(handler[r].body) # {}
      /\ handler[r].body \in Bodies /\ handler[r].made = 0 /\ handler[r].answer = 0
  BY DEF Unpack, IInv, Stages, Stage, JobsOf
<1>2. handler[r].paths \in Seq(PathsOf(r))
  BY DEF IInv, Shape
<1>0. PICK i \in Ahead(r) :
        /\ \A j \in Ahead(r) : i <= j
        /\ \/ files' = With(<<r, i>>, NoFile) /\ Answered(r, 400)
           \/ /\ files' = With(<<r, i>>, [whole |-> TRUE, content |-> {i}])
              /\ handler' = [handler EXCEPT ![r].paths = Append(@, <<r, i>>)]
  BY DEF Unpack
<1>10. PICK path, g : path = <<r, i>> /\ g = handler[r]
  OBVIOUS
<1>11. /\ i \in Parts(g.body) /\ i \in Nat /\ Parts(g.body) \subseteq Nat
       /\ Parts(g.body) = Supported(g.body)
       /\ path \notin Range(g.paths)
       /\ \A a \in DOMAIN g.paths : g.paths[a] = <<r, g.paths[a][2]>>
  BY <1>1, <1>0, <1>10, NumbersAre DEF Ahead, Parts
<1>3. path \in PathsOf(r) /\ path # Demo
  BY <1>10, <1>11, UploadTypes DEF PathsOf, Demo
<1>4. PICK file : /\ files' = With(path, file)
                  /\ \/ Answered(r, 400)
                     \/ /\ file = [whole |-> TRUE, content |-> {i}]
                        /\ handler' = [handler EXCEPT ![r].paths = Append(@, path)]
  BY <1>0, <1>10
<1>5. /\ DOMAIN handler' = Requests
      /\ \A q \in Requests \ {r} : handler'[q] = handler[q]
      /\ DOMAIN handler'[r] = Fields /\ handler'[r].body = handler[r].body
      /\ handler'[r].made = handler[r].made
  BY <1>4 DEF Answered, IInv, Shape, Fields
<1>12. /\ \A p : p \notin PathsOf(r) =>
             /\ p \in DOMAIN files' <=> p \in DOMAIN files
             /\ At(p)' = At(p)
       /\ \A p : p # path => At(p)' = At(p)
       /\ At(path)' = file
       /\ DOMAIN files' = DOMAIN files \cup {path}
  BY <1>3, <1>4, WithFile
<1>6. StepOf(r) /\ At(Demo)' = At(Demo) /\ At(path)' = file
  <2>1. Demo \in DOMAIN files'
    BY <1>12 DEF IInv, Shape
  <2> QED
    BY <1>1, <1>3, <1>5, <1>12, <2>1 DEF StepOf
<1>7. handler'[r].phase # "enqueueing"
  BY <1>1, <1>4 DEF Answered, IInv, Shape, Fields
<1>13. /\ OrderIs(g)
       /\ \A a \in DOMAIN g.paths :
             /\ g.paths[a] # path
             /\ g.paths[a] # Demo => At(g.paths[a])'.content = {g.paths[a][2]}
  <2>1. Complete(r)
    BY DEF IInv, Stages
  <2>2. \A a \in DOMAIN g.paths : g.paths[a] # path
    BY <1>11 DEF Range
  <2> QED
    BY <1>10, <1>12, <2>1, <2>2 DEF Complete
<1>8. Fits(r)'
  <2>1. CASE Answered(r, 400)
    <3>1. /\ handler'[r].phase = "answered" /\ handler'[r].answer = 400
          /\ handler'[r].paths = handler[r].paths
      BY <2>1 DEF Answered, IInv, Shape, Fields
    <3>2. Complete(r)'
      <4>1. PICK h : h = handler'[r]
        OBVIOUS
      <4>2. OrderIs(h)
        BY <1>5, <1>10, <1>13, <3>1, <4>1, SamePaths
      <4>3. MadeIs(h, {})
        <5>1. h.paths \in Seq(PathsOf(r)) /\ h.made = 0 /\ h.answer # 202
          BY <1>1, <1>2, <1>5, <3>1, <4>1
        <5> QED
          BY <5>1, NoneMade
      <4> QED
        BY <1>1, <1>10, <1>13, <3>1, <4>1, <4>2, <4>3 DEF Complete
    <3> QED
      BY <1>1, <1>2, <1>5, <3>1, <3>2 DEF Fits, Stage, PathsAreWhole
  <2>2. CASE /\ file = [whole |-> TRUE, content |-> {i}]
             /\ handler' = [handler EXCEPT ![r].paths = Append(@, path)]
    <3>1. /\ handler'[r].phase = "unpacking" /\ handler'[r].answer = 0
          /\ handler'[r].paths = Append(handler[r].paths, path)
      BY <1>1, <2>2 DEF IInv, Shape, Fields
    <3>2. handler'[r].paths \in Seq(PathsOf(r))
      BY <1>2, <1>3, <3>1
    <3>3. Range(handler'[r].paths) \subseteq Range(handler[r].paths) \cup {path}
      BY <1>2, <1>3, <3>1 DEF Range
    <3>6. ASSUME NEW p \in Range(handler'[r].paths), p # Demo PROVE At(p)'.whole
      <4>1. CASE p = path
        BY <1>6, <2>2, <4>1
      <4>2. CASE p # path
        <5>1. At(p).whole
          BY <1>1, <3>3, <3>6, <4>2 DEF IInv, Stages, PathsAreWhole
        <5>2. At(p)' = At(p)
          BY <1>12, <4>2
        <5> QED
          BY <5>1, <5>2
      <4> QED
        BY <4>1, <4>2
    <3>4. PathsAreWhole(r)'
      BY <3>6 DEF PathsAreWhole
    <3>5. Stage(r)'
      BY <1>1, <1>5, <3>1 DEF Stage
    <3>7. Complete(r)'
      <4>1. PICK h : h = handler'[r]
        OBVIOUS
      <4>2. \A a \in DOMAIN g.paths : g.paths[a][2] # i
        BY <1>10, <1>11, <1>13
      <4>3. ASSUME NEW j \in Parts(g.body), \A a \in DOMAIN g.paths : g.paths[a][2] # j
            PROVE  i <= j
        <5>1. <<r, j>> \notin Range(g.paths)
          BY <4>3 DEF Range
        <5>2. j \in Ahead(r)
          BY <1>10, <1>11, <4>3, <5>1 DEF Ahead
        <5> QED
          BY <1>0, <5>2
      <4>4. OrderIs(h)
        <5>1. /\ h.paths = Append(g.paths, <<r, i>>) /\ h.body = g.body
              /\ h.phase # "enqueueing" /\ h.answer # 202
          BY <1>5, <1>10, <3>1, <4>1
        <5>2. /\ g.paths \in Seq(PathsOf(r)) /\ <<r, i>> \in PathsOf(r)
              /\ <<r, i>> # Demo
          BY <1>2, <1>3, <1>10
        <5> QED
          BY <1>11, <1>13, <4>2, <4>3, <5>1, <5>2, NextPath
      <4>5. MadeIs(h, {})
        <5>1. h.paths \in Seq(PathsOf(r))
          BY <3>2, <4>1
        <5>2. h.made = 0
          BY <1>1, <1>5, <3>1, <4>1
        <5>3. h.answer # 202
          BY <1>1, <1>5, <3>1, <4>1
        <5> QED
          BY <5>1, <5>2, <5>3, NoneMade
      <4>6. ASSUME NEW a \in DOMAIN h.paths, h.paths[a] # Demo
            PROVE  At(h.paths[a])'.content = {h.paths[a][2]}
        <5>1. CASE a \in DOMAIN g.paths
          <6>1. h.paths[a] = g.paths[a]
            BY <1>2, <1>10, <3>1, <4>1, <5>1
          <6> QED
            BY <1>13, <4>6, <5>1, <6>1
        <5>2. CASE a \notin DOMAIN g.paths
          <6>1. h.paths[a] = path
            BY <1>2, <1>3, <1>10, <3>1, <4>1, <4>6, <5>2
          <6> QED
            BY <1>6, <1>10, <2>2, <6>1
        <5> QED
          BY <5>1, <5>2
      <4> QED
        BY <1>1, <4>1, <4>4, <4>5, <4>6 DEF Complete
    <3> QED
      BY <1>1, <1>5, <3>2, <3>4, <3>5, <3>7 DEF Fits
  <2> QED
    BY <1>4, <2>1, <2>2
<1>9. DemoIsInHand'
  BY <1>1, <1>6, DemoStays
<1> QED
  BY <1>1, <1>5, <1>6, <1>8, <1>9, StepKeeps

LEMMA UnpackedStep ==
    ASSUME IInv, NEW r \in Requests, Unpacked(r)
    PROVE  IInv'
<1> DEFINE h == [handler[r] EXCEPT !.phase = "enqueueing"]
<1>1. /\ handler[r].phase = "unpacking" /\ handler[r].body.kind = "archive"
      /\ UNCHANGED <<files, jobs, read>> /\ handler[r].body \in Bodies
      /\ handler[r].made = 0 /\ Supported(handler[r].body) # {}
      /\ Ahead(r) = {} /\ handler[r].answer = 0
      /\ JobsOf(r)' = JobsOf(r)
  BY DEF Unpacked, IInv, Stages, Stage, JobsOf
<1>2. /\ handler' = [handler EXCEPT ![r] = h] /\ handler'[r] = h
      /\ DOMAIN h = Fields /\ h.paths = handler[r].paths
      /\ h.phase = "enqueueing" /\ h.body = handler[r].body
      /\ h.made = handler[r].made /\ h.answer = handler[r].answer
  BY DEF Unpacked, Enqueueing, IInv, Shape, Fields
<1>3. h.paths \in Seq(PathsOf(r))
  BY <1>2 DEF IInv, Shape
<1>7. \A i \in Supported(handler[r].body) : \E a \in DOMAIN handler[r].paths :
         handler[r].paths[a] = <<r, i>>
  BY <1>1 DEF Ahead, Range
<1>4. Len(handler[r].paths) > 0
  <2>1. PICK a : a \in DOMAIN handler[r].paths
    BY <1>1, <1>7
  <2>2. a \in 1..Len(handler[r].paths) /\ Len(handler[r].paths) \in Nat
    BY <1>2, <1>3, <2>1
  <2> QED
    BY <2>2
<1>5. Stage(r)'
  BY <1>1, <1>2, <1>4 DEF IInv, Stages, Stage
<1>6. PathsAreWhole(r)'
  BY <1>1, <1>2 DEF IInv, Stages, PathsAreWhole, At
<1> HIDE DEF h
<1>8. OrderIs(h)
  <2>1. PICK g : g = handler[r]
    OBVIOUS
  <2>2. OrderIs(g)
    BY <2>1 DEF IInv, Stages, Complete
  <2>3. \A i \in Parts(g.body) : \E a \in DOMAIN g.paths : g.paths[a][2] = i
    <3>1. Parts(g.body) = Supported(g.body)
      BY <1>1, <2>1 DEF Parts
    <3>2. \A i : <<r, i>>[2] = i
      OBVIOUS
    <3> QED
      BY <1>7, <2>1, <3>1, <3>2
  <2> QED
    BY <1>2, <2>1, <2>2, <2>3 DEF OrderIs
<1> QED
  BY <1>1, <1>2, <1>3, <1>5, <1>6, <1>8, HandlerOnly

\* The next path becomes a sent job, or a call raises, and whether there is a job,
\* and in which state, is open.
MakesJob(r, job, h) ==
    /\ handler[r].phase = "enqueueing" /\ UNCHANGED <<files, read>>
    /\ job.request = r /\ job.path = handler[r].paths[handler[r].made + 1]
    /\ handler' = [handler EXCEPT ![r] = h] /\ DOMAIN h = Fields
    /\ h.body = handler[r].body /\ h.paths = handler[r].paths
    /\ \/ /\ jobs' = jobs \cup {job} /\ job.sent /\ ~job.failed
          /\ h.made = handler[r].made + 1
          /\ \/ /\ h.phase = "answered" /\ h.answer = 202
                /\ h.made = Len(h.paths)
                /\ h.skipped = DOMAIN h.body.entries \ Supported(h.body)
             \/ /\ h.phase = "enqueueing" /\ h.answer = 0
                /\ h.made # Len(h.paths)
       \/ /\ jobs' = jobs \cup {job} \/ jobs' = jobs
          /\ h.made = handler[r].made
          /\ h.phase = "answered" /\ h.answer \in {500, 503}

\* The jobs of the first paths, and the next one.
LEMMA NextMade ==
    ASSUME NEW g, NEW h, NEW own, NEW new, NEW job,
           OrderIs(g), MadeIs(g, own), g.phase = "enqueueing",
           Len(g.paths) \in Nat, DOMAIN g.paths = 1..Len(g.paths),
           \A a \in DOMAIN g.paths : g.paths[a][2] \in Nat, g.made < Len(g.paths),
           job.path = g.paths[g.made + 1], h.paths = g.paths, h.body = g.body,
           \/ /\ new = own \cup {job} /\ job.sent /\ ~job.failed
              /\ h.made = g.made + 1
              /\ h.answer = 202 =>
                    /\ h.made = Len(h.paths)
                    /\ h.skipped = DOMAIN h.body.entries \ Supported(h.body)
           \/ /\ new = own \cup {job} \/ new = own
              /\ h.made = g.made /\ h.phase = "answered" /\ h.answer # 202
    PROVE  MadeIs(h, new)
<1>1. /\ g.made \in Nat /\ Len(g.paths) \in Nat /\ DOMAIN g.paths = 1..Len(g.paths)
      /\ g.made + 1 \in DOMAIN g.paths
  BY DEF MadeIs
<1>2. \A x \in own : \E k \in DOMAIN g.paths :
         x.path = g.paths[k] /\ k <= g.made /\ x.sent /\ ~x.failed
  BY DEF MadeIs
<1>3. \A x \in own : x.path # job.path
  <2> SUFFICES ASSUME NEW x \in own, x.path = job.path PROVE FALSE
    OBVIOUS
  <2>1. PICK k \in DOMAIN g.paths : x.path = g.paths[k] /\ k <= g.made
    BY <1>2
  <2>2. k < g.made + 1
    BY <1>1, <2>1
  <2>3. g.paths[k][2] < g.paths[g.made + 1][2]
    BY <1>1, <2>1, <2>2 DEF OrderIs
  <2> QED
    BY <1>1, <2>1, <2>3
<1>4. \A x, y \in new : x.path = y.path => x = y
  BY <1>3 DEF MadeIs
<1>5. h.made \in Nat /\ h.made <= Len(h.paths)
  BY <1>1
<1>6. \A k \in 1..h.made : \E x \in new : x.path = h.paths[k]
  <2>1. \A k \in 1..g.made : \E x \in own : x.path = g.paths[k]
    BY DEF MadeIs
  <2>2. CASE h.made = g.made
    BY <2>1, <2>2
  <2>3. CASE h.made = g.made + 1 /\ new = own \cup {job}
    <3> SUFFICES ASSUME NEW k \in 1..h.made PROVE \E x \in new : x.path = h.paths[k]
      OBVIOUS
    <3>1. CASE k = g.made + 1
      BY <2>3, <3>1
    <3>2. CASE k # g.made + 1
      <4>1. k \in 1..g.made
        BY <1>1, <2>3, <3>2
      <4> QED
        BY <2>1, <2>3, <4>1
    <3> QED
      BY <3>1, <3>2
  <2> QED
    BY <2>2, <2>3
<1>7. ASSUME NEW x \in new
      PROVE  \E k \in DOMAIN h.paths :
                /\ x.path = h.paths[k]
                /\ \/ k <= h.made /\ x.sent /\ ~x.failed
                   \/ k = h.made + 1 /\ h.phase = "answered"
  <2>1. CASE x \in own
    <3>1. PICK k \in DOMAIN g.paths : /\ x.path = g.paths[k] /\ k <= g.made
                                      /\ x.sent /\ ~x.failed
      BY <1>2, <2>1
    <3>2. k <= h.made
      BY <1>1, <3>1
    <3> QED
      BY <3>1, <3>2
  <2>2. CASE x = job /\ h.made = g.made + 1 /\ job.sent /\ ~job.failed
    BY <1>1, <2>2
  <2>3. CASE x = job /\ h.made = g.made /\ h.phase = "answered"
    BY <1>1, <2>3
  <2> QED
    BY <1>7, <2>1, <2>2, <2>3
<1> QED
  BY <1>4, <1>5, <1>6, <1>7 DEF MadeIs

LEMMA JobStep ==
    ASSUME IInv, NEW r \in Requests, NEW job, NEW h, MakesJob(r, job, h)
    PROVE  IInv'
<1>0. /\ handler[r].phase = "enqueueing" /\ UNCHANGED <<files, read>>
      /\ job.request = r /\ job.path = handler[r].paths[handler[r].made + 1]
      /\ handler' = [handler EXCEPT ![r] = h] /\ DOMAIN h = Fields
      /\ h.body = handler[r].body /\ h.paths = handler[r].paths
      /\ jobs' = jobs \cup {job} \/ jobs' = jobs
      /\ \/ h.phase = "answered" /\ h.answer \in {202, 500, 503}
         \/ /\ h.phase = "enqueueing" /\ h.answer = 0
            /\ h.made = handler[r].made + 1 /\ h.made # Len(h.paths)
  BY DEF MakesJob
<1>1. /\ DOMAIN handler' = Requests /\ handler'[r] = h
      /\ \A q \in Requests \ {r} : handler'[q] = handler[q]
      /\ Demo \in DOMAIN files /\ h.paths \in Seq(PathsOf(r))
  BY <1>0 DEF IInv, Shape
<1>2. StepOf(r)
  BY <1>0, <1>1 DEF StepOf, At
<1>3. /\ handler[r].made \in Nat /\ handler[r].made < Len(h.paths)
      /\ handler[r].body \in Bodies
  BY <1>0 DEF IInv, Stages, Stage
<1>4. job.path \in Range(h.paths) /\ job.path \in PathsOf(r)
  BY <1>0, <1>1, <1>3 DEF Range
<1>5. \A p \in Range(h.paths) : p # Demo => At(p).whole
  BY <1>0 DEF IInv, Stages, PathsAreWhole
<1>6. Stage(r)'
  <2>1. h.phase = "enqueueing" => h.made \in Nat /\ h.made < Len(h.paths)
    BY <1>0, <1>1, <1>3
  <2> QED
    BY <1>0, <1>1, <1>3, <2>1 DEF Stage
<1>7. PathsAreWhole(r)'
  BY <1>0, <1>1, <1>5 DEF PathsAreWhole, At
<1>8. \A x \in JobsOf(r)' : x.path \in PathsOf(r) /\ (x.path # Demo => At(x.path)'.whole)
  <2> SUFFICES ASSUME NEW x \in JobsOf(r)'
               PROVE  x.path \in PathsOf(r) /\ (x.path # Demo => At(x.path).whole)
    BY <1>0 DEF At
  <2>1. CASE x = job
    BY <1>4, <1>5, <2>1
  <2>2. CASE x # job
    BY <1>0, <2>2 DEF JobsOf, IInv, JobsAreWhole
  <2> QED
    BY <2>1, <2>2
<1>11. Complete(r)'
  <2>1. PICK g, own, new : g = handler[r] /\ own = JobsOf(r) /\ new = JobsOf(r)'
    OBVIOUS
  <2>2. /\ OrderIs(g) /\ MadeIs(g, own)
        /\ \A a \in DOMAIN g.paths :
              g.paths[a] # Demo => At(g.paths[a]).content = {g.paths[a][2]}
    BY <2>1 DEF IInv, Stages, Complete
  <2>3. \A a \in DOMAIN g.paths : g.paths[a][2] \in Nat
    BY <1>3, <2>1, NumbersAre
  <2>4. jobs' = jobs => new = own
    BY <2>1 DEF JobsOf
  <2>5. jobs' = jobs \cup {job} => new = own \cup {job}
    BY <1>0, <2>1 DEF JobsOf
  <2>6. \/ /\ new = own \cup {job} /\ job.sent /\ ~job.failed
           /\ h.made = g.made + 1
           /\ h.answer = 202 =>
                 /\ h.made = Len(h.paths)
                 /\ h.skipped = DOMAIN h.body.entries \ Supported(h.body)
        \/ /\ new = own \cup {job} \/ new = own
           /\ h.made = g.made /\ h.phase = "answered" /\ h.answer # 202
    BY <2>1, <2>4, <2>5 DEF MakesJob
  <2>9. g.phase = "enqueueing" /\ h.paths = g.paths /\ h.body = g.body
    BY <1>0, <2>1
  <2>7. MadeIs(h, new)
    <3>1. /\ Len(g.paths) \in Nat /\ DOMAIN g.paths = 1..Len(g.paths)
          /\ g.made < Len(g.paths) /\ job.path = g.paths[g.made + 1]
      BY <1>0, <1>1, <1>3, <2>1
    <3> QED
      BY <2>2, <2>3, <2>6, <2>9, <3>1, NextMade
  <2>8. OrderIs(h)
    <3>1. OrderIs(g)
      BY <2>2
    <3> QED
      BY <2>9, <3>1 DEF OrderIs
  <2> QED
    BY <1>0, <1>1, <2>1, <2>2, <2>7, <2>8 DEF Complete, At
<1>9. Fits(r)'
  BY <1>0, <1>1, <1>6, <1>7, <1>8, <1>11 DEF Fits
<1>10. DemoIsInHand'
  BY <1>0, <1>2, DemoStays DEF At
<1> QED
  BY <1>0, <1>1, <1>2, <1>9, <1>10, StepKeeps

LEMMA EnqueueStep ==
    ASSUME IInv, NEW r \in Requests, Enqueue(r)
    PROVE  IInv'
<1> DEFINE last == handler[r].made + 1 = Len(handler[r].paths)
<1>0. PICK job : job = Job(r, TRUE, FALSE)
  OBVIOUS
<1>1. /\ handler[r].phase = "enqueueing" /\ UNCHANGED <<files, read>>
      /\ jobs' = jobs \cup {job} /\ handler[r].answer = 0
  BY <1>0 DEF Enqueue, IInv, Stages, Stage
<1>2. /\ job.request = r /\ job.path = handler[r].paths[handler[r].made + 1]
      /\ job.sent /\ ~job.failed
  BY <1>0 DEF Job
<1>3. PICK h : /\ handler' = [handler EXCEPT ![r] = h]
               /\ h = IF last
                      THEN [handler[r] EXCEPT !.made = @ + 1, !.phase = "answered",
                               !.answer = 202,
                               !.skipped = DOMAIN handler[r].body.entries
                                             \ Supported(handler[r].body)]
                      ELSE [handler[r] EXCEPT !.made = @ + 1]
  BY DEF Enqueue
<1>4. /\ DOMAIN h = Fields /\ h.body = handler[r].body /\ h.paths = handler[r].paths
      /\ h.made = handler[r].made + 1
      /\ \/ /\ h.phase = "answered" /\ h.answer = 202
            /\ h.made = Len(h.paths)
            /\ h.skipped = DOMAIN h.body.entries \ Supported(h.body)
         \/ /\ h.phase = "enqueueing" /\ h.answer = 0
            /\ h.made # Len(h.paths)
  BY <1>1, <1>3 DEF IInv, Shape, Fields
<1> HIDE DEF last
<1> QED
  <2>1. MakesJob(r, job, h)
    BY <1>1, <1>2, <1>3, <1>4 DEF MakesJob
  <2> QED
    BY <2>1, JobStep

LEMMA EnqueueRaisesStep ==
    ASSUME IInv, NEW r \in Requests, EnqueueRaises(r)
    PROVE  IInv'
<1>1. handler[r].phase = "enqueueing" /\ UNCHANGED <<files, read>>
  BY DEF EnqueueRaises
<1>2. PICK job, status : /\ status \in {500, 503} /\ Answered(r, status)
                         /\ \E sent, failed \in BOOLEAN : job = Job(r, sent, failed)
                         /\ jobs' = jobs \cup {job} \/ jobs' = jobs
  BY DEF EnqueueRaises
<1>3. job.request = r /\ job.path = handler[r].paths[handler[r].made + 1]
  BY <1>2 DEF Job
<1>4. PICK h : h = handler'[r]
  OBVIOUS
<1>5. handler' = [handler EXCEPT ![r] = h]
  <2>1. PICK g : g = [handler EXCEPT ![r].phase = "answered"]
    OBVIOUS
  <2>2. handler' = [g EXCEPT ![r].answer = status]
    BY <1>2, <2>1 DEF Answered
  <2>3. PICK a : g = [handler EXCEPT ![r] = a]
    BY <2>1
  <2>4. PICK b : handler' = [g EXCEPT ![r] = b]
    BY <2>2
  <2>5. h = b
    BY <1>4, <2>3, <2>4 DEF IInv, Shape
  <2> QED
    BY <2>3, <2>4, <2>5
<1>6. /\ DOMAIN h = Fields /\ h.body = handler[r].body /\ h.paths = handler[r].paths
      /\ h.phase = "answered" /\ h.answer = status /\ h.made = handler[r].made
  BY <1>2, <1>4 DEF Answered, IInv, Shape, Fields
<1> QED
  <2>1. MakesJob(r, job, h)
    BY <1>1, <1>2, <1>3, <1>5, <1>6 DEF MakesJob
  <2> QED
    BY <2>1, JobStep

LEMMA HandlerDiesStep ==
    ASSUME IInv, NEW r \in Requests, HandlerDies(r)
    PROVE  IInv'
<1> DEFINE h == [handler[r] EXCEPT !.phase = "dead"]
<1>1. /\ handler[r].phase \notin {"idle", "answered", "dead"}
      /\ handler' = [handler EXCEPT ![r].phase = "dead"]
      /\ UNCHANGED <<files, jobs, read>> /\ JobsOf(r)' = JobsOf(r)
  BY DEF HandlerDies, JobsOf
<1>2. /\ handler' = [handler EXCEPT ![r] = h] /\ handler'[r] = h
      /\ DOMAIN h = Fields /\ h.paths \in Seq(PathsOf(r))
      /\ h.phase = "dead" /\ h.body = handler[r].body
      /\ h.made = handler[r].made /\ h.paths = handler[r].paths
      /\ h.answer = handler[r].answer
  BY <1>1, PhaseOnly
<1> HIDE DEF h
<1>3. Stage(r)' /\ PathsAreWhole(r)'
  BY <1>1, <1>2 DEF IInv, Stages, Stage, PathsAreWhole
<1>4. OrderIs(h)
  <2>1. PICK g : g = handler[r]
    OBVIOUS
  <2>2. OrderIs(g) /\ g.answer = 0
    BY <1>1, <2>1 DEF IInv, Stages, Stage, Complete
  <2> QED
    BY <1>2, <2>1, <2>2, SamePaths
<1> QED
  BY <1>1, <1>2, <1>3, <1>4, HandlerOnly

\* What a worker finds is whole, or it is the demo corpus in the hand of a
\* request that has made no job, and so of another one.
LEMMA ReadStep ==
    ASSUME IInv, NEW job \in jobs, ReadFile(job)
    PROVE  IInv'
<1>1. UNCHANGED <<files, handler, jobs>>
  BY DEF ReadFile
<1>2. Shape' /\ Stages' /\ JobsAreWhole' /\ DemoIsInHand'
  BY <1>1 DEF IInv, Shape, Stages, Stage, PathsAreWhole, Complete, OrderIs, MadeIs,
              JobsAreWhole, DemoIsInHand, JobsOf, At
<1>3. job.request \in Requests /\ job.path \in PathsOf(job.request)
  BY DEF IInv, JobsAreWhole
<1>4. \/ At(job.path).whole
      \/ /\ job.path = Demo
         /\ \E q \in Requests : handler[q].body.kind = "demo" /\ q # job.request
  <2>1. CASE job.path # Demo
    BY <2>1 DEF IInv, JobsAreWhole
  <2>2. CASE job.path = Demo /\ ~At(Demo).whole
    <3>1. PICK q \in Requests : handler[q].body.kind = "demo" /\ JobsOf(q) = {}
      BY <2>2 DEF IInv, DemoIsInHand
    <3>2. q # job.request
      BY <3>1 DEF JobsOf
    <3> QED
      BY <2>2, <3>1, <3>2
  <2> QED
    BY <2>1, <2>2
<1>5. PICK x : x = [job |-> job, found |-> At(job.path)] /\ read' = read \cup {x}
  BY DEF ReadFile
<1>6. x.job = job /\ x.found = At(job.path)
  BY <1>5
<1>7. ReadsFit'
  BY <1>1, <1>3, <1>4, <1>5, <1>6 DEF IInv, ReadsFit, JobsReadTheirFile, PathsOf
<1> QED
  BY <1>2, <1>7 DEF IInv

-----------------------------------------------------------------------------
LEMMA NextKeeps == IInv /\ [Next]_vars => IInv'
<1> SUFFICES ASSUME IInv, [Next]_vars PROVE IInv'
  OBVIOUS
<1>1. ASSUME NEW r \in Requests, NEW body \in Bodies, Receive(r, body) PROVE IInv'
  BY <1>1, ReceiveStep
<1>2. ASSUME NEW r \in Requests, BodyRaises(r) PROVE IInv'
  BY <1>2, RefusedStep DEF BodyRaises
<1>3. ASSUME NEW r \in Requests,
             Write(r) \/ Close(r) \/ Inspect(r) \/ Unpack(r) \/ Unpacked(r)
      PROVE  IInv'
  BY <1>3, WriteStep, CloseStep, InspectStep, UnpackStep, UnpackedStep
<1>4. ASSUME NEW r \in Requests, Enqueue(r) \/ EnqueueRaises(r) \/ HandlerDies(r)
      PROVE  IInv'
  BY <1>4, EnqueueStep, EnqueueRaisesStep, HandlerDiesStep
<1>5. ASSUME NEW job \in jobs, ReadFile(job) PROVE IInv'
  BY <1>5, ReadStep
<1>6. CASE UNCHANGED vars
  BY <1>6 DEF vars, IInv, Shape, Stages, Stage, PathsAreWhole, Complete, OrderIs,
              MadeIs, JobsAreWhole, DemoIsInHand, ReadsFit, JobsReadTheirFile,
              JobsOf, At
<1> QED
  BY <1>1, <1>2, <1>3, <1>4, <1>5, <1>6 DEF Next

\* No worker ever reads half a file, however requests fail, die and overlap -
\* but for the demo corpus while another request rewrites it (ingestion.py:209).
THEOREM WorkersFindTheirFile == Spec => []JobsReadTheirFile
<1>1. IInv => JobsReadTheirFile
  BY DEF IInv, ReadsFit
<1> QED
  BY <1>1, InitHolds, NextKeeps, PTL DEF Spec

\* A request that is refused for what it brings has made no job, and an upload
\* has left no file (ingestion.py:117).
THEOREM RefusedLeaveNothing == Spec => []RefusalLeavesNothing
<1>1. IInv => RefusalLeavesNothing
  BY DEF IInv, Stages, Stage, RefusalLeavesNothing
<1> QED
  BY <1>1, InitHolds, NextKeeps, PTL DEF Spec

\* "Each file becomes a task of its own" (README.md:146-148): of a request that
\* is accepted each part has one job, every job was sent and none refused, and
\* all other members of an archive are named as skipped; what fails half way has
\* made the jobs of the first parts, sent but perhaps the last.
THEOREM AnswersAreComplete == Spec => []AnswerIsComplete
<1>1. IInv => AnswerIsComplete
  <2> SUFFICES ASSUME IInv, NEW r \in Requests
               PROVE  LET h == handler[r]
                          files0 == IF h.body.kind = "archive" THEN Supported(h.body)
                                    ELSE {0}
                          Holding(i) == {job \in JobsOf(r) :
                                            job.path = Demo \/ At(job.path).content = {i}}
                          made == {i \in files0 : Holding(i) # {}}
                      IN  /\ \A i \in files0 : Cardinality(Holding(i)) <= 1
                          /\ h.answer = 202 =>
                                /\ made = files0
                                /\ \A job \in JobsOf(r) : job.sent /\ ~job.failed
                                /\ h.skipped = DOMAIN h.body.entries \ files0
                          /\ \A i \in made, j \in files0 \ made : i < j
                          /\ \A job, other \in JobsOf(r) :
                                job.failed \/ ~job.sent => other.path[2] <= job.path[2]
    BY DEF AnswerIsComplete
  <2>4. PICK h, files0, Holding, made :
          /\ h = handler[r] /\ files0 = Parts(h.body)
          /\ Holding = [i \in files0 |-> {job \in JobsOf(r) :
                              job.path = Demo \/ At(job.path).content = {i}}]
          /\ made = {i \in files0 : Holding[i] # {}}
    OBVIOUS
  <2> DEFINE n(a) == h.paths[a][2]
             len == Len(h.paths)
  <2>1. OrderIs(h) /\ MadeIs(h, JobsOf(r)) /\ files0 = Parts(h.body)
    BY <2>4 DEF IInv, Stages, Complete
  <2>5. \A i \in files0 : Holding[i] = {job \in JobsOf(r) :
                                job.path = Demo \/ At(job.path).content = {i}}
    BY <2>4
  <2> DEFINE Goal ==
               /\ \A i \in files0 : Cardinality(Holding[i]) <= 1
               /\ h.answer = 202 =>
                     /\ made = files0
                     /\ \A job \in JobsOf(r) : job.sent /\ ~job.failed
                     /\ h.skipped = DOMAIN h.body.entries \ files0
               /\ \A i \in made, j \in files0 \ made : i < j
               /\ \A job, other \in JobsOf(r) :
                     job.failed \/ ~job.sent => other.path[2] <= job.path[2]
  <2>2. ASSUME h.phase = "idle" PROVE Goal
    <3>1. JobsOf(r) = {} /\ h = Idle
      BY <2>4, <2>2 DEF IInv, Stages, Stage
    <3>2. h.answer = 0
      BY <3>1 DEF Idle
    <3>3. \A i \in files0 : Holding[i] = {}
      BY <2>5, <3>1
    <3>4. made = {}
      BY <2>4, <3>3
    <3> QED
      BY <3>1, <3>2, <3>3, <3>4, FS_EmptySet
  <2>3. ASSUME h.phase # "idle" PROVE Goal
    <3>0. h.body \in Bodies
      BY <2>4, <2>3 DEF IInv, Stages, Stage
    <3>1. /\ Parts(h.body) \subseteq Nat /\ len \in Nat /\ DOMAIN h.paths = 1..len
          /\ h.made \in Nat /\ h.made <= len
          /\ \A a \in 1..len : n(a) \in Parts(h.body)
      <4>1. handler[r].body \in Bodies
        BY <2>4, <3>0
      <4>2. /\ Parts(h.body) \subseteq Nat /\ h.paths \in Seq(PathsOf(r))
            /\ \A a \in DOMAIN h.paths : h.paths[a][2] \in Parts(h.body)
        BY <2>4, <4>1, NumbersAre
      <4> QED
        BY <2>1, <4>2 DEF MadeIs
    <3>2. \A a, b \in 1..len : n(a) = n(b) => a = b
      <4> SUFFICES ASSUME NEW a \in 1..len, NEW b \in 1..len, a # b PROVE n(a) # n(b)
        OBVIOUS
      <4>1. \A x, y \in 1..len : x < y => n(x) < n(y)
        BY <2>1, <3>1 DEF OrderIs
      <4>2. n(a) \in Nat /\ n(b) \in Nat
        BY <3>1
      <4>3. a < b \/ b < a
        BY <3>1
      <4>4. n(a) < n(b) \/ n(b) < n(a)
        BY <4>1, <4>3
      <4> QED
        BY <4>2, <4>4
    <3>3. ASSUME NEW a \in 1..len, NEW job \in JobsOf(r), job.path = h.paths[a]
          PROVE  \A i \in files0 : job \in Holding[i] <=> n(a) = i
      <4>1. CASE h.body.kind = "archive"
        <5>1. h.paths[a] # Demo /\ At(h.paths[a]).content = {n(a)}
          BY <2>4, <2>1, <3>1, <4>1 DEF OrderIs, IInv, Stages, Complete
        <5> QED
          BY <2>4, <3>3, <5>1
      <4>2. CASE h.body.kind # "archive"
        <5>1. files0 = {0} /\ n(a) = 0
          BY <2>4, <2>1, <3>1, <4>2 DEF Parts
        <5>2. h.paths[a] # Demo => At(h.paths[a]).content = {n(a)}
          BY <2>4, <3>1 DEF IInv, Stages, Complete
        <5> QED
          BY <2>4, <3>3, <5>1, <5>2
      <4> QED
        BY <4>1, <4>2
    <3>4. \A job \in JobsOf(r) : \E a \in 1..len :
             /\ job.path = h.paths[a]
             /\ (a <= h.made \/ a = h.made + 1)
             /\ job.failed \/ ~job.sent => a = h.made + 1
      BY <2>1, <3>1 DEF MadeIs
    <3>5. \A a \in 1..len : a <= h.made =>
             \E job \in JobsOf(r) : job.path = h.paths[a] /\ job \in Holding[n(a)]
      <4> SUFFICES ASSUME NEW a \in 1..len, a <= h.made
                   PROVE  \E job \in JobsOf(r) :
                             job.path = h.paths[a] /\ job \in Holding[n(a)]
        OBVIOUS
      <4>1. PICK job \in JobsOf(r) : job.path = h.paths[a]
        <5>1. a \in 1..h.made
          BY <3>1
        <5> QED
          BY <2>1, <5>1 DEF MadeIs
      <4> QED
        BY <2>1, <3>1, <3>3, <4>1
    <3>6. ASSUME NEW i \in files0 PROVE Cardinality(Holding[i]) <= 1
      <4>1. \A x, y \in Holding[i] : x = y
        <5> SUFFICES ASSUME NEW x \in Holding[i], NEW y \in Holding[i] PROVE x = y
          OBVIOUS
        <5>0. x \in JobsOf(r) /\ y \in JobsOf(r)
          BY <2>4, <3>6
        <5>1. PICK a \in 1..len : x.path = h.paths[a]
          BY <3>4, <5>0
        <5>2. PICK b \in 1..len : y.path = h.paths[b]
          BY <3>4, <5>0
        <5>3. n(a) = i /\ n(b) = i
          BY <3>3, <3>6, <5>0, <5>1, <5>2
        <5>4. a = b
          BY <3>2, <5>3
        <5> QED
          BY <2>1, <5>0, <5>1, <5>2, <5>4 DEF MadeIs
      <4>2. CASE Holding[i] = {}
        BY <4>2, FS_EmptySet
      <4>3. CASE Holding[i] # {}
        <5>1. PICK x \in Holding[i] : TRUE
          BY <4>3
        <5>2. Holding[i] = {x}
          BY <4>1, <5>1
        <5>3. Cardinality({x}) = 1
          BY FS_Singleton
        <5> QED
          BY <5>2, <5>3
      <4> QED
        BY <4>2, <4>3
    <3>7. ASSUME h.answer = 202
          PROVE  /\ made = files0
                 /\ \A job \in JobsOf(r) : job.sent /\ ~job.failed
                 /\ h.skipped = DOMAIN h.body.entries \ files0
      <4>1. /\ h.made = len
            /\ h.skipped = DOMAIN h.body.entries \ Supported(h.body)
        BY <2>1, <3>7 DEF MadeIs
      <4>2. ASSUME NEW i \in files0 PROVE Holding[i] # {}
        <5>1. PICK a \in 1..len : n(a) = i
          <6>1. i \in Parts(h.body)
            BY <2>4, <4>2
          <6>2. ~(\A b \in DOMAIN h.paths : h.paths[b][2] # i)
            BY <2>1, <3>7, <6>1 DEF OrderIs
          <6> QED
            BY <3>1, <6>2
        <5> QED
          BY <3>1, <3>5, <4>1, <5>1
      <4>3. h.skipped = DOMAIN h.body.entries \ files0
        <5>1. CASE h.body.kind = "archive"
          BY <2>1, <4>1, <5>1 DEF Parts
        <5>2. CASE h.body.kind # "archive"
          <6>1. h.body.entries = <<>> /\ DOMAIN <<>> = {}
            BY <3>0, <5>2, BodiesFit
          <6>2. DOMAIN h.body.entries = {}
            BY <6>1
          <6> QED
            BY <4>1, <6>2
        <5> QED
          BY <5>1, <5>2
      <4>4. \A job \in JobsOf(r) : job.sent /\ ~job.failed
        BY <2>1, <3>1, <3>7, <4>1 DEF MadeIs
      <4> QED
        BY <2>4, <4>2, <4>3, <4>4
    <3>8. ASSUME NEW i \in made, NEW j \in files0 \ made PROVE i < j
      <4>1. PICK job \in JobsOf(r) : job \in Holding[i]
        BY <2>4, <3>8
      <4>2. PICK a \in 1..len : job.path = h.paths[a] /\ (a <= h.made \/ a = h.made + 1)
        BY <3>4, <4>1
      <4>3. n(a) = i
        <5>1. i \in files0
          BY <2>4, <3>8
        <5> QED
          BY <3>3, <4>1, <4>2, <5>1
      <4>4. CASE \A b \in 1..len : n(b) # j
        BY <2>1, <3>1, <3>8, <4>3, <4>4 DEF OrderIs
      <4>5. CASE \E b \in 1..len : n(b) = j
        <5>1. PICK b \in 1..len : n(b) = j
          BY <4>5
        <5>2. ~(b <= h.made)
          BY <2>4, <3>5, <3>8, <5>1
        <5>3. b # a
          BY <2>4, <3>8, <4>3, <5>1
        <5>4. a < b
          BY <3>1, <4>2, <5>2, <5>3
        <5> QED
          BY <2>1, <3>1, <4>3, <5>1, <5>4 DEF OrderIs
      <4> QED
        BY <4>4, <4>5
    <3>9. ASSUME NEW job \in JobsOf(r), NEW other \in JobsOf(r), job.failed \/ ~job.sent
          PROVE  other.path[2] <= job.path[2]
      <4>1. PICK a \in 1..len : job.path = h.paths[a] /\ a = h.made + 1
        BY <3>4, <3>9
      <4>2. PICK b \in 1..len : other.path = h.paths[b] /\ (b <= h.made \/ b = h.made + 1)
        BY <3>4
      <4>3. b < a \/ b = a
        BY <3>1, <4>1, <4>2
      <4>4. n(b) \in Nat /\ n(a) \in Nat /\ (b < a => n(b) < n(a))
        BY <2>1, <3>1 DEF OrderIs
      <4> QED
        BY <4>1, <4>2, <4>3, <4>4
    <3> QED
      BY <3>6, <3>7, <3>8, <3>9
  <2>6. Goal
    BY <2>2, <2>3
  <2>7. files0 = IF h.body.kind = "archive" THEN Supported(h.body) ELSE {0}
    BY <2>4 DEF Parts
  <2> DEFINE holding(i) == {job \in JobsOf(r) :
                                job.path = Demo \/ At(job.path).content = {i}}
  <2>8. /\ \A i \in files0 : Holding[i] = holding(i)
        /\ made = {i \in files0 : holding(i) # {}}
    BY <2>4, <2>5
  <2>9. /\ \A i \in files0 : Cardinality(holding(i)) <= 1
        /\ h.answer = 202 =>
              /\ {i \in files0 : holding(i) # {}} = files0
              /\ \A job \in JobsOf(r) : job.sent /\ ~job.failed
              /\ h.skipped = DOMAIN h.body.entries \ files0
        /\ \A i \in {k \in files0 : holding(k) # {}} :
              \A j \in files0 \ {k \in files0 : holding(k) # {}} : i < j
        /\ \A job, other \in JobsOf(r) :
              job.failed \/ ~job.sent => other.path[2] <= job.path[2]
    BY <2>6, <2>8
  <2> QED
    BY <2>4, <2>7, <2>9
<1> QED
  BY <1>1, InitHolds, NextKeeps, PTL DEF Spec
=============================================================================
