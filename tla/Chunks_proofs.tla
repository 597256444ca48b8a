--------------------------- MODULE Chunks_proofs ---------------------------
(***************************************************************************)
(* Theorems about Chunks, for every number of documents, runs, workers,     *)
(* edits and faults, all texts, and any way of cutting them.                *)
(***************************************************************************)
EXTENDS Chunks, TLAPS

\* The fields of a run, and of a row.
Fields == {"phase", "listed", "todo", "doc", "loaded", "failed", "alone"}
IsRow(row) == DOMAIN row = {"content", "model", "embedding", "id"}

Working(r) == run[r].phase \in {"embed", "flush"}

\* The documents that r has not written yet.
Ahead(r) == run[r].todo \cup (IF Working(r) THEN {run[r].doc} ELSE {})

RunFits(r) ==
    /\ DOMAIN run[r] = Fields
    /\ run[r].phase \in {"idle", "next", "embed", "flush", "committed", "aborted"}
    /\ DOMAIN run[r].listed \subseteq Docs
    /\ \A d \in DOMAIN run[r].listed : run[r].listed[d] \in Texts
    /\ run[r].todo \subseteq DOMAIN run[r].listed
    /\ Working(r) => run[r].doc \in DOMAIN run[r].listed \ run[r].todo
    /\ run[r].phase = "flush" => DOMAIN run[r].loaded \subseteq Ordinals

Shape ==
    /\ text \in [Docs -> Texts \cup {NoText}]
    /\ DOMAIN run = Runs /\ DOMAIN over = Runs
    /\ \A r \in Runs : RunFits(r)
    /\ \A k \in DOMAIN chunks : IsRow(chunks[k])

\* What r has written is of documents that are behind it, and of a row that
\* exists it keeps the id.
OverFits(r) ==
    /\ ~Active(r) => DOMAIN over[r] = {}
    /\ \A k \in DOMAIN over[r] :
          /\ k[1] \in DOMAIN run[r].listed \ Ahead(r)
          /\ over[r][k] # Gone =>
                /\ IsRow(over[r][k])
                /\ k \in DOMAIN chunks => over[r][k].id = chunks[k].id

\* Nobody writes a row that another open transaction has written.
Disjoint ==
    \A q, r \in Runs : q # r => DOMAIN over[q] \cap DOMAIN over[r] = {}

Alone(r) == Active(r) /\ run[r].alone

\* A run that is alone has nobody beside it, has completed what is behind it,
\* and nobody has changed the rows it loaded.
AloneFits(r) ==
    Alone(r) =>
        /\ \A q \in Runs \ {r} : ~Active(q)
        /\ \A k \in DOMAIN over[r] : k[1] \notin run[r].failed
        /\ \A d \in DOMAIN run[r].listed \ (Ahead(r) \cup run[r].failed) :
              Complete(Of(d, View(r)), run[r].listed[d], ModelOf[r])
        /\ run[r].failed \cap Ahead(r) = {}
        /\ run[r].phase = "flush" => run[r].loaded = Of(run[r].doc, View(r))

IInv ==
    /\ Shape /\ Disjoint
    /\ \A r \in Runs : OverFits(r) /\ AloneFits(r)

-----------------------------------------------------------------------------
LEMMA NoRowsAreEmpty == DOMAIN NoRows = {}
  BY DEF NoRows

LEMMA InitHolds == Init => IInv
<1> SUFFICES ASSUME Init PROVE IInv
  OBVIOUS
<1>1. \A r \in Runs : RunFits(r) /\ ~Active(r)
  BY NoRowsAreEmpty DEF Init, Idle, RunFits, Fields, Working, Active
<1>2. Shape
  BY <1>1, NoRowsAreEmpty DEF Init, Shape
<1>3. Disjoint /\ \A r \in Runs : OverFits(r) /\ AloneFits(r)
  BY <1>1, NoRowsAreEmpty DEF Init, Disjoint, OverFits, AloneFits, Alone
<1> QED
  BY <1>2, <1>3 DEF IInv

\* Of a key that it has not written, a run sees what is committed.
LEMMA ViewBelow ==
    ASSUME IInv, NEW r \in Runs, NEW k, k \notin DOMAIN over[r]
    PROVE  /\ k \in DOMAIN View(r) <=> k \in DOMAIN chunks
           /\ k \in DOMAIN chunks => View(r)[k] = chunks[k]
  BY DEF View, Onto

\* What a run has written of a document in hand is nothing.
LEMMA AheadIsUnwritten ==
    ASSUME IInv, NEW r \in Runs, NEW d \in Ahead(r), NEW i
    PROVE  <<d, i>> \notin DOMAIN over[r]
  BY DEF IInv, OverFits

-----------------------------------------------------------------------------
\* Steps that only turn the loop of one active run.
Turns(r) ==
    /\ UNCHANGED <<text, chunks, over>>
    /\ Active(r)
    /\ DOMAIN run' = Runs
    /\ \A q \in Runs \ {r} : run'[q] = run[q]
    /\ run'[r].listed = run[r].listed /\ run'[r].alone = run[r].alone

LEMMA TurnStep ==
    ASSUME IInv, NEW r \in Runs, Turns(r), RunFits(r)', OverFits(r)', AloneFits(r)'
    PROVE  IInv'
<1>1. \A q \in Runs : RunFits(q)'
  BY DEF Turns, IInv, Shape, RunFits, Working
<1>2. \A q \in Runs : OverFits(q)'
  <2>1. ASSUME NEW q \in Runs \ {r} PROVE OverFits(q)'
    <3>1. /\ OverFits(q) /\ UNCHANGED <<chunks, over>>
          /\ run'[q] = run[q] /\ Ahead(q)' = Ahead(q) /\ Active(q)' = Active(q)
      BY DEF Turns, IInv, Ahead, Working, Active
    <3> QED
      BY <3>1 DEF OverFits
  <2> QED
    BY <2>1
<1>3. ASSUME NEW q \in Runs PROVE AloneFits(q)'
  <2>1. CASE q = r
    BY <2>1
  <2>2. CASE q # r
    BY <2>2 DEF Turns, IInv, AloneFits, Alone, Active
  <2> QED
    BY <2>1, <2>2
<1>4. Shape' /\ Disjoint'
  BY <1>1 DEF Turns, IInv, Shape, Disjoint
<1> QED
  BY <1>2, <1>3, <1>4 DEF IInv

LEMMA CompareStep ==
    ASSUME IInv, NEW r \in Runs, Compare(r)
    PROVE  IInv'
<1> DEFINE rows(d) == Of(d, View(r))
<1>1. PICK d \in Following(r) :
        run' = [run EXCEPT ![r] = [run[r] EXCEPT
                  !.phase = IF IsCurrent(rows(d), ChunksOf[run[r].listed[d]],
                                         ModelOf[r])
                            THEN "next" ELSE "embed",
                  !.todo = run[r].todo \ {d}, !.doc = d]]
  BY DEF Compare
<1> DEFINE current == IsCurrent(rows(d), ChunksOf[run[r].listed[d]], ModelOf[r])
<1>2. /\ run[r].phase = "next" /\ UNCHANGED <<text, chunks, over>>
      /\ d \in run[r].todo /\ RunFits(r) /\ Active(r) /\ View(r)' = View(r)
  BY DEF Compare, Following, IInv, Shape, Active, View
<1>3. /\ DOMAIN run' = Runs /\ \A q \in Runs \ {r} : run'[q] = run[q]
      /\ DOMAIN run'[r] = Fields
      /\ run'[r].phase = IF current THEN "next" ELSE "embed"
      /\ run'[r].todo = run[r].todo \ {d} /\ run'[r].doc = d
      /\ run'[r].listed = run[r].listed /\ run'[r].alone = run[r].alone
      /\ run'[r].failed = run[r].failed
  BY <1>1, <1>2 DEF IInv, Shape, RunFits, Fields
<1> HIDE DEF current
<1>4. Turns(r)
  BY <1>2, <1>3 DEF Turns
<1>5. RunFits(r)'
  BY <1>2, <1>3 DEF RunFits, Working
<1>6. /\ Ahead(r)' = (IF current THEN run[r].todo \ {d} ELSE run[r].todo)
      /\ Ahead(r) = run[r].todo
  BY <1>2, <1>3 DEF Ahead, Working
<1>7. OverFits(r)'
  BY <1>2, <1>3, <1>6 DEF IInv, OverFits, Active
<1>8. current => Complete(rows(d), run[r].listed[d], ModelOf[r])
  BY DEF current, IsCurrent, Complete
<1>9. AloneFits(r)'
  <2> HIDE DEF rows
  <2>1. SUFFICES ASSUME Alone(r)' PROVE AloneFits(r)'
    BY DEF AloneFits
  <2>2. Alone(r) /\ AloneFits(r)
    BY <1>2, <1>3, <2>1 DEF Alone, IInv
  <2>3. \A e \in DOMAIN run[r].listed \ (Ahead(r)' \cup run[r].failed) :
           Complete(Of(e, View(r)), run[r].listed[e], ModelOf[r])
    BY <1>6, <1>8, <2>2 DEF AloneFits, rows
  <2>4. \A q \in Runs \ {r} : ~Active(q)'
    BY <1>3, <2>2 DEF AloneFits, Active
  <2> QED
    BY <1>2, <1>3, <1>6, <2>2, <2>3, <2>4 DEF AloneFits
<1> QED
  BY <1>4, <1>5, <1>7, <1>9, TurnStep

LEMMA EmbedStep ==
    ASSUME IInv, NEW r \in Runs, Embed(r)
    PROVE  IInv'
<1>1. /\ run[r].phase = "embed" /\ UNCHANGED <<text, chunks, over>>
      /\ RunFits(r) /\ Active(r) /\ View(r)' = View(r)
  BY DEF Embed, IInv, Shape, Active, View
<1>2. /\ DOMAIN run' = Runs /\ \A q \in Runs \ {r} : run'[q] = run[q]
      /\ DOMAIN run'[r] = Fields
      /\ run'[r].phase = "flush" /\ run'[r].loaded = Of(run[r].doc, View(r))
      /\ run'[r].todo = run[r].todo /\ run'[r].doc = run[r].doc
      /\ run'[r].listed = run[r].listed /\ run'[r].alone = run[r].alone
      /\ run'[r].failed = run[r].failed
  BY <1>1 DEF Embed, IInv, Shape, RunFits, Fields
<1>3. Turns(r)
  BY <1>1, <1>2 DEF Turns
<1>4. DOMAIN run'[r].loaded \subseteq Ordinals
  BY <1>2 DEF Of
<1>5. RunFits(r)'
  BY <1>1, <1>2, <1>4 DEF RunFits, Working
<1>6. Ahead(r)' = Ahead(r)
  BY <1>1, <1>2 DEF Ahead, Working
<1>7. OverFits(r)'
  BY <1>1, <1>2, <1>6 DEF IInv, OverFits, Active
<1>8. AloneFits(r)'
  BY <1>1, <1>2, <1>6 DEF IInv, AloneFits, Alone, Active
<1> QED
  BY <1>3, <1>5, <1>7, <1>8, TurnStep

\* The document in hand fails, and nothing is written.
LEMMA FailureStep ==
    ASSUME IInv, NEW r \in Runs, Working(r), Proceed(r, {run[r].doc}),
           UNCHANGED <<text, chunks, over>>
    PROVE  IInv'
<1>1. RunFits(r) /\ Active(r) /\ View(r)' = View(r)
  BY DEF IInv, Shape, Active, View, Working
<1>2. /\ DOMAIN run' = Runs /\ \A q \in Runs \ {r} : run'[q] = run[q]
      /\ DOMAIN run'[r] = Fields
      /\ run'[r].phase = "next" /\ run'[r].todo = run[r].todo
      /\ run'[r].listed = run[r].listed /\ run'[r].alone = run[r].alone
      /\ run'[r].failed = run[r].failed \cup {run[r].doc}
  BY <1>1 DEF Proceed, IInv, Shape, RunFits, Fields
<1>3. Turns(r)
  BY <1>1, <1>2 DEF Turns
<1>4. RunFits(r)'
  BY <1>1, <1>2 DEF RunFits, Working
<1>5. /\ Ahead(r)' = run[r].todo /\ Ahead(r) = run[r].todo \cup {run[r].doc}
      /\ run[r].doc \notin run[r].todo
  BY <1>1, <1>2 DEF Ahead, Working, RunFits
<1>6. OverFits(r)'
  BY <1>2, <1>5 DEF IInv, OverFits, Active
<1>7. AloneFits(r)'
  <2>1. SUFFICES ASSUME Alone(r)' PROVE AloneFits(r)'
    BY DEF AloneFits
  <2>2. Alone(r) /\ AloneFits(r) /\ OverFits(r)
    BY <1>1, <1>2, <2>1 DEF Alone, IInv
  <2>3. \A q \in Runs \ {r} : ~Active(q)'
    BY <1>2, <2>2 DEF AloneFits, Active
  <2>4. \A k \in DOMAIN over[r] : k[1] # run[r].doc
    BY <1>5, <2>2 DEF OverFits
  <2> QED
    BY <1>1, <1>2, <1>5, <2>2, <2>3, <2>4 DEF AloneFits
<1> QED
  BY <1>3, <1>4, <1>6, <1>7, TurnStep

-----------------------------------------------------------------------------
LEMMA OntoAt ==
    ASSUME NEW new, NEW old, NEW k
    PROVE  /\ k \in DOMAIN Onto(new, old) <=>
                 /\ k \in DOMAIN new \/ k \in DOMAIN old
                 /\ k \in DOMAIN new => new[k] # Gone
           /\ k \in DOMAIN Onto(new, old) =>
                 Onto(new, old)[k] = IF k \in DOMAIN new THEN new[k] ELSE old[k]
  BY DEF Onto

\* The rows of a document of which a run has not written anything new.
LEMMA SameRows ==
    ASSUME NEW r \in Runs, NEW e, UNCHANGED chunks,
           \A i : /\ <<e, i>> \in DOMAIN over'[r] <=> <<e, i>> \in DOMAIN over[r]
                  /\ <<e, i>> \in DOMAIN over[r] =>
                        over'[r][<<e, i>>] = over[r][<<e, i>>]
    PROVE  Of(e, View(r))' = Of(e, View(r))
<1>1. PICK old, new : old = over[r] /\ new = over'[r]
  OBVIOUS
<1>2. View(r) = Onto(old, chunks) /\ View(r)' = Onto(new, chunks)
  BY <1>1 DEF View
<1>3. ASSUME NEW i
      PROVE  /\ <<e, i>> \in DOMAIN Onto(new, chunks) <=>
                    <<e, i>> \in DOMAIN Onto(old, chunks)
             /\ <<e, i>> \in DOMAIN Onto(old, chunks) =>
                    Onto(new, chunks)[<<e, i>>] = Onto(old, chunks)[<<e, i>>]
  <2>1. PICK k : k = <<e, i>>
    OBVIOUS
  <2>2. /\ k \in DOMAIN new <=> k \in DOMAIN old
        /\ k \in DOMAIN old => new[k] = old[k]
    <3>1. /\ <<e, i>> \in DOMAIN over'[r] <=> <<e, i>> \in DOMAIN over[r]
          /\ <<e, i>> \in DOMAIN over[r] =>
                over'[r][<<e, i>>] = over[r][<<e, i>>]
      OBVIOUS
    <3> QED
      BY <1>1, <2>1, <3>1
  <2> QED
    BY <2>1, <2>2, OntoAt
<1> QED
  BY <1>2, <1>3 DEF Of

\* The contents that r writes have ordinals.
LEMMA ContentsFit ==
    ASSUME IInv, NEW r \in Runs, run[r].phase = "flush"
    PROVE  /\ run[r].doc \in Ahead(r) /\ run[r].doc \in DOMAIN run[r].listed
           /\ run[r].listed[run[r].doc] \in Texts
           /\ DOMAIN Contents(r) \subseteq Ordinals
           /\ DOMAIN run[r].loaded \subseteq Ordinals
  BY DEF IInv, Shape, RunFits, Working, Ahead, Contents, Ordinals

\* A row that the flush writes over another one keeps its id.
LEMMA WrittenFits ==
    ASSUME IInv, NEW r \in Runs, run[r].phase = "flush", ~Violates(r),
           NEW i \in DOMAIN Written(r), Written(r)[i] # Gone
    PROVE  LET k == <<run[r].doc, i>>
           IN  /\ IsRow(Written(r)[i])
               /\ k \in DOMAIN chunks => Written(r)[i].id = chunks[k].id
<1> DEFINE k == <<run[r].doc, i>>
<1>1. /\ k \in DOMAIN View(r) <=> k \in DOMAIN chunks
      /\ k \in DOMAIN chunks => View(r)[k] = chunks[k] /\ IsRow(chunks[k])
  BY ContentsFit, AheadIsUnwritten, ViewBelow DEF IInv, Shape
<1>2. CASE i \in Inserted(r)
  <2>1. i \in Ordinals
    BY <1>2, ContentsFit DEF Inserted
  <2>2. k \notin DOMAIN View(r)
    BY <1>2, <2>1 DEF Violates, Of
  <2>3. Written(r)[i] = Chunk(Contents(r)[i], ModelOf[r], r)
    BY <1>2 DEF Written
  <2> QED
    BY <1>1, <2>2, <2>3 DEF Chunk, IsRow
<1>3. CASE i \notin Inserted(r)
  <2>1. i \in Updated(r) /\ Remains(r, i) /\ Written(r)[i] = Overwritten(r, i)
    BY <1>3 DEF Written
  <2>2. k \in DOMAIN View(r)
    BY <2>1 DEF Remains, Of
  <2>3. DOMAIN Overwritten(r, i) = DOMAIN chunks[k]
        /\ Overwritten(r, i).id = chunks[k].id
    BY <1>1, <2>2 DEF Overwritten, IsRow
  <2> QED
    BY <1>1, <2>1, <2>2, <2>3 DEF IsRow
<1> QED
  BY <1>2, <1>3

\* If what it loaded still stands, the flush completes the document.
LEMMA WrittenIsComplete ==
    ASSUME IInv, NEW r \in Runs, run[r].phase = "flush",
           run[r].loaded = Of(run[r].doc, View(r)), NEW rows,
           \A i \in Ordinals :
              /\ i \in DOMAIN rows <=>
                    /\ i \in DOMAIN Written(r) \/ i \in DOMAIN run[r].loaded
                    /\ i \in DOMAIN Written(r) => Written(r)[i] # Gone
              /\ i \in DOMAIN rows /\ i \in DOMAIN Written(r) =>
                    rows[i] = Written(r)[i],
           DOMAIN rows \subseteq Ordinals
    PROVE  Complete(rows, run[r].listed[run[r].doc], ModelOf[r])
<1> DEFINE C == Contents(r)
           L == run[r].loaded
<1>1. DOMAIN C \subseteq Ordinals /\ DOMAIN L \subseteq Ordinals
  BY ContentsFit
<1>2. \A i \in DOMAIN L : /\ Remains(r, i) /\ IsRow(L[i])
                          /\ View(r)[<<run[r].doc, i>>] = L[i]
  <2>1. ASSUME NEW i \in DOMAIN L
        PROVE  L[i] = View(r)[<<run[r].doc, i>>] /\ <<run[r].doc, i>> \in DOMAIN View(r)
    BY <2>1 DEF Of
  <2>2. ASSUME NEW i \in DOMAIN L PROVE IsRow(L[i])
    BY <2>1, <2>2, ContentsFit, AheadIsUnwritten, ViewBelow DEF IInv, Shape
  <2> QED
    BY <2>1, <2>2 DEF Remains
<1>3. DOMAIN Written(r) = DOMAIN C \cup DOMAIN L
  BY <1>2 DEF Written, Inserted, Updated, Deleted
<1>4. ASSUME NEW i \in DOMAIN C
      PROVE  /\ Written(r)[i] # Gone /\ Written(r)[i].content = C[i]
             /\ Written(r)[i].model = ModelOf[r]
  <2>1. CASE i \notin DOMAIN L
    <3>1. Written(r)[i] = Chunk(C[i], ModelOf[r], r)
      BY <1>3, <1>4, <2>1 DEF Written, Inserted
    <3> QED
      BY <3>1 DEF Chunk, Gone
  <2>2. CASE i \in DOMAIN L
    <3>1. Written(r)[i] = Overwritten(r, i)
      BY <1>3, <1>4, <2>2 DEF Written, Inserted, Updated
    <3>2. /\ DOMAIN Overwritten(r, i) = DOMAIN L[i]
          /\ Overwritten(r, i).content = C[i] /\ Overwritten(r, i).model = ModelOf[r]
      BY <1>2, <2>2 DEF Overwritten, IsRow, Chunk
    <3>3. DOMAIN Gone = {"deleted"} /\ "id" \in DOMAIN L[i]
      BY <1>2, <2>2 DEF Gone, IsRow
    <3> QED
      BY <3>1, <3>2, <3>3
  <2> QED
    BY <2>1, <2>2
<1>5. ASSUME NEW i \in DOMAIN L \ DOMAIN C PROVE Written(r)[i] = Gone
  BY <1>3, <1>5 DEF Written, Inserted, Updated
<1>6. DOMAIN rows = DOMAIN C
  BY <1>1, <1>3, <1>4, <1>5
<1>7. \A i \in DOMAIN C : rows[i] = Written(r)[i]
  BY <1>1, <1>3, <1>4
<1> QED
  BY <1>4, <1>6, <1>7 DEF Complete, Contents

\* What the flush changes.
FlushEffect(r, d, W) ==
    /\ DOMAIN run' = Runs /\ \A q \in Runs \ {r} : run'[q] = run[q]
    /\ DOMAIN run'[r] = Fields
    /\ run'[r].phase = "next" /\ run'[r].todo = run[r].todo
    /\ run'[r].listed = run[r].listed /\ run'[r].alone = run[r].alone
    /\ run'[r].failed = run[r].failed
    /\ d \in Ahead(r) /\ \A k \in DOMAIN over[r] : k[1] # d
    /\ DOMAIN over' = Runs /\ \A q \in Runs \ {r} : over'[q] = over[q]
    /\ DOMAIN over'[r] = DOMAIN over[r] \cup ({d} \X DOMAIN W)
    /\ \A k \in DOMAIN over[r] : over'[r][k] = over[r][k]
    /\ \A i \in DOMAIN W : over'[r][<<d, i>>] = W[i]

LEMMA FlushHasEffect ==
    ASSUME IInv, NEW r \in Runs, Flush(r), NEW d, NEW W,
           d = run[r].doc, W = Written(r)
    PROVE  FlushEffect(r, d, W)
<1>2. /\ run[r].phase = "flush" /\ RunFits(r)
  BY DEF Flush, IInv, Shape
<1>3. /\ DOMAIN run' = Runs /\ \A q \in Runs \ {r} : run'[q] = run[q]
      /\ DOMAIN run'[r] = Fields
      /\ run'[r].phase = "next" /\ run'[r].todo = run[r].todo
      /\ run'[r].listed = run[r].listed /\ run'[r].alone = run[r].alone
      /\ run'[r].failed = run[r].failed
  BY <1>2 DEF Flush, Proceed, IInv, Shape, RunFits, Fields
<1>4. d \in Ahead(r) /\ \A k \in DOMAIN over[r] : k[1] # d
  BY <1>2, ContentsFit DEF IInv, OverFits
<1>5. /\ DOMAIN over' = Runs /\ \A q \in Runs \ {r} : over'[q] = over[q]
      /\ over'[r] = [k \in DOMAIN over[r] \cup ({d} \X DOMAIN W)
                     |-> IF k[1] = d THEN W[k[2]] ELSE over[r][k]]
  BY DEF Flush, IInv, Shape
<1>6. /\ DOMAIN over'[r] = DOMAIN over[r] \cup ({d} \X DOMAIN W)
      /\ \A k \in DOMAIN over[r] : over'[r][k] = over[r][k]
      /\ \A i \in DOMAIN W : over'[r][<<d, i>>] = W[i]
  <2>1. DOMAIN over'[r] = DOMAIN over[r] \cup ({d} \X DOMAIN W)
    BY <1>5
  <2>2. ASSUME NEW k \in DOMAIN over[r] PROVE over'[r][k] = over[r][k]
    BY <1>4, <1>5, <2>2
  <2>3. ASSUME NEW i \in DOMAIN W PROVE over'[r][<<d, i>>] = W[i]
    <3>1. PICK k : k = <<d, i>>
      OBVIOUS
    <3>2. k \in {d} \X DOMAIN W /\ k[1] = d /\ k[2] = i
      BY <3>1
    <3> QED
      BY <1>5, <3>1, <3>2
  <2> QED
    BY <2>1, <2>2, <2>3
<1> QED
  BY <1>3, <1>4, <1>5, <1>6 DEF FlushEffect

LEMMA FlushStep ==
    ASSUME IInv, NEW r \in Runs, Flush(r)
    PROVE  IInv'
<1>1. PICK d, W : d = run[r].doc /\ W = Written(r)
  OBVIOUS
<1>2. /\ run[r].phase = "flush" /\ UNCHANGED <<text, chunks>>
      /\ RunFits(r) /\ Active(r) /\ WaitsFor(r) = {} /\ ~Violates(r)
  BY DEF Flush, IInv, Shape, Active
<1>3. /\ DOMAIN run' = Runs /\ \A q \in Runs \ {r} : run'[q] = run[q]
      /\ DOMAIN run'[r] = Fields
      /\ run'[r].phase = "next" /\ run'[r].todo = run[r].todo
      /\ run'[r].listed = run[r].listed /\ run'[r].alone = run[r].alone
      /\ run'[r].failed = run[r].failed
  BY <1>1, FlushHasEffect DEF FlushEffect
<1>4. d \in Ahead(r) /\ \A k \in DOMAIN over[r] : k[1] # d
  BY <1>1, FlushHasEffect DEF FlushEffect
<1>5. DOMAIN over' = Runs /\ \A q \in Runs \ {r} : over'[q] = over[q]
  BY <1>1, FlushHasEffect DEF FlushEffect
<1>6. /\ DOMAIN over'[r] = DOMAIN over[r] \cup ({d} \X DOMAIN W)
      /\ \A k \in DOMAIN over[r] : over'[r][k] = over[r][k]
      /\ \A i \in DOMAIN W : over'[r][<<d, i>>] = W[i]
  BY <1>1, FlushHasEffect DEF FlushEffect
<1>7. Ahead(r)' = run[r].todo /\ Ahead(r) = run[r].todo \cup {d} /\ d \notin run[r].todo
      /\ d \in DOMAIN run[r].listed
  BY <1>1, <1>2, <1>3 DEF Ahead, Working, RunFits
<1>8. \A q \in Runs : RunFits(q)'
  <2>1. RunFits(r)'
    BY <1>2, <1>3 DEF RunFits, Working
  <2> QED
    BY <1>3, <2>1 DEF IInv, Shape, RunFits, Working
<1>9. Disjoint'
  <2>1. \A i \in DOMAIN W, q \in Runs \ {r} : <<d, i>> \notin DOMAIN over[q]
    BY <1>1, <1>2 DEF WaitsFor, Written
  <2>2. \A q \in Runs \ {r} : DOMAIN over'[q] \cap DOMAIN over'[r] = {}
    BY <1>5, <1>6, <2>1 DEF IInv, Disjoint
  <2> QED
    BY <1>5, <2>2 DEF IInv, Disjoint
<1>10. \A q \in Runs : OverFits(q)'
  <2>1. OverFits(r)'
    <3>1. ASSUME NEW k \in DOMAIN over[r] PROVE k[1] \in DOMAIN run[r].listed \ Ahead(r)'
      BY <1>7, <3>1 DEF IInv, OverFits
    <3>2. ASSUME NEW i \in DOMAIN W, W[i] # Gone
          PROVE  IsRow(W[i]) /\ (<<d, i>> \in DOMAIN chunks => W[i].id = chunks[<<d, i>>].id)
      BY <1>1, <1>2, <3>2, WrittenFits
    <3>3. ASSUME NEW k \in DOMAIN over'[r], over'[r][k] # Gone
          PROVE  /\ IsRow(over'[r][k])
                 /\ k \in DOMAIN chunks => over'[r][k].id = chunks[k].id
      BY <1>6, <3>2, <3>3 DEF IInv, OverFits
    <3> QED
      BY <1>2, <1>3, <1>6, <1>7, <3>1, <3>3 DEF OverFits, Active
  <2>2. ASSUME NEW q \in Runs \ {r} PROVE OverFits(q)'
    <3>1. OverFits(q) /\ over'[q] = over[q] /\ run'[q] = run[q]
      BY <1>3, <1>5 DEF IInv
    <3>2. Ahead(q)' = Ahead(q) /\ Active(q)' = Active(q)
      BY <3>1 DEF Ahead, Working, Active
    <3> QED
      BY <1>2, <3>1, <3>2 DEF OverFits
  <2> QED
    BY <2>1, <2>2
<1>11. AloneFits(r)'
  <2>1. SUFFICES ASSUME Alone(r)' PROVE AloneFits(r)'
    BY DEF AloneFits
  <2>2. Alone(r) /\ AloneFits(r)
    BY <1>2, <1>3, <2>1 DEF Alone, IInv
  <2>3. \A q \in Runs \ {r} : ~Active(q)'
    BY <1>3, <2>2 DEF AloneFits, Active
  <2>4. ASSUME NEW e, e # d PROVE Of(e, View(r))' = Of(e, View(r))
    <3>1. ASSUME NEW i
          PROVE  /\ <<e, i>> \in DOMAIN over'[r] <=> <<e, i>> \in DOMAIN over[r]
                 /\ <<e, i>> \in DOMAIN over[r] =>
                       over'[r][<<e, i>>] = over[r][<<e, i>>]
      BY <1>6, <2>4
    <3> QED
      BY <1>2, <3>1, SameRows
  <2>5. Complete(Of(d, View(r))', run[r].listed[d], ModelOf[r])
    <3>1. View(r)' = Onto(over'[r], chunks) /\ run[r].loaded = Of(d, View(r))
      BY <1>1, <1>2, <2>2 DEF View, AloneFits
    <3>2. PICK rows : rows = Of(d, Onto(over'[r], chunks))
      OBVIOUS
    <3>3. \A i \in Ordinals : /\ i \in DOMAIN rows <=> <<d, i>> \in DOMAIN View(r)'
                              /\ i \in DOMAIN rows => rows[i] = View(r)'[<<d, i>>]
      BY <3>1, <3>2 DEF Of
    <3>4. \A i \in Ordinals : i \in DOMAIN run[r].loaded <=> <<d, i>> \in DOMAIN chunks
      BY <1>2, <1>4, <3>1, ViewBelow DEF Of
    <3>5. ASSUME NEW i \in Ordinals
          PROVE  /\ i \in DOMAIN rows <=>
                       /\ i \in DOMAIN W \/ i \in DOMAIN run[r].loaded
                       /\ i \in DOMAIN W => W[i] # Gone
                 /\ i \in DOMAIN rows /\ i \in DOMAIN W => rows[i] = W[i]
      <4>1. PICK k, new : k = <<d, i>> /\ new = over'[r]
        OBVIOUS
      <4>2. /\ k \in DOMAIN new <=> i \in DOMAIN W
            /\ i \in DOMAIN W => new[k] = W[i]
        BY <1>4, <1>6, <4>1
      <4>3. /\ k \in DOMAIN View(r)' <=>
                  /\ k \in DOMAIN new \/ k \in DOMAIN chunks
                  /\ k \in DOMAIN new => new[k] # Gone
            /\ k \in DOMAIN View(r)' /\ k \in DOMAIN new => View(r)'[k] = new[k]
        BY <3>1, <4>1, OntoAt
      <4> QED
        <5>1. /\ i \in DOMAIN rows <=> k \in DOMAIN View(r)'
              /\ i \in DOMAIN rows => rows[i] = View(r)'[k]
          BY <3>3, <4>1
        <5>2. i \in DOMAIN run[r].loaded <=> k \in DOMAIN chunks
          BY <3>4, <4>1
        <5> QED
          BY <4>2, <4>3, <5>1, <5>2
    <3>6. DOMAIN rows \subseteq Ordinals
      BY <3>2 DEF Of
    <3>7. Complete(rows, run[r].listed[d], ModelOf[r])
      BY <1>1, <1>2, <3>1, <3>5, <3>6, WrittenIsComplete
    <3> QED
      BY <3>1, <3>2, <3>7
  <2>6. \A k \in DOMAIN over'[r] : k[1] \notin run'[r].failed
    BY <1>3, <1>4, <1>6, <2>2 DEF AloneFits
  <2>7. ASSUME NEW e \in DOMAIN run[r].listed \ (run[r].todo \cup run[r].failed)
        PROVE  Complete(Of(e, View(r))', run[r].listed[e], ModelOf[r])
    <3>1. CASE e = d
      BY <2>5, <3>1
    <3>2. CASE e # d
      BY <1>7, <2>2, <2>4, <2>7, <3>2 DEF AloneFits
    <3> QED
      BY <3>1, <3>2
  <2> QED
    BY <1>3, <1>7, <2>2, <2>3, <2>6, <2>7 DEF AloneFits
<1>12. ASSUME NEW q \in Runs PROVE AloneFits(q)'
  <2>1. CASE q = r
    BY <1>11, <2>1
  <2>2. CASE q # r
    BY <1>2, <1>3, <2>2 DEF IInv, AloneFits, Alone, Active
  <2> QED
    BY <2>1, <2>2
<1> QED
  BY <1>2, <1>3, <1>5, <1>8, <1>9, <1>10, <1>12 DEF IInv, Shape

LEMMA ListStep ==
    ASSUME IInv, NEW r \in Runs, List(r)
    PROVE  IInv'
<1> DEFINE others == {q \in Runs : Active(q)}
           stored == {d \in Docs : text[d] # NoText}
<1>1. /\ run[r].phase = "idle" /\ UNCHANGED <<text, chunks, over>>
      /\ DOMAIN over[r] = {}
  BY DEF List, IInv, OverFits, Active
<1>2. /\ DOMAIN run' = Runs
      /\ run'[r] = [Idle EXCEPT !.phase = "next", !.listed = [d \in stored |-> text[d]],
                                !.todo = stored, !.alone = others = {}]
      /\ \A q \in others \ {r} : run'[q] = [run[q] EXCEPT !.alone = FALSE]
      /\ \A q \in Runs \ (others \cup {r}) : run'[q] = run[q]
  BY DEF List
<1>3. /\ DOMAIN run'[r] = Fields
      /\ run'[r].phase = "next" /\ run'[r].todo = stored
      /\ DOMAIN run'[r].listed = stored
      /\ \A d \in stored : run'[r].listed[d] = text[d]
      /\ run'[r].failed = {} /\ run'[r].alone = (others = {})
  BY <1>2 DEF Idle, Fields
<1>4. ASSUME NEW q \in Runs \ {r}
      PROVE  /\ DOMAIN run'[q] = Fields
             /\ run'[q].phase = run[q].phase /\ run'[q].listed = run[q].listed
             /\ run'[q].todo = run[q].todo /\ run'[q].doc = run[q].doc
             /\ run'[q].loaded = run[q].loaded
             /\ q \in others => run'[q].alone = FALSE
  <2>1. DOMAIN run[q] = Fields
    BY DEF IInv, Shape, RunFits
  <2> QED
    BY <1>2, <1>4, <2>1 DEF Fields
<1>5. \A q \in Runs \ {r} : Active(q)' = Active(q) /\ Ahead(q)' = Ahead(q)
                            /\ Working(q)' = Working(q)
  BY <1>4 DEF Active, Ahead, Working
<1>6. Ahead(r)' = stored /\ Active(r)'
  BY <1>3 DEF Ahead, Working, Active
<1>7. RunFits(r)'
  BY <1>1, <1>3 DEF RunFits, Working, IInv, Shape
<1>8. \A q \in Runs : RunFits(q)'
  BY <1>4, <1>5, <1>7 DEF IInv, Shape, RunFits
<1>9. Shape' /\ Disjoint'
  BY <1>1, <1>2, <1>8 DEF IInv, Shape, Disjoint
<1>10. \A q \in Runs : OverFits(q)'
  BY <1>1, <1>4, <1>5, <1>6 DEF IInv, OverFits
<1>11. AloneFits(r)'
  BY <1>1, <1>3, <1>5, <1>6 DEF AloneFits, Alone
<1>12. \A q \in Runs \ {r} : ~Alone(q)'
  BY <1>4, <1>5 DEF Alone
<1>13. \A q \in Runs : AloneFits(q)'
  BY <1>11, <1>12 DEF AloneFits
<1> QED
  BY <1>9, <1>10, <1>13 DEF IInv

\* A transaction of an active run ends, and the rows that it leaves keep their
\* ids.
Ends(r, h) ==
    /\ Active(r)
    /\ h.phase \in {"committed", "aborted"} /\ DOMAIN h = Fields /\ h.todo = {}
    /\ DOMAIN h.listed \subseteq Docs
    /\ \A d \in DOMAIN h.listed : h.listed[d] \in Texts
    /\ UNCHANGED text /\ (chunks' = View(r) \/ chunks' = chunks)
    /\ run' = [run EXCEPT ![r] = h] /\ over' = [over EXCEPT ![r] = NoRows]

LEMMA EndStep ==
    ASSUME IInv, NEW r \in Runs, NEW h, Ends(r, h)
    PROVE  IInv'
<1> USE DEF Ends
<1>1. /\ DOMAIN run' = Runs /\ \A q \in Runs \ {r} : run'[q] = run[q]
      /\ DOMAIN over' = Runs /\ \A q \in Runs \ {r} : over'[q] = over[q]
      /\ run'[r] = h /\ DOMAIN over'[r] = {}
  BY NoRowsAreEmpty DEF IInv, Shape
<1>2. \A q \in Runs : RunFits(q)'
  <2>1. RunFits(r)'
    BY <1>1 DEF RunFits, Working
  <2>2. ASSUME NEW q \in Runs \ {r} PROVE RunFits(q)'
    BY <1>1, <2>2 DEF IInv, Shape, RunFits, Working
  <2> QED
    BY <2>1, <2>2
<1>3. \A k \in DOMAIN chunks' : IsRow(chunks'[k])
  <2>1. CASE chunks' = chunks
    BY <2>1 DEF IInv, Shape
  <2>2. CASE chunks' = View(r)
    BY <2>2 DEF IInv, Shape, OverFits, View, Onto
  <2> QED
    BY <2>1, <2>2
<1>4. Shape' /\ Disjoint'
  BY <1>1, <1>2, <1>3 DEF IInv, Shape, Disjoint
<1>5. ASSUME NEW q \in Runs \ {r} PROVE OverFits(q)'
  <2>1. /\ OverFits(q) /\ over'[q] = over[q] /\ run'[q] = run[q]
        /\ Ahead(q)' = Ahead(q) /\ Active(q)' = Active(q)
    BY <1>1 DEF IInv, Ahead, Working, Active
  <2>2. ASSUME NEW k \in DOMAIN over[q], k \in DOMAIN chunks'
        PROVE  k \in DOMAIN chunks /\ chunks'[k] = chunks[k]
    <3>1. k \notin DOMAIN over[r]
      BY DEF IInv, Disjoint
    <3> QED
      BY <2>2, <3>1, ViewBelow
  <2> QED
    BY <2>1, <2>2 DEF OverFits
<1>6. \A q \in Runs : OverFits(q)'
  BY <1>1, <1>5 DEF OverFits
<1>7. \A q \in Runs : ~Alone(q)'
  BY <1>1 DEF IInv, AloneFits, Alone, Active
<1> QED
  BY <1>4, <1>6, <1>7 DEF IInv, AloneFits

LEMMA CommitStep ==
    ASSUME IInv, NEW r \in Runs, Commit(r)
    PROVE  IInv'
<1>1. RunFits(r) /\ run[r].phase = "next" /\ run[r].todo = {} /\ Active(r)
  BY DEF Commit, IInv, Shape, Active
<1>2. PICK h : h = [run[r] EXCEPT !.phase = "committed"]
  OBVIOUS
<1>3. /\ DOMAIN h = Fields /\ h.phase = "committed" /\ h.todo = {}
      /\ h.listed = run[r].listed
  BY <1>1, <1>2 DEF RunFits, Fields
<1>4. run' = [run EXCEPT ![r] = h]
  BY <1>2 DEF Commit
<1> QED
  <2>1. Ends(r, h)
    BY <1>1, <1>3, <1>4 DEF Commit, RunFits, Ends
  <2> QED
    BY <2>1, EndStep

LEMMA AbortStep ==
    ASSUME IInv, NEW r \in Runs, Abort(r)
    PROVE  IInv'
<1>1. PICK h : /\ h = [Idle EXCEPT !.phase = "aborted", !.alone = run[r].alone]
               /\ run' = [run EXCEPT ![r] = h]
  BY DEF Abort
<1>2. /\ DOMAIN h = Fields /\ h.phase = "aborted" /\ h.todo = {}
      /\ DOMAIN h.listed = {}
  BY <1>1, NoRowsAreEmpty DEF Idle, Fields
<1> QED
  <2>1. Ends(r, h)
    BY <1>1, <1>2 DEF Abort, Ends
  <2> QED
    BY <2>1, EndStep

LEMMA IngestStep ==
    ASSUME IInv, NEW d \in Docs, NEW x \in Texts, Ingest(d, x)
    PROVE  IInv'
<1>1. UNCHANGED <<chunks, over, run>> /\ text' \in [Docs -> Texts \cup {NoText}]
  BY DEF Ingest, IInv, Shape
<1>2. \A r \in Runs : /\ RunFits(r)' = RunFits(r) /\ OverFits(r)' = OverFits(r)
                      /\ View(r)' = View(r) /\ Active(r)' = Active(r)
                      /\ Ahead(r)' = Ahead(r)
  BY <1>1 DEF RunFits, OverFits, Working, Ahead, View, Active
<1>3. \A r \in Runs : AloneFits(r)'
  BY <1>1, <1>2 DEF IInv, AloneFits, Alone
<1> QED
  BY <1>1, <1>2, <1>3 DEF IInv, Shape, Disjoint

LEMMA NextKeeps == IInv /\ [Next]_vars => IInv'
<1> SUFFICES ASSUME IInv, [Next]_vars PROVE IInv'
  OBVIOUS
<1>1. ASSUME NEW r \in Runs, List(r) \/ Compare(r) \/ Embed(r) \/ Flush(r) \/ Commit(r)
      PROVE  IInv'
  BY <1>1, ListStep, CompareStep, EmbedStep, FlushStep, CommitStep
<1>2. ASSUME NEW r \in Runs, FlushRaises(r) \/ EmbedRaises(r)
      PROVE  IInv'
  BY <1>2, FailureStep DEF FlushRaises, EmbedRaises, Working
<1>3. ASSUME NEW r \in Runs, Abort(r) PROVE IInv'
  BY <1>3, AbortStep
<1>4. ASSUME NEW d \in Docs, NEW x \in Texts, Ingest(d, x) PROVE IInv'
  BY <1>4, IngestStep
<1>5. CASE UNCHANGED vars
  <2>1. UNCHANGED <<text, chunks, over, run>>
    BY <1>5 DEF vars
  <2>2. \A r \in Runs : /\ RunFits(r)' = RunFits(r) /\ OverFits(r)' = OverFits(r)
                        /\ View(r)' = View(r) /\ Active(r)' = Active(r)
                        /\ Ahead(r)' = Ahead(r)
    BY <2>1 DEF RunFits, OverFits, Working, Ahead, View, Active
  <2>3. \A r \in Runs : AloneFits(r)'
    BY <2>1, <2>2 DEF IInv, AloneFits, Alone
  <2> QED
    BY <2>1, <2>2, <2>3 DEF IInv, Shape, Disjoint
<1> QED
  BY <1>1, <1>2, <1>3, <1>4, <1>5 DEF Next, Step, Fault

-----------------------------------------------------------------------------
\* However runs overlap, fail or die, a chunk that stays keeps the id that graph
\* relations and inferences cite (chunks.py:124).
THEOREM EvidenceIdsStay == Spec => IdsAreStable
<1> DEFINE Stable == \A k \in DOMAIN chunks \cap DOMAIN chunks' :
                        chunks'[k].id = chunks[k].id
<1>1. IInv /\ [Next]_vars => [Stable]_vars
  <2> SUFFICES ASSUME IInv, Next PROVE Stable \/ UNCHANGED vars
    OBVIOUS
  <2>1. CASE chunks' = chunks
    BY <2>1
  <2>2. ASSUME NEW r \in Runs, Commit(r) PROVE Stable
    <3>1. chunks' = Onto(over[r], chunks) /\ OverFits(r)
      BY <2>2 DEF Commit, View, IInv
    <3> QED
      BY <3>1, OntoAt DEF OverFits
  <2> QED
    BY <2>1, <2>2 DEF Next, Step, Fault, List, Compare, Embed, Flush, FlushRaises,
                      EmbedRaises, Abort, Ingest, vars
<1> QED
  BY <1>1, InitHolds, NextKeeps, PTL DEF Spec, IdsAreStable

LEMMA AloneCommit ==
    ASSUME IInv, NEW r \in Runs, Commit(r), run[r].alone, NEW d \in Docs
    PROVE  IF d \in Succeeded(r)
           THEN Complete(Of(d, chunks'), run[r].listed[d], ModelOf[r])
           ELSE Of(d, chunks') = Of(d, chunks)
<1>1. /\ chunks' = View(r) /\ AloneFits(r) /\ OverFits(r) /\ Alone(r)
      /\ Ahead(r) = {}
  BY DEF Commit, IInv, Alone, Active, Ahead, Working
<1>2. CASE d \in Succeeded(r)
  BY <1>1, <1>2 DEF AloneFits, Succeeded
<1>3. CASE d \notin Succeeded(r)
  <2>1. \A i : <<d, i>> \notin DOMAIN over[r]
    BY <1>1, <1>3 DEF AloneFits, OverFits, Succeeded
  <2>2. ASSUME NEW i
        PROVE  /\ <<d, i>> \in DOMAIN View(r) <=> <<d, i>> \in DOMAIN chunks
               /\ <<d, i>> \in DOMAIN chunks => View(r)[<<d, i>>] = chunks[<<d, i>>]
    BY <2>1, ViewBelow
  <2> QED
    BY <1>1, <1>3, <2>2 DEF Of
<1> QED
  BY <1>2, <1>3

\* Whatever overlapping runs have left behind, a run that is alone from its list
\* to its commit leaves each document that did not fail as it listed it, and the
\* others as they were (embedding_pipeline.py:69).
THEOREM AloneRunRepairs == Spec => AloneRunIsCurrent
<1>1. IInv /\ [Next]_vars =>
        [\A r \in Runs : Commit(r) /\ run[r].alone =>
            \A d \in Docs :
                IF d \in Succeeded(r)
                THEN Complete(Of(d, chunks'), run[r].listed[d], ModelOf[r])
                ELSE Of(d, chunks') = Of(d, chunks)]_vars
  BY AloneCommit
<1> QED
  BY <1>1, InitHolds, NextKeeps, PTL DEF Spec, AloneRunIsCurrent

-----------------------------------------------------------------------------
\* What a run that is alone sends to the embedding service is not stored, and
\* what the last commits claim to have indexed is, as long as runs are alone.
ToEmbed(r) ==
    Alone(r) /\ run[r].phase = "embed" =>
        ~Complete(Of(run[r].doc, View(r)), run[r].listed[run[r].doc], ModelOf[r])

IndexedFits ==
    Serial => \A d \in Docs :
        indexed[d] # <<NoText, NoText>> =>
            Complete(Of(d, chunks), indexed[d][1], indexed[d][2])

IndexInv == IInv /\ IndexedFits /\ \A r \in Runs : ToEmbed(r)

LEMMA OnlyCommitsChangeChunks ==
    ASSUME Next
    PROVE  \/ \E r \in Runs : Commit(r)
           \/ UNCHANGED <<chunks, indexed>>
  BY DEF Next, Step, Fault, List, Compare, Embed, Flush, FlushRaises, EmbedRaises,
         Abort, Ingest, vars

\* Nobody is alone again who was not.
LEMMA SerialWas ==
    ASSUME IInv, Next, Serial'
    PROVE  Serial
<1> SUFFICES ASSUME NEW q \in Runs, run[q].phase # "idle" PROVE run[q].alone
  BY DEF Serial
<1>1. ASSUME NEW r \in Runs, List(r) PROVE run[q].alone
  <2>1. q # r
    BY <1>1 DEF List
  <2>2. CASE Active(q)
    <3>1. run'[q] = [run[q] EXCEPT !.alone = FALSE]
      BY <1>1, <2>1, <2>2 DEF List
    <3>2. run'[q].phase # "idle" /\ run'[q].alone = FALSE
      BY <3>1 DEF IInv, Shape, RunFits, Fields
    <3> QED
      BY <3>2 DEF Serial
  <2>3. CASE ~Active(q)
    <3>1. run'[q] = run[q]
      BY <1>1, <2>1, <2>3 DEF List
    <3> QED
      BY <3>1 DEF Serial
  <2> QED
    BY <2>2, <2>3
<1>2. CASE run'[q].phase # "idle" /\ run'[q].alone = run[q].alone
  BY <1>2 DEF Serial
<1>3. DOMAIN run = Runs /\ DOMAIN run[q] = Fields
  BY DEF IInv, Shape, RunFits
<1>4. ASSUME NEW r \in Runs, Compare(r) \/ Proceed(r, {}) \/ Proceed(r, {run[r].doc})
      PROVE  run'[q].phase # "idle" /\ run'[q].alone = run[q].alone
  <2>1. CASE q # r
    BY <1>3, <1>4, <2>1 DEF Compare, Proceed
  <2>2. CASE q = r /\ Compare(r)
    <3>1. PICK d, phase : /\ phase \in {"next", "embed"}
                          /\ run' = [run EXCEPT ![r] = [run[r] EXCEPT
                               !.phase = phase, !.todo = @ \ {d}, !.doc = d]]
      BY <2>2 DEF Compare
    <3> QED
      BY <1>3, <2>2, <3>1 DEF Fields
  <2>3. CASE q = r /\ ~Compare(r)
    <3>1. PICK fails : run' = [run EXCEPT ![r] = [run[r] EXCEPT
                          !.phase = "next", !.loaded = NoRows, !.failed = fails]]
      BY <1>4, <2>3 DEF Proceed
    <3> QED
      BY <1>3, <2>3, <3>1 DEF Fields
  <2> QED
    BY <2>1, <2>2, <2>3
<1>5. ASSUME NEW r \in Runs, Embed(r) \/ Commit(r) \/ Abort(r)
      PROVE  run'[q].phase # "idle" /\ run'[q].alone = run[q].alone
  <2>1. CASE q # r
    BY <1>3, <1>5, <2>1 DEF Embed, Commit, Abort
  <2>2. CASE q = r /\ Embed(r)
    BY <1>3, <2>2 DEF Embed, Fields
  <2>3. CASE q = r /\ Commit(r)
    BY <1>3, <2>3 DEF Commit, Fields
  <2>4. CASE q = r /\ Abort(r)
    BY <1>3, <2>4 DEF Abort, Idle, Fields
  <2> QED
    BY <1>5, <2>1, <2>2, <2>3, <2>4
<1>6. ASSUME run' = run PROVE run'[q].phase # "idle" /\ run'[q].alone = run[q].alone
  BY <1>6
<1> QED
  BY <1>1, <1>2, <1>4, <1>5, <1>6
     DEF Next, Step, Fault, Flush, FlushRaises, EmbedRaises, Ingest, vars

LEMMA CompleteIsCurrent ==
    ASSUME NEW rows, NEW x, NEW m
    PROVE  Complete(rows, x, m) <=> IsCurrent(rows, ChunksOf[x], m)
  BY DEF Complete, IsCurrent

LEMMA ToEmbedKeeps ==
    ASSUME IndexInv, Next, NEW r \in Runs
    PROVE  ToEmbed(r)'
<1> SUFFICES ASSUME Alone(r)', run'[r].phase = "embed"
             PROVE  ToEmbed(r)'
  BY DEF ToEmbed
<1>1. DOMAIN run = Runs /\ DOMAIN run[r] = Fields
  BY DEF IndexInv, IInv, Shape, RunFits
<1>2. CASE Compare(r)
  <2>1. PICK d \in Following(r) :
          run' = [run EXCEPT ![r] = [run[r] EXCEPT
                    !.phase = IF IsCurrent(Of(d, View(r)), ChunksOf[run[r].listed[d]],
                                           ModelOf[r])
                              THEN "next" ELSE "embed",
                    !.todo = run[r].todo \ {d}, !.doc = d]]
    BY <1>2 DEF Compare
  <2>2. /\ run'[r].doc = d /\ run'[r].listed = run[r].listed
        /\ ~IsCurrent(Of(d, View(r)), ChunksOf[run[r].listed[d]], ModelOf[r])
    BY <1>1, <2>1 DEF Fields
  <2>3. View(r)' = View(r)
    BY <1>2 DEF Compare, View
  <2> QED
    BY <2>2, <2>3, CompleteIsCurrent DEF ToEmbed
<1>3. CASE run'[r] = run[r] /\ over'[r] = over[r] /\ chunks' = chunks
  BY <1>3 DEF IndexInv, ToEmbed, Alone, Active, View
<1>4. ASSUME NEW q \in Runs, List(q) PROVE FALSE
  <2>1. CASE q = r
    <3>1. run'[r].phase = "next"
      BY <1>4, <2>1 DEF List, Idle
    <3> QED
      BY <3>1
  <2>2. CASE q # r
    <3>1. CASE Active(r)
      <4>1. run'[r] = [run[r] EXCEPT !.alone = FALSE]
        BY <1>4, <2>2, <3>1 DEF List
      <4>2. run'[r].alone = FALSE
        BY <1>1, <4>1 DEF Fields
      <4> QED
        BY <4>2 DEF Alone
    <3>2. CASE ~Active(r)
      BY <1>4, <2>2, <3>2 DEF List, Alone, Active
    <3> QED
      BY <3>1, <3>2
  <2> QED
    BY <2>1, <2>2
<1>5. ASSUME NEW q \in Runs \ {r}, Active(q), run'[r] = run[r] PROVE FALSE
  BY <1>5 DEF IndexInv, IInv, AloneFits, Alone, Active
<1>6. ASSUME NEW q \in Runs \ {r},
             Compare(q) \/ Embed(q) \/ Flush(q) \/ FlushRaises(q) \/ Commit(q)
               \/ EmbedRaises(q) \/ Abort(q)
      PROVE  Active(q) /\ run'[r] = run[r]
  BY <1>1, <1>6 DEF Compare, Embed, Flush, FlushRaises, Commit, EmbedRaises, Abort,
                    Proceed, Active
<1>7. ASSUME Embed(r) \/ Flush(r) \/ FlushRaises(r) \/ Commit(r)
               \/ EmbedRaises(r) \/ Abort(r)
      PROVE  FALSE
  <2>1. run'[r].phase # "embed"
    BY <1>1, <1>7 DEF Embed, Flush, FlushRaises, Commit, EmbedRaises, Abort, Proceed,
                      Idle, Fields
  <2> QED
    BY <2>1
<1> QED
  BY <1>2, <1>3, <1>4, <1>5, <1>6, <1>7 DEF Next, Step, Fault, Ingest, vars

LEMMA CommitIndexes ==
    ASSUME IndexInv, NEW r \in Runs, Commit(r), Serial
    PROVE  IndexedFits'
<1>1. run[r].alone /\ \A d \in Docs :
        IF d \in Succeeded(r)
        THEN Complete(Of(d, chunks'), run[r].listed[d], ModelOf[r])
        ELSE Of(d, chunks') = Of(d, chunks)
  BY AloneCommit DEF IndexInv, Serial, Commit
<1>2. ASSUME NEW d \in Docs, indexed'[d] # <<NoText, NoText>>
      PROVE  Complete(Of(d, chunks'), indexed'[d][1], indexed'[d][2])
  <2>1. CASE d \in Succeeded(r)
    BY <1>1, <2>1 DEF Commit
  <2>2. CASE d \notin Succeeded(r)
    BY <1>1, <1>2, <2>2 DEF Commit, IndexInv, IndexedFits
  <2> QED
    BY <2>1, <2>2
<1> QED
  BY <1>2 DEF IndexedFits

LEMMA IndexKeeps == IndexInv /\ [Next]_vars => IndexInv'
<1> SUFFICES ASSUME IndexInv, [Next]_vars PROVE IndexInv'
  OBVIOUS
<1>1. IInv'
  BY NextKeeps DEF IndexInv
<1>2. CASE Next
  <2>1. IndexedFits'
    <3>1. CASE \E r \in Runs : Commit(r)
      BY <1>2, <3>1, SerialWas, CommitIndexes DEF IndexInv, IndexedFits
    <3>2. CASE UNCHANGED <<chunks, indexed>>
      BY <1>2, <3>2, SerialWas DEF IndexInv, IndexedFits
    <3> QED
      BY <1>2, <3>1, <3>2, OnlyCommitsChangeChunks
  <2> QED
    BY <1>1, <1>2, <2>1, ToEmbedKeeps DEF IndexInv
<1>3. CASE UNCHANGED vars
  <2>1. IndexedFits' /\ \A r \in Runs : ToEmbed(r)'
    BY <1>3 DEF vars, IndexInv, IndexedFits, Serial, ToEmbed, Alone, Active, View
  <2> QED
    BY <1>1, <2>1 DEF IndexInv
<1> QED
  BY <1>2, <1>3

\* As long as runs do not overlap, a text that the last committed run has embedded
\* with the same model is never sent again (README.md:176), whatever failed.
THEOREM NothingIsSentTwice == Spec => NothingEmbeddedTwice
<1>1. Init => IndexInv
  <2>1. Init => IndexedFits /\ \A r \in Runs : ToEmbed(r)
    BY DEF Init, IndexedFits, ToEmbed, Idle
  <2> QED
    BY <2>1, InitHolds DEF IndexInv
<1>2. ASSUME IndexInv, Serial, NEW r \in Runs, Embed(r)
      PROVE  indexed[run[r].doc] # <<run[r].listed[run[r].doc], ModelOf[r]>>
  <2>1. PICK d, x, m : d = run[r].doc /\ x = run[r].listed[d] /\ m = ModelOf[r]
    OBVIOUS
  <2>2. run[r].phase = "embed" /\ Alone(r) /\ d \in Ahead(r) /\ d \in Docs /\ x \in Texts
    BY <1>2, <2>1 DEF Embed, Serial, Alone, Active, Ahead, Working,
                      IndexInv, IInv, Shape, RunFits
  <2>3. ~Complete(Of(d, View(r)), x, m)
    BY <1>2, <2>1, <2>2 DEF IndexInv, ToEmbed
  <2>4. \A i : <<d, i>> \notin DOMAIN over[r]
    BY <1>2, <2>2, AheadIsUnwritten DEF IndexInv
  <2>5. Of(d, View(r)) = Of(d, chunks)
    <3>1. ASSUME NEW i
          PROVE  /\ <<d, i>> \in DOMAIN View(r) <=> <<d, i>> \in DOMAIN chunks
                 /\ <<d, i>> \in DOMAIN chunks => View(r)[<<d, i>>] = chunks[<<d, i>>]
      BY <1>2, <2>4, ViewBelow DEF IndexInv
    <3> QED
      BY <3>1 DEF Of
  <2>6. x # NoText
    BY <2>2, ConstantTypes
  <2> QED
    BY <1>2, <2>1, <2>2, <2>3, <2>5, <2>6 DEF IndexInv, IndexedFits
<1>3. IndexInv /\ [Next]_vars =>
        [Serial => \A r \in Runs : Embed(r) =>
            indexed[run[r].doc] # <<run[r].listed[run[r].doc], ModelOf[r]>>]_vars
  BY <1>2
<1> QED
  BY <1>1, <1>3, IndexKeeps, PTL DEF Spec, NothingEmbeddedTwice

-----------------------------------------------------------------------------
\* The runs that have committed a list with d; r agrees with all of them.
Committed(d) ==
    {c \in Runs : run[c].phase = "committed" /\ d \in DOMAIN run[c].listed}

Agrees(r, d) ==
    /\ d \in DOMAIN run[r].listed
    /\ \A c \in Committed(d) :
          run[c].listed[d] = run[r].listed[d] /\ ModelOf[c] = ModelOf[r]

NoneOrWhole(rows, x, m) == DOMAIN rows = {} \/ Whole(rows, x, m)

\* If those who have committed d agree, it has no chunks or all of them.
ChunksFit(d) ==
    /\ Committed(d) = {} => DOMAIN Of(d, chunks) = {}
    /\ \A c \in Committed(d) : Agrees(c, d) =>
          NoneOrWhole(Of(d, chunks), run[c].listed[d], ModelOf[c])

\* Whoever agrees with them has written all chunks of d or none, ...
WritesAll(r, d) ==
    Agrees(r, d) =>
        LET C == ChunksOf[run[r].listed[d]]
        IN  \/ \A i : <<d, i>> \notin DOMAIN over[r]
            \/ \A i : /\ <<d, i>> \in DOMAIN over[r] <=> i \in DOMAIN C
                      /\ i \in DOMAIN C =>
                            /\ over[r][<<d, i>>] # Gone
                            /\ over[r][<<d, i>>].content = C[i]
                            /\ over[r][<<d, i>>].model = ModelOf[r]
                            /\ over[r][<<d, i>>].embedding = <<C[i], ModelOf[r]>>

\* ... and has loaded none, or all as they are.
LoadsAll(r) ==
    run[r].phase = "flush" /\ Agrees(r, run[r].doc) =>
        LET d == run[r].doc
            L == run[r].loaded
        IN  \/ DOMAIN L = {}
            \/ /\ Whole(L, run[r].listed[d], ModelOf[r])
               /\ DOMAIN Of(d, chunks) = DOMAIN L
               /\ \A i \in DOMAIN L : Of(d, chunks)[i].id = L[i].id

SteadyInv ==
    /\ IInv
    /\ \A d \in Docs : ChunksFit(d) /\ \A r \in Runs : WritesAll(r, d)
    /\ \A r \in Runs : LoadsAll(r)

LEMMA OfAt ==
    ASSUME NEW d, NEW rows
    PROVE  /\ DOMAIN Of(d, rows) \subseteq Ordinals
           /\ \A i \in Ordinals : i \in DOMAIN Of(d, rows) <=> <<d, i>> \in DOMAIN rows
           /\ \A i \in DOMAIN Of(d, rows) : Of(d, rows)[i] = rows[<<d, i>>]
  BY DEF Of

LEMMA AgreeingSeeWhole ==
    ASSUME SteadyInv, NEW d \in Docs, NEW r \in Runs, Agrees(r, d)
    PROVE  NoneOrWhole(Of(d, chunks), run[r].listed[d], ModelOf[r])
<1>1. CASE Committed(d) = {}
  BY <1>1 DEF SteadyInv, ChunksFit, NoneOrWhole
<1>2. ASSUME NEW c \in Committed(d)
      PROVE  NoneOrWhole(Of(d, chunks), run[r].listed[d], ModelOf[r])
  <2>1. Agrees(c, d) /\ run[c].listed[d] = run[r].listed[d] /\ ModelOf[c] = ModelOf[r]
    BY <1>2 DEF Agrees, Committed
  <2> QED
    BY <1>2, <2>1 DEF SteadyInv, ChunksFit
<1> QED
  BY <1>1, <1>2

\* Nobody commits, and q goes on with its list.
Uncommitted ==
    /\ UNCHANGED chunks
    /\ \A c \in Runs : /\ run'[c].phase = "committed" <=> run[c].phase = "committed"
                       /\ run[c].phase = "committed" => run'[c].listed = run[c].listed

LEMMA UncommittedKeeps ==
    ASSUME SteadyInv, Uncommitted
    PROVE  /\ \A d : Committed(d)' = Committed(d)
           /\ \A d \in Docs : ChunksFit(d)'
           /\ \A r \in Runs, d \in Docs :
                 run'[r].listed = run[r].listed =>
                    /\ Agrees(r, d)' = Agrees(r, d)
                    /\ over'[r] = over[r] => WritesAll(r, d)'
<1>1. ASSUME NEW d PROVE Committed(d)' = Committed(d)
  BY DEF Uncommitted, Committed
<1>2. ASSUME NEW r \in Runs, NEW d, run'[r].listed = run[r].listed
      PROVE  Agrees(r, d)' = Agrees(r, d)
  BY <1>1, <1>2 DEF Uncommitted, Agrees, Committed
<1>3. ASSUME NEW r \in Runs, NEW d \in Docs, run'[r].listed = run[r].listed,
             over'[r] = over[r]
      PROVE  WritesAll(r, d)'
  BY <1>2, <1>3 DEF SteadyInv, WritesAll
<1>4. ASSUME NEW d \in Docs PROVE ChunksFit(d)'
  <2>1. Of(d, chunks)' = Of(d, chunks)
    BY DEF Uncommitted
  <2>2. ASSUME NEW c \in Committed(d)
        PROVE  run'[c].listed = run[c].listed /\ Agrees(c, d)' = Agrees(c, d)
    BY <1>2, <2>2 DEF Uncommitted, Committed
  <2> QED
    BY <1>1, <2>1, <2>2 DEF SteadyInv, ChunksFit, Committed
<1> QED
  BY <1>1, <1>2, <1>3, <1>4

LEMMA LoadsStay ==
    ASSUME SteadyInv, Uncommitted, NEW r \in Runs,
           \/ run'[r].phase # "flush"
           \/ /\ run'[r].phase = run[r].phase /\ run'[r].listed = run[r].listed
              /\ run'[r].doc = run[r].doc /\ run'[r].loaded = run[r].loaded
    PROVE  LoadsAll(r)'
<1>1. CASE run'[r].phase # "flush"
  BY <1>1 DEF LoadsAll
<1>2. CASE /\ run'[r].phase = "flush" /\ run[r].phase = "flush"
           /\ run'[r].listed = run[r].listed
           /\ run'[r].doc = run[r].doc /\ run'[r].loaded = run[r].loaded
  <2>1. run[r].doc \in Docs /\ UNCHANGED chunks
    BY <1>2, ContentsFit DEF SteadyInv, IInv, Shape, RunFits, Uncommitted
  <2>2. Agrees(r, run[r].doc)' = Agrees(r, run[r].doc)
    BY <1>2, <2>1, UncommittedKeeps
  <2> QED
    BY <1>2, <2>1, <2>2 DEF SteadyInv, LoadsAll
<1> QED
  BY <1>1, <1>2

\* Steps that commit nothing and write nothing.
LEMMA QuietStep ==
    ASSUME SteadyInv, Uncommitted, UNCHANGED over, IInv', NEW r \in Runs,
           LoadsAll(r)', run'[r].listed = run[r].listed,
           \A q \in Runs \ {r} : run'[q] = run[q]
    PROVE  SteadyInv'
<1>1. \A q \in Runs : run'[q].listed = run[q].listed
  OBVIOUS
<1>2. \A q \in Runs, d \in Docs : WritesAll(q, d)'
  BY <1>1, UncommittedKeeps
<1>3. \A q \in Runs \ {r} : LoadsAll(q)'
  BY LoadsStay
<1> QED
  BY <1>2, <1>3, UncommittedKeeps DEF SteadyInv

LEMMA TurnKeepsSteady ==
    ASSUME SteadyInv, NEW r \in Runs, IInv',
           Compare(r) \/ (Working(r) /\ Proceed(r, {run[r].doc})
                            /\ UNCHANGED <<chunks, over>>)
    PROVE  SteadyInv'
<1>1. DOMAIN run = Runs /\ DOMAIN run[r] = Fields
  BY DEF SteadyInv, IInv, Shape, RunFits
<1>2. /\ \A q \in Runs \ {r} : run'[q] = run[q]
      /\ run'[r].listed = run[r].listed
      /\ run'[r].phase \in {"next", "embed"}
      /\ run[r].phase \in {"next", "embed", "flush"}
      /\ UNCHANGED <<chunks, over>>
  <2>1. CASE Compare(r)
    <3>1. PICK d, phase : /\ phase \in {"next", "embed"}
                          /\ run' = [run EXCEPT ![r] = [run[r] EXCEPT
                               !.phase = phase, !.todo = @ \ {d}, !.doc = d]]
      BY <2>1 DEF Compare
    <3> QED
      BY <1>1, <2>1, <3>1 DEF Compare, Fields
  <2>2. CASE Working(r) /\ Proceed(r, {run[r].doc}) /\ UNCHANGED <<chunks, over>>
    BY <1>1, <2>2 DEF Proceed, Working, Fields
  <2> QED
    BY <2>1, <2>2
<1>3. Uncommitted
  BY <1>2 DEF Uncommitted
<1>4. LoadsAll(r)'
  BY <1>2, <1>3, LoadsStay
<1> QED
  BY <1>2, <1>3, <1>4, QuietStep

LEMMA EmbedKeepsSteady ==
    ASSUME SteadyInv, NEW r \in Runs, IInv', Embed(r)
    PROVE  SteadyInv'
<1> DEFINE d == run[r].doc
<1>1. /\ DOMAIN run = Runs /\ DOMAIN run[r] = Fields /\ run[r].phase = "embed"
      /\ d \in Docs /\ d \in Ahead(r)
  BY DEF Embed, SteadyInv, IInv, Shape, RunFits, Working, Ahead
<1>2. /\ \A q \in Runs \ {r} : run'[q] = run[q]
      /\ run'[r].listed = run[r].listed /\ run'[r].doc = d
      /\ run'[r].phase = "flush" /\ run'[r].loaded = Of(d, View(r))
      /\ UNCHANGED <<chunks, over>>
  BY <1>1 DEF Embed, Fields
<1>3. Uncommitted
  BY <1>1, <1>2 DEF Uncommitted
<1>4. Of(d, View(r)) = Of(d, chunks)
  <2>1. ASSUME NEW i
        PROVE  /\ <<d, i>> \in DOMAIN View(r) <=> <<d, i>> \in DOMAIN chunks
               /\ <<d, i>> \in DOMAIN chunks => View(r)[<<d, i>>] = chunks[<<d, i>>]
    BY <1>1, AheadIsUnwritten, ViewBelow DEF SteadyInv
  <2> QED
    BY <2>1 DEF Of
<1>5. Agrees(r, d)' = Agrees(r, d)
  BY <1>1, <1>2, <1>3, UncommittedKeeps
<1>6. LoadsAll(r)'
  <2> SUFFICES ASSUME Agrees(r, d) PROVE LoadsAll(r)'
    BY <1>2, <1>5 DEF LoadsAll
  <2>1. NoneOrWhole(Of(d, chunks), run[r].listed[d], ModelOf[r])
    BY <1>1, AgreeingSeeWhole
  <2> QED
    BY <1>2, <1>4, <2>1 DEF LoadsAll, NoneOrWhole
<1> QED
  BY <1>2, <1>3, <1>6, QuietStep

LEMMA ListKeepsSteady ==
    ASSUME SteadyInv, NEW r \in Runs, IInv', List(r)
    PROVE  SteadyInv'
<1>1. /\ run[r].phase = "idle" /\ UNCHANGED <<chunks, over>>
      /\ DOMAIN over[r] = {} /\ run'[r].phase = "next"
  BY DEF List, SteadyInv, IInv, OverFits, Active, Idle
<1>2. ASSUME NEW q \in Runs \ {r}
      PROVE  /\ run'[q].phase = run[q].phase /\ run'[q].listed = run[q].listed
             /\ run'[q].doc = run[q].doc /\ run'[q].loaded = run[q].loaded
  <2>1. DOMAIN run[q] = Fields
    BY DEF SteadyInv, IInv, Shape, RunFits
  <2> QED
    BY <1>2, <2>1 DEF List, Fields
<1>3. Uncommitted
  BY <1>1, <1>2 DEF Uncommitted
<1>4. \A d \in Docs : WritesAll(r, d)'
  BY <1>1 DEF WritesAll
<1>5. \A q \in Runs \ {r}, d \in Docs : WritesAll(q, d)'
  BY <1>1, <1>2, <1>3, UncommittedKeeps
<1>6. \A q \in Runs : LoadsAll(q)'
  BY <1>1, <1>2, <1>3, LoadsStay
<1> QED
  BY <1>3, <1>4, <1>5, <1>6, UncommittedKeeps DEF SteadyInv

LEMMA AbortKeepsSteady ==
    ASSUME SteadyInv, NEW r \in Runs, IInv', Abort(r)
    PROVE  SteadyInv'
<1>1. /\ DOMAIN run = Runs /\ DOMAIN over = Runs /\ Active(r) /\ UNCHANGED chunks
      /\ over' = [over EXCEPT ![r] = NoRows]
      /\ run' = [run EXCEPT ![r] = [Idle EXCEPT !.phase = "aborted",
                                                !.alone = run[r].alone]]
  BY DEF Abort, SteadyInv, IInv, Shape
<1>2. /\ DOMAIN over'[r] = {} /\ run'[r].phase = "aborted"
      /\ \A q \in Runs \ {r} : run'[q] = run[q] /\ over'[q] = over[q]
  BY <1>1, NoRowsAreEmpty DEF Idle
<1>3. Uncommitted
  BY <1>1, <1>2 DEF Uncommitted, Active
<1>4. \A d \in Docs : WritesAll(r, d)'
  BY <1>2 DEF WritesAll
<1>5. \A q \in Runs \ {r}, d \in Docs : WritesAll(q, d)'
  BY <1>2, <1>3, UncommittedKeeps
<1>6. \A q \in Runs : LoadsAll(q)'
  BY <1>2, <1>3, LoadsStay
<1> QED
  BY <1>3, <1>4, <1>5, <1>6, UncommittedKeeps DEF SteadyInv

LEMMA WritesWhole ==
    ASSUME SteadyInv, NEW r \in Runs, run[r].phase = "flush", ~Violates(r),
           Agrees(r, run[r].doc)
    PROVE  LET C == Contents(r)
               W == Written(r)
           IN  /\ DOMAIN W = DOMAIN C
               /\ \A i \in DOMAIN C :
                     /\ W[i] # Gone /\ W[i].content = C[i]
                     /\ W[i].model = ModelOf[r]
                     /\ W[i].embedding = <<C[i], ModelOf[r]>>
<1> DEFINE d == run[r].doc
           C == Contents(r)
           L == run[r].loaded
           W == Written(r)
<1>1. /\ d \in Ahead(r) /\ d \in Docs
      /\ DOMAIN C \subseteq Ordinals /\ DOMAIN L \subseteq Ordinals
  BY ContentsFit DEF SteadyInv, IInv, Shape, RunFits
<1>2. CASE DOMAIN L = {}
  <2>1. Inserted(r) = DOMAIN C /\ Updated(r) = {} /\ Deleted(r) = {}
    BY <1>2 DEF Inserted, Updated, Deleted
  <2>2. DOMAIN W = DOMAIN C
        /\ \A i \in DOMAIN C : W[i] = Chunk(C[i], ModelOf[r], r)
    BY <2>1 DEF Written
  <2>3. \A c : /\ Chunk(c, ModelOf[r], r) # Gone
               /\ Chunk(c, ModelOf[r], r).content = c
               /\ Chunk(c, ModelOf[r], r).model = ModelOf[r]
               /\ Chunk(c, ModelOf[r], r).embedding = <<c, ModelOf[r]>>
    BY DEF Chunk, Gone
  <2> QED
    BY <2>2, <2>3
<1>3. CASE DOMAIN L # {}
  <2>1. /\ Whole(L, run[r].listed[d], ModelOf[r])
        /\ DOMAIN Of(d, chunks) = DOMAIN L
        /\ \A i \in DOMAIN L : Of(d, chunks)[i].id = L[i].id
    BY <1>3 DEF SteadyInv, LoadsAll
  <2>2. Whole(Of(d, chunks), run[r].listed[d], ModelOf[r])
    BY <1>1, <1>3, <2>1, AgreeingSeeWhole DEF NoneOrWhole
  <2>3. DOMAIN L = DOMAIN C
    BY <2>1 DEF Whole, Complete, Contents
  <2>4. Inserted(r) = {} /\ Updated(r) = DOMAIN C /\ Deleted(r) = {}
    BY <2>3 DEF Inserted, Updated, Deleted
  <2>5. ASSUME NEW i \in DOMAIN C
        PROVE  /\ <<d, i>> \in DOMAIN View(r) /\ View(r)[<<d, i>>] = Of(d, chunks)[i]
               /\ IsRow(Of(d, chunks)[i])
    <3>1. i \in DOMAIN Of(d, chunks)
      BY <2>1, <2>3, <2>5
    <3>2. /\ <<d, i>> \in DOMAIN chunks /\ chunks[<<d, i>>] = Of(d, chunks)[i]
          /\ IsRow(chunks[<<d, i>>])
      BY <3>1, OfAt DEF SteadyInv, IInv, Shape
    <3>3. <<d, i>> \notin DOMAIN over[r]
      BY <1>1, AheadIsUnwritten DEF SteadyInv
    <3> QED
      BY <3>2, <3>3, ViewBelow DEF SteadyInv
  <2>6. \A i \in DOMAIN C : Remains(r, i)
    BY <1>1, <2>1, <2>3, <2>5, OfAt DEF Remains
  <2>7. DOMAIN W = DOMAIN C /\ \A i \in DOMAIN C : W[i] = Overwritten(r, i)
    BY <2>4, <2>6 DEF Written
  <2>8. ASSUME NEW i \in DOMAIN C
        PROVE  /\ DOMAIN W[i] = DOMAIN Of(d, chunks)[i] /\ W[i].content = C[i]
               /\ W[i].model = ModelOf[r]
               /\ W[i].embedding = <<C[i], ModelOf[r]>>
    <3>1. /\ Of(d, chunks)[i].content = C[i] /\ Of(d, chunks)[i].model = ModelOf[r]
          /\ L[i].content = C[i] /\ L[i].model = ModelOf[r]
      BY <2>1, <2>2, <2>3, <2>8 DEF Whole, Complete, Contents
    <3>2. W[i] = [Of(d, chunks)[i] EXCEPT
                    !.content = C[i], !.model = ModelOf[r],
                    !.embedding = <<C[i], ModelOf[r]>>]
      <4>1. PICK now, new :
              /\ now = View(r)[<<d, i>>]
              /\ new = Chunk(C[i], ModelOf[r], L[i].id)
        OBVIOUS
      <4>2. W[i] = [now EXCEPT
               !.content   = IF new.content = L[i].content THEN @ ELSE new.content,
               !.model     = IF new.model = L[i].model THEN @ ELSE new.model,
               !.embedding = new.embedding]
        BY <2>7, <2>8, <4>1 DEF Overwritten
      <4>3. /\ new.content = C[i] /\ new.model = ModelOf[r]
            /\ new.embedding = <<C[i], ModelOf[r]>>
        BY <4>1 DEF Chunk
      <4>4. /\ now = Of(d, chunks)[i] /\ IsRow(now)
            /\ now.content = C[i] /\ now.model = ModelOf[r]
        BY <2>5, <2>8, <3>1, <4>1
      <4>5. W[i] = [now EXCEPT !.content = now.content, !.model = now.model,
                               !.embedding = new.embedding]
        BY <3>1, <4>2, <4>3, <4>4 DEF IsRow
      <4> QED
        BY <4>3, <4>4, <4>5
    <3> QED
      BY <2>5, <2>8, <3>2 DEF IsRow
  <2>9. \A i \in DOMAIN C : W[i] # Gone
    <3>1. DOMAIN Gone = {"deleted"}
      BY DEF Gone
    <3> QED
      BY <2>5, <2>8, <3>1 DEF IsRow
  <2> QED
    BY <2>7, <2>8, <2>9
<1> QED
  BY <1>2, <1>3

LEMMA FlushKeepsSteady ==
    ASSUME SteadyInv, NEW r \in Runs, IInv', Flush(r)
    PROVE  SteadyInv'
<1>1. PICK d, W : d = run[r].doc /\ W = Written(r)
  OBVIOUS
<1>2. run[r].phase = "flush" /\ ~Violates(r) /\ UNCHANGED chunks
  BY DEF Flush
<1>3. /\ \A q \in Runs \ {r} : run'[q] = run[q] /\ over'[q] = over[q]
      /\ run'[r].phase = "next" /\ run'[r].listed = run[r].listed
      /\ DOMAIN over'[r] = DOMAIN over[r] \cup ({d} \X DOMAIN W)
      /\ \A k \in DOMAIN over[r] : over'[r][k] = over[r][k]
      /\ \A i \in DOMAIN W : over'[r][<<d, i>>] = W[i]
      /\ \A k \in DOMAIN over[r] : k[1] # d
  BY <1>1, FlushHasEffect DEF FlushEffect, SteadyInv
<1>4. Uncommitted
  BY <1>2, <1>3 DEF Uncommitted
<1>5. \A q \in Runs : LoadsAll(q)'
  BY <1>3, <1>4, LoadsStay
<1>6. \A q \in Runs \ {r}, e \in Docs : WritesAll(q, e)'
  BY <1>3, <1>4, UncommittedKeeps
<1>7. ASSUME NEW e \in Docs, e # d PROVE WritesAll(r, e)'
  <2>1. Agrees(r, e)' = Agrees(r, e)
    BY <1>3, <1>4, UncommittedKeeps
  <2>2. ASSUME NEW i
        PROVE  /\ <<e, i>> \in DOMAIN over'[r] <=> <<e, i>> \in DOMAIN over[r]
               /\ <<e, i>> \in DOMAIN over[r] =>
                     over'[r][<<e, i>>] = over[r][<<e, i>>]
    BY <1>3, <1>7
  <2> QED
    <3>1. WritesAll(r, e)
      BY <1>7 DEF SteadyInv
    <3>2. CASE \A i : <<e, i>> \notin DOMAIN over[r]
      BY <2>2, <3>2 DEF WritesAll
    <3>3. CASE \E i : <<e, i>> \in DOMAIN over[r]
      BY <1>3, <2>1, <2>2, <3>1, <3>3 DEF WritesAll
    <3> QED
      BY <3>2, <3>3
<1>8. ASSUME d \in Docs, Agrees(r, d) PROVE WritesAll(r, d)'
  <2>1. /\ DOMAIN W = DOMAIN ChunksOf[run[r].listed[d]]
        /\ \A i \in DOMAIN W :
              /\ W[i] # Gone /\ W[i].content = ChunksOf[run[r].listed[d]][i]
              /\ W[i].model = ModelOf[r]
              /\ W[i].embedding = <<ChunksOf[run[r].listed[d]][i], ModelOf[r]>>
    BY <1>1, <1>2, <1>8, WritesWhole DEF Contents
  <2>2. \A i : <<d, i>> \in DOMAIN over'[r] <=> i \in DOMAIN W
    BY <1>3
  <2> QED
    BY <1>3, <2>1, <2>2 DEF WritesAll
<1>9. d \in Docs /\ Agrees(r, d)' = Agrees(r, d)
  BY <1>1, <1>2, <1>3, <1>4, ContentsFit, UncommittedKeeps
     DEF SteadyInv, IInv, Shape, RunFits
<1>10. \A e \in Docs : WritesAll(r, e)'
  BY <1>7, <1>8, <1>9 DEF WritesAll
<1> QED
  BY <1>4, <1>5, <1>6, <1>10, UncommittedKeeps DEF SteadyInv

\* What a commit makes of a document that it has not written, ...
LEMMA UnwrittenStays ==
    ASSUME SteadyInv, NEW r \in Runs, NEW d, \A i : <<d, i>> \notin DOMAIN over[r]
    PROVE  Of(d, View(r)) = Of(d, chunks)
<1>1. ASSUME NEW i
      PROVE  /\ <<d, i>> \in DOMAIN View(r) <=> <<d, i>> \in DOMAIN chunks
             /\ <<d, i>> \in DOMAIN chunks => View(r)[<<d, i>>] = chunks[<<d, i>>]
  BY ViewBelow DEF SteadyInv
<1> QED
  BY <1>1 DEF Of

\* ... and of one that it has.
LEMMA WrittenIsWhole ==
    ASSUME SteadyInv, NEW r \in Runs, NEW d \in Docs, Agrees(r, d)
    PROVE  LET x == run[r].listed[d]
           IN  /\ NoneOrWhole(Of(d, View(r)), x, ModelOf[r])
               /\ Whole(Of(d, chunks), x, ModelOf[r]) =>
                     /\ DOMAIN Of(d, View(r)) = DOMAIN Of(d, chunks)
                     /\ \A i \in DOMAIN Of(d, chunks) :
                           Of(d, View(r))[i].id = Of(d, chunks)[i].id
<1> DEFINE x == run[r].listed[d]
           C == ChunksOf[x]
<1>1. NoneOrWhole(Of(d, chunks), x, ModelOf[r])
  BY AgreeingSeeWhole
<1>2. CASE \A i : <<d, i>> \notin DOMAIN over[r]
  BY <1>1, <1>2, UnwrittenStays
<1>3. CASE \E i : <<d, i>> \in DOMAIN over[r]
  <2>1. \A i : /\ <<d, i>> \in DOMAIN over[r] <=> i \in DOMAIN C
               /\ i \in DOMAIN C =>
                     /\ over[r][<<d, i>>] # Gone
                     /\ over[r][<<d, i>>].content = C[i]
                     /\ over[r][<<d, i>>].model = ModelOf[r]
                     /\ over[r][<<d, i>>].embedding = <<C[i], ModelOf[r]>>
    BY <1>3 DEF SteadyInv, WritesAll
  <2>2. DOMAIN C \subseteq Ordinals
    BY DEF Agrees, SteadyInv, IInv, Shape, RunFits, Ordinals
  <2>3. ASSUME NEW i
        PROVE  /\ <<d, i>> \in DOMAIN View(r) <=>
                     i \in DOMAIN C \/ <<d, i>> \in DOMAIN chunks
               /\ i \in DOMAIN C => View(r)[<<d, i>>] = over[r][<<d, i>>]
    <3>1. PICK k : k = <<d, i>>
      OBVIOUS
    <3>2. /\ k \in DOMAIN over[r] <=> i \in DOMAIN C
          /\ k \in DOMAIN over[r] => over[r][k] # Gone
      BY <2>1, <3>1
    <3> QED
      BY <3>1, <3>2, OntoAt DEF View
  <2>4. DOMAIN Of(d, chunks) \subseteq DOMAIN C
    BY <1>1 DEF NoneOrWhole, Whole, Complete
  <2>5. DOMAIN Of(d, View(r)) = DOMAIN C
    BY <2>2, <2>3, <2>4, OfAt
  <2>6. \A i \in DOMAIN C : Of(d, View(r))[i] = over[r][<<d, i>>]
    BY <2>3, <2>5, OfAt
  <2>7. Whole(Of(d, View(r)), x, ModelOf[r])
    BY <2>1, <2>5, <2>6 DEF Whole, Complete
  <2>8. ASSUME NEW i \in DOMAIN Of(d, chunks)
        PROVE  Of(d, View(r))[i].id = Of(d, chunks)[i].id
    <3>1. PICK k : k = <<d, i>>
      OBVIOUS
    <3>2. /\ i \in DOMAIN C /\ k \in DOMAIN over[r] /\ over[r][k] # Gone
          /\ Of(d, View(r))[i] = over[r][k]
      BY <2>1, <2>4, <2>6, <2>8, <3>1
    <3>3. k \in DOMAIN chunks /\ Of(d, chunks)[i] = chunks[k]
      BY <2>8, <3>1, OfAt
    <3>4. over[r][k].id = chunks[k].id
      BY <3>2, <3>3 DEF SteadyInv, IInv, OverFits
    <3> QED
      BY <3>2, <3>3, <3>4
  <2>9. Whole(Of(d, chunks), x, ModelOf[r]) => DOMAIN Of(d, chunks) = DOMAIN C
    BY DEF Whole, Complete
  <2> QED
    BY <2>5, <2>7, <2>8, <2>9 DEF NoneOrWhole
<1> QED
  BY <1>2, <1>3

LEMMA CommitKeepsSteady ==
    ASSUME SteadyInv, NEW r \in Runs, IInv', Commit(r)
    PROVE  SteadyInv'
<1>1. /\ DOMAIN run = Runs /\ DOMAIN run[r] = Fields /\ DOMAIN over = Runs
      /\ run[r].phase = "next" /\ chunks' = View(r)
  BY DEF Commit, SteadyInv, IInv, Shape, RunFits
<1>2. /\ run'[r].phase = "committed" /\ run'[r].listed = run[r].listed
      /\ \A q \in Runs \ {r} : run'[q] = run[q] /\ over'[q] = over[q]
      /\ DOMAIN over'[r] = {}
  BY <1>1, NoRowsAreEmpty DEF Commit, Fields
<1>3. ASSUME NEW d
      PROVE  /\ d \in DOMAIN run[r].listed => Committed(d)' = Committed(d) \cup {r}
             /\ d \notin DOMAIN run[r].listed => Committed(d)' = Committed(d)
  BY <1>1, <1>2 DEF Committed
<1>4. \A q \in Runs : run'[q].listed = run[q].listed
  BY <1>2
<1>5. ASSUME NEW q \in Runs, NEW d, Agrees(q, d)'
      PROVE  /\ Agrees(q, d)
             /\ d \in DOMAIN run[r].listed =>
                   /\ run[r].listed[d] = run[q].listed[d] /\ ModelOf[r] = ModelOf[q]
                   /\ Agrees(r, d)
  <2>1. \A c \in Committed(d)' :
           run[c].listed[d] = run[q].listed[d] /\ ModelOf[c] = ModelOf[q]
    BY <1>4, <1>5 DEF Agrees, Committed
  <2>2. d \in DOMAIN run[q].listed
    BY <1>4, <1>5 DEF Agrees
  <2> QED
    BY <1>3, <2>1, <2>2 DEF Agrees
<1>6. ASSUME NEW d, d \notin DOMAIN run[r].listed
      PROVE  Of(d, View(r)) = Of(d, chunks)
  <2>1. \A i : <<d, i>> \notin DOMAIN over[r]
    BY <1>6 DEF SteadyInv, IInv, OverFits
  <2> QED
    BY <2>1, UnwrittenStays
<1>7. ASSUME NEW d \in Docs PROVE ChunksFit(d)'
  <2>1. CASE d \notin DOMAIN run[r].listed
    <3>1. Committed(d)' = Committed(d) /\ Of(d, chunks)' = Of(d, chunks)
      BY <1>1, <1>3, <1>6, <2>1
    <3>2. \A c \in Committed(d) : c \in Runs
      BY DEF Committed
    <3> QED
      BY <1>4, <1>5, <3>1, <3>2 DEF SteadyInv, ChunksFit
  <2>2. CASE d \in DOMAIN run[r].listed
    <3>1. r \in Committed(d)'
      BY <1>3, <2>2
    <3>2. ASSUME NEW c \in Committed(d)', Agrees(c, d)'
          PROVE  NoneOrWhole(Of(d, View(r)), run[c].listed[d], ModelOf[c])
      <4>1. c \in Runs
        BY <3>2 DEF Committed
      <4> QED
        BY <1>5, <2>2, <3>2, <4>1, WrittenIsWhole
    <3>3. \A c \in Committed(d)' : c \in Runs
      BY DEF Committed
    <3> QED
      BY <1>1, <1>4, <3>1, <3>2, <3>3 DEF ChunksFit
  <2> QED
    BY <2>1, <2>2
<1>8. \A d \in Docs : WritesAll(r, d)'
  BY <1>2 DEF WritesAll
<1>9. ASSUME NEW q \in Runs \ {r}, NEW d \in Docs PROVE WritesAll(q, d)'
  <2>1. WritesAll(q, d) /\ over'[q] = over[q] /\ run'[q] = run[q]
        /\ (Agrees(q, d)' => Agrees(q, d))
    BY <1>2, <1>5 DEF SteadyInv
  <2> QED
    BY <2>1 DEF WritesAll
<1>10. ASSUME NEW q \in Runs PROVE LoadsAll(q)'
  <2>1. CASE q = r
    BY <1>2, <2>1 DEF LoadsAll
  <2>2. CASE q # r /\ run[q].phase = "flush" /\ Agrees(q, run[q].doc)'
    <3>1. PICK d, L : d = run[q].doc /\ L = run[q].loaded
      OBVIOUS
    <3>2. run'[q] = run[q] /\ d \in Docs /\ Agrees(q, d)
      BY <1>2, <1>5, <2>2, <3>1, ContentsFit DEF SteadyInv, IInv, Shape, RunFits
    <3>3. \/ DOMAIN L = {}
          \/ /\ Whole(L, run[q].listed[d], ModelOf[q])
             /\ DOMAIN Of(d, chunks) = DOMAIN L
             /\ \A i \in DOMAIN L : Of(d, chunks)[i].id = L[i].id
      BY <2>2, <3>1, <3>2 DEF SteadyInv, LoadsAll
    <3>4. CASE d \notin DOMAIN run[r].listed
      <4>1. Of(d, chunks') = Of(d, chunks)
        BY <1>1, <1>6, <3>4
      <4> QED
        BY <3>1, <3>2, <3>3, <4>1 DEF LoadsAll
    <3>5. CASE d \in DOMAIN run[r].listed /\ DOMAIN L # {}
      <4>1. /\ Agrees(r, d) /\ run[r].listed[d] = run[q].listed[d]
            /\ ModelOf[r] = ModelOf[q]
        BY <1>5, <2>2, <3>1, <3>2, <3>5
      <4>2. Whole(Of(d, chunks), run[r].listed[d], ModelOf[r])
        BY <3>2, <3>3, <3>5, <4>1, AgreeingSeeWhole DEF NoneOrWhole
      <4>3. /\ DOMAIN Of(d, chunks') = DOMAIN Of(d, chunks)
            /\ \A i \in DOMAIN Of(d, chunks) :
                  Of(d, chunks')[i].id = Of(d, chunks)[i].id
        BY <1>1, <3>2, <4>1, <4>2, WrittenIsWhole
      <4> QED
        BY <3>1, <3>2, <3>3, <3>5, <4>3 DEF LoadsAll
    <3>6. CASE DOMAIN L = {}
      BY <3>1, <3>2, <3>6 DEF LoadsAll
    <3> QED
      BY <3>4, <3>5, <3>6
  <2>3. CASE q # r /\ run[q].phase # "flush"
    BY <1>2, <2>3 DEF LoadsAll
  <2>4. CASE q # r /\ ~Agrees(q, run[q].doc)'
    BY <1>2, <2>4 DEF LoadsAll
  <2> QED
    BY <2>1, <2>2, <2>3, <2>4
<1> QED
  BY <1>7, <1>8, <1>9, <1>10 DEF SteadyInv

LEMMA SteadyKeeps == SteadyInv /\ [Next]_vars => SteadyInv'
<1> SUFFICES ASSUME SteadyInv, [Next]_vars PROVE SteadyInv'
  OBVIOUS
<1>1. IInv'
  BY NextKeeps DEF SteadyInv
<1>2. ASSUME NEW r \in Runs, List(r) \/ Embed(r) \/ Flush(r) \/ Commit(r) \/ Abort(r)
      PROVE  SteadyInv'
  BY <1>1, <1>2, ListKeepsSteady, EmbedKeepsSteady, FlushKeepsSteady,
     CommitKeepsSteady, AbortKeepsSteady
<1>3. ASSUME NEW r \in Runs, Compare(r) \/ FlushRaises(r) \/ EmbedRaises(r)
      PROVE  SteadyInv'
  BY <1>1, <1>3, TurnKeepsSteady DEF FlushRaises, EmbedRaises, Working
<1>4. CASE UNCHANGED <<chunks, over, run>>
  <2>1. Uncommitted
    BY <1>4 DEF Uncommitted
  <2>2. \A r \in Runs : LoadsAll(r)' /\ \A d \in Docs : WritesAll(r, d)'
    BY <1>4, <2>1, LoadsStay, UncommittedKeeps
  <2> QED
    BY <1>1, <2>1, <2>2, UncommittedKeeps DEF SteadyInv
<1> QED
  BY <1>2, <1>3, <1>4 DEF Next, Step, Fault, Ingest, vars

\* Runs that overlap on a document that did not change between their lists leave
\* it without chunks, or whole and with the right embeddings (chunks.py:124).
THEOREM SteadyDocumentsStayWhole == Spec => []SteadyDocumentsAreWhole
<1>1. Init => SteadyInv
  <2>1. Init => \A r \in Runs : LoadsAll(r) /\ \A d : ~Agrees(r, d)
    BY NoRowsAreEmpty DEF Init, Idle, LoadsAll, Agrees
  <2>2. Init => \A d : DOMAIN Of(d, chunks) = {} /\ Committed(d) = {}
    BY NoRowsAreEmpty DEF Init, Idle, Of, Committed
  <2> QED
    BY <2>1, <2>2, InitHolds DEF SteadyInv, ChunksFit, WritesAll
<1>2. SteadyInv => SteadyDocumentsAreWhole
  <2> SUFFICES ASSUME SteadyInv, NEW d \in Docs, Steady(d)
               PROVE  \/ Of(d, chunks) = NoRows
                      \/ \E r \in Runs :
                            /\ d \in DOMAIN run[r].listed
                            /\ Whole(Of(d, chunks), run[r].listed[d], ModelOf[r])
    BY DEF SteadyDocumentsAreWhole
  <2>1. CASE DOMAIN Of(d, chunks) = {}
    <3>1. Of(d, chunks) = NoRows
      BY <2>1 DEF Of, NoRows
    <3> QED
      BY <3>1
  <2>2. CASE DOMAIN Of(d, chunks) # {}
    <3>1. PICK c \in Committed(d) : TRUE
      BY <2>2 DEF SteadyInv, ChunksFit
    <3>2. Agrees(c, d) /\ c \in Runs /\ d \in DOMAIN run[c].listed
      BY <3>1 DEF Steady, Agrees, Committed
    <3> QED
      BY <2>2, <3>1, <3>2 DEF SteadyInv, ChunksFit, NoneOrWhole
  <2> QED
    BY <2>1, <2>2
<1> QED
  BY <1>1, <1>2, SteadyKeeps, PTL DEF Spec
=============================================================================
