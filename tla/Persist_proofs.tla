--------------------------- MODULE Persist_proofs ---------------------------
(***************************************************************************)
(* Theorems about Persist, for any number of transactions, keys, texts and  *)
(* names, files of any length, and any number of failures; the last three   *)
(* for one worker.                                                          *)
(***************************************************************************)
EXTENDS Persist, SequenceTheorems, FiniteSetTheorems, TLAPS

\* The fields of a transaction, and its local variables.
Fields == {"phase", "saved", "mine", "report"}
Locals == {"doc", "outcome", "person", "identity", "held", "todo", "entity", "linked"}
Writing == {"created", "updated"}
Outcomes == Writing \cup {"unchanged", "duplicate", "failed"}

\* The savepoint before the document is written, and while it is not complete.
Before == {"document", "checksum", "write"}
Merging == {"alias", "entity", "insert", "register"}
Partial == {"resolve", "person", "update", "flush"} \cup Merging
Inside == Before \cup Partial \cup {"embed"}
Phases == {"idle", "next", "committed", "aborted"} \cup Inside

Shape(t) ==
    /\ DOMAIN tx[t] = Fields /\ DOMAIN tx[t].mine = Locals
    /\ tx[t].phase \in Phases
    /\ tx[t].mine.outcome \in Outcomes
    /\ tx[t].report \in Seq(Outcomes) /\ Len(tx[t].report) <= Len(file[t])
    /\ tx[t].phase \in Inside => Remaining(t)
    /\ tx[t].phase = "idle" => tx[t].report = <<>>

-----------------------------------------------------------------------------
\* Rows are only added, and an alias leads to one skill for ever.
Grows(old, new) ==
    /\ DOMAIN old \subseteq DOMAIN new
    /\ \A m \in Mentions : Alias(m) \in DOMAIN old => new[Alias(m)] = old[Alias(m)]

\* Row e is one for the name m, and the alias m leads there.
Names(rows, m, e) == e \in Entities /\ e[2] = NameOf[m] /\ e \in DOMAIN rows
Has(rows, m, e) ==
    Names(rows, m, e) /\ (m \in Skills => Alias(m) \in DOMAIN rows /\ rows[Alias(m)] = e)

MentionsIn(text) == {MentionsOf[text][i] : i \in DOMAIN MentionsOf[text]}

\* A document with contents d is whole among rows.
Whole(rows, d) ==
    /\ d.text \in Texts
    /\ d.person \in Keys /\ Person(d.person) \in DOMAIN rows
    /\ \A m \in MentionsIn(d.text) : \E e \in Entities :
          Has(rows, m, e) /\ Link(d.person, e) \in DOMAIN rows

Fits(rows, keys) ==
    /\ \A k \in keys : Doc(k) \in DOMAIN rows => Whole(rows, rows[Doc(k)])
    /\ \A m \in Mentions : Alias(m) \in DOMAIN rows => Names(rows, m, rows[Alias(m)])

\* The document that t may see half written.
InHand(t) == IF tx[t].phase \in Partial THEN {Current(t).key} ELSE {}

RowsFit(t) ==
    /\ Fits(View(t), Keys \ InHand(t))
    /\ tx[t].phase \in Inside => /\ Fits(Onto(tx[t].saved, db), Keys)
                                 /\ DOMAIN tx[t].saved \subseteq DOMAIN over[t]

\* Nobody else has, or will have, an alias that t inserted.
Locked ==
    \A t \in Txs : \A m \in Mentions : Alias(m) \in DOMAIN over[t] =>
        /\ Alias(m) \notin DOMAIN db
        /\ \A u \in Txs \ {t} : Alias(m) \notin DOMAIN over[u]

\* What persist holds between its statements: rows that exist, and for every
\* name it has merged the row that it will link.
LocalsFit(t) ==
    LET p == tx[t].phase
        l == Mine(t)
    IN  /\ p \in {"checksum", "write", "resolve"} /\ l.doc # None =>
              l.doc.person \in Keys /\ Person(l.doc.person) \in DOMAIN View(t)
        /\ p \in {"checksum", "write", "resolve", "person"} => l.held = {}
        /\ p \in Merging \cup {"update", "flush"} =>
              /\ l.person \in Keys /\ Person(l.person) \in DOMAIN View(t)
              /\ \A e \in l.held : Link(l.person, e) \in DOMAIN View(t)
        /\ p \in Merging \cup {"flush"} =>
              /\ l.todo \in Seq(Mentions)
              /\ \A m \in MentionsIn(Current(t).text) :
                    \/ \E i \in DOMAIN l.todo : l.todo[i] = m
                    \/ \E e \in l.linked : Has(View(t), m, e)
        /\ p \in Merging => l.todo # <<>>
        /\ p = "flush" => l.todo = <<>>
        /\ p = "register" => Names(View(t), Head(l.todo), l.entity)

-----------------------------------------------------------------------------
\* The report so far is true of rows.
Told(t, rows) ==
    \A i \in DOMAIN tx[t].report :
        /\ Written(t, i)
        /\ \A j \in DOMAIN tx[t].report :
              j > i /\ file[t][j].key = file[t][i].key => ~Written(t, j)
        => LET doc == Doc(file[t][i].key)
           IN  doc \in DOMAIN rows /\ rows[doc].text = file[t][i].text

\* A row of the savepoint is as it was when the savepoint opened.
Kept(t, k) ==
    Doc(k) \in DOMAIN tx[t].saved =>
        Doc(k) \in DOMAIN over[t] /\ over[t][Doc(k)] = tx[t].saved[Doc(k)]

\* In a savepoint, only the document in hand differs from what was reported.
ReportFits(t) ==
    /\ tx[t].phase = "next" => Told(t, over[t])
    /\ tx[t].phase \in Inside =>
          /\ Told(t, tx[t].saved)
          /\ \A k \in Keys \ {Current(t).key} : Kept(t, k)
    /\ tx[t].phase \in Before => Kept(t, Current(t).key)
    /\ tx[t].phase \in Partial => Mine(t).outcome \in Writing
    /\ tx[t].phase = "embed" =>
          IF Mine(t).outcome \in Writing
          THEN LET doc == Doc(Current(t).key)
               IN  doc \in DOMAIN over[t] /\ over[t][doc].text = Current(t).text
          ELSE Kept(t, Current(t).key)

TxFits(t) == Shape(t) /\ RowsFit(t) /\ LocalsFit(t) /\ ReportFits(t)

IInv ==
    /\ file \in [Txs -> Files] /\ DOMAIN over = Txs /\ DOMAIN tx = Txs
    /\ Fits(db, Keys) /\ Locked
    /\ \A t \in Txs : TxFits(t)

-----------------------------------------------------------------------------
(* Rows *)

LEMMA NoRowsAreEmpty == DOMAIN NoRows = {}
  BY DEF NoRows

LEMMA OntoIs ==
    ASSUME NEW new, NEW old
    PROVE  /\ DOMAIN Onto(new, old) = DOMAIN new \cup DOMAIN old
           /\ \A r \in DOMAIN new : Onto(new, old)[r] = new[r]
           /\ \A r \in DOMAIN old \ DOMAIN new : Onto(new, old)[r] = old[r]
  BY DEF Onto

LEMMA MentionsAre == \A text \in Texts : /\ MentionsOf[text] \in Seq(Mentions)
                                        /\ MentionsIn(text) \subseteq Mentions
<1> SUFFICES ASSUME NEW text \in Texts
             PROVE  MentionsOf[text] \in Seq(Mentions) /\ MentionsIn(text) \subseteq Mentions
  OBVIOUS
<1>1. MentionsOf[text] \in Seq(Mentions)
  BY ConstantTypes
<1> QED
  BY <1>1 DEF MentionsIn

LEMMA NamesGrow ==
    ASSUME NEW old, NEW new, Grows(old, new), NEW m \in Mentions, NEW e
    PROVE  /\ Names(old, m, e) => Names(new, m, e)
           /\ Has(old, m, e) => Has(new, m, e)
  BY DEF Grows, Names, Has

LEMMA WholeGrows ==
    ASSUME NEW old, NEW new, Grows(old, new), NEW d, Whole(old, d)
    PROVE  Whole(new, d)
<1>1. /\ d.text \in Texts /\ MentionsIn(d.text) \subseteq Mentions
      /\ d.person \in Keys /\ Person(d.person) \in DOMAIN new
  BY MentionsAre DEF Whole, Grows
<1>2. ASSUME NEW m \in MentionsIn(d.text)
      PROVE  \E e \in Entities : Has(new, m, e) /\ Link(d.person, e) \in DOMAIN new
  <2>1. PICK e \in Entities : Has(old, m, e) /\ Link(d.person, e) \in DOMAIN old
    BY DEF Whole
  <2> QED
    BY <1>1, <2>1, NamesGrow DEF Grows
<1> QED
  BY <1>1, <1>2 DEF Whole

LEMMA GrowsFurther ==
    ASSUME NEW a, NEW b, NEW c, Grows(a, b), Grows(b, c)
    PROVE  Grows(a, c)
  BY DEF Grows

\* Rows that a transaction has on top of others go on fitting when these grow.
LEMMA LayerFits ==
    ASSUME NEW rows, NEW old, NEW new, NEW keys \in SUBSET Keys,
           Fits(Onto(rows, old), keys), Fits(new, Keys), Grows(old, new),
           \A m \in Mentions : Alias(m) \in DOMAIN rows => Alias(m) \notin DOMAIN new
    PROVE  /\ Fits(Onto(rows, new), keys)
           /\ Grows(Onto(rows, old), Onto(rows, new))
<1> DEFINE V == Onto(rows, old)
           W == Onto(rows, new)
<1>1. /\ DOMAIN V = DOMAIN rows \cup DOMAIN old
      /\ \A r \in DOMAIN rows : V[r] = rows[r]
      /\ \A r \in DOMAIN old \ DOMAIN rows : V[r] = old[r]
  BY OntoIs
<1>2. /\ DOMAIN W = DOMAIN rows \cup DOMAIN new
      /\ \A r \in DOMAIN rows : W[r] = rows[r]
      /\ \A r \in DOMAIN new \ DOMAIN rows : W[r] = new[r]
  BY OntoIs
<1> HIDE DEF V, W
<1>3. Grows(V, W)
  BY <1>1, <1>2 DEF Grows
<1>4. Grows(new, W)
  BY <1>2 DEF Grows
<1>5. ASSUME NEW k \in keys, Doc(k) \in DOMAIN W PROVE Whole(W, W[Doc(k)])
  <2>1. CASE Doc(k) \in DOMAIN rows
    <3>1. Whole(V, W[Doc(k)])
      BY <1>1, <1>2, <2>1 DEF Fits, V
    <3> QED
      BY <1>3, <3>1, WholeGrows
  <2>2. CASE Doc(k) \notin DOMAIN rows
    <3>1. Whole(new, W[Doc(k)])
      BY <1>2, <1>5, <2>2 DEF Fits
    <3> QED
      BY <1>4, <3>1, WholeGrows
  <2> QED
    BY <2>1, <2>2
<1>6. ASSUME NEW m \in Mentions, Alias(m) \in DOMAIN W PROVE Names(W, m, W[Alias(m)])
  <2>1. CASE Alias(m) \in DOMAIN rows
    <3>1. Names(V, m, W[Alias(m)])
      BY <1>1, <1>2, <2>1 DEF Fits, V
    <3> QED
      BY <1>3, <3>1, NamesGrow
  <2>2. CASE Alias(m) \notin DOMAIN rows
    <3>1. Names(new, m, W[Alias(m)])
      BY <1>2, <1>6, <2>2 DEF Fits
    <3> QED
      BY <1>4, <3>1, NamesGrow
  <2> QED
    BY <2>1, <2>2
<1> QED
  BY <1>3, <1>5, <1>6 DEF Fits, V, W

\* A layer on top of rows that fit: the new documents must be whole, and new
\* aliases name an entity.
LEMMA OnTopFits ==
    ASSUME NEW rows, NEW new, NEW keys \in SUBSET Keys, Fits(rows, keys),
           \A m \in Mentions : Alias(m) \in DOMAIN new =>
              Alias(m) \notin DOMAIN rows /\ Names(Onto(new, rows), m, new[Alias(m)]),
           \A k \in keys : Doc(k) \in DOMAIN new => Whole(Onto(new, rows), new[Doc(k)])
    PROVE  Fits(Onto(new, rows), keys) /\ Grows(rows, Onto(new, rows))
<1> DEFINE W == Onto(new, rows)
<1>1. /\ DOMAIN W = DOMAIN new \cup DOMAIN rows
      /\ \A r \in DOMAIN new : W[r] = new[r]
      /\ \A r \in DOMAIN rows \ DOMAIN new : W[r] = rows[r]
  BY OntoIs
<1> HIDE DEF W
<1>2. Grows(rows, W)
  BY <1>1 DEF Grows
<1>3. ASSUME NEW k \in keys, Doc(k) \in DOMAIN W PROVE Whole(W, W[Doc(k)])
  <2>1. CASE Doc(k) \in DOMAIN new
    BY <1>1, <2>1 DEF W
  <2>2. CASE Doc(k) \notin DOMAIN new
    <3>1. Whole(rows, W[Doc(k)])
      BY <1>1, <1>3, <2>2 DEF Fits
    <3> QED
      BY <1>2, <3>1, WholeGrows
  <2> QED
    BY <2>1, <2>2
<1>4. ASSUME NEW m \in Mentions, Alias(m) \in DOMAIN W PROVE Names(W, m, W[Alias(m)])
  <2>1. CASE Alias(m) \in DOMAIN new
    BY <1>1, <2>1 DEF W
  <2>2. CASE Alias(m) \notin DOMAIN new
    <3>1. Names(rows, m, W[Alias(m)])
      BY <1>1, <1>4, <2>2 DEF Fits
    <3> QED
      BY <1>2, <3>1, NamesGrow
  <2> QED
    BY <2>1, <2>2
<1> QED
  BY <1>2, <1>3, <1>4 DEF Fits, W

-----------------------------------------------------------------------------
(* Steps of one transaction *)

LEMMA InitHolds == Init => IInv
<1> SUFFICES ASSUME Init PROVE IInv
  OBVIOUS
<1>1. Fits(db, Keys) /\ Locked
  BY NoRowsAreEmpty DEF Init, Fits, Locked
<1>2. ASSUME NEW t \in Txs PROVE TxFits(t)
  <2>1. tx[t].phase = "idle" /\ tx[t] = Idle /\ over[t] = NoRows
    BY DEF Init, Idle
  <2>2. Len(file[t]) \in Nat
    <3>1. file[t] \in Seq(Documents)
      BY ConstantTypes DEF Init
    <3> QED
      BY <3>1
  <2>3. Shape(t)
    <3>1. /\ DOMAIN tx[t] = Fields /\ DOMAIN tx[t].mine = Locals
          /\ tx[t].mine.outcome \in Outcomes /\ tx[t].report = <<>>
      BY <2>1 DEF Idle, NoLocals, Fields, Locals, Outcomes, Writing
    <3>2. Len(<<>>) = 0 /\ <<>> \in Seq(Outcomes)
      OBVIOUS
    <3>3. "idle" \in Phases /\ "idle" \notin Inside
      BY DEF Phases, Inside, Before, Partial, Merging
    <3> QED
      BY <2>1, <2>2, <3>1, <3>2, <3>3 DEF Shape
  <2>4. View(t) = NoRows
    BY <2>1, NoRowsAreEmpty DEF Init, View, Onto, NoRows
  <2>5. RowsFit(t)
    BY <2>1, <2>4, NoRowsAreEmpty DEF RowsFit, Fits, Inside, Before, Partial, Merging
  <2>6. LocalsFit(t) /\ ReportFits(t)
    BY <2>1 DEF LocalsFit, ReportFits, Inside, Before, Partial, Merging
  <2> QED
    BY <2>3, <2>5, <2>6 DEF TxFits
<1> QED
  BY <1>1, <1>2 DEF Init, IInv

\* Everything but the transaction t stays as it is.
OnlyOf(t) ==
    /\ UNCHANGED <<db, file>> /\ DOMAIN over' = Txs /\ DOMAIN tx' = Txs
    /\ \A u \in Txs \ {t} : tx'[u] = tx[u] /\ over'[u] = over[u]

LEMMA OthersStay ==
    ASSUME IInv, NEW t \in Txs, OnlyOf(t), TxFits(t)', Locked'
    PROVE  IInv'
<1>1. ASSUME NEW u \in Txs \ {t} PROVE TxFits(u)'
  <2>1. /\ tx'[u] = tx[u] /\ over'[u] = over[u] /\ file' = file /\ db' = db
        /\ TxFits(u)
    BY DEF OnlyOf, IInv
  <2>2. Shape(u)' /\ InHand(u)' = InHand(u)
    BY <2>1 DEF TxFits, Shape, InHand, Remaining, Current, RecordNumber
  <2>3. RowsFit(u)'
    BY <2>1, <2>2 DEF TxFits, RowsFit, View
  <2>4. LocalsFit(u)'
    BY <2>1 DEF TxFits, LocalsFit, View, Mine, Current, RecordNumber
  <2>5. ReportFits(u)'
    BY <2>1 DEF TxFits, ReportFits, Told, Kept, Written, Mine, Current, RecordNumber
  <2> QED
    BY <2>2, <2>3, <2>4, <2>5 DEF TxFits
<1> QED
  BY <1>1 DEF OnlyOf, IInv

LEMMA LocksStay ==
    ASSUME IInv, NEW t \in Txs, OnlyOf(t), DOMAIN over'[t] \subseteq DOMAIN over[t]
    PROVE  Locked'
  BY DEF IInv, Locked, OnlyOf

\* The document in hand.
LEMMA InHandIs ==
    ASSUME IInv, NEW t \in Txs, Remaining(t)
    PROVE  /\ RecordNumber(t) \in 1..Len(file[t]) /\ RecordNumber(t) \in 1..MaxRecords
           /\ Current(t).key \in Keys /\ Current(t).text \in Texts
<1>1. file[t] \in Files /\ file[t] \in Seq(Documents) /\ Len(file[t]) <= MaxRecords
  BY ConstantTypes DEF IInv
<1>2. Len(tx[t].report) \in Nat /\ Len(file[t]) \in Nat /\ MaxRecords \in Nat
  BY <1>1, ConstantTypes DEF IInv, TxFits, Shape
<1>3. RecordNumber(t) \in 1..Len(file[t]) /\ RecordNumber(t) \in 1..MaxRecords
  BY <1>1, <1>2 DEF Remaining, RecordNumber
<1>4. Current(t) \in Documents
  BY <1>1, <1>3 DEF Current
<1> QED
  BY <1>3, <1>4 DEF Documents

\* The transaction goes on at phase p with locals l.
Turned(t, p, l) ==
    /\ DOMAIN tx' = Txs /\ \A u \in Txs \ {t} : tx'[u] = tx[u]
    /\ DOMAIN tx'[t] = Fields /\ tx'[t].phase = p /\ tx'[t].mine = l
    /\ tx'[t].saved = tx[t].saved /\ tx'[t].report = tx[t].report

LEMMA ContinueTurns ==
    ASSUME IInv, NEW t \in Txs, NEW p, NEW l, Continue(t, p, l)
    PROVE  Turned(t, p, l)
  BY DEF Continue, Turned, IInv, TxFits, Shape, Fields

\* The document goes on in its savepoint, and nothing is written.
LEMMA TurnStep ==
    ASSUME IInv, NEW t \in Txs, NEW p, NEW l, Turned(t, p, l),
           UNCHANGED <<db, over, file>>,
           DOMAIN l = Locals, l.outcome \in Outcomes,
           \/ tx[t].phase \in Before /\ p \in Before
           \/ tx[t].phase \in Before /\ p = "embed" /\ l.outcome \notin Writing
           \/ tx[t].phase \in Partial /\ p \in Partial /\ l.outcome = Mine(t).outcome,
           LocalsFit(t)'
    PROVE  IInv'
<1>1. OnlyOf(t) /\ Locked'
  <2>1. OnlyOf(t)
    BY DEF Turned, OnlyOf, IInv
  <2> QED
    BY <2>1, LocksStay
<1>2. TxFits(t)
  BY DEF IInv
<1>3. /\ Remaining(t)' = Remaining(t) /\ Current(t)' = Current(t) /\ View(t)' = View(t)
      /\ Mine(t)' = l
  BY DEF Turned, Remaining, Current, RecordNumber, View, Mine
<1>4. tx[t].phase \in Inside /\ p \in Inside /\ p \in Phases /\ p # "idle" /\ p # "next"
  BY DEF Phases, Inside, Before, Partial, Merging
<1>5. Shape(t)'
  BY <1>2, <1>3, <1>4 DEF TxFits, Shape, Turned
<1>6. RowsFit(t)'
  <2>1. InHand(t)' = InHand(t)
    BY <1>3 DEF InHand, Turned, Before, Partial, Merging
  <2> QED
    BY <1>2, <1>3, <1>4, <2>1 DEF TxFits, RowsFit, Turned
<1>7. ReportFits(t)'
  <2>1. \A rows : Told(t, rows) => Told(t, rows)'
    BY DEF Told, Written, Turned
  <2>2. \A k : Kept(t, k) => Kept(t, k)'
    BY DEF Kept, Turned
  <2>3. PICK s, d : s = tx[t].saved /\ d = Current(t)
    OBVIOUS
  <2>4. tx'[t].saved = s /\ Current(t)' = d /\ tx'[t].phase = p
    BY <1>3, <2>3 DEF Turned
  <2>5. Told(t, s)' /\ \A k \in Keys \ {d.key} : Kept(t, k)'
    BY <1>2, <1>4, <2>1, <2>2, <2>3 DEF TxFits, ReportFits
  <2>6. tx[t].phase \in Before => Kept(t, d.key)'
    BY <1>2, <2>2, <2>3 DEF TxFits, ReportFits
  <2>7. tx[t].phase \in Partial => Mine(t).outcome \in Writing
    BY <1>2 DEF TxFits, ReportFits
  <2>8. Told(t, tx[t].saved)'
    BY <2>4, <2>5
  <2> QED
    BY <1>3, <1>4, <2>4, <2>5, <2>6, <2>7, <2>8
       DEF ReportFits, Before, Partial, Merging
<1> QED
  BY <1>1, <1>5, <1>6, <1>7, OthersStay DEF TxFits

\* The document leaves its savepoint: what base held, its own row aside, is in
\* the transaction, and so is its own row if it counts as written.
LEMMA ConcludeStep ==
    ASSUME IInv, NEW t \in Txs, NEW outcome \in Outcomes, NEW base,
           Remaining(t), OnlyOf(t), Conclude(t, outcome), Locked',
           Fits(View(t)', Keys), Told(t, base),
           \A k \in Keys : k # Current(t).key \/ outcome \notin Writing =>
              (Doc(k) \in DOMAIN base =>
                 Doc(k) \in DOMAIN over'[t] /\ over'[t][Doc(k)] = base[Doc(k)]),
           outcome \in Writing =>
              LET doc == Doc(Current(t).key)
              IN  doc \in DOMAIN over'[t] /\ over'[t][doc].text = Current(t).text
    PROVE  IInv'
<1>1. TxFits(t) /\ DOMAIN tx = Txs /\ file \in [Txs -> Files]
  BY DEF IInv
<1>2. /\ DOMAIN tx'[t] = Fields /\ tx'[t].phase = "next" /\ tx'[t].mine = NoLocals
      /\ tx'[t].report = Append(tx[t].report, outcome)
  BY <1>1 DEF Conclude, Fields
<1> DEFINE n == Len(tx[t].report)
<1>3. /\ tx[t].report \in Seq(Outcomes) /\ n \in Nat
      /\ file[t] \in Seq(Documents) /\ Len(file[t]) \in Nat
      /\ Current(t) = file[t][n + 1] /\ n < Len(file[t])
  <2>1. file[t] \in Seq(Documents)
    BY <1>1, ConstantTypes
  <2> QED
    BY <1>1, <2>1 DEF TxFits, Shape, Current, RecordNumber, Remaining
<1>4. /\ tx'[t].report \in Seq(Outcomes) /\ Len(tx'[t].report) = n + 1
      /\ DOMAIN tx[t].report = 1..n /\ DOMAIN tx'[t].report = 1..(n + 1)
      /\ \A i \in 1..n : tx'[t].report[i] = tx[t].report[i]
      /\ tx'[t].report[n + 1] = outcome
  BY <1>2, <1>3
<1>5. Shape(t)'
  <2>1. DOMAIN NoLocals = Locals /\ NoLocals.outcome \in Outcomes
    BY DEF NoLocals, Locals, Outcomes, Writing
  <2>2. "next" \in Phases /\ "next" \notin Inside
    BY DEF Phases, Inside, Before, Partial, Merging
  <2>3. file' = file
    BY DEF OnlyOf
  <2> QED
    BY <1>2, <1>3, <1>4, <2>1, <2>2, <2>3 DEF Shape
<1>6. RowsFit(t)' /\ LocalsFit(t)'
  <2>1. InHand(t)' = {} /\ Keys \ {} = Keys
    BY <1>2 DEF InHand, Partial, Merging
  <2>2. RowsFit(t)'
    BY <1>2, <2>1 DEF RowsFit, Inside, Before, Partial, Merging
  <2> QED
    BY <1>2, <2>2 DEF LocalsFit, Merging
<1>7. Told(t, over[t])'
  <2>1. SUFFICES ASSUME NEW i \in DOMAIN tx'[t].report, tx'[t].report[i] \in Writing,
                        \A j \in DOMAIN tx'[t].report :
                           j > i /\ file[t][j].key = file[t][i].key
                              => tx'[t].report[j] \notin Writing
                 PROVE  /\ Doc(file[t][i].key) \in DOMAIN over'[t]
                        /\ over'[t][Doc(file[t][i].key)].text = file[t][i].text
    BY DEF Told, Written, Writing, OnlyOf
  <2>2. CASE i = n + 1
    BY <1>3, <1>4, <2>1, <2>2
  <2>3. CASE i \in 1..n
    <3>1. /\ Doc(file[t][i].key) \in DOMAIN base
          /\ base[Doc(file[t][i].key)].text = file[t][i].text
      <4>1. Written(t, i)
        BY <1>4, <2>1, <2>3 DEF Written, Writing
      <4>2. ASSUME NEW j \in DOMAIN tx[t].report,
                   j > i /\ file[t][j].key = file[t][i].key
            PROVE  ~Written(t, j)
        <5>1. j \in 1..(n + 1) /\ tx'[t].report[j] = tx[t].report[j]
          BY <1>3, <1>4
        <5> QED
          BY <1>4, <2>1, <4>2, <5>1 DEF Written, Writing
      <4> QED
        BY <1>4, <2>3, <4>1, <4>2 DEF Told
    <3>2. file[t][i].key \in Keys
      <4>1. file[t][i] \in Documents
        BY <1>3, <2>3
      <4> QED
        BY <4>1 DEF Documents
    <3>3. file[t][i].key # Current(t).key \/ outcome \notin Writing
      BY <1>3, <1>4, <2>1, <2>3
    <3> QED
      BY <3>1, <3>2, <3>3
  <2> QED
    BY <1>3, <1>4, <2>2, <2>3
<1>8. ReportFits(t)'
  BY <1>2, <1>7 DEF ReportFits, Inside, Before, Partial, Merging
<1> QED
  BY <1>5, <1>6, <1>8, OthersStay DEF TxFits

\* The savepoint is rolled back.
LEMMA RollBackStep ==
    ASSUME IInv, NEW t \in Txs, tx[t].phase \in Inside, RollBack(t)
    PROVE  IInv'
<1>1. TxFits(t) /\ DOMAIN tx = Txs /\ DOMAIN over = Txs
  BY DEF IInv
<1>2. Remaining(t) /\ OnlyOf(t) /\ over'[t] = tx[t].saved
  BY <1>1 DEF TxFits, Shape, RollBack, Conclude, OnlyOf
<1>3. /\ DOMAIN tx[t].saved \subseteq DOMAIN over[t]
      /\ Fits(Onto(tx[t].saved, db), Keys)
      /\ Told(t, tx[t].saved)
  BY <1>1 DEF TxFits, RowsFit, ReportFits
<1>4. Locked'
  BY <1>2, <1>3, LocksStay
<1>5. Fits(View(t)', Keys)
  BY <1>2, <1>3 DEF View, OnlyOf
<1>6. "failed" \in Outcomes /\ "failed" \notin Writing
  BY DEF Outcomes, Writing
<1>7. PICK base : base = tx[t].saved
  OBVIOUS
<1>8. Conclude(t, "failed")
  BY DEF RollBack
<1> QED
  BY <1>2, <1>3, <1>4, <1>5, <1>6, <1>7, <1>8, ConcludeStep

-----------------------------------------------------------------------------
(* The steps that write nothing *)

LEMMA StartStep ==
    ASSUME IInv, NEW t \in Txs, Start(t)
    PROVE  IInv'
<1>1. TxFits(t) /\ DOMAIN tx = Txs /\ DOMAIN over = Txs
  BY DEF IInv
<1>2. /\ OnlyOf(t) /\ UNCHANGED <<db, over, file>> /\ tx[t].phase = "idle"
      /\ DOMAIN tx'[t] = Fields /\ tx'[t].phase = "next" /\ tx'[t].mine = tx[t].mine
      /\ tx'[t].report = tx[t].report
  BY <1>1 DEF Start, OnlyOf, TxFits, Shape, Fields
<1>3. Locked'
  BY <1>2, LocksStay
<1>4. "next" \in Phases /\ "next" \notin Inside /\ "next" \notin Partial /\ "idle" \notin Partial
  BY DEF Phases, Inside, Before, Partial, Merging
<1>5. Shape(t)'
  BY <1>1, <1>2, <1>4 DEF TxFits, Shape
<1>6. RowsFit(t)'
  <2>1. InHand(t)' = InHand(t) /\ View(t)' = View(t)
    BY <1>2, <1>4 DEF InHand, View
  <2> QED
    BY <1>1, <1>2, <1>4, <2>1 DEF TxFits, RowsFit
<1>7. LocalsFit(t)'
  BY <1>2 DEF LocalsFit, Merging
<1>8. ReportFits(t)'
  <2>1. tx'[t].report = <<>>
    BY <1>1, <1>2 DEF TxFits, Shape
  <2>2. DOMAIN <<>> = {}
    OBVIOUS
  <2>3. Told(t, over[t])'
    BY <2>1, <2>2 DEF Told
  <2> QED
    BY <1>2, <2>3 DEF ReportFits, Inside, Before, Partial, Merging
<1> QED
  BY <1>2, <1>3, <1>5, <1>6, <1>7, <1>8, OthersStay DEF TxFits

LEMMA ParseFailsStep ==
    ASSUME IInv, NEW t \in Txs, ParseFails(t)
    PROVE  IInv'
<1>1. TxFits(t) /\ DOMAIN tx = Txs /\ DOMAIN over = Txs
  BY DEF IInv
<1>2. /\ OnlyOf(t) /\ Remaining(t) /\ tx[t].phase = "next" /\ over' = over
      /\ Conclude(t, "failed")
  BY <1>1 DEF ParseFails, Conclude, OnlyOf
<1>3. Locked'
  BY <1>2, LocksStay
<1>4. Fits(View(t)', Keys)
  <2>1. InHand(t) = {}
    BY <1>2 DEF InHand, Partial, Merging
  <2>2. Keys \ {} = Keys
    OBVIOUS
  <2> QED
    BY <1>1, <1>2, <2>1, <2>2 DEF TxFits, RowsFit, View, OnlyOf
<1>5. Told(t, over[t])
  BY <1>1, <1>2 DEF TxFits, ReportFits
<1>6. "failed" \in Outcomes /\ "failed" \notin Writing
  BY DEF Outcomes, Writing
<1>7. PICK base : base = over[t]
  OBVIOUS
<1> QED
  BY <1>2, <1>3, <1>4, <1>5, <1>6, <1>7, ConcludeStep

LEMMA ParseStep ==
    ASSUME IInv, NEW t \in Txs, Parse(t)
    PROVE  IInv'
<1>1. TxFits(t) /\ DOMAIN tx = Txs /\ DOMAIN over = Txs
  BY DEF IInv
<1>2. /\ OnlyOf(t) /\ UNCHANGED <<db, over, file>> /\ tx[t].phase = "next" /\ Remaining(t)
      /\ DOMAIN tx'[t] = Fields /\ tx'[t].phase = "document" /\ tx'[t].mine = tx[t].mine
      /\ tx'[t].report = tx[t].report /\ tx'[t].saved = over[t]
  BY <1>1 DEF Parse, OnlyOf, TxFits, Shape, Fields
<1>3. Locked'
  BY <1>2, LocksStay
<1>4. /\ "document" \in Phases /\ "document" \in Inside /\ "document" \in Before
      /\ "document" \notin Partial /\ "next" \notin Partial
  BY DEF Phases, Inside, Before, Partial, Merging
<1>5. Shape(t)'
  BY <1>1, <1>2, <1>4 DEF TxFits, Shape, Remaining
<1>6. RowsFit(t)'
  <2>1. /\ InHand(t)' = {} /\ InHand(t) = {} /\ View(t)' = View(t) /\ Keys \ {} = Keys
        /\ View(t) = Onto(tx'[t].saved, db)
    BY <1>2, <1>4 DEF InHand, View
  <2> QED
    BY <1>1, <1>2, <1>4, <2>1 DEF TxFits, RowsFit
<1>7. LocalsFit(t)'
  BY <1>2 DEF LocalsFit, Merging
<1>8. ReportFits(t)'
  <2>1. \A rows : Told(t, rows) => Told(t, rows)'
    BY <1>2 DEF Told, Written
  <2>2. PICK rows : rows = over[t]
    OBVIOUS
  <2>3. Told(t, rows)'
    BY <1>1, <1>2, <2>1, <2>2 DEF TxFits, ReportFits
  <2>4. Told(t, tx[t].saved)'
    BY <1>2, <2>2, <2>3
  <2>5. \A k : Kept(t, k)'
    BY <1>2 DEF Kept
  <2>6. Kept(t, Current(t).key)'
    BY <2>5, <1>2 DEF Kept
  <2> QED
    BY <1>2, <1>4, <2>4, <2>5, <2>6 DEF ReportFits
<1> QED
  BY <1>2, <1>3, <1>5, <1>6, <1>7, <1>8, OthersStay DEF TxFits

\* persist returns before it has written anything.
LEMMA ReturnStep ==
    ASSUME IInv, NEW t \in Txs, NEW outcome \in {"unchanged", "duplicate"},
           tx[t].phase \in Before, Return(t, outcome), UNCHANGED <<db, over, file>>
    PROVE  IInv'
<1>1. TxFits(t) /\ DOMAIN tx = Txs /\ DOMAIN over = Txs
  BY DEF IInv
<1>2. outcome \in Outcomes /\ outcome \notin Writing
  BY DEF Outcomes, Writing
<1>3. tx[t].phase \in Inside /\ tx[t].phase \notin Partial
  BY DEF Inside, Before, Partial, Merging
<1>4. CASE Continue(t, "embed", [NoLocals EXCEPT !.outcome = outcome])
  <2> DEFINE l == [NoLocals EXCEPT !.outcome = outcome]
  <2>1. DOMAIN l = Locals /\ l.outcome = outcome
    BY DEF NoLocals, Locals
  <2>2. Turned(t, "embed", l)
    BY <1>4, ContinueTurns
  <2> HIDE DEF l
  <2>3. LocalsFit(t)'
    BY <2>2 DEF Turned, LocalsFit, Merging
  <2> QED
    BY <1>2, <2>1, <2>2, <2>3, TurnStep
<1>5. CASE Conclude(t, outcome)
  <2>1. OnlyOf(t) /\ Remaining(t) /\ over' = over
    BY <1>1, <1>3, <1>5 DEF Conclude, OnlyOf, TxFits, Shape
  <2>2. Locked'
    BY <2>1, LocksStay
  <2>3. Fits(View(t)', Keys)
    <3>1. InHand(t) = {} /\ Keys \ {} = Keys
      BY <1>3 DEF InHand
    <3> QED
      BY <1>1, <2>1, <3>1 DEF TxFits, RowsFit, View, OnlyOf
  <2>4. Told(t, tx[t].saved) /\ \A k \in Keys : Kept(t, k)
    BY <1>1, <1>3 DEF TxFits, ReportFits
  <2>5. PICK base : base = tx[t].saved
    OBVIOUS
  <2>6. \A k \in Keys : Doc(k) \in DOMAIN base =>
           Doc(k) \in DOMAIN over'[t] /\ over'[t][Doc(k)] = base[Doc(k)]
    BY <2>1, <2>4, <2>5 DEF Kept
  <2> QED
    BY <1>2, <1>5, <2>1, <2>2, <2>3, <2>4, <2>5, <2>6, ConcludeStep
<1> QED
  BY <1>4, <1>5 DEF Return

\* A document that t can see, and that it has not in hand, is whole for it.
LEMMA ViewFits ==
    ASSUME IInv, NEW t \in Txs, tx[t].phase \in Before
    PROVE  Fits(View(t), Keys)
<1>1. InHand(t) = {} /\ Keys \ {} = Keys
  BY DEF InHand, Before, Partial, Merging
<1> QED
  BY <1>1 DEF IInv, TxFits, RowsFit

LEMMA SelectDocumentStep ==
    ASSUME IInv, NEW t \in Txs, SelectDocument(t)
    PROVE  IInv'
<1> DEFINE key == Current(t).key
           found == IF Doc(key) \in DOMAIN View(t) THEN View(t)[Doc(key)] ELSE None
           l == [NoLocals EXCEPT !.doc = found]
<1>1. /\ tx[t].phase = "document" /\ UNCHANGED <<db, over, file>>
      /\ Return(t, "unchanged") \/ Continue(t, "checksum", l)
  BY DEF SelectDocument
<1>2. tx[t].phase \in Before /\ "checksum" \in Before
  BY <1>1 DEF Before
<1>3. CASE Return(t, "unchanged")
  BY <1>1, <1>2, <1>3, ReturnStep
<1>4. CASE Continue(t, "checksum", l)
  <2>1. Turned(t, "checksum", l)
    BY <1>4, ContinueTurns
  <2>2. DOMAIN l = Locals /\ l.outcome \in Outcomes /\ l.doc = found /\ l.held = {}
    BY DEF NoLocals, Locals, Outcomes, Writing
  <2>3. key \in Keys
    <3>1. Remaining(t)
      BY <1>2 DEF IInv, TxFits, Shape, Inside
    <3> QED
      BY <3>1, InHandIs
  <2>4. found # None => found.person \in Keys /\ Person(found.person) \in DOMAIN View(t)
    BY <1>2, <2>3, ViewFits DEF Fits, Whole
  <2> HIDE DEF l, found
  <2>5. LocalsFit(t)'
    <3>1. /\ tx'[t].phase = "checksum" /\ tx'[t].mine = l /\ View(t)' = View(t)
      BY <1>1, <2>1 DEF Turned, View
    <3> QED
      BY <2>2, <2>4, <3>1 DEF LocalsFit, Mine, Merging
  <2> QED
    BY <1>1, <1>2, <2>1, <2>2, <2>5, TurnStep
<1> QED
  BY <1>1, <1>3, <1>4

\* Going on with the same locals, or with others.
LEMMA SelectByChecksumStep ==
    ASSUME IInv, NEW t \in Txs, SelectByChecksum(t)
    PROVE  IInv'
<1>1. /\ tx[t].phase = "checksum" /\ UNCHANGED <<db, over, file>>
      /\ Return(t, "duplicate") \/ Continue(t, "write", Mine(t))
  BY DEF SelectByChecksum
<1>2. tx[t].phase \in Before /\ "write" \in Before
  BY <1>1 DEF Before
<1>3. CASE Return(t, "duplicate")
  BY <1>1, <1>2, <1>3, ReturnStep
<1>4. CASE Continue(t, "write", Mine(t))
  <2>1. PICK l : l = Mine(t)
    OBVIOUS
  <2>2. Turned(t, "write", l)
    BY <1>4, <2>1, ContinueTurns
  <2>3. DOMAIN l = Locals /\ l.outcome \in Outcomes
    BY <2>1 DEF IInv, TxFits, Shape, Mine
  <2>4. LocalsFit(t)'
    <3>1. tx'[t].phase = "write" /\ tx'[t].mine = l /\ View(t)' = View(t)
      BY <1>1, <2>2 DEF Turned, View
    <3>2. LocalsFit(t)
      BY DEF IInv, TxFits
    <3> QED
      BY <1>1, <2>1, <3>1, <3>2 DEF LocalsFit, Mine, Merging
  <2> QED
    BY <1>1, <1>2, <2>2, <2>3, <2>4, TurnStep
<1> QED
  BY <1>1, <1>3, <1>4

LEMMA ResolvePersonStep ==
    ASSUME IInv, NEW t \in Txs, ResolvePerson(t)
    PROVE  IInv'
<1>1. tx[t].phase = "resolve" /\ UNCHANGED <<db, over, file>> /\ tx[t].phase \in Partial
  BY DEF ResolvePerson, Partial
<1>2. /\ LocalsFit(t) /\ Remaining(t)
      /\ DOMAIN tx[t].mine = Locals /\ tx[t].mine.outcome \in Outcomes
  BY <1>1 DEF IInv, TxFits, Shape, Inside
<1>3. "person" \in Partial /\ "update" \in Partial
  BY DEF Partial
<1>4. CASE Continue(t, "person", Mine(t))
  <2>1. PICK l : l = Mine(t)
    OBVIOUS
  <2>2. Turned(t, "person", l)
    BY <1>4, <2>1, ContinueTurns
  <2>3. LocalsFit(t)'
    BY <1>1, <1>2, <2>1, <2>2 DEF LocalsFit, Mine, Merging, Turned
  <2> QED
    BY <1>1, <1>2, <1>3, <2>1, <2>2, <2>3, TurnStep DEF Mine
<1>5. ASSUME NEW p \in Resolvable(t),
             Continue(t, "update",
               [Mine(t) EXCEPT
                  !.person = p,
                  !.identity = View(t)[Person(p)],
                  !.held = {e \in Entities : Link(p, e) \in DOMAIN View(t)}])
      PROVE  IInv'
  <2>1. PICK l : l = [Mine(t) EXCEPT
                        !.person = p,
                        !.identity = View(t)[Person(p)],
                        !.held = {e \in Entities : Link(p, e) \in DOMAIN View(t)}]
    OBVIOUS
  <2>2. Turned(t, "update", l)
    BY <1>5, <2>1, ContinueTurns
  <2>3. /\ DOMAIN l = Locals /\ l.outcome = Mine(t).outcome /\ l.person = p
        /\ l.held = {e \in Entities : Link(p, e) \in DOMAIN View(t)}
    BY <1>2, <2>1 DEF Mine, Locals
  <2>4. p \in Keys /\ Person(p) \in DOMAIN View(t)
    <3>1. CASE Mine(t).doc # None /\ p = Mine(t).doc.person
      BY <1>1, <1>2, <3>1 DEF LocalsFit
    <3>2. CASE Person(Current(t).key) \in DOMAIN View(t) /\ p = Current(t).key
      BY <1>2, <3>2, InHandIs
    <3>3. CASE p \in Matches(t, IdentityOf[Current(t).text])
      BY <3>3 DEF Matches
    <3> QED
      BY <1>5, <3>1, <3>2, <3>3 DEF Resolvable
  <2>5. LocalsFit(t)'
    <3>1. tx'[t].phase = "update" /\ tx'[t].mine = l /\ View(t)' = View(t)
      BY <1>1, <2>2 DEF Turned, View
    <3> QED
      BY <2>3, <2>4, <3>1 DEF LocalsFit, Mine, Merging
  <2> QED
    BY <1>1, <1>2, <1>3, <2>2, <2>3, <2>5, TurnStep DEF Mine
<1> QED
  BY <1>4, <1>5 DEF ResolvePerson

\* The state of the merge: the names left, and a row for every other name.
MergeFits(l, text, rows) ==
    /\ l.person \in Keys /\ Person(l.person) \in DOMAIN rows
    /\ \A e \in l.held : Link(l.person, e) \in DOMAIN rows
    /\ l.todo \in Seq(Mentions)
    /\ \A m \in MentionsIn(text) : \/ \E i \in DOMAIN l.todo : l.todo[i] = m
                                   \/ \E e \in l.linked : Has(rows, m, e)

LEMMA MergeFitsNow ==
    ASSUME IInv, NEW t \in Txs, tx[t].phase \in Merging \cup {"flush"}
    PROVE  /\ MergeFits(Mine(t), Current(t).text, View(t))
           /\ DOMAIN Mine(t) = Locals /\ Mine(t).outcome \in Writing
           /\ Current(t).text \in Texts /\ Remaining(t) /\ tx[t].phase \in Partial
           /\ tx[t].phase \in Merging =>
                 Mine(t).todo # <<>> /\ Head(Mine(t).todo) \in Mentions
<1>1. tx[t].phase \in Inside /\ tx[t].phase \in Partial
  BY DEF Inside, Partial
<1>2. TxFits(t) /\ Remaining(t)
  BY <1>1 DEF IInv, TxFits, Shape
<1>3. MergeFits(Mine(t), Current(t).text, View(t))
  BY <1>2 DEF TxFits, LocalsFit, MergeFits
<1>4. tx[t].phase \in Merging =>
         Mine(t).todo # <<>> /\ Head(Mine(t).todo) \in Mentions
  <2>1. tx[t].phase \in Merging => Mine(t).todo # <<>>
    BY <1>2 DEF TxFits, LocalsFit
  <2> QED
    BY <1>3, <2>1 DEF MergeFits
<1> QED
  BY <1>1, <1>2, <1>3, <1>4, InHandIs DEF TxFits, Shape, ReportFits, Mine

LEMMA MergeFitsGrow ==
    ASSUME NEW l, NEW text \in Texts, NEW old, NEW new, Grows(old, new),
           MergeFits(l, text, old)
    PROVE  MergeFits(l, text, new)
<1>1. MentionsIn(text) \subseteq Mentions
  BY MentionsAre
<1>2. \A m \in MentionsIn(text) : \A e : Has(old, m, e) => Has(new, m, e)
  BY <1>1, NamesGrow
<1> QED
  BY <1>2 DEF MergeFits, Grows

\* A name gets its row, and the next one is due.
MergeTurn(t) ==
    \E p, l : /\ Turned(t, p, l) /\ p \in Merging \cup {"flush"}
              /\ DOMAIN l = Locals /\ l.outcome = Mine(t).outcome

LEMMA MergedFits ==
    ASSUME IInv, NEW t \in Txs, tx[t].phase \in Merging, file' = file,
           Grows(View(t), View(t)'),
           NEW e, Merged(t, e), Has(View(t)', Head(Mine(t).todo), e)
    PROVE  MergeTurn(t) /\ LocalsFit(t)'
<1> DEFINE rest == Tail(Mine(t).todo)
<1>1. PICK p, l, m :
        /\ p = IF rest = <<>> THEN "flush"
               ELSE IF Head(rest) \in Skills THEN "alias" ELSE "entity"
        /\ l = [Mine(t) EXCEPT !.todo = rest, !.entity = None, !.linked = @ \cup {e}]
        /\ m = Mine(t)
  OBVIOUS
<1>2. Turned(t, p, l)
  BY <1>1, ContinueTurns DEF Merged
<1>3. /\ MergeFits(m, Current(t).text, View(t)) /\ DOMAIN m = Locals
      /\ m.todo # <<>> /\ Current(t).text \in Texts
  BY <1>1, MergeFitsNow
<1>4. /\ DOMAIN l = Locals /\ l.outcome = m.outcome /\ l.person = m.person
      /\ l.held = m.held /\ l.todo = Tail(m.todo) /\ l.linked = m.linked \cup {e}
  BY <1>1, <1>3 DEF Locals
<1>5. p \in Merging \cup {"flush"} /\ p # "register" /\ (p = "flush" <=> l.todo = <<>>)
  BY <1>1, <1>4 DEF Merging
<1>6. Current(t)' = Current(t) /\ tx'[t].phase = p /\ tx'[t].mine = l
  BY <1>2 DEF Turned, Current, RecordNumber
<1>7. MergeFits(m, Current(t).text, View(t)')
  BY <1>3, MergeFitsGrow
<1>8. m.todo \in Seq(Mentions)
  BY <1>3 DEF MergeFits
<1>9. /\ l.todo \in Seq(Mentions)
      /\ \A i \in DOMAIN m.todo : i # 1 => \E j \in DOMAIN l.todo : l.todo[j] = m.todo[i]
      /\ m.todo[1] = Head(m.todo)
  <2>1. /\ Len(m.todo) \in Nat \ {0} /\ DOMAIN m.todo = 1..Len(m.todo)
        /\ l.todo \in Seq(Mentions) /\ Len(l.todo) = Len(m.todo) - 1
        /\ DOMAIN l.todo = 1..(Len(m.todo) - 1)
        /\ \A j \in 1..(Len(m.todo) - 1) : l.todo[j] = m.todo[j + 1]
    BY <1>3, <1>4, <1>8
  <2>2. ASSUME NEW i \in DOMAIN m.todo, i # 1
        PROVE  \E j \in DOMAIN l.todo : l.todo[j] = m.todo[i]
    <3>1. i - 1 \in DOMAIN l.todo /\ l.todo[i - 1] = m.todo[i]
      BY <2>1, <2>2
    <3> QED
      BY <3>1
  <2> QED
    BY <2>1, <2>2
<1>10. MergeFits(l, Current(t).text, View(t)')
  <2>1. ASSUME NEW n \in MentionsIn(Current(t).text)
        PROVE  \/ \E i \in DOMAIN l.todo : l.todo[i] = n
               \/ \E x \in l.linked : Has(View(t)', n, x)
    BY <1>1, <1>4, <1>7, <1>9 DEF MergeFits
  <2> QED
    BY <1>4, <1>7, <1>9, <2>1 DEF MergeFits
<1>11. LocalsFit(t)'
  <2>1. /\ p \notin {"checksum", "write", "resolve", "person", "update", "register"}
        /\ p \in Merging => l.todo # <<>>
        /\ p = "flush" => l.todo = <<>>
    BY <1>5 DEF Merging
  <2> QED
    BY <1>6, <1>10, <2>1 DEF LocalsFit, MergeFits, Mine
<1> QED
  BY <1>1, <1>2, <1>4, <1>5, <1>11 DEF MergeTurn

LEMMA WithEntityFits ==
    ASSUME IInv, NEW t \in Txs, tx[t].phase \in Merging, file' = file,
           Grows(View(t), View(t)'),
           NEW e, WithEntity(t, e), Names(View(t)', Head(Mine(t).todo), e)
    PROVE  MergeTurn(t) /\ LocalsFit(t)'
<1>1. CASE Head(Mine(t).todo) \in Skills
  <2>1. PICK l, m : l = [Mine(t) EXCEPT !.entity = e] /\ m = Mine(t)
    OBVIOUS
  <2>2. Turned(t, "register", l)
    BY <1>1, <2>1, ContinueTurns DEF WithEntity
  <2>3. /\ MergeFits(m, Current(t).text, View(t)) /\ DOMAIN m = Locals
        /\ m.todo # <<>> /\ Current(t).text \in Texts
    BY <2>1, MergeFitsNow
  <2>4. /\ DOMAIN l = Locals /\ l.outcome = m.outcome /\ l.person = m.person
        /\ l.held = m.held /\ l.todo = m.todo /\ l.linked = m.linked /\ l.entity = e
    BY <2>1, <2>3 DEF Locals
  <2>5. MergeFits(m, Current(t).text, View(t)')
    BY <2>3, MergeFitsGrow
  <2>6. MergeFits(l, Current(t).text, View(t)')
    BY <2>4, <2>5 DEF MergeFits
  <2>7. Current(t)' = Current(t) /\ tx'[t].phase = "register" /\ tx'[t].mine = l
    BY <2>2 DEF Turned, Current, RecordNumber
  <2>8. LocalsFit(t)'
    BY <2>1, <2>3, <2>4, <2>6, <2>7 DEF LocalsFit, MergeFits, Mine, Merging
  <2> QED
    BY <2>1, <2>2, <2>4, <2>8 DEF MergeTurn, Merging
<1>2. CASE Head(Mine(t).todo) \notin Skills
  BY <1>2, MergedFits DEF WithEntity, Has
<1> QED
  BY <1>1, <1>2

\* A name has got its row, and nothing was written.
LEMMA MergeTurnStep ==
    ASSUME IInv, NEW t \in Txs, tx[t].phase \in Merging, MergeTurn(t), LocalsFit(t)',
           UNCHANGED <<db, over, file>>
    PROVE  IInv'
<1>1. PICK p, l : /\ Turned(t, p, l) /\ p \in Merging \cup {"flush"}
                  /\ DOMAIN l = Locals /\ l.outcome = Mine(t).outcome
  BY DEF MergeTurn
<1>2. p \in Partial /\ tx[t].phase \in Partial
  BY <1>1 DEF Partial
<1>3. l.outcome \in Outcomes
  BY <1>1, MergeFitsNow DEF Outcomes
<1> QED
  BY <1>1, <1>2, <1>3, TurnStep

LEMMA GrowsNot == \A rows : Grows(rows, rows)
  BY DEF Grows

LEMMA SelectAliasStep ==
    ASSUME IInv, NEW t \in Txs, SelectAlias(t)
    PROVE  IInv'
<1>1. tx[t].phase = "alias" /\ tx[t].phase \in Merging /\ UNCHANGED <<db, over, file>>
  BY DEF SelectAlias, Merging
<1>2. PICK m : m = Head(Mine(t).todo)
  OBVIOUS
<1>3. m \in Mentions /\ View(t)' = View(t)
  BY <1>1, <1>2, MergeFitsNow DEF View
<1>4. Grows(View(t), View(t)')
  BY <1>3, GrowsNot
<1>5. CASE Alias(m) \in DOMAIN View(t) /\ Merged(t, View(t)[Alias(m)])
  <2>1. Has(View(t), m, View(t)[Alias(m)])
    <3>1. Names(View(t), m, View(t)[Alias(m)])
      BY <1>3, <1>5 DEF IInv, TxFits, RowsFit, Fits
    <3> QED
      BY <1>5, <3>1 DEF Has
  <2>2. PICK e : e = View(t)[Alias(m)]
    OBVIOUS
  <2>3. Merged(t, e) /\ Has(View(t)', m, e)
    BY <1>3, <1>5, <2>1, <2>2
  <2>4. MergeTurn(t) /\ LocalsFit(t)'
    BY <1>1, <1>2, <1>4, <2>3, MergedFits
  <2> QED
    BY <1>1, <2>4, MergeTurnStep
<1>6. CASE Continue(t, "entity", Mine(t))
  <2>1. PICK l : l = Mine(t)
    OBVIOUS
  <2>2. Turned(t, "entity", l)
    BY <1>6, <2>1, ContinueTurns
  <2>3. DOMAIN l = Locals /\ "entity" \in Merging
    BY <1>1, <2>1, MergeFitsNow DEF Merging
  <2>4. LocalsFit(t)'
    <3>1. tx'[t].phase = "entity" /\ tx'[t].mine = l /\ Current(t)' = Current(t)
      BY <1>1, <2>2 DEF Turned, Current, RecordNumber
    <3>2. LocalsFit(t)
      BY DEF IInv, TxFits
    <3> QED
      BY <1>1, <1>3, <2>1, <3>1, <3>2 DEF LocalsFit, Mine, Merging
  <2> QED
    BY <1>1, <2>1, <2>2, <2>3, <2>4, MergeTurnStep DEF MergeTurn
<1> QED
  BY <1>2, <1>5, <1>6 DEF SelectAlias

LEMMA SelectEntityStep ==
    ASSUME IInv, NEW t \in Txs, SelectEntity(t)
    PROVE  IInv'
<1>1. tx[t].phase = "entity" /\ tx[t].phase \in Merging /\ UNCHANGED <<db, over, file>>
  BY DEF SelectEntity, Merging
<1>2. PICK m : m = Head(Mine(t).todo)
  OBVIOUS
<1>3. m \in Mentions /\ View(t)' = View(t)
  BY <1>1, <1>2, MergeFitsNow DEF View
<1>4. Grows(View(t), View(t)')
  BY <1>3, GrowsNot
<1>5. ASSUME NEW e \in Entities, e[2] = NameOf[m], e \in DOMAIN View(t), WithEntity(t, e)
      PROVE  IInv'
  <2>1. Names(View(t)', m, e)
    BY <1>3, <1>5 DEF Names
  <2>2. MergeTurn(t) /\ LocalsFit(t)'
    BY <1>1, <1>2, <1>4, <1>5, <2>1, WithEntityFits
  <2> QED
    BY <1>1, <2>2, MergeTurnStep
<1>6. CASE Continue(t, "insert", Mine(t))
  <2>1. PICK l : l = Mine(t)
    OBVIOUS
  <2>2. Turned(t, "insert", l)
    BY <1>6, <2>1, ContinueTurns
  <2>3. DOMAIN l = Locals /\ "insert" \in Merging
    BY <1>1, <2>1, MergeFitsNow DEF Merging
  <2>4. LocalsFit(t)'
    <3>1. tx'[t].phase = "insert" /\ tx'[t].mine = l /\ Current(t)' = Current(t)
      BY <1>1, <2>2 DEF Turned, Current, RecordNumber
    <3>2. LocalsFit(t)
      BY DEF IInv, TxFits
    <3> QED
      BY <1>1, <1>3, <2>1, <3>1, <3>2 DEF LocalsFit, Mine, Merging
  <2> QED
    BY <1>1, <2>1, <2>2, <2>3, <2>4, MergeTurnStep DEF MergeTurn
<1> QED
  BY <1>2, <1>5, <1>6 DEF SelectEntity

LEMMA EmbeddedStep ==
    ASSUME IInv, NEW t \in Txs, Embedded(t)
    PROVE  IInv'
<1>1. TxFits(t) /\ DOMAIN tx = Txs /\ DOMAIN over = Txs
  BY DEF IInv
<1>2. /\ tx[t].phase = "embed" /\ tx[t].phase \in Inside /\ over' = over
      /\ Conclude(t, Mine(t).outcome)
  BY DEF Embedded, Inside
<1>3. OnlyOf(t) /\ Remaining(t)
  BY <1>1, <1>2 DEF Embedded, Conclude, OnlyOf, TxFits, Shape
<1>4. Locked'
  BY <1>2, <1>3, LocksStay
<1>5. Fits(View(t)', Keys)
  <2>1. InHand(t) = {} /\ Keys \ {} = Keys
    BY <1>2 DEF InHand, Partial, Merging
  <2> QED
    BY <1>1, <1>2, <1>3, <2>1 DEF TxFits, RowsFit, View, OnlyOf
<1>6. PICK base, outcome : base = tx[t].saved /\ outcome = Mine(t).outcome
  OBVIOUS
<1>7. /\ Told(t, base) /\ outcome \in Outcomes
      /\ \A k \in Keys \ {Current(t).key} : Kept(t, k)
      /\ outcome \notin Writing => Kept(t, Current(t).key)
      /\ outcome \in Writing =>
            LET doc == Doc(Current(t).key)
            IN  doc \in DOMAIN over[t] /\ over[t][doc].text = Current(t).text
  BY <1>1, <1>2, <1>6 DEF TxFits, ReportFits, Shape, Mine
<1>8. \A k \in Keys : k # Current(t).key \/ outcome \notin Writing =>
         (Doc(k) \in DOMAIN base =>
            Doc(k) \in DOMAIN over'[t] /\ over'[t][Doc(k)] = base[Doc(k)])
  BY <1>2, <1>6, <1>7 DEF Kept
<1> QED
  BY <1>2, <1>3, <1>4, <1>5, <1>6, <1>7, <1>8, ConcludeStep

-----------------------------------------------------------------------------
(* The steps that write *)

LEMMA OntoTwice ==
    ASSUME NEW a, NEW b, NEW c
    PROVE  Onto(Onto(a, b), c) = Onto(a, Onto(b, c))
<1> DEFINE L == Onto(Onto(a, b), c)
           R == Onto(a, Onto(b, c))
<1>1. DOMAIN L = DOMAIN R
  BY DEF Onto
<1>2. \A r \in DOMAIN L : L[r] = R[r]
  BY DEF Onto
<1>3. L = [r \in DOMAIN L |-> L[r]] /\ R = [r \in DOMAIN R |-> R[r]]
  BY DEF Onto
<1> HIDE DEF L, R
<1>4. L = R
  BY <1>1, <1>2, <1>3
<1> QED
  BY <1>4 DEF L, R

\* A statement writes the row of no document but the one in hand, and aliases
\* that nobody had and that lead to the name's entity.
Sound(t) ==
    /\ \A k \in Keys : Doc(k) \in DOMAIN Statement(t) => k = Current(t).key
    /\ \A m \in Mentions : Alias(m) \in DOMAIN Statement(t) =>
          Alias(m) \notin Updates(t) /\ Names(View(t), m, Statement(t)[Alias(m)])

LEMMA ExecuteLeaves ==
    ASSUME IInv, NEW t \in Txs, tx[t].phase \in Inside, Execute(t), OnlyOf(t), Sound(t)
    PROVE  /\ Fits(View(t)', Keys \ {Current(t).key})
           /\ Grows(View(t), View(t)') /\ Locked'
           /\ View(t)' = Onto(Statement(t), View(t))
           /\ over'[t] = Onto(Statement(t), over[t])
<1>1. over'[t] = Onto(Statement(t), over[t])
  BY DEF Execute, IInv
<1>2. View(t)' = Onto(Statement(t), View(t))
  BY <1>1, OntoTwice DEF View, OnlyOf
<1>3. PICK new : new = Statement(t)
  OBVIOUS
<1>4. \A m \in Mentions : Alias(m) \in DOMAIN new => Alias(m) \notin DOMAIN View(t)
  BY <1>3 DEF Sound, Execute, Violates
<1>5. DOMAIN View(t) = DOMAIN over[t] \cup DOMAIN db
  BY OntoIs DEF View
<1>6. Current(t).key \in Keys
  BY InHandIs DEF IInv, TxFits, Shape
<1>7. Fits(View(t), Keys \ {Current(t).key})
  <2>1. InHand(t) \subseteq {Current(t).key}
    BY DEF InHand
  <2>2. Fits(View(t), Keys \ InHand(t))
    BY DEF IInv, TxFits, RowsFit
  <2> QED
    BY <2>1, <2>2 DEF Fits
<1>8. /\ Fits(Onto(new, View(t)), Keys \ {Current(t).key})
      /\ Grows(View(t), Onto(new, View(t)))
  <2>1. PICK rows, keys : rows = View(t) /\ keys = Keys \ {Current(t).key}
    OBVIOUS
  <2>2. DOMAIN rows \subseteq DOMAIN Onto(new, rows)
    BY OntoIs
  <2>3. \A m \in Mentions : Alias(m) \in DOMAIN new =>
           Alias(m) \notin DOMAIN rows /\ Names(Onto(new, rows), m, new[Alias(m)])
    BY <1>3, <1>4, <2>1, <2>2 DEF Sound, Names
  <2>4. \A k \in keys : Doc(k) \notin DOMAIN new
    BY <1>3, <2>1 DEF Sound
  <2>5. keys \in SUBSET Keys /\ Fits(rows, keys)
    BY <1>7, <2>1
  <2>6. Fits(Onto(new, rows), keys) /\ Grows(rows, Onto(new, rows))
    BY <2>3, <2>4, <2>5, OnTopFits
  <2> QED
    BY <2>1, <2>6
<1>9. Locked'
  <2>1. \A m \in Mentions : Alias(m) \in DOMAIN new => \A u \in Txs \ {t} :
           Alias(m) \notin DOMAIN over[u]
    <3>1. SUFFICES ASSUME NEW m \in Mentions, Alias(m) \in DOMAIN new,
                          NEW u \in Txs \ {t}, Alias(m) \in DOMAIN over[u]
                   PROVE  u \in WaitsFor(t)
      BY DEF Execute
    <3>2. Alias(m) \in KeysIn(Statement(t))
      BY <1>3, <3>1 DEF KeysIn, UniqueKeys
    <3>3. Alias(m) \in UniqueKeys(Alias(m), over[u][Alias(m)])
      BY DEF UniqueKeys
    <3> QED
      BY <3>1, <3>2, <3>3 DEF WaitsFor
  <2>2. DOMAIN over'[t] = DOMAIN new \cup DOMAIN over[t]
    BY <1>1, <1>3, OntoIs
  <2> QED
    BY <1>4, <1>5, <2>1, <2>2 DEF IInv, Locked, OnlyOf
<1> QED
  BY <1>1, <1>2, <1>3, <1>8, <1>9

\* The document goes on, half written.
LEMMA WriteStep ==
    ASSUME IInv, NEW t \in Txs, tx[t].phase \in {"write"} \cup Partial,
           Execute(t), Sound(t), UNCHANGED <<db, file>>,
           NEW p \in Partial, NEW l, Turned(t, p, l),
           DOMAIN l = Locals, l.outcome \in Writing, LocalsFit(t)'
    PROVE  IInv'
<1>1. TxFits(t) /\ tx[t].phase \in Inside /\ p \in Inside /\ p \in Phases
  BY DEF IInv, Inside, Before, Phases
<1>2. OnlyOf(t)
  BY DEF OnlyOf, Turned, Execute, IInv
<1>3. /\ Fits(View(t)', Keys \ {Current(t).key}) /\ Locked'
      /\ over'[t] = Onto(Statement(t), over[t])
  BY <1>1, <1>2, ExecuteLeaves
<1>4. PICK s, d : s = tx[t].saved /\ d = Current(t)
  OBVIOUS
<1>5. /\ tx'[t].saved = s /\ Current(t)' = d /\ tx'[t].phase = p /\ tx'[t].mine = l
      /\ Remaining(t)' = Remaining(t) /\ tx'[t].report = tx[t].report
      /\ DOMAIN tx'[t] = Fields
  BY <1>4 DEF Turned, Current, RecordNumber, Remaining
<1>6. p # "idle" /\ p # "next" /\ p # "embed" /\ p \notin Before
  BY DEF Partial, Merging, Before
<1>7. Shape(t)'
  BY <1>1, <1>5, <1>6 DEF TxFits, Shape, Outcomes
<1>8. /\ DOMAIN over'[t] = DOMAIN Statement(t) \cup DOMAIN over[t]
      /\ \A r \in DOMAIN over[t] \ DOMAIN Statement(t) : over'[t][r] = over[t][r]
  <2>1. PICK new, old : new = Statement(t) /\ old = over[t]
    OBVIOUS
  <2>2. over'[t] = Onto(new, old)
    BY <1>3, <2>1
  <2>3. /\ DOMAIN Onto(new, old) = DOMAIN new \cup DOMAIN old
        /\ \A r \in DOMAIN old \ DOMAIN new : Onto(new, old)[r] = old[r]
    BY OntoIs
  <2> QED
    BY <2>1, <2>2, <2>3
<1>9. RowsFit(t)'
  <2>1. InHand(t)' = {d.key}
    BY <1>5 DEF InHand
  <2>2. Fits(Onto(s, db), Keys) /\ DOMAIN s \subseteq DOMAIN over[t]
    BY <1>1, <1>4 DEF TxFits, RowsFit
  <2> QED
    BY <1>3, <1>4, <1>5, <1>8, <2>1, <2>2 DEF RowsFit, OnlyOf
<1>10. ReportFits(t)'
  <2>1. Told(t, s) => Told(t, s)'
    BY <1>5 DEF Told, Written
  <2>2. Told(t, tx[t].saved)'
    BY <1>1, <1>4, <1>5, <2>1 DEF TxFits, ReportFits
  <2>3. ASSUME NEW k \in Keys \ {d.key} PROVE Kept(t, k)'
    <3>1. Kept(t, k) /\ Doc(k) \notin DOMAIN Statement(t)
      BY <1>1, <1>4, <2>3 DEF TxFits, ReportFits, Sound
    <3>2. Doc(k) \in DOMAIN over[t] =>
             Doc(k) \in DOMAIN over'[t] /\ over'[t][Doc(k)] = over[t][Doc(k)]
      BY <1>8, <3>1
    <3> QED
      BY <1>4, <1>5, <3>1, <3>2 DEF Kept
  <2> QED
    BY <1>5, <1>6, <2>2, <2>3 DEF ReportFits, Mine
<1> QED
  BY <1>2, <1>3, <1>7, <1>9, <1>10, OthersStay DEF TxFits

LEMMA RowIs ==
    ASSUME NEW r, NEW content
    PROVE  DOMAIN Row(r, content) = {r} /\ Row(r, content)[r] = content
  BY DEF Row

\* What the statement of each phase writes.
LEMMA StatementIs ==
    ASSUME NEW t \in Txs
    PROVE  LET d == Current(t)
               l == Mine(t)
           IN  /\ tx[t].phase = "write" => DOMAIN Statement(t) = {Doc(d.key)}
               /\ tx[t].phase = "person" => DOMAIN Statement(t) = {Person(d.key)}
               /\ tx[t].phase = "update" => DOMAIN Statement(t) \subseteq {Person(l.person)}
               /\ tx[t].phase = "insert" =>
                     DOMAIN Statement(t)
                       = {Entity(NameOf[Head(l.todo)], t, RecordNumber(t))}
               /\ tx[t].phase = "register" =>
                     /\ DOMAIN Statement(t) = {Alias(Head(l.todo))}
                     /\ Statement(t)[Alias(Head(l.todo))] = l.entity
                     /\ Updates(t) = {}
               /\ tx[t].phase = "flush" =>
                     Statement(t) =
                       Onto(Rows({Link(l.person, e) : e \in l.linked \ l.held}),
                            Row(Doc(d.key), [text |-> d.text, person |-> l.person]))
<1>1. tx[t].phase = "write" => DOMAIN Statement(t) = {Doc(Current(t).key)}
  BY RowIs DEF Statement
<1>2. tx[t].phase = "person" => DOMAIN Statement(t) = {Person(Current(t).key)}
  BY RowIs DEF Statement
<1>3. tx[t].phase = "update" => DOMAIN Statement(t) \subseteq {Person(Mine(t).person)}
  <2>1. CASE Mine(t).identity # IdentityOf[Current(t).text]
    BY <2>1, RowIs DEF Statement
  <2>2. CASE Mine(t).identity = IdentityOf[Current(t).text]
    <3>1. tx[t].phase = "update" => Statement(t) = NoRows
      BY <2>2 DEF Statement
    <3> QED
      BY <3>1, NoRowsAreEmpty
  <2> QED
    BY <2>1, <2>2
<1>4. tx[t].phase = "insert" =>
        DOMAIN Statement(t) = {Entity(NameOf[Head(Mine(t).todo)], t, RecordNumber(t))}
  BY RowIs DEF Statement
<1>5. tx[t].phase = "register" =>
        /\ Statement(t) = Row(Alias(Head(Mine(t).todo)), Mine(t).entity)
        /\ Updates(t) = {}
  BY DEF Statement, Updates
<1>6. tx[t].phase = "flush" =>
        Statement(t) =
          Onto(Rows({Link(Mine(t).person, e) : e \in Mine(t).linked \ Mine(t).held}),
               Row(Doc(Current(t).key),
                   [text |-> Current(t).text, person |-> Mine(t).person]))
  BY DEF Statement
<1> QED
  BY <1>1, <1>2, <1>3, <1>4, <1>5, <1>6, RowIs

\* A row of a person or of an entity is no document and no alias.
LEMMA PlainRowsAreSound ==
    ASSUME NEW t \in Txs, NEW r, DOMAIN Statement(t) \subseteq {r},
           r[1] \in {"person", "entity"}
    PROVE  Sound(t)
<1>1. ASSUME NEW k PROVE Doc(k) # r /\ Alias(k) # r
  <2>1. Doc(k)[1] = "document" /\ Alias(k)[1] = "alias"
    BY DEF Doc, Alias
  <2> QED
    BY <2>1
<1> QED
  BY <1>1 DEF Sound

LEMMA WriteDocumentStep ==
    ASSUME IInv, NEW t \in Txs, WriteDocument(t)
    PROVE  IInv'
<1>1. /\ tx[t].phase = "write" /\ tx[t].phase \in Inside /\ Execute(t)
      /\ UNCHANGED <<db, file>>
  BY DEF WriteDocument, Inside, Before
<1>2. PICK l : l = [Mine(t) EXCEPT !.outcome = IF Mine(t).doc = None THEN "created"
                                               ELSE "updated"]
  OBVIOUS
<1>3. Turned(t, "resolve", l)
  BY <1>2, ContinueTurns DEF WriteDocument
<1>4. DOMAIN Mine(t) = Locals /\ LocalsFit(t)
  BY DEF IInv, TxFits, Shape, Mine
<1>5. /\ DOMAIN l = Locals /\ l.outcome \in Writing /\ l.doc = Mine(t).doc
      /\ l.held = Mine(t).held
  BY <1>2, <1>4 DEF Locals, Writing
<1>6. Sound(t)
  <2>1. DOMAIN Statement(t) = {Doc(Current(t).key)}
    BY <1>1, StatementIs
  <2>2. \A k, m : Alias(m) # Doc(k)
    BY DEF Alias, Doc
  <2>3. \A k, n : Doc(n) = Doc(k) => n = k
    BY DEF Doc
  <2> QED
    BY <2>1, <2>2, <2>3 DEF Sound
<1>7. OnlyOf(t)
  BY <1>1, <1>3 DEF OnlyOf, Turned, Execute, IInv
<1>8. Grows(View(t), View(t)')
  BY <1>1, <1>6, <1>7, ExecuteLeaves
<1>9. LocalsFit(t)'
  <2>1. tx'[t].phase = "resolve" /\ tx'[t].mine = l
    BY <1>3 DEF Turned
  <2>2. \A r : r \in DOMAIN View(t) => r \in DOMAIN View(t)'
    BY <1>8 DEF Grows
  <2>3. /\ l.doc # None => l.doc.person \in Keys /\ Person(l.doc.person) \in DOMAIN View(t)
        /\ l.held = {}
    BY <1>1, <1>4, <1>5 DEF LocalsFit
  <2> QED
    BY <2>1, <2>2, <2>3 DEF LocalsFit, Mine, Merging
<1> QED
  BY <1>1, <1>3, <1>5, <1>6, <1>9, WriteStep DEF Partial

\* The merge begins, with all names of the text to come.
LEMMA StartMergeFits ==
    ASSUME IInv, NEW t \in Txs, tx[t].phase \in Inside, file' = file,
           NEW l, DOMAIN l = Locals, StartMerge(t, l),
           l.person \in Keys, Person(l.person) \in DOMAIN View(t)',
           \A e \in l.held : Link(l.person, e) \in DOMAIN View(t)'
    PROVE  /\ LocalsFit(t)'
           /\ \E p \in Merging \cup {"flush"} : \E k :
                 Turned(t, p, k) /\ DOMAIN k = Locals /\ k.outcome = l.outcome
<1> DEFINE text == Current(t).text
           names == MentionsOf[text]
<1>1. text \in Texts
  BY InHandIs DEF IInv, TxFits, Shape
<1>2. names \in Seq(Mentions)
  BY <1>1, MentionsAre
<1>3. PICK p, k : /\ p = IF names = <<>> THEN "flush"
                         ELSE IF Head(names) \in Skills THEN "alias" ELSE "entity"
                  /\ k = [l EXCEPT !.todo = names]
  OBVIOUS
<1>4. Turned(t, p, k)
  BY <1>3, ContinueTurns DEF StartMerge
<1>5. /\ DOMAIN k = Locals /\ k.outcome = l.outcome /\ k.person = l.person
      /\ k.held = l.held /\ k.todo = names
  BY <1>3 DEF Locals
<1>6. Current(t)' = Current(t) /\ tx'[t].phase = p /\ tx'[t].mine = k
  BY <1>4 DEF Turned, Current, RecordNumber
<1>7. /\ p \in Merging \cup {"flush"} /\ p \notin {"register"}
      /\ p = "flush" <=> names = <<>>
  BY <1>3 DEF Merging
<1>8. \A m \in MentionsIn(text) : \E i \in DOMAIN names : names[i] = m
  BY DEF MentionsIn
<1> HIDE DEF names
<1>9. LocalsFit(t)'
  <2>1. p \notin {"checksum", "write", "resolve", "person", "update", "register"}
    BY <1>7 DEF Merging
  <2>2. (p \in Merging => names # <<>>) /\ (p = "flush" => names = <<>>)
    BY <1>7 DEF Merging
  <2> HIDE DEF text
  <2>3. Current(t)'.text = text
    BY <1>6 DEF text
  <2> QED
    BY <1>2, <1>5, <1>6, <1>7, <1>8, <2>1, <2>2, <2>3 DEF LocalsFit, Mine
<1> QED
  BY <1>4, <1>5, <1>7, <1>9

LEMMA InsertPersonStep ==
    ASSUME IInv, NEW t \in Txs, InsertPerson(t)
    PROVE  IInv'
<1>1. /\ tx[t].phase = "person" /\ tx[t].phase \in Inside /\ tx[t].phase \in Partial
      /\ Execute(t) /\ UNCHANGED <<db, file>>
  BY DEF InsertPerson, Inside, Partial
<1>2. PICK l : l = [Mine(t) EXCEPT !.person = Current(t).key]
  OBVIOUS
<1>3. StartMerge(t, l)
  BY <1>2 DEF InsertPerson
<1>4. TxFits(t) /\ Remaining(t) /\ Mine(t).outcome \in Writing
  BY <1>1 DEF IInv, TxFits, Shape, ReportFits
<1>5. DOMAIN l = Locals /\ l.outcome = Mine(t).outcome /\ l.held = {} /\ l.person = Current(t).key
  BY <1>1, <1>2, <1>4 DEF TxFits, Shape, LocalsFit, Mine, Locals
<1>6. Sound(t)
  <2>1. PICK r : r = Person(Current(t).key)
    OBVIOUS
  <2>2. DOMAIN Statement(t) \subseteq {r} /\ r[1] \in {"person", "entity"}
    BY <1>1, <2>1, StatementIs DEF Person
  <2> QED
    BY <2>2, PlainRowsAreSound
<1>7. OnlyOf(t)
  BY <1>1, <1>3 DEF OnlyOf, StartMerge, Continue, Execute, IInv
<1>8. View(t)' = Onto(Statement(t), View(t))
  BY <1>1, <1>6, <1>7, ExecuteLeaves
<1>9. l.person \in Keys /\ Person(l.person) \in DOMAIN View(t)'
  BY <1>1, <1>4, <1>5, <1>8, StatementIs, InHandIs DEF Onto
<1>10. /\ LocalsFit(t)'
       /\ \E p \in Merging \cup {"flush"} : \E k :
             Turned(t, p, k) /\ DOMAIN k = Locals /\ k.outcome = l.outcome
  BY <1>1, <1>3, <1>5, <1>9, StartMergeFits
<1> QED
  BY <1>1, <1>4, <1>5, <1>6, <1>10, WriteStep DEF Partial

LEMMA UpdatePersonStep ==
    ASSUME IInv, NEW t \in Txs, UpdatePerson(t)
    PROVE  IInv'
<1>1. /\ tx[t].phase = "update" /\ tx[t].phase \in Inside /\ tx[t].phase \in Partial
      /\ Execute(t) /\ UNCHANGED <<db, file>>
  BY DEF UpdatePerson, Inside, Partial
<1>2. PICK l : l = Mine(t)
  OBVIOUS
<1>3. StartMerge(t, l)
  BY <1>2 DEF UpdatePerson
<1>4. TxFits(t) /\ Mine(t).outcome \in Writing
  BY <1>1 DEF IInv, TxFits, ReportFits
<1>5. DOMAIN l = Locals
  BY <1>2, <1>4 DEF TxFits, Shape, Mine
<1>6. Sound(t)
  <2>1. PICK r : r = Person(Mine(t).person)
    OBVIOUS
  <2>2. DOMAIN Statement(t) \subseteq {r} /\ r[1] \in {"person", "entity"}
    BY <1>1, <2>1, StatementIs DEF Person
  <2> QED
    BY <2>2, PlainRowsAreSound
<1>7. OnlyOf(t)
  BY <1>1, <1>3 DEF OnlyOf, StartMerge, Continue, Execute, IInv
<1>8. Grows(View(t), View(t)')
  BY <1>1, <1>6, <1>7, ExecuteLeaves
<1>9. /\ l.person \in Keys /\ Person(l.person) \in DOMAIN View(t)'
      /\ \A e \in l.held : Link(l.person, e) \in DOMAIN View(t)'
  BY <1>1, <1>2, <1>4, <1>8 DEF TxFits, LocalsFit, Grows
<1>10. /\ LocalsFit(t)'
       /\ \E p \in Merging \cup {"flush"} : \E k :
             Turned(t, p, k) /\ DOMAIN k = Locals /\ k.outcome = l.outcome
  BY <1>1, <1>3, <1>5, <1>9, StartMergeFits
<1> QED
  BY <1>1, <1>2, <1>4, <1>6, <1>10, WriteStep DEF Partial

\* A statement of the merge is followed by the next name.
LEMMA MergeWriteStep ==
    ASSUME IInv, NEW t \in Txs, tx[t].phase \in Merging, Execute(t), Sound(t),
           UNCHANGED <<db, file>>, MergeTurn(t), LocalsFit(t)'
    PROVE  IInv'
<1>1. tx[t].phase \in Partial /\ Mine(t).outcome \in Writing
  BY MergeFitsNow
<1>2. PICK p, l : /\ Turned(t, p, l) /\ p \in Merging \cup {"flush"}
                  /\ DOMAIN l = Locals /\ l.outcome = Mine(t).outcome
  BY DEF MergeTurn
<1>3. p \in Partial
  BY <1>2 DEF Partial
<1> QED
  BY <1>1, <1>2, <1>3, WriteStep

LEMMA InsertEntityStep ==
    ASSUME IInv, NEW t \in Txs, InsertEntity(t)
    PROVE  IInv'
<1>1. /\ tx[t].phase = "insert" /\ tx[t].phase \in Merging /\ tx[t].phase \in Inside
      /\ Execute(t) /\ UNCHANGED <<db, file>>
  BY DEF InsertEntity, Merging, Inside, Partial
<1>2. PICK m, e : m = Head(Mine(t).todo) /\ e = Entity(NameOf[m], t, RecordNumber(t))
  OBVIOUS
<1>3. WithEntity(t, e)
  BY <1>2 DEF InsertEntity
<1>4. m \in Mentions /\ Remaining(t)
  BY <1>1, <1>2, MergeFitsNow
<1>5. Sound(t)
  <2>1. DOMAIN Statement(t) \subseteq {e}
    BY <1>1, <1>2, StatementIs
  <2>2. e[1] \in {"person", "entity"}
    BY <1>2 DEF Entity
  <2> QED
    BY <2>1, <2>2, PlainRowsAreSound
<1>6. OnlyOf(t)
  BY <1>1, <1>3 DEF OnlyOf, WithEntity, Merged, Continue, Execute, IInv
<1>7. View(t)' = Onto(Statement(t), View(t)) /\ Grows(View(t), View(t)')
  BY <1>1, <1>5, <1>6, ExecuteLeaves
<1>8. Names(View(t)', m, e)
  <2>1. e \in DOMAIN View(t)'
    BY <1>1, <1>2, <1>7, StatementIs DEF Onto
  <2>2. e \in Entities
    BY <1>2, <1>4, InHandIs DEF Entities
  <2>3. e[2] = NameOf[m]
    BY <1>2 DEF Entity
  <2> QED
    BY <2>1, <2>2, <2>3 DEF Names
<1>9. MergeTurn(t) /\ LocalsFit(t)'
  BY <1>1, <1>2, <1>3, <1>7, <1>8, WithEntityFits
<1> QED
  BY <1>1, <1>5, <1>9, MergeWriteStep

LEMMA InsertAliasStep ==
    ASSUME IInv, NEW t \in Txs, InsertAlias(t)
    PROVE  IInv'
<1>1. /\ tx[t].phase = "register" /\ tx[t].phase \in Merging /\ tx[t].phase \in Inside
      /\ Execute(t) /\ UNCHANGED <<db, file>>
  BY DEF InsertAlias, Merging, Inside, Partial
<1>2. PICK m, e : m = Head(Mine(t).todo) /\ e = Mine(t).entity
  OBVIOUS
<1>3. Merged(t, e)
  BY <1>2 DEF InsertAlias
<1>4. m \in Mentions /\ Names(View(t), m, e)
  BY <1>1, <1>2, MergeFitsNow DEF IInv, TxFits, LocalsFit
<1>5. Sound(t)
  <2>1. /\ DOMAIN Statement(t) = {Alias(m)} /\ Statement(t)[Alias(m)] = e
        /\ Updates(t) = {}
    BY <1>1, <1>2, StatementIs
  <2>2. \A k, n : Alias(n) # Doc(k)
    BY DEF Alias, Doc
  <2>3. \A n : Alias(n) = Alias(m) => n = m
    BY DEF Alias
  <2> QED
    BY <1>4, <2>1, <2>2, <2>3 DEF Sound
<1>6. OnlyOf(t)
  BY <1>1, <1>3 DEF OnlyOf, Merged, Continue, Execute, IInv
<1>7. View(t)' = Onto(Statement(t), View(t)) /\ Grows(View(t), View(t)')
  BY <1>1, <1>5, <1>6, ExecuteLeaves
<1>8. Has(View(t)', m, e)
  <2>1. Alias(m) \in DOMAIN View(t)' /\ View(t)'[Alias(m)] = e
    BY <1>1, <1>2, <1>7, StatementIs DEF Onto
  <2>2. Names(View(t)', m, e)
    BY <1>4, <1>7 DEF Names, Grows
  <2> QED
    BY <2>1, <2>2 DEF Has
<1>9. MergeTurn(t) /\ LocalsFit(t)'
  BY <1>1, <1>2, <1>3, <1>7, <1>8, MergedFits
<1> QED
  BY <1>1, <1>5, <1>9, MergeWriteStep

\* The last flush completes the document: every name merged is linked.
LEMMA FlushStep ==
    ASSUME IInv, NEW t \in Txs, Flush(t)
    PROVE  IInv'
<1>1. /\ tx[t].phase = "flush" /\ tx[t].phase \in Inside /\ tx[t].phase \in Partial
      /\ Execute(t) /\ Return(t, Mine(t).outcome) /\ UNCHANGED <<db, file>>
  BY DEF Flush, Inside, Partial
<1>2. /\ TxFits(t) /\ Remaining(t) /\ Mine(t).outcome \in Writing
      /\ DOMAIN tx = Txs /\ DOMAIN over = Txs
  BY <1>1 DEF IInv, TxFits, Shape, ReportFits
<1>3. PICK d, l, new, s : /\ d = Current(t) /\ l = Mine(t) /\ new = Statement(t)
                          /\ s = tx[t].saved
  OBVIOUS
<1>4. d.key \in Keys /\ d.text \in Texts
  BY <1>2, <1>3, InHandIs
<1>5. /\ DOMAIN new = {Link(l.person, e) : e \in l.linked \ l.held} \cup {Doc(d.key)}
      /\ new[Doc(d.key)] = [text |-> d.text, person |-> l.person]
  <2>1. PICK links, row : /\ links = {Link(l.person, e) : e \in l.linked \ l.held}
                          /\ row = [text |-> d.text, person |-> l.person]
    OBVIOUS
  <2>2. new = Onto(Rows(links), Row(Doc(d.key), row))
    BY <1>1, <1>3, <2>1, StatementIs
  <2>3. DOMAIN Rows(links) = links
    BY DEF Rows
  <2>4. \A p, e : Link(p, e) # Doc(d.key)
    BY DEF Link, Doc
  <2>5. Doc(d.key) \notin links
    BY <2>1, <2>4
  <2>6. /\ DOMAIN Row(Doc(d.key), row) = {Doc(d.key)}
        /\ Row(Doc(d.key), row)[Doc(d.key)] = row
    BY RowIs
  <2>7. DOMAIN new = links \cup {Doc(d.key)} /\ new[Doc(d.key)] = row
    BY <2>2, <2>3, <2>5, <2>6 DEF Onto
  <2> QED
    BY <2>1, <2>7
<1>6. Sound(t)
  <2>1. ASSUME NEW k, Doc(k) \in DOMAIN new PROVE k = d.key
    BY <1>5, <2>1 DEF Link, Doc
  <2>2. ASSUME NEW m PROVE Alias(m) \notin DOMAIN new
    BY <1>5 DEF Link, Doc, Alias
  <2> QED
    BY <1>3, <2>1, <2>2 DEF Sound
<1>7. OnlyOf(t)
  BY <1>1, <1>2 DEF OnlyOf, Return, Continue, Conclude, Execute
<1>8. /\ Fits(View(t)', Keys \ {d.key}) /\ Grows(View(t), View(t)') /\ Locked'
      /\ View(t)' = Onto(new, View(t)) /\ over'[t] = Onto(new, over[t])
  BY <1>1, <1>3, <1>6, <1>7, ExecuteLeaves
<1>9. PICK old, now, mine : /\ old = View(t) /\ now = View(t)' /\ mine = over[t]
  OBVIOUS
<1>10. /\ DOMAIN now = DOMAIN new \cup DOMAIN old /\ now[Doc(d.key)] = new[Doc(d.key)]
       /\ Grows(old, now)
  <2>1. now = Onto(new, old) /\ Grows(old, now)
    BY <1>8, <1>9
  <2>2. /\ DOMAIN Onto(new, old) = DOMAIN new \cup DOMAIN old
        /\ \A r \in DOMAIN new : Onto(new, old)[r] = new[r]
    BY OntoIs
  <2> QED
    BY <1>5, <2>1, <2>2
<1>11. Whole(now, new[Doc(d.key)])
  <2>1. /\ l.person \in Keys /\ Person(l.person) \in DOMAIN old
        /\ \A e \in l.held : Link(l.person, e) \in DOMAIN old
        /\ l.todo = <<>>
        /\ \A m \in MentionsIn(d.text) : \/ \E i \in DOMAIN l.todo : l.todo[i] = m
                                         \/ \E e \in l.linked : Has(old, m, e)
    BY <1>1, <1>2, <1>3, <1>9 DEF TxFits, LocalsFit
  <2>2. ASSUME NEW m \in MentionsIn(d.text)
        PROVE  \E e \in Entities : Has(now, m, e) /\ Link(l.person, e) \in DOMAIN now
    <3>1. DOMAIN l.todo = {}
      BY <2>1
    <3>2. PICK e \in l.linked : Has(old, m, e)
      BY <2>1, <3>1
    <3>3. m \in Mentions
      BY <1>4, MentionsAre
    <3>4. Has(now, m, e)
      BY <1>10, <3>2, <3>3, NamesGrow
    <3>5. Link(l.person, e) \in DOMAIN now
      BY <1>5, <1>10, <2>1
    <3> QED
      BY <3>4, <3>5 DEF Has, Names
  <2> QED
    BY <1>4, <1>5, <1>10, <2>1, <2>2 DEF Whole
<1>12. Fits(now, Keys)
  <2>1. Fits(now, Keys \ {d.key})
    BY <1>8, <1>9
  <2> QED
    BY <1>10, <1>11, <2>1 DEF Fits
<1>13. /\ Doc(d.key) \in DOMAIN over'[t] /\ over'[t][Doc(d.key)].text = d.text
       /\ \A k \in Keys : k # d.key =>
             (Doc(k) \in DOMAIN s =>
                Doc(k) \in DOMAIN over'[t] /\ over'[t][Doc(k)] = s[Doc(k)])
  <2>1. over'[t] = Onto(new, mine)
    BY <1>8, <1>9
  <2>2. \A k \in Keys : k # d.key =>
           (Doc(k) \in DOMAIN s => Doc(k) \in DOMAIN mine /\ mine[Doc(k)] = s[Doc(k)])
    BY <1>1, <1>2, <1>3, <1>9 DEF TxFits, ReportFits, Kept
  <2>3. \A k \in Keys : Doc(k) \in DOMAIN new => k = d.key
    BY <1>3, <1>6 DEF Sound
  <2>4. /\ \A r \in DOMAIN new : r \in DOMAIN over'[t] /\ over'[t][r] = new[r]
        /\ \A r \in DOMAIN mine \ DOMAIN new :
              r \in DOMAIN over'[t] /\ over'[t][r] = mine[r]
    <3>1. /\ DOMAIN Onto(new, mine) = DOMAIN new \cup DOMAIN mine
          /\ \A r \in DOMAIN new : Onto(new, mine)[r] = new[r]
          /\ \A r \in DOMAIN mine \ DOMAIN new : Onto(new, mine)[r] = mine[r]
      BY OntoIs
    <3> QED
      BY <2>1, <3>1
  <2> QED
    BY <1>5, <2>2, <2>3, <2>4
<1>14. Told(t, s) /\ l.outcome \in Writing
  BY <1>1, <1>2, <1>3 DEF TxFits, ReportFits
<1>15. CASE Conclude(t, Mine(t).outcome)
  <2>1. PICK outcome \in Outcomes : outcome = Mine(t).outcome /\ outcome \in Writing
    BY <1>2 DEF Outcomes
  <2>2. Conclude(t, outcome)
    BY <1>15, <2>1
  <2>3. Fits(View(t)', Keys)
    BY <1>9, <1>12
  <2> QED
    BY <1>2, <1>3, <1>7, <1>8, <1>13, <1>14, <2>1, <2>2, <2>3, ConcludeStep
<1>16. CASE Continue(t, "embed", [NoLocals EXCEPT !.outcome = Mine(t).outcome])
  <2>1. PICK k : k = [NoLocals EXCEPT !.outcome = Mine(t).outcome]
    OBVIOUS
  <2>2. Turned(t, "embed", k)
    BY <1>16, <2>1, ContinueTurns
  <2>3. DOMAIN k = Locals /\ k.outcome \in Writing
    BY <1>2, <2>1 DEF NoLocals, Locals
  <2>4. /\ tx'[t].saved = s /\ Current(t)' = d /\ tx'[t].phase = "embed"
        /\ tx'[t].mine = k /\ Remaining(t)' = Remaining(t)
        /\ tx'[t].report = tx[t].report /\ DOMAIN tx'[t] = Fields
    BY <1>1, <1>3, <2>2 DEF Turned, Current, RecordNumber, Remaining
  <2>5. /\ "embed" \in Phases /\ "embed" \in Inside /\ "embed" \notin Before
        /\ "embed" \notin Partial
    BY DEF Phases, Inside, Before, Partial, Merging
  <2>6. Shape(t)'
    BY <1>1, <1>2, <2>3, <2>4, <2>5 DEF TxFits, Shape, Outcomes
  <2>7. RowsFit(t)'
    <3>1. InHand(t)' = {} /\ Keys \ {} = Keys
      BY <2>4, <2>5 DEF InHand
    <3>2. Fits(Onto(s, db), Keys) /\ DOMAIN s \subseteq DOMAIN mine
      BY <1>1, <1>2, <1>3, <1>9 DEF TxFits, RowsFit
    <3>3. DOMAIN mine \subseteq DOMAIN over'[t]
      <4>1. over'[t] = Onto(new, mine)
        BY <1>8, <1>9
      <4>2. DOMAIN Onto(new, mine) = DOMAIN new \cup DOMAIN mine
        BY OntoIs
      <4> QED
        BY <4>1, <4>2
    <3>4. Fits(View(t)', Keys)
      BY <1>9, <1>12
    <3> QED
      BY <1>1, <2>4, <3>1, <3>2, <3>3, <3>4 DEF RowsFit
  <2>8. LocalsFit(t)'
    BY <2>4 DEF LocalsFit, Merging
  <2>9. ReportFits(t)'
    <3>1. Told(t, s) => Told(t, s)'
      BY <1>1, <2>4 DEF Told, Written
    <3>2. Told(t, tx[t].saved)'
      BY <1>14, <2>4, <3>1
    <3>3. \A i \in Keys \ {d.key} : Kept(t, i)'
      BY <1>13, <2>4 DEF Kept
    <3> QED
      BY <1>13, <2>3, <2>4, <2>5, <3>2, <3>3 DEF ReportFits, Mine
  <2> QED
    BY <1>7, <1>8, <2>6, <2>7, <2>8, <2>9, OthersStay DEF TxFits
<1> QED
  BY <1>1, <1>15, <1>16 DEF Return

-----------------------------------------------------------------------------
(* The end of a document, and of a file *)

\* Only a document in its savepoint has a statement to run.
LEMMA StatementsAreInside ==
    ASSUME IInv, NEW t \in Txs, Running(t),
           WaitsFor(t) # {} \/ (WaitsFor(t) = {} /\ Violates(t))
    PROVE  tx[t].phase \in Inside
<1> SUFFICES ASSUME tx[t].phase \notin Inside PROVE FALSE
  OBVIOUS
<1>1. tx[t].phase = "next"
  BY DEF Running, IInv, TxFits, Shape, Phases
<1>2. Statement(t) = NoRows
  BY <1>1 DEF Statement
<1>3. KeysIn(NoRows) = {}
  BY NoRowsAreEmpty DEF KeysIn
<1>4. WaitsFor(t) = {} /\ ~Violates(t)
  BY <1>2, <1>3, NoRowsAreEmpty DEF WaitsFor, Violates
<1> QED
  BY <1>4

LEMMA FailureStep ==
    ASSUME IInv, NEW t \in Txs, IntegrityError(t) \/ DeadlockError(t) \/ EmbedFails(t)
    PROVE  IInv'
<1>1. RollBack(t)
  BY DEF IntegrityError, DeadlockError, EmbedFails
<1>2. tx[t].phase \in Inside
  <2>1. CASE EmbedFails(t)
    BY <2>1 DEF EmbedFails, Inside
  <2>2. CASE IntegrityError(t) \/ DeadlockError(t)
    BY <2>2, StatementsAreInside DEF IntegrityError, DeadlockError
  <2> QED
    BY <2>1, <2>2
<1> QED
  BY <1>1, <1>2, RollBackStep

\* The transaction t is over: its rows are in new, or lost.
LEMMA LastStep ==
    ASSUME IInv, NEW t \in Txs, NEW p \in {"committed", "aborted"},
           file' = file, over' = [over EXCEPT ![t] = NoRows],
           DOMAIN tx' = Txs, \A u \in Txs \ {t} : tx'[u] = tx[u],
           DOMAIN tx'[t] = Fields, tx'[t].phase = p, DOMAIN tx'[t].mine = Locals,
           tx'[t].mine.outcome \in Outcomes,
           tx'[t].report \in Seq(Outcomes), Len(tx'[t].report) <= Len(file[t]),
           Fits(db', Keys), Grows(db, db'),
           \A m \in Mentions : Alias(m) \in DOMAIN db' =>
              Alias(m) \in DOMAIN db \/ Alias(m) \in DOMAIN over[t]
    PROVE  IInv'
<1>1. /\ DOMAIN over' = Txs /\ over'[t] = NoRows
      /\ \A u \in Txs \ {t} : over'[u] = over[u]
  BY DEF IInv
<1>2. Locked'
  BY <1>1, NoRowsAreEmpty DEF IInv, Locked
<1>3. PICK new : new = db'
  OBVIOUS
<1>4. TxFits(t)'
  <2>1. p \in Phases /\ p \notin Inside /\ p # "idle" /\ p # "next"
    BY DEF Phases, Inside, Before, Partial, Merging
  <2>2. Shape(t)'
    BY <2>1 DEF Shape
  <2>3. View(t)' = Onto(NoRows, new)
    BY <1>1, <1>3 DEF View
  <2>4. Fits(View(t)', Keys)
    <3>1. /\ DOMAIN Onto(NoRows, new) = DOMAIN new
          /\ \A r \in DOMAIN new : Onto(NoRows, new)[r] = new[r]
      <4>1. /\ DOMAIN Onto(NoRows, new) = DOMAIN NoRows \cup DOMAIN new
            /\ \A r \in DOMAIN new \ DOMAIN NoRows : Onto(NoRows, new)[r] = new[r]
        BY OntoIs
      <4> QED
        BY <4>1, NoRowsAreEmpty
    <3>2. Grows(new, Onto(NoRows, new))
      BY <3>1 DEF Grows
    <3>3. Fits(new, Keys)
      BY <1>3
    <3>5. PICK rows : rows = Onto(NoRows, new)
      OBVIOUS
    <3>6. Fits(rows, Keys)
      <4>1. ASSUME NEW k \in Keys, Doc(k) \in DOMAIN rows PROVE Whole(rows, rows[Doc(k)])
        <5>1. Doc(k) \in DOMAIN new /\ rows[Doc(k)] = new[Doc(k)]
          BY <3>1, <3>5, <4>1
        <5>2. Whole(new, new[Doc(k)])
          BY <3>3, <5>1 DEF Fits
        <5> QED
          BY <3>2, <3>5, <5>1, <5>2, WholeGrows
      <4>2. ASSUME NEW m \in Mentions, Alias(m) \in DOMAIN rows
            PROVE  Names(rows, m, rows[Alias(m)])
        BY <3>1, <3>3, <3>5, <4>2 DEF Fits, Names
      <4> QED
        BY <4>1, <4>2 DEF Fits
    <3> QED
      BY <2>3, <3>5, <3>6
  <2>5. RowsFit(t)'
    <3>1. InHand(t)' = {} /\ Keys \ {} = Keys
      BY <2>1 DEF InHand, Inside
    <3> QED
      BY <2>1, <2>4, <3>1 DEF RowsFit
  <2>6. LocalsFit(t)'
    BY DEF LocalsFit, Merging
  <2>7. ReportFits(t)'
    BY <2>1 DEF ReportFits, Inside
  <2> QED
    BY <2>2, <2>5, <2>6, <2>7 DEF TxFits
<1>5. ASSUME NEW u \in Txs \ {t} PROVE TxFits(u)'
  <2>1. /\ tx'[u] = tx[u] /\ over'[u] = over[u] /\ TxFits(u)
    BY <1>1 DEF IInv
  <2>2. PICK rows, s, old : rows = over[u] /\ s = tx[u].saved /\ old = db
    OBVIOUS
  <2>3. /\ Shape(u)' /\ InHand(u)' = InHand(u) /\ Current(u)' = Current(u)
    BY <2>1 DEF TxFits, Shape, InHand, Remaining, Current, RecordNumber
  <2>4. \A m \in Mentions : Alias(m) \in DOMAIN rows => Alias(m) \notin DOMAIN new
    BY <1>3, <2>2 DEF IInv, Locked
  <2>5. Fits(new, Keys) /\ Grows(old, new)
    BY <1>3, <2>2
  <2>6. View(u) = Onto(rows, old) /\ View(u)' = Onto(rows, new)
    BY <1>3, <2>1, <2>2 DEF View
  <2>7. PICK keys \in SUBSET Keys : keys = Keys \ InHand(u)
    OBVIOUS
  <2>8. Fits(Onto(rows, new), keys) /\ Grows(Onto(rows, old), Onto(rows, new))
    <3>1. Fits(Onto(rows, old), keys)
      BY <2>1, <2>6, <2>7 DEF TxFits, RowsFit
    <3> QED
      BY <2>4, <2>5, <3>1, LayerFits
  <2>9. RowsFit(u)'
    <3>1. CASE tx[u].phase \in Inside
      <4>1. Fits(Onto(s, old), Keys) /\ DOMAIN s \subseteq DOMAIN rows
        BY <2>1, <2>2, <3>1 DEF TxFits, RowsFit
      <4>2. \A m \in Mentions : Alias(m) \in DOMAIN s => Alias(m) \notin DOMAIN new
        BY <2>4, <4>1
      <4>3. Fits(Onto(s, new), Keys)
        BY <2>5, <4>1, <4>2, LayerFits
      <4> QED
        BY <1>3, <2>1, <2>2, <2>3, <2>6, <2>7, <2>8, <4>1, <4>3 DEF RowsFit
    <3>2. CASE tx[u].phase \notin Inside
      BY <2>1, <2>3, <2>6, <2>7, <2>8, <3>2 DEF RowsFit
    <3> QED
      BY <3>1, <3>2
  <2>10. LocalsFit(u)'
    <3>1. PICK l, q, d, v, w : /\ l = Mine(u) /\ q = tx[u].phase /\ d = Current(u)
                               /\ v = View(u) /\ w = View(u)'
      OBVIOUS
    <3>2. Mine(u)' = l /\ tx'[u].phase = q /\ Current(u)' = d
      BY <2>1, <2>3, <3>1 DEF Mine
    <3>3. Grows(v, w) /\ \A r \in DOMAIN v : r \in DOMAIN w
      BY <2>6, <2>8, <3>1 DEF Grows
    <3>4. q \in Merging \cup {"flush"} =>
            \A m \in MentionsIn(d.text) :
               \/ \E i \in DOMAIN l.todo : l.todo[i] = m
               \/ \E e \in l.linked : Has(w, m, e)
      <4>1. SUFFICES ASSUME q \in Merging \cup {"flush"}, NEW m \in MentionsIn(d.text)
                     PROVE  \/ \E i \in DOMAIN l.todo : l.todo[i] = m
                            \/ \E e \in l.linked : Has(w, m, e)
        OBVIOUS
      <4>2. m \in Mentions
        <5>1. Remaining(u)
          BY <2>1, <3>1, <4>1 DEF TxFits, Shape, Inside, Partial
        <5>2. d.text \in Texts
          BY <3>1, <5>1, InHandIs
        <5> QED
          BY <5>2, MentionsAre
      <4>3. \/ \E i \in DOMAIN l.todo : l.todo[i] = m
            \/ \E e \in l.linked : Has(v, m, e)
        BY <2>1, <3>1, <4>1 DEF TxFits, LocalsFit
      <4> QED
        BY <3>3, <4>2, <4>3, NamesGrow
    <3>5. q = "register" => Names(w, Head(l.todo), l.entity)
      BY <2>1, <3>1, <3>3 DEF TxFits, LocalsFit, Names
    <3>6. /\ q \in {"checksum", "write", "resolve"} /\ l.doc # None =>
                l.doc.person \in Keys /\ Person(l.doc.person) \in DOMAIN w
          /\ q \in {"checksum", "write", "resolve", "person"} => l.held = {}
          /\ q \in Merging \cup {"update", "flush"} =>
                /\ l.person \in Keys /\ Person(l.person) \in DOMAIN w
                /\ \A e \in l.held : Link(l.person, e) \in DOMAIN w
          /\ q \in Merging \cup {"flush"} => l.todo \in Seq(Mentions)
          /\ q \in Merging => l.todo # <<>>
          /\ q = "flush" => l.todo = <<>>
      BY <2>1, <3>1, <3>3 DEF TxFits, LocalsFit
    <3> QED
      BY <3>1, <3>2, <3>4, <3>5, <3>6 DEF LocalsFit
  <2>11. ReportFits(u)'
    BY <2>1 DEF TxFits, ReportFits, Told, Kept, Written, Mine, Current, RecordNumber
  <2> QED
    BY <2>3, <2>9, <2>10, <2>11 DEF TxFits
<1> QED
  BY <1>1, <1>2, <1>4, <1>5 DEF IInv

\* A transaction at the end of its file sees whole documents only.
LEMMA CommitStep ==
    ASSUME IInv, NEW t \in Txs, Commit(t)
    PROVE  IInv'
<1>1. TxFits(t) /\ DOMAIN tx = Txs
  BY DEF IInv
<1>2. PICK rows, old : rows = over[t] /\ old = db
  OBVIOUS
<1>3. db' = Onto(rows, old)
  BY <1>2 DEF Commit, View
<1>4. Fits(db', Keys)
  <2>1. InHand(t) = {} /\ Keys \ {} = Keys
    BY DEF Commit, InHand, Partial, Merging
  <2> QED
    BY <1>1, <2>1 DEF Commit, TxFits, RowsFit
<1>5. /\ Grows(db, db')
      /\ \A m \in Mentions : Alias(m) \in DOMAIN db' =>
            Alias(m) \in DOMAIN db \/ Alias(m) \in DOMAIN over[t]
  <2>1. \A m \in Mentions : Alias(m) \in DOMAIN rows => Alias(m) \notin DOMAIN old
    BY <1>2 DEF IInv, Locked
  <2>2. /\ DOMAIN Onto(rows, old) = DOMAIN rows \cup DOMAIN old
        /\ \A r \in DOMAIN old \ DOMAIN rows : Onto(rows, old)[r] = old[r]
    BY OntoIs
  <2> QED
    BY <1>2, <1>3, <2>1, <2>2 DEF Grows
<1>6. /\ DOMAIN tx' = Txs /\ \A u \in Txs \ {t} : tx'[u] = tx[u]
      /\ DOMAIN tx'[t] = Fields /\ tx'[t].phase = "committed"
      /\ tx'[t].mine = tx[t].mine /\ tx'[t].report = tx[t].report
      /\ file' = file /\ over' = [over EXCEPT ![t] = NoRows]
  BY <1>1 DEF Commit, TxFits, Shape, Fields
<1>7. /\ DOMAIN tx'[t].mine = Locals /\ tx'[t].mine.outcome \in Outcomes
      /\ tx'[t].report \in Seq(Outcomes) /\ Len(tx'[t].report) <= Len(file[t])
  BY <1>1, <1>6 DEF TxFits, Shape
<1> QED
  BY <1>4, <1>5, <1>6, <1>7, LastStep

LEMMA AbortStep ==
    ASSUME IInv, NEW t \in Txs, Abort(t)
    PROVE  IInv'
<1>1. DOMAIN tx = Txs /\ Fits(db, Keys)
  BY DEF IInv
<1>2. tx'[t] = [Idle EXCEPT !.phase = "aborted"]
  BY <1>1 DEF Abort
<1>3. /\ DOMAIN tx' = Txs /\ \A u \in Txs \ {t} : tx'[u] = tx[u]
      /\ DOMAIN tx'[t] = Fields /\ tx'[t].phase = "aborted"
      /\ tx'[t].mine = NoLocals /\ tx'[t].report = <<>>
      /\ db' = db /\ file' = file /\ over' = [over EXCEPT ![t] = NoRows]
  BY <1>1, <1>2 DEF Abort, Idle, Fields
<1>4. DOMAIN NoLocals = Locals /\ NoLocals.outcome \in Outcomes
  BY DEF NoLocals, Locals, Outcomes, Writing
<1>5. <<>> \in Seq(Outcomes) /\ Len(<<>>) <= Len(file[t])
  <2>1. file[t] \in Seq(Documents)
    BY ConstantTypes DEF IInv
  <2>2. Len(file[t]) \in Nat /\ Len(<<>>) = 0 /\ <<>> \in Seq(Outcomes)
    BY <2>1
  <2> QED
    BY <2>2
<1>6. Grows(db, db')
  BY <1>3, GrowsNot
<1> QED
  BY <1>1, <1>3, <1>4, <1>5, <1>6, LastStep

-----------------------------------------------------------------------------
(* The invariant holds, and what follows from it *)

LEMMA NextKeeps == IInv /\ [Next]_vars => IInv'
<1> SUFFICES ASSUME IInv, [Next]_vars PROVE IInv'
  OBVIOUS
<1>1. ASSUME NEW t \in Txs, Step(t) PROVE IInv'
  BY <1>1, StartStep, ParseStep, SelectDocumentStep, SelectByChecksumStep,
     WriteDocumentStep, ResolvePersonStep, InsertPersonStep, UpdatePersonStep,
     SelectAliasStep, SelectEntityStep, InsertEntityStep, InsertAliasStep, FlushStep,
     EmbeddedStep, FailureStep, CommitStep DEF Step
<1>2. ASSUME NEW t \in Txs, Fault(t) PROVE IInv'
  BY <1>2, ParseFailsStep, FailureStep, AbortStep DEF Fault
<1>3. CASE UNCHANGED vars
  <2>1. db' = db /\ over' = over /\ tx' = tx /\ file' = file
    BY <1>3 DEF vars
  <2>2. Locked'
    BY <2>1 DEF IInv, Locked
  <2>3. ASSUME NEW t \in Txs PROVE TxFits(t)'
    <3>1. TxFits(t)
      BY DEF IInv
    <3>2. /\ View(t)' = View(t) /\ Mine(t)' = Mine(t) /\ Current(t)' = Current(t)
          /\ Remaining(t)' = Remaining(t) /\ InHand(t)' = InHand(t)
      BY <2>1 DEF View, Mine, Current, RecordNumber, Remaining, InHand
    <3>3. Shape(t)'
      BY <2>1, <3>1, <3>2 DEF TxFits, Shape
    <3>4. RowsFit(t)'
      BY <2>1, <3>1, <3>2 DEF TxFits, RowsFit
    <3>5. LocalsFit(t)'
      BY <2>1, <3>1, <3>2 DEF TxFits, LocalsFit
    <3>6. ReportFits(t)'
      BY <2>1, <3>1, <3>2 DEF TxFits, ReportFits, Told, Kept, Written
    <3> QED
      BY <3>3, <3>4, <3>5, <3>6 DEF TxFits
  <2> QED
    BY <2>1, <2>2, <2>3 DEF IInv
<1> QED
  BY <1>1, <1>2, <1>3 DEF Next

LEMMA Invariance == Spec => []IInv
<1> QED
  BY InitHolds, NextKeeps, PTL DEF Spec

\* Whatever the files, the names, the interleaving of the transactions and their
\* failures, no session sees half a document (pipeline.py:31, the savepoint
\* around persist).
THEOREM DocumentsAreWhole == Spec => []WholeDocuments
<1>1. IInv => WholeDocuments
  <2> SUFFICES ASSUME IInv, NEW k \in Keys, Stored(k)
               PROVE  LET d == db[Doc(k)]
                          names == MentionsOf[d.text]
                          mentions == {names[i] : i \in DOMAIN names}
                      IN  /\ d.person # None /\ Person(d.person) \in Committed
                          /\ \A m \in mentions : \E e \in Entities :
                                /\ e[2] = NameOf[m]
                                /\ {e, Link(d.person, e)} \subseteq Committed
                                /\ m \in Skills =>
                                      Alias(m) \in Committed /\ db[Alias(m)] = e
    BY DEF WholeDocuments
  <2>1. PICK d : d = db[Doc(k)]
    OBVIOUS
  <2>2. Whole(db, d)
    BY <2>1 DEF IInv, Fits, Stored
  <2>3. d.person # None /\ Person(d.person) \in Committed
    BY <2>2, ConstantTypes DEF Whole, Committed
  <2>4. \A m \in MentionsIn(d.text) : \E e \in Entities :
           /\ e[2] = NameOf[m]
           /\ {e, Link(d.person, e)} \subseteq Committed
           /\ m \in Skills => Alias(m) \in Committed /\ db[Alias(m)] = e
    BY <2>2 DEF Whole, Has, Names, Committed
  <2> QED
    BY <2>1, <2>3, <2>4 DEF MentionsIn
<1> QED
  BY <1>1, Invariance, PTL

\* When a file commits, the last record of a key that the report counts as
\* created or updated is what is stored (pipeline.py:33, _record_outcome).
THEOREM ReportsAreTrue == Spec => ReportIsTrue
<1>1. IInv /\ [Next]_vars =>
        [\A t \in Txs : Commit(t) =>
            \A i \in DOMAIN file[t] :
                /\ Written(t, i)
                /\ \A j \in DOMAIN file[t] :
                      j > i /\ file[t][j].key = file[t][i].key => ~Written(t, j)
                => LET doc == Doc(file[t][i].key)
                   IN  doc \in DOMAIN db' /\ db'[doc].text = file[t][i].text]_vars
  <2> SUFFICES ASSUME IInv, NEW t \in Txs, Commit(t), NEW i \in DOMAIN file[t],
                      Written(t, i),
                      \A j \in DOMAIN file[t] :
                         j > i /\ file[t][j].key = file[t][i].key => ~Written(t, j)
               PROVE  /\ Doc(file[t][i].key) \in DOMAIN db'
                      /\ db'[Doc(file[t][i].key)].text = file[t][i].text
    OBVIOUS
  <2>1. TxFits(t)
    BY DEF IInv
  <2>2. DOMAIN tx[t].report = DOMAIN file[t]
    <3>1. file[t] \in Seq(Documents)
      BY ConstantTypes DEF IInv
    <3>2. /\ tx[t].report \in Seq(Outcomes) /\ Len(tx[t].report) <= Len(file[t])
          /\ ~(Len(tx[t].report) < Len(file[t]))
      BY <2>1 DEF TxFits, Shape, Commit, Remaining
    <3> QED
      BY <3>1, <3>2
  <2>3. PICK rows, doc : rows = over[t] /\ doc = Doc(file[t][i].key)
    OBVIOUS
  <2>4. doc \in DOMAIN rows /\ rows[doc].text = file[t][i].text
    BY <2>1, <2>2, <2>3 DEF TxFits, ReportFits, Told, Commit
  <2>5. db' = Onto(rows, db)
    BY <2>3 DEF Commit, View
  <2> QED
    BY <2>3, <2>4, <2>5 DEF Onto
<1> QED
  BY <1>1, Invariance, PTL DEF Spec, ReportIsTrue

-----------------------------------------------------------------------------
(* One worker: what a transaction sees is what it has written itself on top of *)
(* what is committed, from its beginning to its end.                           *)

\* The records of all files, and whether every key keeps its identity.
Records == UNION {{file[t][i] : i \in DOMAIN file[t]} : t \in Txs}
Steady(docs) ==
    \A d, e \in docs : d.key = e.key => IdentityOf[d.text] = IdentityOf[e.text]

RowIds ==
    {Doc(k) : k \in Keys} \cup {Person(k) : k \in Keys} \cup Entities
      \cup {Alias(m) : m \in Mentions} \cup {Link(p, e) : p \in Keys, e \in Entities}

\* No two documents of one text, and nothing leads to a person who is not there.
Orderly(rows) ==
    /\ DOMAIN rows \subseteq RowIds
    /\ \A k \in Keys : Doc(k) \in DOMAIN rows =>
          /\ rows[Doc(k)] \in [text : Texts, person : Keys \cup {None}]
          /\ rows[Doc(k)].person # None => Person(rows[Doc(k)].person) \in DOMAIN rows
    /\ \A j, k \in Keys :
          /\ Doc(j) \in DOMAIN rows /\ Doc(k) \in DOMAIN rows
          /\ rows[Doc(j)].text = rows[Doc(k)].text
          => j = k
    /\ \A p \in Keys, e \in Entities :
          Link(p, e) \in DOMAIN rows => Person(p) \in DOMAIN rows

\* A person has the identity of every text of their key and of the keys of their
\* documents, and no two people have the same.
Identified(rows, docs) ==
    /\ \A d \in docs : Person(d.key) \in DOMAIN rows =>
          rows[Person(d.key)] = IdentityOf[d.text]
    /\ \A d \in docs :
          Doc(d.key) \in DOMAIN rows /\ rows[Doc(d.key)].person # None =>
              rows[Person(rows[Doc(d.key)].person)] = IdentityOf[d.text]
    /\ \A p, q \in Keys :
          /\ Person(p) \in DOMAIN rows /\ Person(q) \in DOMAIN rows
          /\ rows[Person(p)] = rows[Person(q)] /\ rows[Person(p)] # NoIdentity
          => p = q

Good(rows, docs) == Orderly(rows) /\ (Steady(docs) => Identified(rows, docs))

\* What a lookup found or did not find is still so when its result is used.
Settled(p, l, d, rows) ==
    /\ p \in {"checksum", "write"} =>
          l.doc = IF Doc(d.key) \in DOMAIN rows THEN rows[Doc(d.key)] ELSE None
    /\ p = "write" => \A k \in Keys \ {d.key} :
          Doc(k) \in DOMAIN rows => rows[Doc(k)].text # d.text
    /\ p \in Partial => Doc(d.key) \in DOMAIN rows /\ rows[Doc(d.key)].text = d.text
    /\ p \in {"checksum", "write"} \cup Partial => l.linked \subseteq Entities
    /\ p = "person" => Person(d.key) \notin DOMAIN rows
    /\ p \in {"update", "flush"} \cup Merging => \A e \in Entities :
          Link(l.person, e) \in DOMAIN rows => e \in l.held
    /\ p = "insert" => \A e \in Entities :
          e \in DOMAIN rows => e[2] # NameOf[Head(l.todo)]
    /\ p \in {"entity", "insert", "register"} /\ Head(l.todo) \in Skills =>
          Alias(Head(l.todo)) \notin DOMAIN rows
    /\ p = "register" => Head(l.todo) \in Skills
    /\ p = "embed" => l.outcome # "failed"

\* And the person found is the one of this identity.
SettledPerson(p, l, d, rows) ==
    /\ p \in {"checksum", "write", "resolve"} /\ l.doc # None =>
          rows[Person(l.doc.person)] = IdentityOf[d.text]
    /\ p = "person" /\ IdentityOf[d.text] # NoIdentity => \A k \in Keys :
          Person(k) \in DOMAIN rows => rows[Person(k)] # IdentityOf[d.text]
    /\ p = "update" => l.identity = IdentityOf[d.text]
    /\ p \in {"update", "flush"} \cup Merging =>
          rows[Person(l.person)] = IdentityOf[d.text]

AloneFits(t) ==
    Running(t) =>
        /\ Good(View(t), Records)
        /\ tx[t].phase \in Inside =>
              /\ Good(Onto(tx[t].saved, db), Records)
              /\ Settled(tx[t].phase, Mine(t), Current(t), View(t))
              /\ Steady(Records) =>
                    SettledPerson(tx[t].phase, Mine(t), Current(t), View(t))

FailuresCount(t) ==
    \A i \in DOMAIN tx[t].report : tx[t].report[i] = "failed" => faults < Faults

\* A file that is stored already.
AllKnown(t) == \A i \in DOMAIN file[t] : Known(file[t][i])
Idling == {"unchanged", "duplicate"}
WritesNothing(t) ==
    Running(t) /\ AllKnown(t) =>
        /\ over[t] = NoRows
        /\ tx[t].phase \in {"next", "document", "checksum", "embed"}
        /\ tx[t].phase \in Inside => tx[t].saved = NoRows
        /\ tx[t].phase = "checksum" => \E k \in Keys \ {Current(t).key} :
              Doc(k) \in DOMAIN db /\ db[Doc(k)].text = Current(t).text
        /\ tx[t].phase = "embed" => Mine(t).outcome \in Idling
        /\ \A i \in DOMAIN tx[t].report :
              tx[t].report[i] \in Idling \cup {"failed"}

Alone ==
    /\ \A t \in Txs : Running(t) \/ over[t] = NoRows
    /\ \A t, u \in Txs : Running(t) /\ Running(u) => t = u

OneInv ==
    /\ Alone
    /\ faults \in Nat /\ faults <= Faults
    /\ db = [r \in DOMAIN db |-> db[r]] /\ Good(db, Records)
    /\ \A t \in Txs : AloneFits(t) /\ FailuresCount(t) /\ WritesNothing(t)

-----------------------------------------------------------------------------
(* What a statement does to rows that are good *)

LEMMA RowsOfKinds ==
    /\ \A k : Doc(k)[1] = "document" /\ Doc(k)[2] = k
    /\ \A k : Person(k)[1] = "person" /\ Person(k)[2] = k
    /\ \A m : Alias(m)[1] = "alias" /\ Alias(m)[2] = m
    /\ \A p, e : Link(p, e)[1] = "link" /\ Link(p, e)[2] = p /\ Link(p, e)[3] = e
    /\ \A e \in Entities : e[1] = "entity"
  BY DEF Doc, Person, Alias, Link, Entities, Entity

\* A document is written, with relations of its person.
LEMMA DocumentIsGood ==
    ASSUME NEW rows, NEW docs, Good(rows, docs), NEW d \in docs,
           \A c \in docs : c.key \in Keys /\ c.text \in Texts,
           NEW q \in Keys \cup {None}, NEW new, Doc(d.key) \in DOMAIN new,
           new[Doc(d.key)] = [text |-> d.text, person |-> q],
           \A r \in DOMAIN new : \/ r = Doc(d.key)
                                 \/ q \in Keys /\ \E e \in Entities : r = Link(q, e),
           q # None => /\ Person(q) \in DOMAIN rows
                       /\ Steady(docs) => rows[Person(q)] = IdentityOf[d.text],
           \A k \in Keys \ {d.key} : Doc(k) \in DOMAIN rows =>
              rows[Doc(k)].text # d.text
    PROVE  Good(Onto(new, rows), docs)
<1> DEFINE more == Onto(new, rows)
<1>1. /\ DOMAIN more = DOMAIN new \cup DOMAIN rows
      /\ \A r \in DOMAIN new : more[r] = new[r]
      /\ \A r \in DOMAIN rows \ DOMAIN new : more[r] = rows[r]
  BY OntoIs
<1> HIDE DEF more
<1>2. /\ \A k : Doc(k) \in DOMAIN new => k = d.key
      /\ \A k : Person(k) \notin DOMAIN new
      /\ \A p, e : Link(p, e) \in DOMAIN new => p = q /\ q \in Keys
  BY RowsOfKinds
<1>3. /\ \A k : Person(k) \in DOMAIN more <=> Person(k) \in DOMAIN rows
      /\ \A k : Person(k) \in DOMAIN rows => more[Person(k)] = rows[Person(k)]
      /\ \A k : k # d.key =>
            /\ Doc(k) \in DOMAIN more <=> Doc(k) \in DOMAIN rows
            /\ Doc(k) \in DOMAIN rows => more[Doc(k)] = rows[Doc(k)]
      /\ Doc(d.key) \in DOMAIN more
      /\ more[Doc(d.key)].text = d.text /\ more[Doc(d.key)].person = q
      /\ more[Doc(d.key)] \in [text : Texts, person : Keys \cup {None}]
  BY <1>1, <1>2
<1>4. Orderly(more)
  <2>0. Orderly(rows)
    BY DEF Good
  <2>1. DOMAIN more \subseteq RowIds
    BY <1>1, <2>0 DEF Orderly, RowIds
  <2>2. ASSUME NEW k \in Keys, Doc(k) \in DOMAIN more
        PROVE  /\ more[Doc(k)] \in [text : Texts, person : Keys \cup {None}]
               /\ more[Doc(k)].person # None =>
                     Person(more[Doc(k)].person) \in DOMAIN more
    <3>1. CASE k = d.key
      BY <1>3, <3>1
    <3>2. CASE k # d.key
      BY <1>3, <2>0, <2>2, <3>2 DEF Orderly
    <3> QED
      BY <3>1, <3>2
  <2>3. ASSUME NEW j \in Keys, NEW k \in Keys, Doc(j) \in DOMAIN more,
               Doc(k) \in DOMAIN more, more[Doc(j)].text = more[Doc(k)].text
        PROVE  j = k
    <3>1. CASE j # d.key /\ k # d.key
      BY <1>3, <2>0, <2>3, <3>1 DEF Orderly
    <3>2. CASE j = d.key /\ k # d.key
      BY <1>3, <2>3, <3>2
    <3>3. CASE j # d.key /\ k = d.key
      BY <1>3, <2>3, <3>3
    <3> QED
      BY <3>1, <3>2, <3>3
  <2>4. ASSUME NEW p \in Keys, NEW e \in Entities, Link(p, e) \in DOMAIN more
        PROVE  Person(p) \in DOMAIN more
    <3>1. CASE Link(p, e) \in DOMAIN new
      BY <1>2, <1>3, <3>1, ConstantTypes
    <3>2. CASE Link(p, e) \in DOMAIN rows
      BY <1>3, <2>0, <3>2 DEF Orderly
    <3> QED
      BY <1>1, <2>4, <3>1, <3>2
  <2> QED
    BY <2>1, <2>2, <2>3, <2>4 DEF Orderly
<1>5. ASSUME Steady(docs) PROVE Identified(more, docs)
  <2>0. Identified(rows, docs)
    BY <1>5 DEF Good
  <2>1. ASSUME NEW c \in docs, Person(c.key) \in DOMAIN more
        PROVE  more[Person(c.key)] = IdentityOf[c.text]
    BY <1>3, <2>0, <2>1 DEF Identified
  <2>2. ASSUME NEW c \in docs, Doc(c.key) \in DOMAIN more,
               more[Doc(c.key)].person # None
        PROVE  more[Person(more[Doc(c.key)].person)] = IdentityOf[c.text]
    <3>1. CASE c.key = d.key
      BY <1>3, <1>5, <2>2, <3>1 DEF Steady
    <3>2. CASE c.key # d.key
      <4>1. Doc(c.key) \in DOMAIN rows /\ more[Doc(c.key)] = rows[Doc(c.key)]
        BY <1>3, <2>2, <3>2
      <4>2. Person(rows[Doc(c.key)].person) \in DOMAIN rows
        BY <2>2, <4>1 DEF Good, Orderly
      <4> QED
        BY <1>3, <2>0, <2>2, <4>1, <4>2 DEF Identified
    <3> QED
      BY <3>1, <3>2
  <2>3. ASSUME NEW j \in Keys, NEW k \in Keys, Person(j) \in DOMAIN more,
               Person(k) \in DOMAIN more, more[Person(j)] = more[Person(k)],
               more[Person(j)] # NoIdentity
        PROVE  j = k
    BY <1>3, <2>0, <2>3 DEF Identified
  <2> QED
    BY <2>1, <2>2, <2>3 DEF Identified
<1> QED
  BY <1>4, <1>5 DEF Good, more

\* A person is made, with an identity that nobody has.
LEMMA PersonIsGood ==
    ASSUME NEW rows, NEW docs, Good(rows, docs), NEW p \in Keys, NEW identity,
           \A c \in docs : c.key \in Keys,
           Person(p) \notin DOMAIN rows,
           Steady(docs) => \A c \in docs : c.key = p => identity = IdentityOf[c.text],
           Steady(docs) /\ identity # NoIdentity => \A k \in Keys :
              Person(k) \in DOMAIN rows => rows[Person(k)] # identity
    PROVE  Good(Onto(Row(Person(p), identity), rows), docs)
<1>0. PICK more : more = Onto(Row(Person(p), identity), rows)
  OBVIOUS
<1>1. /\ DOMAIN more = {Person(p)} \cup DOMAIN rows /\ more[Person(p)] = identity
      /\ \A r \in DOMAIN rows : more[r] = rows[r]
  BY <1>0 DEF Onto, Row
<1>2. /\ \A k : Doc(k) # Person(p) /\ \A e : Link(k, e) # Person(p)
      /\ \A k : Person(k) = Person(p) => k = p
  BY RowsOfKinds
<1>3. Orderly(more)
  <2>0. Orderly(rows)
    BY DEF Good
  <2>1. DOMAIN more \subseteq RowIds
    BY <1>1, <2>0 DEF Orderly, RowIds
  <2>2. \A k : Doc(k) \in DOMAIN more =>
           Doc(k) \in DOMAIN rows /\ more[Doc(k)] = rows[Doc(k)]
    BY <1>1, <1>2
  <2>3. \A k, e : Link(k, e) \in DOMAIN more => Link(k, e) \in DOMAIN rows
    BY <1>1, <1>2
  <2> QED
    BY <1>1, <2>0, <2>1, <2>2, <2>3 DEF Orderly
<1>4. ASSUME Steady(docs) PROVE Identified(more, docs)
  <2>0. Identified(rows, docs) /\ Orderly(rows)
    BY <1>4 DEF Good
  <2>1. ASSUME NEW c \in docs, Person(c.key) \in DOMAIN more
        PROVE  more[Person(c.key)] = IdentityOf[c.text]
    <3>1. CASE c.key = p
      BY <1>1, <1>4, <3>1
    <3>2. CASE c.key # p
      BY <1>1, <1>2, <2>0, <2>1, <3>2 DEF Identified
    <3> QED
      BY <3>1, <3>2
  <2>2. ASSUME NEW c \in docs, Doc(c.key) \in DOMAIN more,
               more[Doc(c.key)].person # None
        PROVE  more[Person(more[Doc(c.key)].person)] = IdentityOf[c.text]
    <3>1. Doc(c.key) \in DOMAIN rows /\ more[Doc(c.key)] = rows[Doc(c.key)]
      BY <1>1, <1>2, <2>2
    <3>2. Person(rows[Doc(c.key)].person) \in DOMAIN rows
      BY <2>0, <2>2, <3>1 DEF Orderly
    <3> QED
      BY <1>1, <2>0, <2>2, <3>1, <3>2 DEF Identified
  <2>3. ASSUME NEW j \in Keys, NEW k \in Keys, Person(j) \in DOMAIN more,
               Person(k) \in DOMAIN more, more[Person(j)] = more[Person(k)],
               more[Person(j)] # NoIdentity
        PROVE  j = k
    <3>1. CASE j # p /\ k # p
      <4>1. Person(j) \in DOMAIN rows /\ Person(k) \in DOMAIN rows
        BY <1>1, <1>2, <2>3, <3>1
      <4>2. more[Person(j)] = rows[Person(j)] /\ more[Person(k)] = rows[Person(k)]
        BY <1>1, <4>1
      <4> QED
        BY <2>0, <2>3, <4>1, <4>2 DEF Identified
    <3>2. CASE j = p /\ k # p
      <4>1. Person(k) \in DOMAIN rows
        BY <1>1, <1>2, <2>3, <3>2
      <4> QED
        BY <1>1, <1>4, <2>3, <3>2, <4>1
    <3>3. CASE j # p /\ k = p
      <4>1. Person(j) \in DOMAIN rows
        BY <1>1, <1>2, <2>3, <3>3
      <4> QED
        BY <1>1, <1>4, <2>3, <3>3, <4>1
    <3> QED
      BY <3>1, <3>2, <3>3
  <2> QED
    BY <2>1, <2>2, <2>3 DEF Identified
<1> QED
  BY <1>0, <1>3, <1>4 DEF Good

\* A person gets another identity: then some key does not keep its own.
LEMMA PersonIsRenamed ==
    ASSUME NEW rows, NEW docs, Good(rows, docs), NEW p \in Keys, NEW identity,
           ~Steady(docs), Person(p) \in DOMAIN rows
    PROVE  Good(Onto(Row(Person(p), identity), rows), docs)
<1>0. PICK more : more = Onto(Row(Person(p), identity), rows)
  OBVIOUS
<1>1. /\ DOMAIN more = {Person(p)} \cup DOMAIN rows
      /\ \A r \in DOMAIN rows \ {Person(p)} : more[r] = rows[r]
  BY <1>0 DEF Onto, Row
<1>2. \A k : Doc(k) \in DOMAIN more =>
         Doc(k) \in DOMAIN rows /\ more[Doc(k)] = rows[Doc(k)]
  BY <1>1, RowsOfKinds
<1>3. Orderly(more)
  BY <1>1, <1>2 DEF Good, Orderly
<1> QED
  BY <1>0, <1>3 DEF Good

\* Entities and aliases are beside the point.
LEMMA PlainRowIsGood ==
    ASSUME NEW rows, NEW docs, Good(rows, docs), NEW r, NEW content,
           \A c \in docs : c.key \in Keys,
           r \in Entities \cup {Alias(m) : m \in Mentions}
    PROVE  Good(Onto(Row(r, content), rows), docs)
<1>0. PICK more : more = Onto(Row(r, content), rows)
  OBVIOUS
<1>1. /\ DOMAIN more = {r} \cup DOMAIN rows
      /\ \A x \in DOMAIN rows \ {r} : more[x] = rows[x]
  BY <1>0 DEF Onto, Row
<1>2. r[1] \in {"entity", "alias"}
  BY RowsOfKinds
<1>3. /\ \A k : Doc(k) \in DOMAIN more =>
            Doc(k) \in DOMAIN rows /\ more[Doc(k)] = rows[Doc(k)]
      /\ \A k : Person(k) \in DOMAIN more =>
            Person(k) \in DOMAIN rows /\ more[Person(k)] = rows[Person(k)]
      /\ \A k, e : Link(k, e) \in DOMAIN more => Link(k, e) \in DOMAIN rows
  BY <1>1, <1>2, RowsOfKinds
<1>4. Orderly(more)
  <2>0. Orderly(rows)
    BY DEF Good
  <2>1. DOMAIN more \subseteq RowIds
    BY <1>1, <2>0 DEF Orderly, RowIds
  <2> QED
    BY <1>1, <1>3, <2>0, <2>1 DEF Orderly
<1>5. ASSUME Steady(docs) PROVE Identified(more, docs)
  <2>0. Identified(rows, docs) /\ Orderly(rows)
    BY <1>5 DEF Good
  <2>1. \A c \in docs : Person(c.key) \in DOMAIN more =>
           more[Person(c.key)] = IdentityOf[c.text]
    BY <1>3, <2>0 DEF Identified
  <2>2. ASSUME NEW c \in docs, Doc(c.key) \in DOMAIN more,
               more[Doc(c.key)].person # None
        PROVE  more[Person(more[Doc(c.key)].person)] = IdentityOf[c.text]
    <3>1. Doc(c.key) \in DOMAIN rows /\ more[Doc(c.key)] = rows[Doc(c.key)]
      BY <1>3, <2>2
    <3>2. Person(rows[Doc(c.key)].person) \in DOMAIN more
      BY <1>1, <2>0, <2>2, <3>1 DEF Orderly
    <3>3. more[Person(rows[Doc(c.key)].person)] = rows[Person(rows[Doc(c.key)].person)]
      BY <1>3, <3>2
    <3> QED
      BY <2>0, <2>2, <3>1, <3>3 DEF Identified
  <2>3. ASSUME NEW j \in Keys, NEW k \in Keys, Person(j) \in DOMAIN more,
               Person(k) \in DOMAIN more, more[Person(j)] = more[Person(k)],
               more[Person(j)] # NoIdentity
        PROVE  j = k
    BY <1>3, <2>0, <2>3 DEF Identified
  <2> QED
    BY <2>1, <2>2, <2>3 DEF Identified
<1> QED
  BY <1>0, <1>4, <1>5 DEF Good

-----------------------------------------------------------------------------
(* Nobody waits, and no constraint refuses anything *)

LEMMA NobodyWaits ==
    ASSUME Alone, NEW t \in Txs, Running(t)
    PROVE  WaitsFor(t) = {}
  BY NoRowsAreEmpty DEF Alone, WaitsFor

\* Two rows need the same key only as documents of one text or as entities of
\* one name.
LEMMA KeysDiffer ==
    ASSUME NEW r \in RowIds, NEW n \in RowIds, r # n, NEW a, NEW b,
           ~(r[1] = "document" /\ n[1] = "document" /\ a.text = b.text),
           ~(r[1] = "entity" /\ n[1] = "entity" /\ r[2] = n[2])
    PROVE  UniqueKeys(r, a) \cap UniqueKeys(n, b) = {}
<1>1. ASSUME NEW x \in RowIds PROVE x[1] \in {"document", "person", "entity", "alias", "link"}
  BY RowsOfKinds DEF RowIds
<1>2. \A u, v : <<"checksum", u>> # <<"name", v>> /\ <<"checksum", u>>[1] = "checksum"
                /\ <<"name", v>>[1] = "name"
  OBVIOUS
<1>3. ASSUME NEW y \in UniqueKeys(r, a), y \in UniqueKeys(n, b) PROVE FALSE
  <2>1. CASE y = r
    BY <1>1, <1>2, <1>3, <2>1 DEF UniqueKeys
  <2>2. CASE y = n
    BY <1>1, <1>2, <1>3, <2>2 DEF UniqueKeys
  <2>3. CASE r[1] = "document" /\ y = <<"checksum", a.text>>
    <3>1. n[1] = "document" /\ y = <<"checksum", b.text>>
      BY <1>2, <1>3, <2>2, <2>3 DEF UniqueKeys
    <3> QED
      BY <2>3, <3>1
  <2>4. CASE r[1] = "entity" /\ y = <<"name", r[2]>>
    <3>1. n[1] = "entity" /\ y = <<"name", n[2]>>
      BY <1>2, <1>3, <2>2, <2>4 DEF UniqueKeys
    <3> QED
      BY <2>4, <3>1
  <2> QED
    BY <1>3, <2>1, <2>3, <2>4 DEF UniqueKeys
<1> QED
  BY <1>3

\* The rows of a statement fit beside those there are.
LEMMA FitsBeside ==
    ASSUME NEW t \in Txs, Orderly(View(t)), DOMAIN Statement(t) \subseteq RowIds,
           \A r \in DOMAIN Statement(t) : r \notin Updates(t) => r \notin DOMAIN View(t),
           \A k \in Keys : \A r \in DOMAIN Statement(t) :
              r[1] = "document" /\ Doc(k) \in DOMAIN View(t) /\ Doc(k) # r =>
                 View(t)[Doc(k)].text # Statement(t)[r].text,
           \A e \in Entities : \A r \in DOMAIN Statement(t) :
              r[1] = "entity" /\ e \in DOMAIN View(t) => e[2] # r[2]
    PROVE  ~Violates(t)
<1>1. PICK new, rows : new = Statement(t) /\ rows = View(t)
  OBVIOUS
<1>2. (DOMAIN new \ Updates(t)) \cap DOMAIN rows = {}
  BY <1>1
<1>3. ASSUME NEW r \in DOMAIN rows \ DOMAIN new, NEW n \in DOMAIN new
      PROVE  UniqueKeys(r, rows[r]) \cap UniqueKeys(n, new[n]) = {}
  <2>1. r \in RowIds /\ n \in RowIds /\ r # n
    BY <1>1, <1>3 DEF Orderly
  <2>2. ~(r[1] = "document" /\ n[1] = "document" /\ rows[r].text = new[n].text)
    <3> SUFFICES ASSUME r[1] = "document", n[1] = "document" PROVE rows[r].text # new[n].text
      OBVIOUS
    <3>1. PICK k \in Keys : r = Doc(k)
      BY <2>1, RowsOfKinds DEF RowIds
    <3> QED
      BY <1>1, <1>3, <2>1, <3>1
  <2>3. ~(r[1] = "entity" /\ n[1] = "entity" /\ r[2] = n[2])
    <3> SUFFICES ASSUME r[1] = "entity", n[1] = "entity" PROVE r[2] # n[2]
      OBVIOUS
    <3>1. r \in Entities
      BY <2>1, RowsOfKinds DEF RowIds
    <3> QED
      BY <1>1, <1>3, <3>1
  <2> QED
    BY <2>1, <2>2, <2>3, KeysDiffer
<1>4. \A r \in DOMAIN rows \ DOMAIN new : UniqueKeys(r, rows[r]) \cap KeysIn(new) = {}
  BY <1>3 DEF KeysIn
<1> QED
  BY <1>1, <1>2, <1>4 DEF Violates
LEMMA FlushWrites ==
    ASSUME NEW t \in Txs, tx[t].phase = "flush"
    PROVE  LET d == Current(t)
               l == Mine(t)
           IN  /\ DOMAIN Statement(t)
                    = {Link(l.person, e) : e \in l.linked \ l.held} \cup {Doc(d.key)}
               /\ Statement(t)[Doc(d.key)] = [text |-> d.text, person |-> l.person]
<1>1. PICK d, l, new : d = Current(t) /\ l = Mine(t) /\ new = Statement(t)
  OBVIOUS
<1>2. PICK links, row : /\ links = {Link(l.person, e) : e \in l.linked \ l.held}
                        /\ row = [text |-> d.text, person |-> l.person]
  OBVIOUS
<1>3. new = Onto(Rows(links), Row(Doc(d.key), row))
  BY <1>1, <1>2, StatementIs
<1>4. DOMAIN Rows(links) = links
  BY DEF Rows
<1>5. Doc(d.key) \notin links
  BY <1>2, RowsOfKinds
<1>6. DOMAIN Row(Doc(d.key), row) = {Doc(d.key)} /\ Row(Doc(d.key), row)[Doc(d.key)] = row
  BY RowIs
<1>7. DOMAIN new = links \cup {Doc(d.key)} /\ new[Doc(d.key)] = row
  BY <1>3, <1>4, <1>5, <1>6 DEF Onto
<1> QED
  BY <1>1, <1>2, <1>7

LEMMA RecordsAre ==
    ASSUME IInv
    PROVE  \A c \in Records : c.key \in Keys /\ c.text \in Texts
<1> SUFFICES ASSUME NEW u \in Txs, NEW i \in DOMAIN file[u]
             PROVE  file[u][i].key \in Keys /\ file[u][i].text \in Texts
  BY DEF Records
<1>1. file[u] \in Seq(Documents)
  BY ConstantTypes DEF IInv
<1>2. file[u][i] \in Documents
  BY <1>1
<1> QED
  BY <1>2 DEF Documents

\* The document in hand of the transaction that runs, and what it knows.
LEMMA InHandNow ==
    ASSUME IInv, OneInv, NEW t \in Txs, Running(t), tx[t].phase \in Inside
    PROVE  /\ Current(t) \in Records /\ Remaining(t)
           /\ Current(t).key \in Keys /\ Current(t).text \in Texts
           /\ Orderly(View(t)) /\ Good(View(t), Records)
           /\ Good(Onto(tx[t].saved, db), Records)
           /\ Settled(tx[t].phase, Mine(t), Current(t), View(t))
           /\ Steady(Records) =>
                 SettledPerson(tx[t].phase, Mine(t), Current(t), View(t))
           /\ LocalsFit(t) /\ DOMAIN Mine(t) = Locals
<1>1. Remaining(t) /\ LocalsFit(t) /\ DOMAIN Mine(t) = Locals
  BY DEF IInv, TxFits, Shape, Mine
<1>2. RecordNumber(t) \in 1..Len(file[t])
  BY <1>1, InHandIs
<1>3. file[t] \in Seq(Documents)
  BY ConstantTypes DEF IInv
<1>4. Current(t) \in Records
  BY <1>2, <1>3 DEF Current, Records
<1>5. AloneFits(t)
  BY DEF OneInv
<1> QED
  BY <1>1, <1>4, <1>5, RecordsAre DEF AloneFits, Good

\* Every statement of the transaction that runs is accepted.
LEMMA NothingViolates ==
    ASSUME IInv, OneInv, NEW t \in Txs, Running(t)
    PROVE  ~Violates(t)
<1> SUFFICES ASSUME Violates(t) PROVE FALSE
  OBVIOUS
<1>1. WaitsFor(t) = {}
  BY NobodyWaits DEF OneInv
<1>2. tx[t].phase \in Inside
  BY <1>1, StatementsAreInside
<1>3. PICK d, l, V, p : d = Current(t) /\ l = Mine(t) /\ V = View(t) /\ p = tx[t].phase
  OBVIOUS
<1>4. /\ d.key \in Keys /\ d.text \in Texts /\ Orderly(V) /\ Settled(p, l, d, V)
      /\ LocalsFit(t)
  BY <1>2, <1>3, InHandNow
<1>5. /\ Doc(d.key) \in RowIds /\ Person(d.key) \in RowIds
      /\ \A e \in Entities : e \in RowIds
      /\ Doc(d.key)[1] = "document" /\ Person(d.key)[1] = "person"
  BY <1>4, RowsOfKinds DEF RowIds
<1>6. CASE p = "write"
  <2>1. PICK content : Statement(t) = Row(Doc(d.key), content) /\ content.text = d.text
    BY <1>3, <1>6 DEF Statement
  <2>2. DOMAIN Statement(t) = {Doc(d.key)} /\ Statement(t)[Doc(d.key)].text = d.text
    BY <2>1, RowIs
  <2>3. Doc(d.key) \notin Updates(t) => Doc(d.key) \notin DOMAIN V
    <3>1. l.doc = None => Doc(d.key) \notin DOMAIN V
      BY <1>4, <1>6, ConstantTypes DEF Settled, Orderly
    <3> QED
      BY <1>3, <1>6, <3>1 DEF Updates
  <2>4. \A k \in Keys : Doc(k) \in DOMAIN V /\ Doc(k) # Doc(d.key) => V[Doc(k)].text # d.text
    BY <1>4, <1>6 DEF Settled
  <2> QED
    BY <1>3, <1>4, <1>5, <2>2, <2>3, <2>4, FitsBeside
<1>7. CASE p = "person"
  <2>1. DOMAIN Statement(t) = {Person(d.key)}
    BY <1>3, <1>7, StatementIs
  <2>2. Person(d.key) \notin DOMAIN V
    BY <1>4, <1>7 DEF Settled
  <2> QED
    BY <1>3, <1>4, <1>5, <2>1, <2>2, FitsBeside
<1>8. CASE p = "update"
  <2>1. DOMAIN Statement(t) \subseteq {Person(l.person)}
    BY <1>3, <1>8, StatementIs
  <2>2. Updates(t) = {Person(l.person)} /\ l.person \in Keys
    BY <1>3, <1>4, <1>8 DEF Updates, LocalsFit
  <2>3. Person(l.person) \in RowIds /\ Person(l.person)[1] = "person"
    BY <2>2, RowsOfKinds DEF RowIds
  <2> QED
    BY <1>3, <1>4, <2>1, <2>2, <2>3, FitsBeside
<1>9. CASE p = "insert"
  <2>1. PICK e : e = Entity(NameOf[Head(l.todo)], t, RecordNumber(t))
    OBVIOUS
  <2>2. DOMAIN Statement(t) = {e}
    BY <1>3, <1>9, <2>1, StatementIs
  <2>3. p \in Merging
    BY <1>9 DEF Merging
  <2>4. e \in Entities /\ e[2] = NameOf[Head(l.todo)] /\ e[1] = "entity"
    <3>1. Head(l.todo) \in Mentions
      BY <1>3, <2>3, MergeFitsNow
    <3>2. RecordNumber(t) \in 1..MaxRecords
      BY <1>2, InHandNow, InHandIs
    <3> QED
      BY <2>1, <3>1, <3>2 DEF Entities, Entity
  <2>5. \A x \in Entities : x \in DOMAIN V => x[2] # e[2]
    BY <1>4, <1>9, <2>4 DEF Settled
  <2> QED
    BY <1>3, <1>4, <1>5, <2>2, <2>4, <2>5, FitsBeside
<1>10. CASE p = "register"
  <2>1. PICK a : a = Alias(Head(l.todo))
    OBVIOUS
  <2>2. DOMAIN Statement(t) = {a}
    BY <1>3, <1>10, <2>1, StatementIs
  <2>3. p \in Merging
    BY <1>10 DEF Merging
  <2>4. a \in RowIds /\ a[1] = "alias"
    <3>1. Head(l.todo) \in Mentions
      BY <1>3, <2>3, MergeFitsNow
    <3> QED
      BY <2>1, <3>1, RowsOfKinds DEF RowIds
  <2>5. a \notin DOMAIN V
    BY <1>4, <1>10, <2>1 DEF Settled
  <2> QED
    BY <1>3, <1>4, <2>2, <2>4, <2>5, FitsBeside
<1>11. CASE p = "flush"
  <2>1. PICK new, links : /\ links = {Link(l.person, e) : e \in l.linked \ l.held}
                          /\ new = Statement(t)
    OBVIOUS
  <2>2. /\ DOMAIN new = links \cup {Doc(d.key)}
        /\ new[Doc(d.key)] = [text |-> d.text, person |-> l.person]
    BY <1>3, <1>11, <2>1, FlushWrites
  <2>3. Updates(t) = {Doc(d.key)} /\ l.person \in Keys /\ l.linked \subseteq Entities
    BY <1>3, <1>4, <1>11 DEF Updates, LocalsFit, Settled, Partial
  <2>4. ASSUME NEW r \in links
        PROVE  r \in RowIds /\ r[1] = "link" /\ r \notin DOMAIN V
    <3>1. PICK e \in l.linked \ l.held : r = Link(l.person, e)
      BY <2>1, <2>4
    <3> QED
      BY <1>4, <1>11, <2>3, <3>1, RowsOfKinds DEF RowIds, Settled
  <2>5. \A k \in Keys : Doc(k) \in DOMAIN V /\ Doc(k) # Doc(d.key) => V[Doc(k)].text # d.text
    <3>1. Doc(d.key) \in DOMAIN V /\ V[Doc(d.key)].text = d.text
      BY <1>4, <1>11 DEF Settled, Partial
    <3> QED
      BY <1>4, <3>1 DEF Orderly
  <2>6. DOMAIN Statement(t) \subseteq RowIds
    BY <1>5, <2>1, <2>2, <2>4
  <2>7. \A r \in DOMAIN Statement(t) : r \notin Updates(t) => r \notin DOMAIN View(t)
    BY <1>3, <2>1, <2>2, <2>3, <2>4
  <2>8. \A r \in DOMAIN Statement(t) : r[1] = "document" => r = Doc(d.key)
    BY <2>1, <2>2, <2>4
  <2>9. \A r \in DOMAIN Statement(t) : r[1] # "entity"
    BY <1>5, <2>1, <2>2, <2>4
  <2>10. \A k \in Keys : \A r \in DOMAIN Statement(t) :
            r[1] = "document" /\ Doc(k) \in DOMAIN View(t) /\ Doc(k) # r =>
               View(t)[Doc(k)].text # Statement(t)[r].text
    BY <1>3, <2>1, <2>2, <2>5, <2>8
  <2> QED
    BY <1>3, <1>4, <2>6, <2>7, <2>9, <2>10, FitsBeside
<1>12. CASE p \notin {"write", "person", "update", "insert", "register", "flush"}
  <2>1. Statement(t) = NoRows
    BY <1>3, <1>12 DEF Statement
  <2>2. DOMAIN Statement(t) = {}
    BY <2>1, NoRowsAreEmpty
  <2> QED
    BY <1>3, <1>4, <2>2, FitsBeside
<1> QED
  BY <1>6, <1>7, <1>8, <1>9, <1>10, <1>11, <1>12

-----------------------------------------------------------------------------
(* What a step of the one that runs has to leave *)

LEMMA OthersRest ==
    ASSUME OneInv, NEW t \in Txs, Running(t)
    PROVE  \A u \in Txs \ {t} : ~Running(u)
  BY DEF OneInv, Alone

LEMMA StillAlone ==
    ASSUME IInv, OneInv, NEW t \in Txs, OnlyOf(t), \A u \in Txs \ {t} : ~Running(u),
           faults' \in Nat, faults' <= faults,
           Running(t)' \/ over'[t] = NoRows,
           AloneFits(t)', FailuresCount(t)', WritesNothing(t)'
    PROVE  OneInv'
<1>1. /\ db' = db /\ file' = file /\ Records' = Records
      /\ \A u \in Txs \ {t} : tx'[u] = tx[u] /\ over'[u] = over[u]
  BY DEF OnlyOf, Records
<1>2. \A u \in Txs \ {t} : ~Running(u)' /\ over'[u] = NoRows
  BY <1>1 DEF Running, OneInv, Alone
<1>3. Alone'
  BY <1>2 DEF Alone
<1>4. ASSUME NEW u \in Txs \ {t}
      PROVE  AloneFits(u)' /\ FailuresCount(u)' /\ WritesNothing(u)'
  <2>1. FailuresCount(u)
    BY DEF OneInv
  <2>2. Faults \in Nat /\ faults \in Nat
    BY ConstantTypes DEF OneInv
  <2>3. FailuresCount(u)'
    BY <1>1, <2>1, <2>2 DEF FailuresCount
  <2> QED
    BY <1>2, <2>3 DEF AloneFits, WritesNothing
<1>5. faults' <= Faults
  BY ConstantTypes DEF OneInv
<1> QED
  BY <1>1, <1>3, <1>4, <1>5 DEF OneInv

\* A transaction that has something new to write is none whose file is stored.
LEMMA BusyWrites ==
    ASSUME OneInv, NEW t \in Txs, Running(t), UNCHANGED <<db, file>>,
           tx[t].phase \notin {"next", "document", "checksum", "embed"}
    PROVE  WritesNothing(t)'
<1>1. ~AllKnown(t)
  BY DEF OneInv, WritesNothing
<1>2. AllKnown(t)' <=> AllKnown(t)
  BY DEF AllKnown, Known, Stored
<1> QED
  BY <1>1, <1>2 DEF WritesNothing

LEMMA GoesOn ==
    ASSUME IInv, OneInv, NEW t \in Txs, Running(t), tx[t].phase \in Inside,
           NEW p \in Inside, NEW l, Turned(t, p, l), OnlyOf(t), faults' = faults,
           Good(View(t)', Records), Settled(p, l, Current(t), View(t)'),
           Steady(Records) => SettledPerson(p, l, Current(t), View(t)'),
           WritesNothing(t)'
    PROVE  OneInv'
<1>1. /\ Records' = Records /\ Current(t)' = Current(t) /\ Mine(t)' = l
      /\ tx'[t].phase = p /\ tx'[t].saved = tx[t].saved /\ tx'[t].report = tx[t].report
      /\ db' = db
  BY DEF Turned, OnlyOf, Records, Current, RecordNumber, Mine
<1>2. Running(t)'
  BY <1>1 DEF Running, Inside, Before, Partial, Merging
<1>3. Good(Onto(tx'[t].saved, db'), Records')
  BY <1>1, InHandNow
<1>4. AloneFits(t)'
  <2>1. Settled(tx'[t].phase, Mine(t)', Current(t)', View(t)')
    BY <1>1
  <2>2. Steady(Records') => SettledPerson(tx'[t].phase, Mine(t)', Current(t)', View(t)')
    BY <1>1
  <2>3. Good(View(t)', Records')
    BY <1>1
  <2> QED
    BY <1>3, <2>1, <2>2, <2>3 DEF AloneFits
<1>5. FailuresCount(t)'
  BY <1>1 DEF OneInv, FailuresCount
<1>6. faults' \in Nat /\ faults' <= faults
  BY DEF OneInv
<1> QED
  BY <1>2, <1>4, <1>5, <1>6, OthersRest, StillAlone

LEMMA Concludes ==
    ASSUME IInv, OneInv, NEW t \in Txs, Running(t), Remaining(t), OnlyOf(t),
           NEW outcome, Conclude(t, outcome), Good(View(t)', Records),
           faults' \in Nat, faults' <= faults, outcome = "failed" => faults' < Faults,
           AllKnown(t) => over'[t] = NoRows /\ outcome \in Idling \cup {"failed"}
    PROVE  OneInv'
<1>1. /\ Records' = Records /\ tx'[t].phase = "next"
      /\ tx'[t].report = Append(tx[t].report, outcome)
  BY DEF OnlyOf, Records, Conclude, IInv
<1>2. Running(t)'
  BY <1>1 DEF Running
<1>3. AloneFits(t)'
  BY <1>1 DEF AloneFits, Inside, Before, Partial, Merging
<1>4. \A i \in DOMAIN tx'[t].report :
         \/ i \in DOMAIN tx[t].report /\ tx'[t].report[i] = tx[t].report[i]
         \/ tx'[t].report[i] = outcome
  <2>1. tx[t].report \in Seq(Outcomes)
    BY DEF IInv, TxFits, Shape
  <2> QED
    BY <1>1, <2>1
<1>5. FailuresCount(t)'
  <2>1. FailuresCount(t) /\ faults \in Nat /\ Faults \in Nat
    BY ConstantTypes DEF OneInv
  <2> QED
    BY <1>4, <2>1 DEF FailuresCount
<1>6. WritesNothing(t)'
  <2>1. AllKnown(t)' <=> AllKnown(t)
    BY DEF AllKnown, Known, Stored, OnlyOf
  <2>2. WritesNothing(t)
    BY DEF OneInv
  <2> QED
    BY <1>1, <1>4, <2>1, <2>2 DEF WritesNothing, Inside, Before, Partial, Merging
<1> QED
  BY <1>2, <1>3, <1>5, <1>6, OthersRest, StillAlone

LEMMA Returns ==
    ASSUME IInv, OneInv, NEW t \in Txs, Running(t), tx[t].phase \in Inside,
           NEW outcome, outcome # "failed", Return(t, outcome), OnlyOf(t),
           faults' = faults, Good(View(t)', Records),
           AllKnown(t) => over'[t] = NoRows /\ outcome \in Idling
    PROVE  OneInv'
<1>1. CASE Conclude(t, outcome)
  <2>1. Remaining(t)
    BY InHandNow
  <2>2. faults' \in Nat /\ faults' <= faults
    BY DEF OneInv
  <2> QED
    BY <1>1, <2>1, <2>2, Concludes
<1>2. CASE Continue(t, "embed", [NoLocals EXCEPT !.outcome = outcome])
  <2>1. PICK l : l = [NoLocals EXCEPT !.outcome = outcome]
    OBVIOUS
  <2>2. Turned(t, "embed", l) /\ l.outcome = outcome
    BY <1>2, <2>1, ContinueTurns DEF NoLocals
  <2>3. /\ "embed" \in Inside /\ "embed" \notin Partial /\ "embed" \notin Merging
    BY DEF Inside, Partial, Merging
  <2>4. \A d, rows : Settled("embed", l, d, rows) /\ SettledPerson("embed", l, d, rows)
    BY <2>2, <2>3 DEF Settled, SettledPerson
  <2>5. WritesNothing(t)'
    <3>1. AllKnown(t)' <=> AllKnown(t)
      BY DEF AllKnown, Known, Stored, OnlyOf
    <3>2. WritesNothing(t)
      BY DEF OneInv
    <3>3. /\ tx'[t].phase = "embed" /\ tx'[t].saved = tx[t].saved
          /\ tx'[t].report = tx[t].report /\ Mine(t)' = l
      BY <2>2 DEF Turned, Mine
    <3> QED
      BY <2>2, <3>1, <3>2, <3>3 DEF WritesNothing
  <2> QED
    BY <2>2, <2>3, <2>4, <2>5, GoesOn
<1> QED
  BY <1>1, <1>2 DEF Return
-----------------------------------------------------------------------------
(* One worker: every step leaves the invariant                                 *)

LEMMA NothingOnTop ==
    ASSUME NEW rows, rows = [r \in DOMAIN rows |-> rows[r]]
    PROVE  Onto(NoRows, rows) = rows
<1>1. Onto(NoRows, rows) = [r \in DOMAIN rows |-> rows[r]]
  BY NoRowsAreEmpty DEF Onto
<1> QED
  BY <1>1

\* A turn that writes nothing sees the same.
LEMMA SeesTheSame ==
    ASSUME IInv, NEW t \in Txs, NEW p, NEW l, Turned(t, p, l), UNCHANGED <<db, over, file>>
    PROVE  OnlyOf(t) /\ View(t)' = View(t)
  BY DEF IInv, Turned, OnlyOf, View

LEMMA ExecuteSees ==
    ASSUME NEW t \in Txs, DOMAIN over = Txs, Execute(t), db' = db
    PROVE  View(t)' = Onto(Statement(t), View(t))
<1>1. PICK new, mine : new = Statement(t) /\ mine = over[t]
  OBVIOUS
<1>2. over'[t] = Onto(new, mine)
  BY <1>1 DEF Execute
<1>3. View(t)' = Onto(Onto(new, mine), db)
  BY <1>2 DEF View
<1>4. View(t) = Onto(mine, db)
  BY <1>1 DEF View
<1> QED
  BY <1>1, <1>3, <1>4, OntoTwice

LEMMA StartAlone ==
    ASSUME IInv, OneInv, Workers = 1, NEW t \in Txs, Start(t)
    PROVE  OneInv'
<1>1. ASSUME NEW u \in Txs, Running(u) PROVE FALSE
  <2>1. {v \in Txs : Running(v)} = {u}
    BY <1>1 DEF OneInv, Alone
  <2>2. Cardinality({u}) = 1
    BY FS_Singleton
  <2> QED
    BY <2>1, <2>2 DEF Start
<1>2. over[t] = NoRows /\ tx[t].report = <<>>
  BY <1>1 DEF OneInv, Alone, Start, IInv, TxFits, Shape
<1>3. /\ OnlyOf(t) /\ tx'[t].phase = "next" /\ tx'[t].report = <<>> /\ over'[t] = NoRows
      /\ db' = db /\ faults' = faults
  BY <1>2 DEF Start, OnlyOf, IInv, TxFits, Shape, Fields
<1>4. Running(t)'
  BY <1>3 DEF Running
<1>5. Records' = Records /\ View(t)' = db
  <2>1. Records' = Records
    BY DEF Start, Records
  <2>2. View(t)' = Onto(NoRows, db)
    BY <1>3 DEF View
  <2> QED
    BY <2>1, <2>2, NothingOnTop DEF OneInv
<1>6. AloneFits(t)'
  BY <1>3, <1>5 DEF AloneFits, OneInv, Inside, Before, Partial, Merging
<1>7. FailuresCount(t)' /\ WritesNothing(t)'
  BY <1>3 DEF FailuresCount, WritesNothing, Inside, Before, Partial, Merging
<1> QED
  BY <1>1, <1>3, <1>4, <1>6, <1>7, StillAlone DEF OneInv

LEMMA ParseFailsAlone ==
    ASSUME IInv, OneInv, NEW t \in Txs, ParseFails(t)
    PROVE  OneInv'
<1>1. Running(t) /\ Remaining(t) /\ Conclude(t, "failed")
  BY DEF ParseFails, Running
<1>2. OnlyOf(t) /\ View(t)' = View(t) /\ over'[t] = over[t]
  BY DEF ParseFails, Conclude, OnlyOf, View, IInv
<1>3. faults' \in Nat /\ faults' <= faults /\ faults' < Faults
  BY ConstantTypes DEF ParseFails, OneInv
<1>4. Good(View(t)', Records)
  BY <1>1, <1>2 DEF OneInv, AloneFits
<1>5. AllKnown(t) => over'[t] = NoRows
  BY <1>1, <1>2 DEF OneInv, WritesNothing
<1> QED
  BY <1>1, <1>2, <1>3, <1>4, <1>5, Concludes

LEMMA ParseAlone ==
    ASSUME IInv, OneInv, NEW t \in Txs, Parse(t)
    PROVE  OneInv'
<1>1. Running(t) /\ AloneFits(t) /\ WritesNothing(t) /\ FailuresCount(t)
  BY DEF Parse, Running, OneInv
<1>2. /\ OnlyOf(t) /\ View(t)' = View(t) /\ over' = over /\ db' = db /\ file' = file
      /\ tx'[t].phase = "document" /\ tx'[t].saved = over[t]
      /\ tx'[t].report = tx[t].report /\ faults' = faults /\ Records' = Records
  BY DEF Parse, OnlyOf, View, Records, IInv, TxFits, Shape, Fields
<1>3. Running(t)'
  BY <1>2 DEF Running
<1>4. Good(View(t), Records) /\ View(t) = Onto(over[t], db)
  BY <1>1 DEF AloneFits, View
<1>5. "document" \notin Partial /\ "document" \notin Merging
  BY DEF Partial, Merging
<1>6. AloneFits(t)'
  <2>1. Good(View(t)', Records') /\ Good(Onto(tx'[t].saved, db'), Records')
    BY <1>2, <1>4
  <2>2. \A l, d, rows : /\ Settled("document", l, d, rows)
                        /\ SettledPerson("document", l, d, rows)
    BY <1>5 DEF Settled, SettledPerson
  <2> QED
    BY <1>2, <2>1, <2>2 DEF AloneFits
<1>7. WritesNothing(t)'
  <2>1. AllKnown(t)' <=> AllKnown(t)
    BY <1>2 DEF AllKnown, Known, Stored
  <2> QED
    BY <1>1, <1>2, <2>1 DEF WritesNothing
<1>8. FailuresCount(t)'
  BY <1>1, <1>2 DEF FailuresCount
<1> QED
  BY <1>1, <1>2, <1>3, <1>6, <1>7, <1>8, OthersRest, StillAlone DEF OneInv

LEMMA AbortAlone ==
    ASSUME IInv, OneInv, NEW t \in Txs, Abort(t)
    PROVE  OneInv'
<1>1. Running(t) /\ DOMAIN tx = Txs /\ DOMAIN over = Txs
  BY DEF Abort, IInv
<1>2. tx'[t] = [Idle EXCEPT !.phase = "aborted"]
  BY <1>1 DEF Abort
<1>3. OnlyOf(t) /\ over'[t] = NoRows /\ tx'[t].phase = "aborted" /\ tx'[t].report = <<>>
  BY <1>1, <1>2 DEF Abort, OnlyOf, Idle
<1>4. ~Running(t)'
  BY <1>3 DEF Running
<1>5. AloneFits(t)' /\ FailuresCount(t)' /\ WritesNothing(t)'
  BY <1>3, <1>4 DEF AloneFits, FailuresCount, WritesNothing
<1>6. faults' \in Nat /\ faults' <= faults
  BY DEF Abort, OneInv
<1> QED
  BY <1>1, <1>3, <1>5, <1>6, OthersRest, StillAlone

LEMMA CommitAlone ==
    ASSUME IInv, OneInv, NEW t \in Txs, Commit(t)
    PROVE  OneInv'
<1>1. Running(t) /\ DOMAIN tx = Txs /\ DOMAIN over = Txs
  BY DEF Commit, Running, IInv
<1>2. /\ tx'[t].phase = "committed" /\ tx'[t].report = tx[t].report
      /\ \A u \in Txs \ {t} : tx'[u] = tx[u] /\ over'[u] = over[u]
      /\ over'[t] = NoRows /\ faults' = faults
      /\ file' = file /\ Records' = Records
  BY <1>1 DEF Commit, IInv, TxFits, Shape, Fields, Records
<1>3. \A u \in Txs : ~Running(u)' /\ over'[u] = NoRows
  <2>1. ~Running(t)'
    BY <1>2 DEF Running
  <2>2. \A u \in Txs \ {t} : ~Running(u) /\ over[u] = NoRows
    BY <1>1, OthersRest DEF OneInv, Alone
  <2> QED
    BY <1>2, <2>1, <2>2 DEF Running
<1>4. db' = [r \in DOMAIN db' |-> db'[r]] /\ Good(db', Records')
  <2>1. PICK mine, old : mine = over[t] /\ old = db
    OBVIOUS
  <2>2. db' = Onto(mine, old)
    BY <2>1 DEF Commit, View
  <2>3. Onto(mine, old) = [r \in DOMAIN Onto(mine, old) |-> Onto(mine, old)[r]]
    BY DEF Onto
  <2>4. Good(View(t), Records)
    BY <1>1 DEF OneInv, AloneFits
  <2>5. db' = View(t)
    BY DEF Commit
  <2> QED
    BY <1>2, <2>2, <2>3, <2>4, <2>5
<1>5. \A u \in Txs : FailuresCount(u)'
  BY <1>2 DEF OneInv, FailuresCount
<1>6. faults' \in Nat /\ faults' <= Faults
  BY <1>2 DEF OneInv
<1> QED
  BY <1>3, <1>4, <1>5, <1>6 DEF OneInv, Alone, AloneFits, WritesNothing

\* A file that is stored stays so while it is ingested, and the one that runs
\* sees what is committed.
LEMMA KnownStays ==
    ASSUME OneInv, NEW t \in Txs, Running(t), AllKnown(t), OnlyOf(t)
    PROVE  AllKnown(t)' /\ over[t] = NoRows /\ View(t) = db
<1>1. over[t] = NoRows
  BY DEF OneInv, WritesNothing
<1>2. View(t) = db
  BY <1>1, NothingOnTop DEF OneInv, View
<1> QED
  BY <1>1, <1>2 DEF AllKnown, Known, Stored, OnlyOf

\* Before it is written, a document that is stored is whole.
LEMMA StoredIsWhole ==
    ASSUME IInv, OneInv, NEW t \in Txs, Running(t), tx[t].phase \in Before,
           Doc(Current(t).key) \in DOMAIN View(t)
    PROVE  LET row == View(t)[Doc(Current(t).key)]
           IN  /\ row # None /\ row.person \in Keys /\ row.person # None
               /\ Steady(Records) =>
                     View(t)[Person(row.person)] = IdentityOf[Current(t).text]
<1>1. PICK d, V, row : d = Current(t) /\ V = View(t) /\ row = V[Doc(d.key)]
  OBVIOUS
<1>2. /\ d \in Records /\ d.key \in Keys /\ Orderly(V) /\ Good(V, Records)
  BY <1>1, InHandNow DEF Inside
<1>3. row \in [text : Texts, person : Keys \cup {None}]
  BY <1>1, <1>2 DEF Orderly
<1>4. row # None
  BY <1>3, ConstantTypes
<1>5. row.person \in Keys /\ row.person # None
  <2>1. Whole(V, row)
    BY <1>1, <1>2, ViewFits DEF Fits
  <2> QED
    BY <2>1, ConstantTypes DEF Whole
<1>6. ASSUME Steady(Records) PROVE V[Person(row.person)] = IdentityOf[d.text]
  BY <1>1, <1>2, <1>5, <1>6 DEF Good, Identified
<1> QED
  BY <1>1, <1>4, <1>5, <1>6

LEMMA SelectDocumentAlone ==
    ASSUME IInv, OneInv, NEW t \in Txs, SelectDocument(t)
    PROVE  OneInv'
<1>1. /\ tx[t].phase = "document" /\ tx[t].phase \in Inside /\ tx[t].phase \in Before
      /\ Running(t) /\ UNCHANGED <<db, over, file>> /\ faults' = faults
  BY DEF SelectDocument, Inside, Before, Running
<1>2. PICK d, V : d = Current(t) /\ V = View(t)
  OBVIOUS
<1>3. PICK found : found = IF Doc(d.key) \in DOMAIN V THEN V[Doc(d.key)] ELSE None
  OBVIOUS
<1>4. Good(V, Records) /\ d \in Records /\ Remaining(t)
  BY <1>1, <1>2, InHandNow
<1>5. CASE Return(t, "unchanged")
  <2>1. OnlyOf(t) /\ View(t)' = V
    BY <1>1, <1>2, <1>5 DEF Return, Continue, Conclude, OnlyOf, View, IInv
  <2>2. AllKnown(t) => over'[t] = NoRows /\ "unchanged" \in Idling
    BY <1>1, <2>1, KnownStays DEF Idling
  <2> QED
    BY <1>1, <1>4, <1>5, <2>1, <2>2, Returns
<1>6. CASE /\ ~(found # None /\ found.text = d.text /\ found.person # None)
           /\ Continue(t, "checksum", [NoLocals EXCEPT !.doc = found])
  <2>1. PICK l : l = [NoLocals EXCEPT !.doc = found]
    OBVIOUS
  <2>2. Turned(t, "checksum", l) /\ l.doc = found /\ l.linked = {}
    BY <1>6, <2>1, ContinueTurns DEF NoLocals
  <2>3. OnlyOf(t) /\ View(t)' = V
    BY <1>1, <1>2, <2>2, SeesTheSame
  <2>4. "checksum" \in Inside /\ "checksum" \notin Partial /\ "checksum" \notin Merging
    BY DEF Inside, Before, Partial, Merging
  <2>5. Settled("checksum", l, d, V)
    BY <1>3, <2>2, <2>4 DEF Settled
  <2>6. Steady(Records) => SettledPerson("checksum", l, d, V)
    BY <1>1, <1>2, <1>3, <2>2, <2>4, StoredIsWhole DEF SettledPerson
  <2>7. WritesNothing(t)'
    <3> SUFFICES ASSUME AllKnown(t)' PROVE WritesNothing(t)'
      BY DEF WritesNothing
    <3>1. AllKnown(t)
      BY <1>1 DEF AllKnown, Known, Stored
    <3>2. over[t] = NoRows /\ V = db /\ WritesNothing(t)
      BY <1>1, <1>2, <2>3, <3>1, KnownStays DEF OneInv
    <3>3. Known(d)
      <4>1. RecordNumber(t) \in DOMAIN file[t]
        <5>1. RecordNumber(t) \in 1..Len(file[t]) /\ file[t] \in Seq(Documents)
          BY <1>4, InHandIs, ConstantTypes DEF IInv
        <5> QED
          BY <5>1
      <4> QED
        BY <1>2, <3>1, <4>1 DEF AllKnown, Current
    <3>4. PICK k \in Keys : Doc(k) \in DOMAIN db /\ db[Doc(k)].text = d.text
      BY <3>3 DEF Known, Stored
    <3>5. k # d.key
      BY <1>1, <1>2, <1>3, <1>6, <3>2, <3>4, StoredIsWhole
    <3>6. /\ tx'[t].phase = "checksum" /\ tx'[t].saved = tx[t].saved
          /\ tx'[t].report = tx[t].report /\ Current(t)' = d
      BY <1>1, <1>2, <2>2 DEF Turned, Current, RecordNumber
    <3> QED
      BY <1>1, <3>1, <3>2, <3>4, <3>5, <3>6 DEF WritesNothing
  <2> QED
    BY <1>1, <1>2, <1>4, <2>2, <2>3, <2>4, <2>5, <2>6, <2>7, GoesOn
<1> QED
  BY <1>2, <1>3, <1>5, <1>6 DEF SelectDocument

LEMMA SelectByChecksumAlone ==
    ASSUME IInv, OneInv, NEW t \in Txs, SelectByChecksum(t)
    PROVE  OneInv'
<1>1. /\ tx[t].phase = "checksum" /\ tx[t].phase \in Inside
      /\ Running(t) /\ UNCHANGED <<db, over, file>> /\ faults' = faults
  BY DEF SelectByChecksum, Inside, Before, Running
<1>2. PICK d, V, l : d = Current(t) /\ V = View(t) /\ l = Mine(t)
  OBVIOUS
<1>3. /\ Good(V, Records) /\ Settled("checksum", l, d, V)
      /\ Steady(Records) => SettledPerson("checksum", l, d, V)
  BY <1>1, <1>2, InHandNow
<1>4. CASE Return(t, "duplicate")
  <2>1. OnlyOf(t) /\ View(t)' = V
    BY <1>1, <1>2, <1>4 DEF Return, Continue, Conclude, OnlyOf, View, IInv
  <2>2. AllKnown(t) => over'[t] = NoRows /\ "duplicate" \in Idling
    BY <1>1, <2>1, KnownStays DEF Idling
  <2> QED
    BY <1>1, <1>3, <1>4, <2>1, <2>2, Returns
<1>5. CASE /\ ~\E k \in Keys \ {d.key} : Doc(k) \in DOMAIN V /\ V[Doc(k)].text = d.text
           /\ Continue(t, "write", l)
  <2>1. Turned(t, "write", l)
    BY <1>5, ContinueTurns
  <2>2. OnlyOf(t) /\ View(t)' = V
    BY <1>1, <1>2, <2>1, SeesTheSame
  <2>3. "write" \in Inside /\ "write" \notin Partial /\ "write" \notin Merging
    BY DEF Inside, Before, Partial, Merging
  <2>4. Settled("write", l, d, V) /\ (Steady(Records) => SettledPerson("write", l, d, V))
    BY <1>3, <1>5, <2>3 DEF Settled, SettledPerson
  <2>5. WritesNothing(t)'
    <3> SUFFICES ASSUME AllKnown(t)' PROVE FALSE
      BY DEF WritesNothing
    <3>1. AllKnown(t)
      BY <1>1 DEF AllKnown, Known, Stored
    <3>2. V = db /\ WritesNothing(t)
      BY <1>1, <1>2, <2>2, <3>1, KnownStays DEF OneInv
    <3> QED
      BY <1>1, <1>2, <1>5, <3>1, <3>2 DEF WritesNothing
  <2> QED
    BY <1>1, <1>2, <1>3, <2>1, <2>2, <2>3, <2>4, <2>5, GoesOn
<1> QED
  BY <1>2, <1>4, <1>5 DEF SelectByChecksum

LEMMA WriteDocumentAlone ==
    ASSUME IInv, OneInv, NEW t \in Txs, WriteDocument(t)
    PROVE  OneInv'
<1>1. /\ tx[t].phase = "write" /\ tx[t].phase \in Inside /\ tx[t].phase \in Before
      /\ Running(t) /\ Execute(t) /\ UNCHANGED <<db, file>> /\ faults' = faults
  BY DEF WriteDocument, Inside, Before, Running
<1>2. PICK d, V, l, m : /\ d = Current(t) /\ V = View(t) /\ l = Mine(t)
                        /\ m = [l EXCEPT !.outcome = IF l.doc = None THEN "created"
                                                     ELSE "updated"]
  OBVIOUS
<1>3. Turned(t, "resolve", m)
  BY <1>2, ContinueTurns DEF WriteDocument
<1>4. OnlyOf(t)
  BY <1>1, <1>3 DEF OnlyOf, Turned, Execute, IInv
<1>5. /\ Good(V, Records) /\ Orderly(V) /\ Settled("write", l, d, V)
      /\ Steady(Records) => SettledPerson("write", l, d, V)
      /\ LocalsFit(t) /\ DOMAIN l = Locals /\ d \in Records
  BY <1>1, <1>2, InHandNow
<1>6. PICK q, new : /\ q = IF Doc(d.key) \in DOMAIN V THEN V[Doc(d.key)].person ELSE None
                    /\ new = Row(Doc(d.key), [text |-> d.text, person |-> q])
  OBVIOUS
<1>7. View(t)' = Onto(new, V)
  <2>1. Statement(t) = new
    BY <1>1, <1>2, <1>6 DEF Statement
  <2> QED
    BY <1>1, <1>2, <2>1, ExecuteSees DEF IInv
<1>8. /\ DOMAIN new = {Doc(d.key)}
      /\ new[Doc(d.key)] = [text |-> d.text, person |-> q]
  BY <1>6, RowIs
<1>9. Good(View(t)', Records)
  <2>1. /\ q \in Keys \cup {None}
        /\ q # None => /\ Person(q) \in DOMAIN V
                       /\ Steady(Records) => V[Person(q)] = IdentityOf[d.text]
    <3>1. CASE Doc(d.key) \in DOMAIN V
      <4>1. /\ q = V[Doc(d.key)].person /\ q \in Keys /\ q # None
            /\ Steady(Records) => V[Person(q)] = IdentityOf[d.text]
        BY <1>1, <1>2, <1>6, <3>1, StoredIsWhole
      <4>2. d.key \in Keys
        BY <1>5, RecordsAre
      <4> QED
        BY <1>5, <3>1, <4>1, <4>2 DEF Orderly
    <3>2. CASE Doc(d.key) \notin DOMAIN V
      BY <1>6, <3>2
    <3> QED
      BY <3>1, <3>2
  <2>2. \A k \in Keys \ {d.key} : Doc(k) \in DOMAIN V => V[Doc(k)].text # d.text
    BY <1>5 DEF Settled
  <2>3. Good(Onto(new, V), Records)
    BY <1>5, <1>8, <2>1, <2>2, RecordsAre, DocumentIsGood
  <2> QED
    BY <1>7, <2>3
<1>10. /\ Doc(d.key) \in DOMAIN View(t)' /\ View(t)'[Doc(d.key)].text = d.text
       /\ \A k : Person(k) \in DOMAIN V => View(t)'[Person(k)] = V[Person(k)]
  <2>1. PICK more : more = Onto(new, V)
    OBVIOUS
  <2>2. /\ DOMAIN more = DOMAIN new \cup DOMAIN V
        /\ \A r \in DOMAIN new : more[r] = new[r]
        /\ \A r \in DOMAIN V \ DOMAIN new : more[r] = V[r]
    BY <2>1 DEF Onto
  <2>3. \A k : Person(k) # Doc(d.key)
    BY RowsOfKinds
  <2> QED
    BY <1>7, <1>8, <2>1, <2>2, <2>3
<1>11. m.doc = l.doc /\ m.linked = l.linked
  BY <1>2, <1>5 DEF Locals
<1>12. "resolve" \in Inside /\ "resolve" \in Partial /\ "resolve" \notin Merging
  BY DEF Inside, Partial, Merging
<1>13. Settled("resolve", m, d, View(t)')
  <2>1. l.linked \subseteq Entities
    BY <1>5 DEF Settled
  <2> QED
    BY <1>10, <1>11, <1>12, <2>1 DEF Settled
<1>14. Steady(Records) => SettledPerson("resolve", m, d, View(t)')
  <2> SUFFICES ASSUME Steady(Records) PROVE SettledPerson("resolve", m, d, View(t)')
    OBVIOUS
  <2>1. l.doc # None => /\ Person(l.doc.person) \in DOMAIN V
                        /\ V[Person(l.doc.person)] = IdentityOf[d.text]
    BY <1>1, <1>2, <1>5 DEF LocalsFit, SettledPerson
  <2> QED
    BY <1>10, <1>11, <1>12, <2>1 DEF SettledPerson
<1>15. WritesNothing(t)'
  BY <1>1, BusyWrites
<1> QED
  BY <1>1, <1>2, <1>3, <1>4, <1>9, <1>12, <1>13, <1>14, <1>15, GoesOn

LEMMA ResolvePersonAlone ==
    ASSUME IInv, OneInv, NEW t \in Txs, ResolvePerson(t)
    PROVE  OneInv'
<1>1. /\ tx[t].phase = "resolve" /\ tx[t].phase \in Inside
      /\ Running(t) /\ UNCHANGED <<db, over, file>> /\ faults' = faults
  BY DEF ResolvePerson, Inside, Partial, Running
<1>2. PICK d, V, l : d = Current(t) /\ V = View(t) /\ l = Mine(t)
  OBVIOUS
<1>3. /\ Good(V, Records) /\ Settled("resolve", l, d, V)
      /\ Steady(Records) => SettledPerson("resolve", l, d, V)
      /\ d \in Records /\ d.key \in Keys /\ DOMAIN l = Locals
  BY <1>1, <1>2, InHandNow
<1>4. /\ Doc(d.key) \in DOMAIN V /\ V[Doc(d.key)].text = d.text
      /\ l.linked \subseteq Entities
  BY <1>3 DEF Settled, Partial
<1>5. WritesNothing(t)'
  BY <1>1, BusyWrites
<1>6. PICK linked, matches :
         /\ linked = IF l.doc = None THEN None ELSE l.doc.person
         /\ matches = Matches(t, IdentityOf[d.text])
  OBVIOUS
<1>7. Resolvable(t) = IF linked # None THEN {linked}
                      ELSE IF Person(d.key) \in DOMAIN V THEN {d.key}
                      ELSE IF Cardinality(matches) = 1 THEN matches ELSE {}
  BY <1>2, <1>6 DEF Resolvable
<1>8. matches = {k \in Keys : /\ IdentityOf[d.text] # NoIdentity
                              /\ Person(k) \in DOMAIN V
                              /\ V[Person(k)] = IdentityOf[d.text]}
  BY <1>2, <1>6 DEF Matches
<1>9. CASE Resolvable(t) = {} /\ Continue(t, "person", l)
  <2>1. Turned(t, "person", l)
    BY <1>9, ContinueTurns
  <2>2. OnlyOf(t) /\ View(t)' = V
    BY <1>1, <1>2, <2>1, SeesTheSame
  <2>3. "person" \in Inside /\ "person" \in Partial /\ "person" \notin Merging
    BY DEF Inside, Partial, Merging
  <2>4. Settled("person", l, d, V)
    <3>1. Person(d.key) \notin DOMAIN V
      BY <1>7, <1>9
    <3> QED
      BY <1>4, <2>3, <3>1 DEF Settled
  <2>5. ASSUME Steady(Records) PROVE SettledPerson("person", l, d, V)
    <3>1. ASSUME IdentityOf[d.text] # NoIdentity, NEW k \in Keys,
                 Person(k) \in DOMAIN V, V[Person(k)] = IdentityOf[d.text]
          PROVE  FALSE
      <4>1. matches = {k}
        BY <1>3, <1>8, <2>5, <3>1 DEF Good, Identified
      <4>2. Cardinality(matches) = 1
        BY <4>1, FS_Singleton
      <4> QED
        BY <1>7, <1>9, <4>1, <4>2
    <3> QED
      BY <2>3, <3>1 DEF SettledPerson
  <2> QED
    BY <1>1, <1>2, <1>3, <1>5, <2>1, <2>2, <2>3, <2>4, <2>5, GoesOn
<1>10. ASSUME NEW p \in Resolvable(t),
              Continue(t, "update",
                 [l EXCEPT !.person = p, !.identity = V[Person(p)],
                           !.held = {e \in Entities : Link(p, e) \in DOMAIN V}])
       PROVE  OneInv'
  <2>1. PICK m : m = [l EXCEPT !.person = p, !.identity = V[Person(p)],
                               !.held = {e \in Entities : Link(p, e) \in DOMAIN V}]
    OBVIOUS
  <2>2. Turned(t, "update", m)
    BY <1>10, <2>1, ContinueTurns
  <2>3. OnlyOf(t) /\ View(t)' = V
    BY <1>1, <1>2, <2>2, SeesTheSame
  <2>4. "update" \in Inside /\ "update" \in Partial /\ "update" \notin Merging
    BY DEF Inside, Partial, Merging
  <2>5. /\ m.person = p /\ m.identity = V[Person(p)] /\ m.linked = l.linked
        /\ m.held = {e \in Entities : Link(p, e) \in DOMAIN V}
    BY <1>3, <2>1 DEF Locals
  <2>6. Settled("update", m, d, V)
    BY <1>4, <2>4, <2>5 DEF Settled
  <2>7. ASSUME Steady(Records) PROVE SettledPerson("update", m, d, V)
    <3>1. V[Person(p)] = IdentityOf[d.text]
      <4>1. CASE linked # None
        BY <1>3, <1>6, <1>7, <2>7, <4>1 DEF SettledPerson
      <4>2. CASE linked = None /\ Person(d.key) \in DOMAIN V
        BY <1>3, <1>7, <2>7, <4>2 DEF Good, Identified
      <4>3. CASE linked = None /\ Person(d.key) \notin DOMAIN V
        BY <1>7, <1>8, <4>3
      <4> QED
        BY <4>1, <4>2, <4>3
    <3> QED
      BY <2>4, <2>5, <3>1 DEF SettledPerson
  <2> QED
    BY <1>1, <1>2, <1>3, <1>5, <2>2, <2>3, <2>4, <2>6, <2>7, GoesOn
<1> QED
  BY <1>2, <1>9, <1>10 DEF ResolvePerson

\* The merge begins with the relations that the person has.
LEMMA MergeBegins ==
    ASSUME IInv, OneInv, NEW t \in Txs, Running(t), tx[t].phase \in {"person", "update"},
           NEW l, StartMerge(t, l), DOMAIN l = Locals, l.linked \subseteq Entities,
           OnlyOf(t), faults' = faults, NEW V, V = View(t)', Good(V, Records),
           Doc(Current(t).key) \in DOMAIN V, V[Doc(Current(t).key)].text = Current(t).text,
           \A e \in Entities : Link(l.person, e) \in DOMAIN V => e \in l.held,
           Steady(Records) => V[Person(l.person)] = IdentityOf[Current(t).text]
    PROVE  OneInv'
<1>1. PICK names, p, m :
         /\ names = MentionsOf[Current(t).text]
         /\ p = IF names = <<>> THEN "flush"
                ELSE IF Head(names) \in Skills THEN "alias" ELSE "entity"
         /\ m = [l EXCEPT !.todo = names]
  OBVIOUS
<1>2. Turned(t, p, m)
  BY <1>1, ContinueTurns DEF StartMerge
<1>3. /\ m.person = l.person /\ m.held = l.held /\ m.linked = l.linked /\ m.todo = names
  BY <1>1 DEF Locals
<1>4. /\ p \in {"flush", "alias", "entity"} /\ p \in Inside
      /\ p = "entity" => Head(names) \notin Skills
  BY <1>1 DEF Inside, Partial, Merging
<1>5. Settled(p, m, Current(t), V)
  BY <1>3, <1>4 DEF Settled
<1>6. Steady(Records) => SettledPerson(p, m, Current(t), V)
  BY <1>3, <1>4 DEF SettledPerson
<1>7. tx[t].phase \in Inside /\ UNCHANGED <<db, file>>
  BY DEF Inside, Partial, OnlyOf
<1>8. WritesNothing(t)'
  BY <1>7, BusyWrites
<1> QED
  BY <1>2, <1>4, <1>5, <1>6, <1>7, <1>8, GoesOn

LEMMA InsertPersonAlone ==
    ASSUME IInv, OneInv, NEW t \in Txs, InsertPerson(t)
    PROVE  OneInv'
<1>1. /\ tx[t].phase = "person" /\ tx[t].phase \in Inside
      /\ Running(t) /\ Execute(t) /\ UNCHANGED <<db, file>> /\ faults' = faults
  BY DEF InsertPerson, Inside, Partial, Running
<1>2. PICK d, V, l, m : /\ d = Current(t) /\ V = View(t) /\ l = Mine(t)
                        /\ m = [l EXCEPT !.person = d.key]
  OBVIOUS
<1>3. /\ Good(V, Records) /\ Orderly(V) /\ Settled("person", l, d, V)
      /\ Steady(Records) => SettledPerson("person", l, d, V)
      /\ LocalsFit(t) /\ DOMAIN l = Locals /\ d \in Records /\ d.key \in Keys
  BY <1>1, <1>2, InHandNow
<1>4. PICK identity, new : /\ identity = IdentityOf[d.text]
                           /\ new = Row(Person(d.key), identity)
  OBVIOUS
<1>5. View(t)' = Onto(new, V)
  <2>1. Statement(t) = new
    BY <1>1, <1>2, <1>4 DEF Statement
  <2> QED
    BY <1>1, <1>2, <2>1, ExecuteSees DEF IInv
<1>6. PICK more : more = Onto(new, V)
  OBVIOUS
<1>7. /\ DOMAIN more = {Person(d.key)} \cup DOMAIN V /\ more[Person(d.key)] = identity
      /\ \A r \in DOMAIN V \ {Person(d.key)} : more[r] = V[r]
  BY <1>4, <1>6 DEF Onto, Row
<1>8. Person(d.key) \notin DOMAIN V
  BY <1>3 DEF Settled
<1>9. Good(more, Records)
  <2>1. Steady(Records) => \A c \in Records : c.key = d.key => identity = IdentityOf[c.text]
    BY <1>3, <1>4 DEF Steady
  <2>2. Steady(Records) /\ identity # NoIdentity => \A k \in Keys :
           Person(k) \in DOMAIN V => V[Person(k)] # identity
    BY <1>3, <1>4 DEF SettledPerson
  <2>3. \A c \in Records : c.key \in Keys
    BY RecordsAre
  <2> QED
    BY <1>3, <1>4, <1>6, <1>8, <2>1, <2>2, <2>3, PersonIsGood
<1>10. /\ Doc(d.key) \in DOMAIN more /\ more[Doc(d.key)].text = d.text
       /\ l.linked \subseteq Entities
  <2>1. /\ Doc(d.key) \in DOMAIN V /\ V[Doc(d.key)].text = d.text
        /\ l.linked \subseteq Entities
    BY <1>3 DEF Settled, Partial
  <2>2. Doc(d.key) # Person(d.key)
    BY RowsOfKinds
  <2> QED
    BY <1>7, <2>1, <2>2
<1>11. \A e \in Entities : Link(d.key, e) \notin DOMAIN more
  <2>1. \A e : Link(d.key, e) # Person(d.key)
    BY RowsOfKinds
  <2> QED
    BY <1>3, <1>7, <1>8, <2>1 DEF Orderly
<1>12. /\ m.person = d.key /\ m.linked = l.linked /\ m.held = l.held /\ DOMAIN m = Locals
  BY <1>2, <1>3 DEF Locals
<1>13. StartMerge(t, m)
  BY <1>2 DEF InsertPerson
<1>14. OnlyOf(t)
  BY <1>1 DEF InsertPerson, StartMerge, Continue, Execute, OnlyOf, IInv
<1> QED
  BY <1>1, <1>2, <1>4, <1>5, <1>6, <1>7, <1>9, <1>10, <1>11, <1>12, <1>13, <1>14, MergeBegins

LEMMA UpdatePersonAlone ==
    ASSUME IInv, OneInv, NEW t \in Txs, UpdatePerson(t)
    PROVE  OneInv'
<1>1. /\ tx[t].phase = "update" /\ tx[t].phase \in Inside
      /\ Running(t) /\ Execute(t) /\ UNCHANGED <<db, file>> /\ faults' = faults
  BY DEF UpdatePerson, Inside, Partial, Running
<1>2. PICK d, V, l, new : d = Current(t) /\ V = View(t) /\ l = Mine(t) /\ new = Statement(t)
  OBVIOUS
<1>3. /\ Good(V, Records) /\ Orderly(V) /\ Settled("update", l, d, V)
      /\ Steady(Records) => SettledPerson("update", l, d, V)
      /\ LocalsFit(t) /\ DOMAIN l = Locals
  BY <1>1, <1>2, InHandNow
<1>4. l.person \in Keys /\ Person(l.person) \in DOMAIN V
  BY <1>1, <1>2, <1>3 DEF LocalsFit
<1>5. PICK more : more = Onto(new, V)
  OBVIOUS
<1>6. View(t)' = more
  BY <1>1, <1>2, <1>5, ExecuteSees DEF IInv
<1>7. /\ Good(more, Records) /\ DOMAIN more = DOMAIN V
      /\ \A k : Doc(k) \in DOMAIN V => more[Doc(k)] = V[Doc(k)]
      /\ Steady(Records) => more[Person(l.person)] = IdentityOf[d.text]
  <2>1. CASE l.identity = IdentityOf[d.text]
    <3>1. new = NoRows
      BY <1>1, <1>2, <2>1 DEF Statement
    <3>2. V = [r \in DOMAIN V |-> V[r]]
      <4>1. PICK mine, old : mine = over[t] /\ old = db
        OBVIOUS
      <4>2. Onto(mine, old) = [r \in DOMAIN Onto(mine, old) |-> Onto(mine, old)[r]]
        BY DEF Onto
      <4> QED
        BY <1>2, <4>1, <4>2 DEF View
    <3>3. more = V
      BY <1>5, <3>1, <3>2, NothingOnTop
    <3> QED
      BY <1>3, <3>3 DEF SettledPerson
  <2>2. CASE l.identity # IdentityOf[d.text]
    <3>1. PICK identity : identity = IdentityOf[d.text]
      OBVIOUS
    <3>2. new = Row(Person(l.person), identity)
      BY <1>1, <1>2, <2>2, <3>1 DEF Statement
    <3>3. ~Steady(Records)
      BY <1>3, <2>2 DEF SettledPerson
    <3>4. Good(more, Records)
      BY <1>3, <1>4, <1>5, <3>2, <3>3, PersonIsRenamed
    <3>5. /\ DOMAIN more = {Person(l.person)} \cup DOMAIN V
          /\ \A r \in DOMAIN V \ {Person(l.person)} : more[r] = V[r]
      BY <1>5, <3>2 DEF Onto, Row
    <3>6. \A k : Doc(k) # Person(l.person)
      BY RowsOfKinds
    <3> QED
      BY <1>4, <3>3, <3>4, <3>5, <3>6
  <2> QED
    BY <2>1, <2>2
<1>8. /\ Doc(d.key) \in DOMAIN more /\ more[Doc(d.key)].text = d.text
      /\ l.linked \subseteq Entities
      /\ \A e \in Entities : Link(l.person, e) \in DOMAIN more => e \in l.held
  <2>1. /\ Doc(d.key) \in DOMAIN V /\ V[Doc(d.key)].text = d.text
        /\ l.linked \subseteq Entities
        /\ \A e \in Entities : Link(l.person, e) \in DOMAIN V => e \in l.held
    BY <1>3 DEF Settled, Partial
  <2> QED
    BY <1>7, <2>1
<1>9. StartMerge(t, l) /\ OnlyOf(t)
  BY <1>1, <1>2 DEF UpdatePerson, StartMerge, Continue, Execute, OnlyOf, IInv
<1> QED
  BY <1>1, <1>2, <1>3, <1>6, <1>7, <1>8, <1>9, MergeBegins

\* What the merge relies on.
MergeSees(l, d, rows, docs) ==
    /\ Doc(d.key) \in DOMAIN rows /\ rows[Doc(d.key)].text = d.text
    /\ l.linked \subseteq Entities
    /\ \A e \in Entities : Link(l.person, e) \in DOMAIN rows => e \in l.held
    /\ Person(l.person) \in DOMAIN rows
    /\ Steady(docs) => rows[Person(l.person)] = IdentityOf[d.text]

LEMMA MergeSeesNow ==
    ASSUME IInv, OneInv, NEW t \in Txs, Running(t), tx[t].phase \in Merging \cup {"flush"}
    PROVE  MergeSees(Mine(t), Current(t), View(t), Records) /\ tx[t].phase \in Inside
<1>1. tx[t].phase \in Inside /\ tx[t].phase \in Partial
  BY DEF Inside, Partial
<1>2. PICK p, l, d, V : p = tx[t].phase /\ l = Mine(t) /\ d = Current(t) /\ V = View(t)
  OBVIOUS
<1>3. /\ Settled(p, l, d, V) /\ LocalsFit(t)
      /\ Steady(Records) => SettledPerson(p, l, d, V)
  BY <1>1, <1>2, InHandNow
<1>4. /\ Doc(d.key) \in DOMAIN V /\ V[Doc(d.key)].text = d.text
      /\ l.linked \subseteq Entities
      /\ \A e \in Entities : Link(l.person, e) \in DOMAIN V => e \in l.held
  BY <1>1, <1>2, <1>3 DEF Settled
<1>5. Person(l.person) \in DOMAIN V
  BY <1>2, <1>3 DEF LocalsFit
<1>6. Steady(Records) => V[Person(l.person)] = IdentityOf[d.text]
  BY <1>2, <1>3 DEF SettledPerson
<1> QED
  BY <1>1, <1>2, <1>4, <1>5, <1>6 DEF MergeSees

LEMMA MergeSeesMore ==
    ASSUME NEW l, NEW d, NEW rows, NEW docs, MergeSees(l, d, rows, docs), NEW r, NEW content,
           r \in Entities \cup {Alias(m) : m \in Mentions}
    PROVE  MergeSees(l, d, Onto(Row(r, content), rows), docs)
<1>1. PICK more : more = Onto(Row(r, content), rows)
  OBVIOUS
<1>2. /\ DOMAIN more = {r} \cup DOMAIN rows
      /\ \A x \in DOMAIN rows \ {r} : more[x] = rows[x]
  BY <1>1 DEF Onto, Row
<1>3. r[1] \in {"entity", "alias"}
  BY RowsOfKinds
<1>4. /\ \A k : r # Doc(k) /\ r # Person(k)
      /\ \A p, e : r # Link(p, e)
  BY <1>3, RowsOfKinds
<1>5. MergeSees(l, d, more, docs)
  BY <1>2, <1>4 DEF MergeSees
<1> QED
  BY <1>1, <1>5

\* The merge goes on with the next name, or is over.
LEMMA MergedAlone ==
    ASSUME IInv, OneInv, NEW t \in Txs, Running(t), tx[t].phase \in Merging,
           NEW e \in Entities, Merged(t, e), OnlyOf(t), faults' = faults,
           NEW V, V = View(t)', Good(V, Records),
           MergeSees(Mine(t), Current(t), V, Records)
    PROVE  OneInv'
<1>1. PICK l, d : l = Mine(t) /\ d = Current(t)
  OBVIOUS
<1>2. PICK rest, p, m :
         /\ rest = Tail(l.todo)
         /\ p = IF rest = <<>> THEN "flush"
                ELSE IF Head(rest) \in Skills THEN "alias" ELSE "entity"
         /\ m = [l EXCEPT !.todo = rest, !.entity = None, !.linked = @ \cup {e}]
  OBVIOUS
<1>3. Turned(t, p, m)
  BY <1>1, <1>2, ContinueTurns DEF Merged
<1>4. DOMAIN l = Locals /\ tx[t].phase \in Inside
  BY <1>1, MergeFitsNow DEF Inside, Partial
<1>5. /\ m.person = l.person /\ m.held = l.held /\ m.linked = l.linked \cup {e}
      /\ m.todo = rest
  BY <1>2, <1>4 DEF Locals
<1>6. /\ p \in {"flush", "alias", "entity"} /\ p \in Inside
      /\ p = "entity" => Head(rest) \notin Skills
  BY <1>2 DEF Inside, Partial, Merging
<1>7. Settled(p, m, d, V)
  BY <1>1, <1>5, <1>6 DEF Settled, MergeSees
<1>8. Steady(Records) => SettledPerson(p, m, d, V)
  BY <1>1, <1>5, <1>6 DEF SettledPerson, MergeSees
<1>9. WritesNothing(t)'
  <2>1. UNCHANGED <<db, file>>
    BY DEF OnlyOf
  <2> QED
    BY <2>1, BusyWrites DEF Merging
<1> QED
  BY <1>1, <1>3, <1>4, <1>6, <1>7, <1>8, <1>9, GoesOn

LEMMA TurnAlone ==
    ASSUME IInv, OneInv, NEW t \in Txs, Running(t), tx[t].phase \in Merging,
           NEW p \in {"entity", "insert", "register"}, NEW l, Continue(t, p, l),
           OnlyOf(t), faults' = faults, NEW V, V = View(t)', Good(V, Records),
           MergeSees(l, Current(t), V, Records),
           p = "insert" => \A e \in Entities : e \in DOMAIN V => e[2] # NameOf[Head(l.todo)],
           Head(l.todo) \in Skills => Alias(Head(l.todo)) \notin DOMAIN V,
           p = "register" => Head(l.todo) \in Skills
    PROVE  OneInv'
<1>1. Turned(t, p, l) /\ tx[t].phase \in Inside /\ p \in Inside /\ UNCHANGED <<db, file>>
  BY ContinueTurns DEF Inside, Partial, Merging, OnlyOf
<1>2. Settled(p, l, Current(t), V)
  BY DEF Settled, MergeSees
<1>3. Steady(Records) => SettledPerson(p, l, Current(t), V)
  BY DEF SettledPerson, MergeSees
<1>4. WritesNothing(t)'
  BY <1>1, BusyWrites DEF Merging
<1> QED
  BY <1>1, <1>2, <1>3, <1>4, GoesOn

LEMMA WithEntityAlone ==
    ASSUME IInv, OneInv, NEW t \in Txs, Running(t), tx[t].phase \in Merging,
           NEW e \in Entities, WithEntity(t, e), OnlyOf(t), faults' = faults,
           NEW V, V = View(t)', Good(V, Records),
           MergeSees(Mine(t), Current(t), V, Records),
           Head(Mine(t).todo) \in Skills => Alias(Head(Mine(t).todo)) \notin DOMAIN V
    PROVE  OneInv'
<1>1. CASE Head(Mine(t).todo) \notin Skills
  <2>1. Merged(t, e)
    BY <1>1 DEF WithEntity
  <2> QED
    BY <2>1, MergedAlone
<1>2. CASE Head(Mine(t).todo) \in Skills
  <2>1. PICK l, m : l = Mine(t) /\ m = [l EXCEPT !.entity = e]
    OBVIOUS
  <2>2. Continue(t, "register", m)
    BY <1>2, <2>1 DEF WithEntity
  <2>3. DOMAIN l = Locals
    BY <2>1, MergeFitsNow
  <2>4. m.todo = l.todo /\ m.person = l.person /\ m.held = l.held /\ m.linked = l.linked
    BY <2>1, <2>3 DEF Locals
  <2>5. MergeSees(m, Current(t), V, Records)
    BY <2>1, <2>4 DEF MergeSees
  <2> QED
    BY <1>2, <2>1, <2>2, <2>4, <2>5, TurnAlone
<1> QED
  BY <1>1, <1>2

LEMMA SelectAliasAlone ==
    ASSUME IInv, OneInv, NEW t \in Txs, SelectAlias(t)
    PROVE  OneInv'
<1>1. /\ tx[t].phase = "alias" /\ tx[t].phase \in Merging /\ tx[t].phase \in Inside
      /\ Running(t) /\ UNCHANGED <<db, over, file>> /\ faults' = faults
  BY DEF SelectAlias, Inside, Partial, Merging, Running
<1>2. PICK l, V, m : l = Mine(t) /\ V = View(t) /\ m = Head(l.todo)
  OBVIOUS
<1>3. OnlyOf(t) /\ View(t)' = V
  BY <1>1, <1>2 DEF SelectAlias, Merged, Continue, OnlyOf, View, IInv
<1>4. MergeSees(l, Current(t), V, Records) /\ Good(V, Records) /\ m \in Mentions
  BY <1>1, <1>2, MergeSeesNow, MergeFitsNow, InHandNow
<1>5. CASE Alias(m) \in DOMAIN V /\ Merged(t, V[Alias(m)])
  <2>1. V[Alias(m)] \in Entities
    BY <1>2, <1>4, <1>5 DEF IInv, TxFits, RowsFit, Fits, Names
  <2> QED
    BY <1>1, <1>2, <1>3, <1>4, <1>5, <2>1, MergedAlone
<1>6. CASE Alias(m) \notin DOMAIN V /\ Continue(t, "entity", l)
  BY <1>1, <1>2, <1>3, <1>4, <1>6, TurnAlone
<1> QED
  BY <1>2, <1>5, <1>6 DEF SelectAlias

LEMMA SelectEntityAlone ==
    ASSUME IInv, OneInv, NEW t \in Txs, SelectEntity(t)
    PROVE  OneInv'
<1>1. /\ tx[t].phase = "entity" /\ tx[t].phase \in Merging /\ tx[t].phase \in Inside
      /\ Running(t) /\ UNCHANGED <<db, over, file>> /\ faults' = faults
  BY DEF SelectEntity, Inside, Partial, Merging, Running
<1>2. PICK l, V, n : l = Mine(t) /\ V = View(t) /\ n = NameOf[Head(l.todo)]
  OBVIOUS
<1>3. OnlyOf(t) /\ View(t)' = V
  BY <1>1, <1>2 DEF SelectEntity, WithEntity, Merged, Continue, OnlyOf, View, IInv
<1>4. MergeSees(l, Current(t), V, Records) /\ Good(V, Records)
  BY <1>1, <1>2, MergeSeesNow, InHandNow
<1>5. Head(l.todo) \in Skills => Alias(Head(l.todo)) \notin DOMAIN V
  <2>1. Settled("entity", l, Current(t), V)
    BY <1>1, <1>2, InHandNow
  <2> QED
    BY <2>1 DEF Settled
<1>6. PICK named : named = {e \in Entities : e[2] = n /\ e \in DOMAIN V}
  OBVIOUS
<1>7. CASE named = {} /\ Continue(t, "insert", l)
  <2>1. \A e \in Entities : e \in DOMAIN V => e[2] # NameOf[Head(l.todo)]
    BY <1>2, <1>6, <1>7
  <2> QED
    BY <1>1, <1>3, <1>4, <1>5, <1>7, <2>1, TurnAlone
<1>8. CASE \E e \in named : WithEntity(t, e)
  BY <1>1, <1>2, <1>3, <1>4, <1>5, <1>6, <1>8, WithEntityAlone
<1> QED
  BY <1>2, <1>6, <1>7, <1>8 DEF SelectEntity

LEMMA InsertEntityAlone ==
    ASSUME IInv, OneInv, NEW t \in Txs, InsertEntity(t)
    PROVE  OneInv'
<1>1. /\ tx[t].phase = "insert" /\ tx[t].phase \in Merging /\ tx[t].phase \in Inside
      /\ Running(t) /\ Execute(t) /\ UNCHANGED <<db, file>> /\ faults' = faults
  BY DEF InsertEntity, Inside, Partial, Merging, Running
<1>2. PICK l, V, e : /\ l = Mine(t) /\ V = View(t)
                     /\ e = Entity(NameOf[Head(l.todo)], t, RecordNumber(t))
  OBVIOUS
<1>3. WithEntity(t, e)
  BY <1>2 DEF InsertEntity
<1>4. OnlyOf(t)
  BY <1>1, <1>3 DEF WithEntity, Merged, Continue, Execute, OnlyOf, IInv
<1>5. MergeSees(l, Current(t), V, Records) /\ Good(V, Records) /\ Remaining(t)
  BY <1>1, <1>2, MergeSeesNow, InHandNow
<1>6. e \in Entities
  <2>1. Head(l.todo) \in Mentions
    BY <1>1, <1>2, MergeFitsNow
  <2>2. RecordNumber(t) \in 1..MaxRecords
    BY <1>5, InHandIs
  <2> QED
    BY <1>2, <2>1, <2>2 DEF Entities
<1>7. PICK more : more = Onto(Row(e, Present), V)
  OBVIOUS
<1>8. View(t)' = more
  <2>1. Statement(t) = Row(e, Present)
    BY <1>1, <1>2 DEF Statement
  <2> QED
    BY <1>1, <1>2, <1>7, <2>1, ExecuteSees DEF IInv
<1>9. Good(more, Records) /\ MergeSees(l, Current(t), more, Records)
  <2>1. \A c \in Records : c.key \in Keys
    BY RecordsAre
  <2> QED
    BY <1>5, <1>6, <1>7, <2>1, PlainRowIsGood, MergeSeesMore
<1>10. Head(l.todo) \in Skills => Alias(Head(l.todo)) \notin DOMAIN more
  <2>1. Settled("insert", l, Current(t), V)
    BY <1>1, <1>2, InHandNow
  <2>2. Head(l.todo) \in Skills => Alias(Head(l.todo)) \notin DOMAIN V
    BY <2>1 DEF Settled
  <2>3. DOMAIN more = {e} \cup DOMAIN V
    BY <1>7 DEF Onto, Row
  <2>4. \A m : Alias(m) # e
    BY <1>6, RowsOfKinds
  <2> QED
    BY <2>2, <2>3, <2>4
<1> QED
  BY <1>1, <1>2, <1>3, <1>4, <1>6, <1>8, <1>9, <1>10, WithEntityAlone

LEMMA InsertAliasAlone ==
    ASSUME IInv, OneInv, NEW t \in Txs, InsertAlias(t)
    PROVE  OneInv'
<1>1. /\ tx[t].phase = "register" /\ tx[t].phase \in Merging /\ tx[t].phase \in Inside
      /\ Running(t) /\ Execute(t) /\ UNCHANGED <<db, file>> /\ faults' = faults
  BY DEF InsertAlias, Inside, Partial, Merging, Running
<1>2. PICK l, V, a : l = Mine(t) /\ V = View(t) /\ a = Alias(Head(l.todo))
  OBVIOUS
<1>3. Merged(t, l.entity)
  BY <1>2 DEF InsertAlias
<1>4. OnlyOf(t)
  BY <1>1, <1>3 DEF Merged, Continue, Execute, OnlyOf, IInv
<1>5. /\ MergeSees(l, Current(t), V, Records) /\ Good(V, Records)
      /\ l.entity \in Entities /\ a \in {Alias(m) : m \in Mentions}
  <2>1. LocalsFit(t) /\ Head(l.todo) \in Mentions
    BY <1>1, <1>2, InHandNow, MergeFitsNow
  <2>2. l.entity \in Entities
    BY <1>1, <1>2, <2>1 DEF LocalsFit, Names
  <2> QED
    BY <1>1, <1>2, <2>1, <2>2, MergeSeesNow, InHandNow
<1>6. PICK e, more : e = l.entity /\ more = Onto(Row(a, e), V)
  OBVIOUS
<1>7. View(t)' = more
  <2>1. Statement(t) = Row(a, e)
    BY <1>1, <1>2, <1>6 DEF Statement
  <2> QED
    BY <1>1, <1>2, <1>6, <2>1, ExecuteSees DEF IInv
<1>8. Good(more, Records) /\ MergeSees(l, Current(t), more, Records)
  <2>1. \A c \in Records : c.key \in Keys
    BY RecordsAre
  <2> QED
    BY <1>5, <1>6, <2>1, PlainRowIsGood, MergeSeesMore
<1> QED
  BY <1>1, <1>2, <1>3, <1>4, <1>5, <1>7, <1>8, MergedAlone

LEMMA FlushAlone ==
    ASSUME IInv, OneInv, NEW t \in Txs, Flush(t)
    PROVE  OneInv'
<1>1. /\ tx[t].phase = "flush" /\ tx[t].phase \in Inside
      /\ Running(t) /\ Execute(t) /\ UNCHANGED <<db, file>> /\ faults' = faults
  BY DEF Flush, Inside, Partial, Running
<1>2. PICK d, l, V, new : /\ d = Current(t) /\ l = Mine(t) /\ V = View(t)
                          /\ new = Statement(t)
  OBVIOUS
<1>3. /\ MergeSees(l, d, V, Records) /\ Good(V, Records) /\ Orderly(V)
      /\ d \in Records /\ d.key \in Keys /\ l.outcome \in Writing /\ l.person \in Keys
  <2>1. LocalsFit(t)
    BY <1>1, InHandNow
  <2>2. l.person \in Keys
    BY <1>1, <1>2, <2>1 DEF LocalsFit
  <2> QED
    BY <1>1, <1>2, <2>2, MergeSeesNow, InHandNow, MergeFitsNow
<1>4. OnlyOf(t)
  BY <1>1 DEF Flush, Return, Continue, Conclude, Execute, OnlyOf, IInv
<1>5. PICK links : links = {Link(l.person, e) : e \in l.linked \ l.held}
  OBVIOUS
<1>6. /\ DOMAIN new = links \cup {Doc(d.key)}
      /\ new[Doc(d.key)] = [text |-> d.text, person |-> l.person]
  BY <1>1, <1>2, <1>5, FlushWrites
<1>7. Good(Onto(new, V), Records)
  <2>1. \A r \in DOMAIN new : \/ r = Doc(d.key)
                              \/ l.person \in Keys /\ \E e \in Entities : r = Link(l.person, e)
    BY <1>3, <1>5, <1>6 DEF MergeSees
  <2>2. /\ l.person \in Keys \cup {None} /\ Person(l.person) \in DOMAIN V
        /\ Steady(Records) => V[Person(l.person)] = IdentityOf[d.text]
    BY <1>3 DEF MergeSees
  <2>3. \A k \in Keys \ {d.key} : Doc(k) \in DOMAIN V => V[Doc(k)].text # d.text
    BY <1>3 DEF MergeSees, Orderly
  <2>4. Doc(d.key) \in DOMAIN new
    BY <1>6
  <2> QED
    BY <1>3, <1>6, <2>1, <2>2, <2>3, <2>4, RecordsAre, DocumentIsGood
<1>8. View(t)' = Onto(new, V)
  BY <1>1, <1>2, ExecuteSees DEF IInv
<1>9. ~AllKnown(t)
  BY <1>1 DEF OneInv, WritesNothing
<1>10. Return(t, l.outcome) /\ l.outcome # "failed"
  BY <1>2, <1>3 DEF Flush, Writing
<1>11. Good(View(t)', Records)
  BY <1>7, <1>8
<1> QED
  BY <1>1, <1>4, <1>9, <1>10, <1>11, Returns

LEMMA EmbeddedAlone ==
    ASSUME IInv, OneInv, NEW t \in Txs, Embedded(t)
    PROVE  OneInv'
<1>1. /\ tx[t].phase = "embed" /\ tx[t].phase \in Inside /\ Running(t)
      /\ UNCHANGED <<db, over, file>> /\ faults' = faults
  BY DEF Embedded, Inside, Running
<1>2. PICK outcome : outcome = Mine(t).outcome
  OBVIOUS
<1>3. Conclude(t, outcome) /\ OnlyOf(t) /\ View(t)' = View(t) /\ over'[t] = over[t]
  BY <1>1, <1>2 DEF Embedded, Conclude, OnlyOf, View, IInv
<1>4. Good(View(t)', Records) /\ Remaining(t) /\ outcome # "failed"
  BY <1>1, <1>2, <1>3, InHandNow DEF Settled
<1>5. AllKnown(t) => over'[t] = NoRows /\ outcome \in Idling
  BY <1>1, <1>2, <1>3 DEF OneInv, WritesNothing
<1>6. faults' \in Nat /\ faults' <= faults
  BY <1>1 DEF OneInv
<1> QED
  BY <1>1, <1>3, <1>4, <1>5, <1>6, Concludes

LEMMA EmbedFailsAlone ==
    ASSUME IInv, OneInv, NEW t \in Txs, EmbedFails(t)
    PROVE  OneInv'
<1>1. /\ tx[t].phase = "embed" /\ tx[t].phase \in Inside /\ Running(t)
      /\ UNCHANGED <<db, file>> /\ RollBack(t)
  BY DEF EmbedFails, RollBack, Inside, Running
<1>2. PICK s : s = tx[t].saved
  OBVIOUS
<1>3. Conclude(t, "failed") /\ OnlyOf(t) /\ over'[t] = s /\ View(t)' = Onto(s, db)
  BY <1>1, <1>2 DEF RollBack, Conclude, OnlyOf, View, IInv
<1>4. Good(View(t)', Records) /\ Remaining(t)
  BY <1>1, <1>2, <1>3, InHandNow
<1>5. AllKnown(t) => over'[t] = NoRows
  BY <1>1, <1>2, <1>3 DEF OneInv, WritesNothing
<1>6. faults' \in Nat /\ faults' <= faults /\ faults' < Faults
  BY ConstantTypes DEF EmbedFails, OneInv
<1> QED
  BY <1>1, <1>3, <1>4, <1>5, <1>6, Concludes

LEMMA NoErrorAlone ==
    ASSUME IInv, OneInv, NEW t \in Txs
    PROVE  ~IntegrityError(t) /\ ~DeadlockError(t)
<1>1. Running(t) => ~Violates(t)
  BY NothingViolates
<1>2. Running(t) => WaitsFor(t) = {}
  BY NobodyWaits DEF OneInv
<1> QED
  BY <1>1, <1>2 DEF IntegrityError, DeadlockError

LEMMA InitAlone == Init => OneInv
<1> SUFFICES ASSUME Init PROVE OneInv
  OBVIOUS
<1>1. \A t \in Txs : ~Running(t) /\ over[t] = NoRows /\ tx[t].report = <<>>
  BY DEF Init, Idle, Running
<1>2. db = NoRows /\ DOMAIN db = {}
  BY NoRowsAreEmpty DEF Init
<1>3. db = [r \in DOMAIN db |-> db[r]]
  BY <1>2 DEF NoRows
<1>4. Good(db, Records)
  BY <1>2 DEF Good, Orderly, Identified
<1>5. faults \in Nat /\ faults <= Faults
  BY ConstantTypes DEF Init
<1> QED
  BY <1>1, <1>3, <1>4, <1>5 DEF OneInv, Alone, AloneFits, FailuresCount, WritesNothing

LEMMA NextAlone ==
    ASSUME Workers = 1
    PROVE  IInv /\ OneInv /\ [Next]_vars => OneInv'
<1> SUFFICES ASSUME IInv, OneInv, [Next]_vars PROVE OneInv'
  OBVIOUS
<1>1. ASSUME NEW t \in Txs, Step(t) PROVE OneInv'
  BY <1>1, StartAlone, ParseAlone, SelectDocumentAlone, SelectByChecksumAlone,
     WriteDocumentAlone, ResolvePersonAlone, InsertPersonAlone, UpdatePersonAlone,
     SelectAliasAlone, SelectEntityAlone, InsertEntityAlone, InsertAliasAlone, FlushAlone,
     EmbeddedAlone, NoErrorAlone, CommitAlone DEF Step
<1>2. ASSUME NEW t \in Txs, Fault(t) PROVE OneInv'
  BY <1>2, ParseFailsAlone, EmbedFailsAlone, AbortAlone DEF Fault
<1>3. CASE UNCHANGED vars
  <2>1. db' = db /\ over' = over /\ tx' = tx /\ file' = file /\ faults' = faults
    BY <1>3 DEF vars
  <2>2. Records' = Records
    BY <2>1 DEF Records
  <2>3. ASSUME NEW t \in Txs PROVE AloneFits(t)' /\ FailuresCount(t)' /\ WritesNothing(t)'
    <3>1. AloneFits(t) /\ FailuresCount(t) /\ WritesNothing(t)
      BY DEF OneInv
    <3>2. /\ View(t)' = View(t) /\ Mine(t)' = Mine(t) /\ Current(t)' = Current(t)
          /\ Running(t)' = Running(t) /\ AllKnown(t)' = AllKnown(t)
      BY <2>1 DEF View, Mine, Current, RecordNumber, Running, AllKnown, Known, Stored
    <3>3. AloneFits(t)'
      BY <2>1, <2>2, <3>1, <3>2 DEF AloneFits
    <3> QED
      BY <2>1, <3>1, <3>2, <3>3 DEF FailuresCount, WritesNothing
  <2>4. Alone'
    BY <2>1 DEF OneInv, Alone, Running
  <2> QED
    BY <2>1, <2>2, <2>3, <2>4 DEF OneInv
<1> QED
  BY <1>1, <1>2, <1>3 DEF Next

LEMMA AloneInvariance ==
    ASSUME Workers = 1
    PROVE  Spec => []OneInv
<1> QED
  BY InitAlone, NextAlone, Invariance, PTL DEF Spec

\* One worker and no fault: nothing that parses is refused by a constraint,
\* however names, texts, identities and keys repeat within and across files.
THEOREM NothingIsRefused ==
    ASSUME Workers = 1
    PROVE  Spec => []NoSpuriousFailure
<1>1. OneInv => NoSpuriousFailure
  BY DEF OneInv, FailuresCount, NoSpuriousFailure
<1> QED
  BY <1>1, AloneInvariance, PTL

\* One worker: no two people carry one normalized identity, unless a document
\* was updated with another person's resume.
THEOREM IdentitiesAreUnique ==
    ASSUME Workers = 1
    PROVE  Spec => []IdentityIsUnique
<1>1. OneInv => IdentityIsUnique
  <2> SUFFICES ASSUME OneInv, KeysAreSteady
               PROVE  \A p, q \in Keys :
                        /\ {Person(p), Person(q)} \subseteq Committed
                        /\ db[Person(p)] = db[Person(q)] /\ db[Person(p)] # NoIdentity
                        => p = q
    BY DEF IdentityIsUnique
  <2>1. Steady(Records)
    BY DEF KeysAreSteady, Steady, Records
  <2>2. Identified(db, Records)
    BY <2>1 DEF OneInv, Good
  <2> QED
    BY <2>2 DEF Identified, Committed
<1> QED
  BY <1>1, AloneInvariance, PTL

\* One worker: a file whose texts are all stored is ingested again without a
\* single write, and every record is reported as skipped (README.md:175).
THEOREM NothingIsWrittenTwice ==
    ASSUME Workers = 1
    PROVE  Spec => ReingestionWritesNothing
<1>1. IInv /\ OneInv /\ [Next]_vars =>
        [\A t \in Txs :
            Commit(t) /\ (\A i \in DOMAIN file[t] : Known(file[t][i])) =>
                /\ db' = db
                /\ \A i \in DOMAIN file[t] :
                      tx[t].report[i] \in {"unchanged", "duplicate", "failed"}]_vars
  <2> SUFFICES ASSUME IInv, OneInv, NEW t \in Txs, Commit(t),
                      \A i \in DOMAIN file[t] : Known(file[t][i])
               PROVE  /\ db' = db
                      /\ \A i \in DOMAIN file[t] :
                            tx[t].report[i] \in {"unchanged", "duplicate", "failed"}
    OBVIOUS
  <2>1. Running(t) /\ AllKnown(t)
    BY DEF Commit, Running, AllKnown
  <2>2. /\ over[t] = NoRows
        /\ \A i \in DOMAIN tx[t].report : tx[t].report[i] \in Idling \cup {"failed"}
    BY <2>1 DEF OneInv, WritesNothing
  <2>3. db' = db
    <3>1. db' = Onto(NoRows, db)
      BY <2>2 DEF Commit, View
    <3> QED
      BY <3>1, NothingOnTop DEF OneInv
  <2>4. DOMAIN tx[t].report = DOMAIN file[t]
    <3>1. file[t] \in Seq(Documents)
      BY ConstantTypes DEF IInv
    <3>2. /\ tx[t].report \in Seq(Outcomes) /\ Len(tx[t].report) <= Len(file[t])
          /\ ~(Len(tx[t].report) < Len(file[t]))
      BY DEF IInv, TxFits, Shape, Commit, Remaining
    <3> QED
      BY <3>1, <3>2
  <2> QED
    BY <2>2, <2>3, <2>4 DEF Idling
<1> QED
  BY <1>1, AloneInvariance, Invariance, PTL DEF Spec, ReingestionWritesNothing
=============================================================================
