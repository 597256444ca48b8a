------------------------- MODULE Inferences_proofs -------------------------
(***************************************************************************)
(* Theorems about Inferences, for every set of people, profiles, chunks    *)
(* and rebuilds, all limits, and any number of edits, reviews and faults.  *)
(***************************************************************************)
EXTENDS Inferences, FiniteSetTheorems, TLAPS

\* The proposals about p that fit what was read: each has a key of p and the
\* evidence it needs, compares p with somebody else it read, and is determined
\* by its key and that person.
Fit(p, read, proposals) ==
    /\ \A x \in proposals :
         /\ x.key \in {p} \X Types \X Claims
         /\ x.ids \subseteq ChunkIds /\ Belongs(x.key, x.ids)
         /\ x.key[2] # "expertise" =>
              /\ x.peer \in DOMAIN read \ {p}
              /\ x.key[3] = NameOf[x.peer]
         /\ x.key[2] = "expertise" => x.peer = p
    /\ \A x, y \in proposals : x.key = y.key /\ x.peer = y.peer => x = y

\* The fields of a rebuild.
Fields == {"phase", "person", "ids", "read", "proposals", "existing", "alone"}

Shape ==
    /\ DOMAIN rebuild = Requests
    /\ \A r \in Requests : DOMAIN rebuild[r] = Fields

\* What a rebuild has read names people and their profiles.
ReadsFit ==
    \A r \in Requests : Active(r) =>
      /\ rebuild[r].ids \cup {rebuild[r].person} \subseteq DOMAIN profile
      /\ DOMAIN rebuild[r].read \subseteq People
      /\ \A q \in DOMAIN rebuild[r].read : rebuild[r].read[q].domains \subseteq Domains

ProposalsFit ==
    \A r \in Requests : rebuild[r].phase \in {"rows", "commit"} =>
      Fit(rebuild[r].person, rebuild[r].read, rebuild[r].proposals)

\* As long as nobody else has written rows of the person, the rows read are
\* those of the table.
LoneRebuildSeesRows ==
    \A r \in Requests : rebuild[r].phase = "commit" /\ rebuild[r].alone =>
      rebuild[r].existing =
        [k \in {k \in DOMAIN rows : k[1] = rebuild[r].person} |-> rows[k]]

IInv == TypeOK /\ EvidenceBelongs /\ Shape /\ ReadsFit /\ ProposalsFit
          /\ LoneRebuildSeesRows

-----------------------------------------------------------------------------
\* EvidenceOf returns chunks of the person.
LEMMA EvidenceIsOwn ==
    ASSUME NEW p, NEW c \in EvidenceOf(p)
    PROVE  c \in DOMAIN chunks /\ OwnerOf[c] = p
  BY DEF EvidenceOf, FirstOf

\* The engine's proposals fit what it is given.
LEMMA EngineFits ==
    ASSUME NEW p \in People, NEW read, p \in DOMAIN read, DOMAIN read \subseteq People,
           \A q \in DOMAIN read : read[q].domains \subseteq Domains,
           DOMAIN chunks \subseteq ChunkIds
    PROVE  Fit(p, read, Proposals(p, read))
<1> DEFINE S(d) == {c \in EvidenceOf(p) : d \in chunks[c]}
<1> DEFINE E == Expertise(p, read[p])
<1> DEFINE M(q) == Similarity(p, read[p], q, read[q])
<1> DEFINE R(q) == Relationship(p, read[p], q, read[q])
<1> DEFINE peers == DOMAIN read \ {p}
<1>1. \A x \in E : \E d \in Domains :
         x = [key |-> <<p, "expertise", d>>, peer |-> p, ids |-> S(d),
              why |-> <<{}, Cardinality(S(d)), 0>>] /\ Cardinality(S(d)) >= 2
  BY DEF Expertise, Proposal
<1>2. \A q \in peers : \A x \in M(q) :
         /\ x = [key |-> <<p, "similarity", NameOf[q]>>, peer |-> q,
                 ids |-> EvidenceOf(p) \cup EvidenceOf(q), why |-> x.why]
         /\ x.ids # {}
         /\ M(q) = {x}
  BY DEF Similarity, Proposal
<1>3. \A q \in peers : \A x \in R(q) :
         /\ x = [key |-> <<p, "relationship", NameOf[q]>>, peer |-> q,
                 ids |-> EvidenceOf(p) \cup EvidenceOf(q), why |-> x.why]
         /\ x.ids # {}
         /\ R(q) = {x}
  BY DEF Relationship, Proposal
<1>4. \A x \in Proposals(p, read) :
         x \in E \/ \E q \in peers : x \in M(q) \/ x \in R(q)
  BY DEF Proposals
<1>5. ASSUME NEW x \in E
      PROVE  /\ x.key \in {p} \X Types \X Claims /\ x.key[2] = "expertise"
             /\ x.ids \subseteq ChunkIds /\ Belongs(x.key, x.ids) /\ x.peer = p
  <2>1. PICK d \in Domains :
          /\ x = [key |-> <<p, "expertise", d>>, peer |-> p, ids |-> S(d),
                  why |-> <<{}, Cardinality(S(d)), 0>>]
          /\ Cardinality(S(d)) >= 2
    BY <1>1
  <2>2. S(d) # {}
    <3> HIDE DEF S
    <3>1. Cardinality({}) = 0
      BY FS_EmptySet
    <3> QED
      BY <2>1, <3>1
  <2>3. \A c \in S(d) : c \in ChunkIds /\ OwnerOf[c] = p
    BY EvidenceIsOwn
  <2>4. x.key = <<p, "expertise", d>> /\ x.ids = S(d) /\ x.peer = p
    BY <2>1
  <2> HIDE DEF S
  <2> QED
    BY <2>1, <2>2, <2>3, <2>4 DEF Belongs, Types, Claims
<1>6. ASSUME NEW q \in peers, NEW x, x \in M(q) \/ x \in R(q)
      PROVE  /\ x.key \in {p} \X Types \X Claims /\ x.key[2] # "expertise"
             /\ x.key[3] = NameOf[q] /\ x.peer = q
             /\ x.ids \subseteq ChunkIds /\ Belongs(x.key, x.ids)
  <2>1. /\ x.key \in {<<p, "similarity", NameOf[q]>>, <<p, "relationship", NameOf[q]>>}
        /\ x.peer = q /\ x.ids = EvidenceOf(p) \cup EvidenceOf(q) /\ x.ids # {}
    BY <1>2, <1>3, <1>6
  <2>2. \A c \in x.ids : c \in ChunkIds /\ OwnerOf[c] \in {p, q}
    BY <2>1, EvidenceIsOwn
  <2>3. q \in People
    OBVIOUS
  <2> QED
    BY <2>1, <2>2, <2>3 DEF Belongs, Types, Claims
<1> HIDE DEF E, M, R
<1>7. ASSUME NEW x \in Proposals(p, read), NEW y \in Proposals(p, read),
             x.key = y.key, x.peer = y.peer
      PROVE  x = y
  <2>1. CASE x \in E
    <3>1. y \in E
      BY <1>4, <1>5, <1>6, <1>7, <2>1
    <3>2. PICK d \in Domains :
            x = [key |-> <<p, "expertise", d>>, peer |-> p, ids |-> S(d),
                 why |-> <<{}, Cardinality(S(d)), 0>>]
      BY <1>1, <2>1
    <3>3. PICK e \in Domains :
            y = [key |-> <<p, "expertise", e>>, peer |-> p, ids |-> S(e),
                 why |-> <<{}, Cardinality(S(e)), 0>>]
      BY <1>1, <3>1
    <3>4. d = e
      <4>1. x.key = <<p, "expertise", d>> /\ y.key = <<p, "expertise", e>>
        BY <3>2, <3>3
      <4> QED
        BY <4>1, <1>7
    <3> QED
      BY <3>2, <3>3, <3>4
  <2>2. ASSUME NEW q \in peers, x \in M(q) \/ x \in R(q) PROVE x = y
    <3>1. x.key[2] # "expertise" /\ x.peer = q
      BY <1>6, <2>2
    <3>2. PICK q2 \in peers : y \in M(q2) \/ y \in R(q2)
      BY <1>4, <1>5, <1>7, <3>1
    <3>3. q2 = q
      BY <1>6, <1>7, <3>1, <3>2
    <3>4. CASE x \in M(q)
      <4>1. x.key[2] = "similarity"
        BY <1>2, <3>4
      <4>2. y \in M(q)
        <5>1. \A z \in R(q) : z.key[2] = "relationship"
          BY <1>3
        <5> QED
          BY <1>7, <3>2, <3>3, <4>1, <5>1
      <4> QED
        BY <1>2, <3>4, <4>2
    <3>5. CASE x \in R(q)
      <4>1. x.key[2] = "relationship"
        BY <1>3, <3>5
      <4>2. y \in R(q)
        <5>1. \A z \in M(q) : z.key[2] = "similarity"
          BY <1>2
        <5> QED
          BY <1>7, <3>2, <3>3, <4>1, <5>1
      <4> QED
        BY <1>3, <3>5, <4>2
    <3> QED
      BY <2>2, <3>4, <3>5
  <2> QED
    BY <1>4, <2>1, <2>2
<1>8. \A x \in Proposals(p, read) :
        /\ x.key \in {p} \X Types \X Claims
        /\ x.ids \subseteq ChunkIds /\ Belongs(x.key, x.ids)
        /\ x.key[2] # "expertise" =>
             /\ x.peer \in DOMAIN read \ {p}
             /\ x.key[3] = NameOf[x.peer]
        /\ x.key[2] = "expertise" => x.peer = p
  BY <1>4, <1>5, <1>6
<1> QED
  BY <1>7, <1>8 DEF Fit

-----------------------------------------------------------------------------
\* What a commit does to the table.
Effect(r, last) ==
    /\ DOMAIN rows' = (DOMAIN rows \ {k \in Deletes(r) : SameRow(r, k)})
                        \cup Inserts(r)
    /\ \A k \in Inserts(r) :
         /\ k \notin DOMAIN rows
         /\ last[k] \in rebuild[r].proposals /\ last[k].key = k
         /\ rows'[k] = Row(r, last[k].ids, last[k].why, "unverified")
    /\ \A k \in DOMAIN rows' \ Inserts(r) :
         rows'[k] = IF k \in Sent(r, last) /\ SameRow(r, k)
                    THEN Overwritten(r, k, last[k]) ELSE rows[k]
    /\ \A k \in Updates(r) :
         last[k] \in rebuild[r].proposals /\ last[k].key = k

LEMMA CommitEffect ==
    ASSUME NEW r \in Requests, Commit(r)
    PROVE  \E last \in LastOf(r) : Effect(r, last)
<1>1. PICK last \in LastOf(r) : ~Duplicates(r) /\ rows' = Synced(r, last)
  BY DEF Commit
<1>2. \A k \in KeysOf(rebuild[r].proposals) :
        last[k] \in rebuild[r].proposals /\ last[k].key = k
  BY DEF LastOf
<1>3. /\ Inserts(r) \subseteq KeysOf(rebuild[r].proposals)
      /\ Updates(r) \subseteq KeysOf(rebuild[r].proposals)
  BY DEF Inserts, Updates
<1>4. \A k \in Inserts(r) : k \notin DOMAIN rows
  BY <1>1 DEF Duplicates
<1>5. /\ DOMAIN rows' = (DOMAIN rows \ {k \in Deletes(r) : SameRow(r, k)})
                          \cup Inserts(r)
      /\ \A k \in Inserts(r) :
           rows'[k] = Row(r, last[k].ids, last[k].why, "unverified")
      /\ \A k \in DOMAIN rows' \ Inserts(r) :
           rows'[k] = IF k \in Sent(r, last) /\ SameRow(r, k)
                      THEN Overwritten(r, k, last[k]) ELSE rows[k]
  BY <1>1 DEF Synced
<1> QED
  BY <1>1, <1>2, <1>3, <1>4, <1>5 DEF Effect

\* The keys a rebuild writes are those of its person.
LEMMA CommitKeys ==
    ASSUME IInv, NEW r \in Requests, rebuild[r].phase = "commit"
    PROVE  \A k \in Deletes(r) \cup Inserts(r) \cup Updates(r) :
             k \in {rebuild[r].person} \X Types \X Claims
<1>1. \A x \in rebuild[r].proposals : x.key \in {rebuild[r].person} \X Types \X Claims
  BY DEF IInv, ProposalsFit, Fit
<1>2. DOMAIN rebuild[r].existing \subseteq {rebuild[r].person} \X Types \X Claims
  BY DEF IInv, TypeOK
<1> QED
  BY <1>1, <1>2 DEF Deletes, Inserts, Updates, KeysOf

\* A commit touches nobody else's rows.
LEMMA CommitElsewhere ==
    ASSUME IInv, NEW r \in Requests, Commit(r), NEW k, k[1] # rebuild[r].person
    PROVE  /\ k \in DOMAIN rows' <=> k \in DOMAIN rows
           /\ k \in DOMAIN rows => rows'[k] = rows[k]
<1>1. k \notin Deletes(r) \cup Inserts(r) \cup Updates(r)
  BY CommitKeys DEF Commit
<1> QED
  BY <1>1, CommitEffect DEF Effect, Sent

-----------------------------------------------------------------------------
(* The invariant is inductive. It is split into what it says of the tables   *)
(* and what it says of each rebuild.                                         *)

Tables ==
    /\ DOMAIN profile \subseteq People /\ DOMAIN chunks \subseteq ChunkIds
    /\ \A p \in DOMAIN profile : profile[p] \in Profiles
    /\ \A k \in DOMAIN rows :
         /\ k \in People \X Types \X Claims
         /\ rows[k].by \in Requests /\ rows[k].ids \subseteq ChunkIds
         /\ rows[k].status \in {"unverified"} \cup Verdicts
         /\ Belongs(k, rows[k].ids)
    /\ budget \in [{"edits", "reviews", "faults"} -> Nat]

RebuildFits(r) ==
    /\ rebuild[r].phase \in Phases
    /\ rebuild[r].person \in People \cup {0}
    /\ Active(r) =>
         /\ rebuild[r].person \in DOMAIN rebuild[r].read
         /\ rebuild[r].ids \cup {rebuild[r].person} \subseteq DOMAIN profile
         /\ DOMAIN rebuild[r].read \subseteq People
         /\ \A q \in DOMAIN rebuild[r].read :
              rebuild[r].read[q].domains \subseteq Domains
    /\ DOMAIN rebuild[r].existing \subseteq {rebuild[r].person} \X Types \X Claims
    /\ rebuild[r].phase \in {"rows", "commit"} =>
         Fit(rebuild[r].person, rebuild[r].read, rebuild[r].proposals)

SeesRows(r) ==
    rebuild[r].phase = "commit" /\ rebuild[r].alone =>
      rebuild[r].existing =
        [k \in {k \in DOMAIN rows : k[1] = rebuild[r].person} |-> rows[k]]

LEMMA Parts ==
    IInv <=> Tables /\ Shape /\ \A r \in Requests : RebuildFits(r) /\ SeesRows(r)
  BY DEF IInv, TypeOK, EvidenceBelongs, ReadsFit, ProposalsFit,
         LoneRebuildSeesRows, Tables, RebuildFits, SeesRows

LEMMA PartsNext ==
    ASSUME Tables', Shape',
           \A r \in Requests : RebuildFits(r)' /\ SeesRows(r)'
    PROVE  IInv'
  BY DEF IInv, TypeOK, EvidenceBelongs, ReadsFit, ProposalsFit,
         LoneRebuildSeesRows, Tables, RebuildFits, SeesRows

\* The rebuilds that an action does not change still fit.
LEMMA SameRebuild ==
    ASSUME IInv, NEW s \in Requests, rebuild'[s] = rebuild[s],
           DOMAIN profile \subseteq DOMAIN profile'
    PROVE  RebuildFits(s)' /\ (rows' = rows => SeesRows(s)')
<1>1. RebuildFits(s) /\ SeesRows(s)
  BY Parts
<1> QED
  BY <1>1 DEF RebuildFits, SeesRows, Active

LEMMA InvInit == Init => IInv
<1> SUFFICES ASSUME Init PROVE IInv
  OBVIOUS
<1>1. Tables
  BY ConstantTypes DEF Init, Tables
<1>2. Shape
  BY DEF Init, Shape, Fields, Idle
<1>3. \A r \in Requests : RebuildFits(r) /\ SeesRows(r)
  BY DEF Init, RebuildFits, SeesRows, Active, Idle, Phases
<1> QED
  BY <1>1, <1>2, <1>3, Parts

\* A step of rebuild r that leaves the tables alone.
LEMMA LocalStep ==
    ASSUME IInv, NEW r \in Requests, UNCHANGED <<data, rows>>,
           budget' \in [{"edits", "reviews", "faults"} -> Nat], Shape',
           \A s \in Requests \ {r} : rebuild'[s] = rebuild[s],
           RebuildFits(r)', SeesRows(r)'
    PROVE  IInv'
<1>1. Tables'
  <2>1. Tables /\ profile' = profile /\ chunks' = chunks /\ rows' = rows
    BY Parts DEF data
  <2> QED
    BY <2>1 DEF Tables
<1>2. \A s \in Requests : RebuildFits(s)' /\ SeesRows(s)'
  BY SameRebuild DEF data
<1> QED
  BY <1>1, <1>2, PartsNext

LEMMA InvCheck ==
    ASSUME IInv, NEW r \in Requests, NEW p \in Subjects, Check(r, p)
    PROVE  IInv'
<1>1. /\ Shape' /\ UNCHANGED <<data, rows>>
      /\ \A s \in Requests \ {r} : rebuild'[s] = rebuild[s]
      /\ budget' \in [{"edits", "reviews", "faults"} -> Nat]
  BY Parts DEF Check, Shape, Tables, Fields, Idle
<1>2. CASE p \in DOMAIN profile
  <2>1. rebuild'[r] = [Idle EXCEPT !.phase = "ids", !.person = p,
                                   !.read = [q \in {p} |-> profile[p]]]
    BY <1>2, Parts DEF Check, Shape
  <2>2. p \in People /\ p \in DOMAIN profile /\ profile[p].domains \subseteq Domains
    BY <1>2, Parts, ConstantTypes DEF Tables
  <2>3. RebuildFits(r)' /\ SeesRows(r)'
    BY <1>1, <2>1, <2>2 DEF RebuildFits, SeesRows, Active, Idle, Phases, data
  <2> QED
    BY <1>1, <2>3, LocalStep
<1>3. CASE p \notin DOMAIN profile
  <2>1. rebuild'[r] = [Idle EXCEPT !.phase = "failed", !.person = p]
    BY <1>3, Parts DEF Check, Shape
  <2>2. p \in People
    BY ConstantTypes
  <2>3. RebuildFits(r)' /\ SeesRows(r)'
    BY <1>1, <2>1, <2>2 DEF RebuildFits, SeesRows, Active, Idle, Phases, data
  <2> QED
    BY <1>1, <2>3, LocalStep
<1> QED
  BY <1>2, <1>3

LEMMA InvFilterIds ==
    ASSUME IInv, NEW r \in Requests, FilterIds(r)
    PROVE  IInv'
<1>1. /\ Shape' /\ UNCHANGED <<data, rows>>
      /\ \A s \in Requests \ {r} : rebuild'[s] = rebuild[s]
      /\ budget' \in [{"edits", "reviews", "faults"} -> Nat]
  BY Parts DEF FilterIds, Shape, Tables, Fields
<1>2. /\ rebuild'[r].phase = "profiles"
      /\ rebuild'[r].ids = FirstOf(DOMAIN profile, PeerLimit)
      /\ rebuild'[r].person = rebuild[r].person
      /\ rebuild'[r].read = rebuild[r].read
      /\ rebuild'[r].existing = rebuild[r].existing
  BY Parts DEF FilterIds, Shape, Fields
<1>3. rebuild'[r].ids \subseteq DOMAIN profile
  BY <1>2 DEF FirstOf
<1>4. RebuildFits(r) /\ Active(r)
  BY Parts DEF FilterIds, Active
<1>5. RebuildFits(r)' /\ SeesRows(r)'
  BY <1>2, <1>3, <1>4, <1>1 DEF RebuildFits, SeesRows, Active, Phases, data
<1> QED
  BY <1>1, <1>5, LocalStep

LEMMA InvReadProfiles ==
    ASSUME IInv, NEW r \in Requests, ReadProfiles(r)
    PROVE  IInv'
<1> DEFINE l == rebuild[r]
<1>1. /\ Shape' /\ UNCHANGED <<data, rows>>
      /\ \A s \in Requests \ {r} : rebuild'[s] = rebuild[s]
      /\ budget' \in [{"edits", "reviews", "faults"} -> Nat]
  BY Parts DEF ReadProfiles, Shape, Tables, Fields
<1>2. PICK held \in SUBSET {l.person} :
        /\ rebuild'[r].phase = "evidence"
        /\ rebuild'[r].read = [q \in l.ids \cup {l.person} |->
                                 IF q \in held THEN l.read[q] ELSE profile[q]]
        /\ rebuild'[r].ids = l.ids
        /\ rebuild'[r].person = l.person
        /\ rebuild'[r].existing = l.existing
  BY Parts DEF ReadProfiles, Shape, Fields
<1>3. RebuildFits(r) /\ Active(r)
  BY Parts DEF ReadProfiles, Active
<1>4. \A q \in l.ids \cup {l.person} : q \in DOMAIN profile /\ q \in People
  BY <1>3, Parts DEF RebuildFits, Tables
<1>5. \A q \in DOMAIN rebuild'[r].read : rebuild'[r].read[q].domains \subseteq Domains
  <2> SUFFICES ASSUME NEW q \in l.ids \cup {l.person}
               PROVE  rebuild'[r].read[q].domains \subseteq Domains
    BY <1>2
  <2>1. profile[q].domains \subseteq Domains
    BY <1>4, Parts, ConstantTypes DEF Tables
  <2>2. q = l.person => l.read[q].domains \subseteq Domains
    BY <1>3 DEF RebuildFits
  <2> QED
    BY <1>2, <2>1, <2>2
<1>6. RebuildFits(r)' /\ SeesRows(r)'
  BY <1>1, <1>2, <1>3, <1>4, <1>5 DEF RebuildFits, SeesRows, Active, Phases, data
<1> QED
  BY <1>1, <1>6, LocalStep

LEMMA InvReadEvidence ==
    ASSUME IInv, NEW r \in Requests, ReadEvidence(r)
    PROVE  IInv'
<1> DEFINE l == rebuild[r]
<1>1. /\ Shape' /\ UNCHANGED <<data, rows>>
      /\ \A s \in Requests \ {r} : rebuild'[s] = rebuild[s]
      /\ budget' \in [{"edits", "reviews", "faults"} -> Nat]
  BY Parts DEF ReadEvidence, Shape, Tables, Fields
<1>2. /\ rebuild'[r].phase = "rows"
      /\ rebuild'[r].proposals = Proposals(l.person, l.read)
      /\ rebuild'[r].read = l.read
      /\ rebuild'[r].ids = l.ids
      /\ rebuild'[r].person = l.person
      /\ rebuild'[r].existing = l.existing
  BY Parts DEF ReadEvidence, Shape, Fields
<1>3. RebuildFits(r) /\ Active(r)
  BY Parts DEF ReadEvidence, Active
<1>4. Fit(l.person, l.read, Proposals(l.person, l.read))
  <2>1. /\ l.person \in People /\ l.person \in DOMAIN l.read
        /\ DOMAIN l.read \subseteq People
        /\ \A q \in DOMAIN l.read : l.read[q].domains \subseteq Domains
    BY <1>3 DEF RebuildFits
  <2>2. DOMAIN chunks \subseteq ChunkIds
    BY Parts DEF Tables
  <2> HIDE DEF l
  <2> QED
    BY <2>1, <2>2, EngineFits
<1>5. RebuildFits(r)' /\ SeesRows(r)'
  BY <1>1, <1>2, <1>3, <1>4 DEF RebuildFits, SeesRows, Active, Phases, data
<1> QED
  BY <1>1, <1>5, LocalStep

LEMMA InvReadRows ==
    ASSUME IInv, NEW r \in Requests, ReadRows(r)
    PROVE  IInv'
<1> DEFINE l == rebuild[r]
<1> DEFINE mine == {k \in DOMAIN rows : k[1] = l.person}
<1>1. /\ Shape' /\ UNCHANGED <<data, rows>>
      /\ \A s \in Requests \ {r} : rebuild'[s] = rebuild[s]
      /\ budget' \in [{"edits", "reviews", "faults"} -> Nat]
  BY Parts DEF ReadRows, Shape, Tables, Fields
<1>2. /\ rebuild'[r].phase = "commit"
      /\ rebuild'[r].existing = [k \in mine |-> rows[k]]
      /\ rebuild'[r].proposals = l.proposals
      /\ rebuild'[r].read = l.read
      /\ rebuild'[r].ids = l.ids
      /\ rebuild'[r].person = l.person
  BY Parts DEF ReadRows, Shape, Fields
<1>3. RebuildFits(r) /\ Active(r) /\ l.phase = "rows"
  BY Parts DEF ReadRows, Active
<1>4. mine \subseteq {l.person} \X Types \X Claims
  BY Parts DEF Tables
<1>5. RebuildFits(r)'
  BY <1>1, <1>2, <1>3, <1>4 DEF RebuildFits, Active, Phases, data
<1>6. SeesRows(r)'
  BY <1>1, <1>2 DEF SeesRows
<1> QED
  BY <1>1, <1>5, <1>6, LocalStep

\* The flush raises, or the transaction is lost.
LEMMA InvFails ==
    ASSUME IInv, NEW r \in Requests, FlushRaises(r) \/ Lost(r)
    PROVE  IInv'
<1>1. /\ Shape' /\ UNCHANGED <<data, rows>>
      /\ \A s \in Requests \ {r} : rebuild'[s] = rebuild[s]
  BY Parts DEF FlushRaises, Lost, Shape, Fields
<1>2. budget' \in [{"edits", "reviews", "faults"} -> Nat]
  BY Parts DEF FlushRaises, Lost, Fault, Tables
<1>3. /\ rebuild'[r].phase = "failed"
      /\ rebuild'[r].person = rebuild[r].person
      /\ rebuild'[r].existing = rebuild[r].existing
  BY Parts DEF FlushRaises, Lost, Shape, Fields
<1>4. RebuildFits(r)
  BY Parts
<1>5. RebuildFits(r)' /\ SeesRows(r)'
  BY <1>3, <1>4 DEF RebuildFits, SeesRows, Active, Phases
<1> QED
  BY <1>1, <1>2, <1>5, LocalStep

LEMMA InvCommit ==
    ASSUME IInv, NEW r \in Requests, Commit(r)
    PROVE  IInv'
<1> DEFINE p == rebuild[r].person
<1>1. /\ profile' = profile /\ chunks' = chunks /\ budget' = budget
      /\ rebuild[r].phase = "commit"
      /\ rebuild' = [Overtaken(p) EXCEPT ![r] = [rebuild[r] EXCEPT !.phase = "done"]]
  BY DEF Commit, data
<1>2. RebuildFits(r) /\ Shape /\ Tables
  BY Parts
<1>3. /\ Shape'
      /\ rebuild'[r].phase = "done"
      /\ rebuild'[r].person = rebuild[r].person
      /\ rebuild'[r].existing = rebuild[r].existing
  BY <1>1, <1>2 DEF Shape, Overtaken, Fields
<1>4. \A s \in Requests \ {r} :
        /\ rebuild'[s] = [rebuild[s] EXCEPT !.alone = rebuild'[s].alone]
        /\ rebuild'[s].alone =
             (rebuild[s].alone /\ ~(rebuild[s].phase = "commit" /\ rebuild[s].person = p))
  BY <1>1, <1>2 DEF Shape, Overtaken, Fields
<1>5. \A s \in Requests \ {r} :
        /\ rebuild'[s].phase = rebuild[s].phase
        /\ rebuild'[s].person = rebuild[s].person
        /\ rebuild'[s].ids = rebuild[s].ids
        /\ rebuild'[s].read = rebuild[s].read
        /\ rebuild'[s].proposals = rebuild[s].proposals
        /\ rebuild'[s].existing = rebuild[s].existing
  BY <1>2, <1>4 DEF Shape, Fields
<1>6. Tables'
  <2>1. PICK last \in LastOf(r) : Effect(r, last)
    BY CommitEffect
  <2>2. \A x \in rebuild[r].proposals :
          x.ids \subseteq ChunkIds /\ Belongs(x.key, x.ids)
    BY <1>1, <1>2 DEF RebuildFits, Fit
  <2>3. ASSUME NEW k \in DOMAIN rows'
        PROVE  /\ k \in People \X Types \X Claims
               /\ rows'[k].by \in Requests /\ rows'[k].ids \subseteq ChunkIds
               /\ rows'[k].status \in {"unverified"} \cup Verdicts
               /\ Belongs(k, rows'[k].ids)
    <3>1. CASE k \in Inserts(r)
      <4>1. k \in {p} \X Types \X Claims /\ p \in People
        BY <1>1, <1>2, <3>1, CommitKeys DEF RebuildFits, Active, Tables
      <4> QED
        BY <2>1, <2>2, <3>1, <4>1 DEF Effect, Row
    <3>2. CASE k \notin Inserts(r)
      <4>1. k \in DOMAIN rows
        BY <2>1, <2>3, <3>2 DEF Effect
      <4>2. CASE k \in Sent(r, last) /\ SameRow(r, k)
        <5>1. rows'[k] = Overwritten(r, k, last[k])
          BY <2>1, <2>3, <3>2, <4>2 DEF Effect
        <5>2. /\ rows'[k].by = rows[k].by /\ rows'[k].status = rows[k].status
              /\ rows'[k].ids \in {last[k].ids, rows[k].ids}
          BY <5>1 DEF Overwritten, Row
        <5>3. last[k] \in rebuild[r].proposals /\ last[k].key = k
          BY <2>1, <4>2 DEF Effect, Sent
        <5> QED
          BY <1>2, <2>2, <4>1, <5>2, <5>3 DEF Tables
      <4>3. CASE ~(k \in Sent(r, last) /\ SameRow(r, k))
        <5>1. rows'[k] = rows[k]
          BY <2>1, <2>3, <3>2, <4>3 DEF Effect
        <5> QED
          BY <1>2, <4>1, <5>1 DEF Tables
      <4> QED
        BY <4>2, <4>3
    <3> QED
      BY <3>1, <3>2
  <2> QED
    BY <1>1, <1>2, <2>3 DEF Tables
<1>7. ASSUME NEW s \in Requests PROVE RebuildFits(s)'
  <2>1. RebuildFits(s)
    BY Parts
  <2>2. CASE s = r
    BY <1>3, <2>1, <2>2 DEF RebuildFits, Active, Phases
  <2>3. CASE s # r
    BY <1>1, <1>5, <2>1, <2>3 DEF RebuildFits, Active
  <2> QED
    BY <2>2, <2>3
<1>8. ASSUME NEW s \in Requests PROVE SeesRows(s)'
  <2>1. CASE s = r
    BY <1>3, <2>1 DEF SeesRows
  <2>2. CASE s # r /\ rebuild'[s].phase = "commit" /\ rebuild'[s].alone
    <3>1. /\ rebuild[s].phase = "commit" /\ rebuild[s].alone /\ rebuild[s].person # p
      BY <1>4, <1>5, <2>2
    <3>2. rebuild[s].existing =
            [k \in {k \in DOMAIN rows : k[1] = rebuild[s].person} |-> rows[k]]
      BY <3>1, Parts DEF SeesRows
    <3>3. \A k : k[1] = rebuild[s].person =>
            /\ k \in DOMAIN rows' <=> k \in DOMAIN rows
            /\ k \in DOMAIN rows => rows'[k] = rows[k]
      BY <3>1, CommitElsewhere
    <3>4. [k \in {k \in DOMAIN rows : k[1] = rebuild[s].person} |-> rows[k]]
            = [k \in {k \in DOMAIN rows' : k[1] = rebuild[s].person} |-> rows'[k]]
      BY <3>3
    <3> QED
      BY <1>5, <2>2, <3>2, <3>4 DEF SeesRows
  <2> QED
    BY <2>1, <2>2 DEF SeesRows
<1> QED
  BY <1>3, <1>6, <1>7, <1>8, PartsNext

LEMMA InvReview ==
    ASSUME IInv, NEW k \in DOMAIN rows, NEW status \in Verdicts, Review(k, status)
    PROVE  IInv'
<1>1. /\ profile' = profile /\ chunks' = chunks
      /\ DOMAIN rows' = DOMAIN rows
      /\ \A j \in DOMAIN rows \ {k} : rows'[j] = rows[j]
      /\ rows'[k] = Row(rows[k].by, rows[k].ids, rows[k].why, status)
      /\ rebuild' = Overtaken(k[1])
  BY DEF Review, data
<1>2. budget' \in [{"edits", "reviews", "faults"} -> Nat]
  BY Parts DEF Review, Fault, Tables
<1>3. Shape /\ Tables
  BY Parts
<1>4. /\ rows'[k].by = rows[k].by /\ rows'[k].ids = rows[k].ids
      /\ rows'[k].status = status
  BY <1>1 DEF Row
<1>5. Tables'
  <2>1. ASSUME NEW j \in DOMAIN rows'
        PROVE  /\ j \in People \X Types \X Claims
               /\ rows'[j].by \in Requests /\ rows'[j].ids \subseteq ChunkIds
               /\ rows'[j].status \in {"unverified"} \cup Verdicts
               /\ Belongs(j, rows'[j].ids)
    BY <1>1, <1>3, <1>4 DEF Tables
  <2> QED
    BY <1>1, <1>2, <1>3, <2>1 DEF Tables
<1>6. Shape' /\ \A s \in Requests :
        /\ rebuild'[s].phase = rebuild[s].phase
        /\ rebuild'[s].person = rebuild[s].person
        /\ rebuild'[s].ids = rebuild[s].ids
        /\ rebuild'[s].read = rebuild[s].read
        /\ rebuild'[s].proposals = rebuild[s].proposals
        /\ rebuild'[s].existing = rebuild[s].existing
        /\ rebuild'[s].alone =
             (rebuild[s].alone /\ ~(rebuild[s].phase = "commit" /\ rebuild[s].person = k[1]))
  BY <1>1, <1>3 DEF Shape, Overtaken, Fields
<1>7. ASSUME NEW s \in Requests PROVE RebuildFits(s)' /\ SeesRows(s)'
  <2>1. RebuildFits(s)'
    <3>1. RebuildFits(s)
      BY Parts
    <3> QED
      BY <1>1, <1>6, <3>1 DEF RebuildFits, Active
  <2>2. CASE rebuild'[s].phase = "commit" /\ rebuild'[s].alone
    <3>1. /\ rebuild[s].phase = "commit" /\ rebuild[s].alone
          /\ rebuild[s].person # k[1]
      BY <1>6, <2>2
    <3>2. rebuild[s].existing =
            [j \in {j \in DOMAIN rows : j[1] = rebuild[s].person} |-> rows[j]]
      BY <3>1, Parts DEF SeesRows
    <3>3. [j \in {j \in DOMAIN rows : j[1] = rebuild[s].person} |-> rows[j]]
            = [j \in {j \in DOMAIN rows' : j[1] = rebuild[s].person} |-> rows'[j]]
      BY <1>1, <3>1
    <3> QED
      BY <1>6, <2>1, <3>2, <3>3 DEF SeesRows
  <2> QED
    BY <2>1, <2>2 DEF SeesRows
<1> QED
  BY <1>5, <1>6, <1>7, PartsNext

\* Ingestions and embeddings: people and profiles only grow.
LEMMA InvEdit ==
    ASSUME IInv,
           \/ \E p \in People, f \in Profiles : Ingest(p, f)
           \/ \E c \in ChunkIds, mentions \in SUBSET Domains : WriteChunk(c, mentions)
           \/ \E c \in ChunkIds : DeleteChunk(c)
    PROVE  IInv'
<1>1. /\ DOMAIN profile \subseteq DOMAIN profile'
      /\ DOMAIN profile' \subseteq People /\ DOMAIN chunks' \subseteq ChunkIds
      /\ \A p \in DOMAIN profile' : profile'[p] \in Profiles
  BY Parts DEF Ingest, WriteChunk, DeleteChunk, Tables
<1>2. rows' = rows /\ rebuild' = rebuild
  BY DEF Ingest, WriteChunk, DeleteChunk
<1>3. budget' \in [{"edits", "reviews", "faults"} -> Nat]
  <2>1. Fault("edits")
    BY DEF Ingest, WriteChunk, DeleteChunk
  <2>2. budget \in [{"edits", "reviews", "faults"} -> Nat]
    BY Parts DEF Tables
  <2> QED
    BY <2>1, <2>2 DEF Fault
<1>4. Tables' /\ Shape'
  BY <1>1, <1>2, <1>3, Parts DEF Tables, Shape
<1>5. \A s \in Requests : RebuildFits(s)' /\ SeesRows(s)'
  BY <1>1, <1>2, SameRebuild
<1> QED
  BY <1>4, <1>5, PartsNext

LEMMA InvStutter == ASSUME IInv, UNCHANGED vars PROVE IInv'
<1>1. Tables /\ Shape /\ \A s \in Requests : RebuildFits(s) /\ SeesRows(s)
  BY Parts
<1>2. /\ profile' = profile /\ chunks' = chunks /\ rows' = rows
      /\ rebuild' = rebuild /\ budget' = budget
  BY DEF vars, data
<1>3. Tables' /\ Shape'
  BY <1>1, <1>2 DEF Tables, Shape
<1>4. \A s \in Requests : RebuildFits(s)' /\ SeesRows(s)'
  BY <1>2, SameRebuild
<1> QED
  BY <1>3, <1>4, PartsNext

LEMMA InvStep == IInv /\ [Next]_vars => IInv'
  BY InvCheck, InvFilterIds, InvReadProfiles, InvReadEvidence, InvReadRows,
     InvCommit, InvFails, InvEdit, InvReview, InvStutter DEF Next

LEMMA Invariance == Spec => []IInv
  BY InvInit, InvStep, PTL DEF Spec

-----------------------------------------------------------------------------
\* Every variable of the inference store keeps its type (TypeOK).
THEOREM TypeCorrect == Spec => []TypeOK
<1>1. IInv => TypeOK
  BY DEF IInv
<1> QED
  BY <1>1, Invariance, PTL

\* Whatever overlaps, every stored inference cites evidence of the people it is
\* about (EvidenceBelongs): what the engine proposed is stored under its own
\* key, though columns are written one by one.
THEOREM EvidenceIsTheirs == Spec => []EvidenceBelongs
<1>1. IInv => EvidenceBelongs
  BY DEF IInv
<1> QED
  BY <1>1, Invariance, PTL

\* No rebuild undoes a review or touches a row reviewed before it read the
\* table (ReviewsStand): sync_for_person skips such rows, the status column is
\* never among those it changes, and an insert over one is refused.
THEOREM ReviewedRowsStand == Spec => ReviewsStand
<1>1. ASSUME NEW r \in Requests, Commit(r),
             NEW k \in DOMAIN rows, ~Unverified(rows[k])
      PROVE  LET seen == rebuild[r].existing
             IN  IF k \in DOMAIN seen /\ Unverified(seen[k])
                 THEN k \in DOMAIN rows' => rows'[k].status = rows[k].status
                 ELSE k \in DOMAIN rows' /\ rows'[k] = rows[k]
  <2> DEFINE seen == rebuild[r].existing
  <2>1. PICK last \in LastOf(r) : Effect(r, last)
    BY <1>1, CommitEffect
  <2>2. k \notin Inserts(r)
    BY <1>1, <2>1 DEF Effect
  <2>3. CASE k \in DOMAIN seen /\ Unverified(seen[k])
    <3>1. Overwritten(r, k, last[k]).status = rows[k].status
      BY DEF Overwritten, Row
    <3>2. ASSUME k \in DOMAIN rows' PROVE rows'[k].status = rows[k].status
      BY <2>1, <2>2, <3>1, <3>2 DEF Effect
    <3> QED
      BY <2>3, <3>2
  <2>4. CASE ~(k \in DOMAIN seen /\ Unverified(seen[k]))
    <3>1. k \notin Deletes(r) /\ k \notin Updates(r)
      BY <2>4 DEF Deletes, Updates
    <3> QED
      BY <1>1, <2>1, <2>2, <2>4, <3>1 DEF Effect, Sent
  <2> QED
    BY <2>3, <2>4
<1>2. [Next]_vars => [\A r \in Requests : Commit(r) =>
         LET seen == rebuild[r].existing
         IN  \A k \in {k \in DOMAIN rows : ~Unverified(rows[k])} :
               IF k \in DOMAIN seen /\ Unverified(seen[k])
               THEN k \in DOMAIN rows' => rows'[k].status = rows[k].status
               ELSE k \in DOMAIN rows' /\ rows'[k] = rows[k]]_vars
  BY <1>1
<1> QED
  BY <1>2, PTL DEF Spec, ReviewsStand

\* A rebuild whose person's rows nobody else wrote since it read them leaves its
\* proposals and the reviewed rows, exactly, and nobody else's rows change
\* (LoneRebuildIsExact): deleting, inserting and writing only the columns that
\* differ then add up to replacing the unverified rows.
LEMMA LoneCommit ==
    ASSUME IInv, NEW r \in Requests, Commit(r), rebuild[r].alone
    PROVE  LET p == rebuild[r].person
               Of(table) == {k \in DOMAIN table : k[1] = p}
           IN  /\ Of(rows') = KeysOf(rebuild[r].proposals)
                                \cup {k \in Of(rows) : ~Unverified(rows[k])}
               /\ \A k \in Of(rows') : Unverified(rows'[k]) =>
                    \E x \in rebuild[r].proposals :
                      x.key = k /\ x.ids = rows'[k].ids /\ x.why = rows'[k].why
               /\ DOMAIN rows \ Of(rows) = DOMAIN rows' \ Of(rows')
               /\ \A k \in DOMAIN rows \ Of(rows) : rows'[k] = rows[k]
<1> DEFINE p == rebuild[r].person
<1> DEFINE old == {k \in DOMAIN rows : k[1] = p}
<1> DEFINE new == {k \in DOMAIN rows' : k[1] = p}
<1> DEFINE seen == rebuild[r].existing
<1> DEFINE mine == KeysOf(rebuild[r].proposals)
<1>1. PICK last \in LastOf(r) : Effect(r, last)
  BY CommitEffect
<1>2. seen = [k \in old |-> rows[k]]
  BY Parts DEF SeesRows, Commit
<1>3. DOMAIN seen = old /\ \A k \in old : seen[k] = rows[k]
  BY <1>2
<1>4. \A k \in mine : k[1] = p
  <2>1. \A x \in rebuild[r].proposals : x.key \in {p} \X Types \X Claims
    BY Parts DEF RebuildFits, Fit, Commit
  <2> QED
    BY <2>1 DEF KeysOf
<1>5. /\ Deletes(r) = {k \in old : Unverified(rows[k]) /\ k \notin mine}
      /\ Inserts(r) = mine \ old
      /\ Updates(r) = {k \in old \cap mine : Unverified(rows[k])}
  BY <1>3 DEF Deletes, Inserts, Updates
<1>6. \A k \in old : SameRow(r, k)
  BY <1>3 DEF SameRow
<1>7. DOMAIN rows' = (DOMAIN rows \ Deletes(r)) \cup Inserts(r)
  BY <1>1, <1>5, <1>6 DEF Effect
<1> HIDE DEF seen, mine
<1>8. new = mine \cup {k \in old : ~Unverified(rows[k])}
  BY <1>4, <1>5, <1>7
<1>9. ASSUME NEW k \in new, Unverified(rows'[k])
      PROVE  \E x \in rebuild[r].proposals :
               x.key = k /\ x.ids = rows'[k].ids /\ x.why = rows'[k].why
  <2>1. CASE k \in Inserts(r)
    <3>1. /\ last[k] \in rebuild[r].proposals /\ last[k].key = k
          /\ rows'[k] = Row(r, last[k].ids, last[k].why, "unverified")
      BY <1>1, <2>1 DEF Effect
    <3>2. rows'[k].ids = last[k].ids /\ rows'[k].why = last[k].why
      BY <3>1 DEF Row
    <3> QED
      BY <3>1, <3>2
  <2>2. CASE k \notin Inserts(r)
    <3>1. k \in old /\ rows'[k] = IF k \in Updates(r) /\ Changes(r, k, last[k])
                                  THEN Overwritten(r, k, last[k]) ELSE rows[k]
      BY <1>1, <1>5, <1>6, <1>7, <2>2 DEF Effect, Sent
    <3>2. k \in Updates(r)
      BY <1>5, <1>8, <1>9, <2>2, <3>1
    <3>3. last[k] \in rebuild[r].proposals /\ last[k].key = k
      BY <1>1, <3>2 DEF Effect
    <3>4. seen[k] = rows[k]
      BY <1>3, <3>1
    <3>5. CASE Changes(r, k, last[k])
      <4>1. rows'[k] = Overwritten(r, k, last[k])
        BY <3>1, <3>2, <3>5
      <4>2. rows'[k].ids = last[k].ids /\ rows'[k].why = last[k].why
        BY <3>4, <4>1 DEF Overwritten, Row, seen
      <4> QED
        BY <3>3, <4>2
    <3>6. CASE ~Changes(r, k, last[k])
      BY <3>1, <3>3, <3>4, <3>6 DEF Changes, seen
    <3> QED
      BY <3>5, <3>6
  <2> QED
    BY <2>1, <2>2
<1>10. /\ DOMAIN rows \ old = DOMAIN rows' \ new
       /\ \A k \in DOMAIN rows \ old : rows'[k] = rows[k]
  BY CommitElsewhere
<1> QED
  BY <1>8, <1>9, <1>10 DEF mine

\* The same, as a property of the specification.
THEOREM LoneRebuildsAreExact == Spec => LoneRebuildIsExact
<1>1. IInv /\ [Next]_vars =>
      [\A r \in Requests : Commit(r) /\ rebuild[r].alone =>
         LET p == rebuild[r].person
             Of(table) == {k \in DOMAIN table : k[1] = p}
         IN  /\ Of(rows') = KeysOf(rebuild[r].proposals)
                              \cup {k \in Of(rows) : ~Unverified(rows[k])}
             /\ \A k \in Of(rows') : Unverified(rows'[k]) =>
                  \E x \in rebuild[r].proposals :
                    x.key = k /\ x.ids = rows'[k].ids /\ x.why = rows'[k].why
             /\ DOMAIN rows \ Of(rows) = DOMAIN rows' \ Of(rows')
             /\ \A k \in DOMAIN rows \ Of(rows) : rows'[k] = rows[k]]_vars
  BY LoneCommit
<1> QED
  BY <1>1, Invariance, PTL DEF Spec, LoneRebuildIsExact

\* The database refuses a rebuild only if somebody else wrote the person's rows
\* since it read them, or two peers have one name (RefusalsHaveCause): nothing
\* else makes the flush insert a key twice or miss a row.
THEOREM RefusalsAreCaused == Spec => RefusalsHaveCause
<1>1. ASSUME IInv, NEW r \in Requests, FlushRaises(r), rebuild[r].alone
      PROVE  \E q1, q2 \in DOMAIN rebuild[r].read \ {rebuild[r].person} :
               q1 # q2 /\ NameOf[q1] = NameOf[q2]
  <2> DEFINE p == rebuild[r].person
  <2> DEFINE seen == rebuild[r].existing
  <2>1. PICK last \in LastOf(r) : Duplicates(r) \/ Stale(r, last)
    BY <1>1 DEF FlushRaises
  <2>2. seen = [k \in {k \in DOMAIN rows : k[1] = p} |-> rows[k]]
    BY <1>1, Parts DEF SeesRows, FlushRaises
  <2>3. ~Stale(r, last)
    <3>1. \A k \in Updates(r) : k \in DOMAIN seen
      BY DEF Updates
    <3> QED
      BY <2>2, <3>1 DEF Stale, Sent, SameRow
  <2>4. Fit(p, rebuild[r].read, rebuild[r].proposals)
    BY <1>1, Parts DEF RebuildFits, FlushRaises
  <2>5. Inserts(r) \cap DOMAIN rows = {}
    <3>1. \A k \in Inserts(r) : k[1] = p
      BY <1>1, CommitKeys DEF FlushRaises
    <3> QED
      BY <2>2, <3>1 DEF Inserts
  <2>6. PICK x, y \in rebuild[r].proposals : x # y /\ x.key = y.key
    BY <2>1, <2>3, <2>5 DEF Duplicates
  <2>7. x.peer # y.peer /\ x.key[2] # "expertise"
    BY <2>4, <2>6 DEF Fit
  <2>8. /\ x.peer \in DOMAIN rebuild[r].read \ {p}
        /\ y.peer \in DOMAIN rebuild[r].read \ {p}
        /\ NameOf[x.peer] = NameOf[y.peer]
    BY <2>4, <2>6, <2>7 DEF Fit
  <2> QED
    BY <2>7, <2>8
<1>2. IInv /\ [Next]_vars =>
      [\A r \in Requests : FlushRaises(r) =>
         \/ ~rebuild[r].alone
         \/ \E q1, q2 \in DOMAIN rebuild[r].read \ {rebuild[r].person} :
              q1 # q2 /\ NameOf[q1] = NameOf[q2]]_vars
  BY <1>1
<1> QED
  BY <1>2, Invariance, PTL DEF Spec, RefusalsHaveCause
=============================================================================
