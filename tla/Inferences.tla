----------------------------- MODULE Inferences -----------------------------
(***************************************************************************)
(* The stored inferences about a person and their rebuild: the route        *)
(* (app/api/v1/routes/candidates.py), InferenceService (app/services),      *)
(* InferenceEngine (app/inference) and InferenceRepository                  *)
(* (app/repositories/inferences.py).                                        *)
(*                                                                          *)
(* A rebuild is one transaction at READ COMMITTED: it reads people, their   *)
(* profiles, their chunks and the stored rows by a statement each, and      *)
(* writes rows at its end. Other rebuilds, ingestions and somebody who      *)
(* reviews the rows commit in between. A flush that meets rows of another   *)
(* open transaction waits for its commit, so flush and commit are one step. *)
(***************************************************************************)
EXTENDS Integers, FiniteSets

CONSTANTS
    People,         \* ids of people, numbers: their order is that of the ids
    NameOf,         \* person -> full_name; people may share one
    Domains,
    Profiles,       \* [domains, others (skills, technologies), companies]
    ChunkIds, OwnerOf,  \* numbers in the order of person and ordinal; the person
    Starts,         \* the databases a behavior starts with: [profile, chunks]
    PeerLimit,      \* limit of filter_ids
    EvidenceLimit,  \* chunks that evidence() returns for a person
    Verdicts,       \* the statuses a review gives
    Requests,       \* the rebuilds that may happen
    Subjects,       \* bound: the people whose inferences are rebuilt
    Workers,        \* bound: how many run at the same time
    Edits,          \* bound: ingestions of a person or a chunk
    Reviews, Faults \* bounds

ASSUME ConstantTypes ==
    /\ People \subseteq Nat /\ ChunkIds \subseteq Nat
    /\ OwnerOf \in [ChunkIds -> People]
    /\ {PeerLimit, EvidenceLimit, Workers} \subseteq Nat \ {0}
    /\ {Edits, Reviews, Faults} \subseteq Nat
    /\ \A f \in Profiles : f.domains \subseteq Domains
    /\ Subjects \subseteq People /\ "unverified" \notin Verdicts
    /\ \A s \in Starts :
         /\ DOMAIN s.profile \subseteq People
         /\ \A p \in DOMAIN s.profile : s.profile[p] \in Profiles
         /\ DOMAIN s.chunks \subseteq ChunkIds

VARIABLES
    profile,  \* people -> what their profile lists
    chunks,   \* stored chunks -> the domains their content mentions
    rows,     \* candidate_inferences: <<person, type, claim>> -> row
    rebuild,  \* the control state of each request
    budget    \* edits, reviews and faults that may still happen

data == <<profile, chunks>>
vars == <<data, rows, rebuild, budget>>

-----------------------------------------------------------------------------
(* The engine *)

FirstOf(S, limit) == {x \in S : Cardinality({y \in S : y < x}) < limit}

TermsOf(f) == f.domains \cup f.others

\* Mutant of EvidenceOf: the statement does not select by person.
EvidenceOfAnybody(p) == FirstOf(DOMAIN chunks, EvidenceLimit)

\* What evidence() returns for p among the stored chunks.
EvidenceOf(p) ==
    FirstOf({c \in DOMAIN chunks : OwnerOf[c] = p}, EvidenceLimit)

Types == {"expertise", "similarity", "relationship"}

\* What a claim names: a domain or a person.
Claims == Domains \cup {NameOf[p] : p \in People}

\* A proposal: its key, the person it compares with, the evidence_ids, and what
\* confidence and reason are computed from.
Proposal(p, type, claim, peer, ids, why) ==
    [key |-> <<p, type, claim>>, peer |-> peer, ids |-> ids, why |-> why]

Expertise(p, f) ==
    LET Supporting(d) == {c \in EvidenceOf(p) : d \in chunks[c]}
        Count(d) == Cardinality(Supporting(d))
    IN  {Proposal(p, "expertise", d, p, Supporting(d), <<{}, Count(d), 0>>) :
         d \in {d \in f.domains : Count(d) >= 2}}

Similarity(p, f, q, g) ==
    LET shared == Cardinality(TermsOf(f) \cap TermsOf(g))
        all == Cardinality(TermsOf(f) \cup TermsOf(g))
        ids == EvidenceOf(p) \cup EvidenceOf(q)
    IN  IF all = 0 \/ 2 * shared < all \/ ids = {} THEN {}
        ELSE {Proposal(p, "similarity", NameOf[q], q, ids, <<{}, shared, all>>)}

Relationship(p, f, q, g) ==
    LET shared == f.companies \cap g.companies
        ids == EvidenceOf(p) \cup EvidenceOf(q)
    IN  IF shared = {} \/ ids = {} THEN {}
        ELSE {Proposal(p, "relationship", NameOf[q], q, ids, <<shared, 0, 0>>)}

\* rebuild_person: the proposals about p from the profiles read; the chunks are
\* those of this moment.
Proposals(p, read) ==
    LET peers == DOMAIN read \ {p}
    IN  Expertise(p, read[p]) \cup
        UNION {Similarity(p, read[p], q, read[q])
                 \cup Relationship(p, read[p], q, read[q]) : q \in peers}

-----------------------------------------------------------------------------
(* sync_for_person *)

Phases == {"idle", "ids", "profiles", "evidence", "rows", "commit", "done",
           "failed"}

Idle ==
    [phase     |-> "idle",
     person    |-> 0,
     ids       |-> {},     \* all_ids
     read      |-> <<>>,   \* person -> profile as read
     proposals |-> {},
     existing  |-> <<>>,   \* by_key, as read
     alone     |-> TRUE]   \* history: no other row was committed since

Active(r) == rebuild[r].phase \notin {"idle", "done", "failed"}

KeysOf(proposals) == {x.key : x \in proposals}

Row(by, ids, why, status) ==
    [by |-> by, ids |-> ids, why |-> why, status |-> status]

Unverified(row) == row.status = "unverified"

\* Mutant of Deletes: a claim of another type keeps a row.
DeletesByClaim(r) ==
    {k \in DOMAIN rebuild[r].existing :
       /\ Unverified(rebuild[r].existing[k])
       /\ k[3] \notin {x.key[3] : x \in rebuild[r].proposals}}

\* The keys of the rows a rebuild deletes, inserts, and updates.
Deletes(r) ==
    {k \in DOMAIN rebuild[r].existing :
       /\ Unverified(rebuild[r].existing[k])
       /\ k \notin KeysOf(rebuild[r].proposals)}

Inserts(r) == KeysOf(rebuild[r].proposals) \ DOMAIN rebuild[r].existing

Updates(r) ==
    {k \in KeysOf(rebuild[r].proposals) \cap DOMAIN rebuild[r].existing :
       Unverified(rebuild[r].existing[k])}

\* The proposals in the order of the profiles read, which the statement leaves
\* open: the last one for a key is the one its row keeps.
LastOf(r) ==
    {last \in [KeysOf(rebuild[r].proposals) -> rebuild[r].proposals] :
       \A k \in DOMAIN last : last[k].key = k}

\* Mutant of Overwritten: every column is written.
OverwrittenWhole(r, k, x) ==
    Row(rows[k].by, x.ids, x.why, "unverified")

\* Row k as an UPDATE leaves it: only columns that differ from the row as read
\* are written; status never differs.
Overwritten(r, k, x) ==
    LET old == rebuild[r].existing[k]
    IN  Row(rows[k].by,
            IF x.ids # old.ids THEN x.ids ELSE rows[k].ids,
            IF x.why # old.why THEN x.why ELSE rows[k].why,
            rows[k].status)

Changes(r, k, x) ==
    \/ x.ids # rebuild[r].existing[k].ids
    \/ x.why # rebuild[r].existing[k].why

\* The row read is still there.
SameRow(r, k) ==
    k \in DOMAIN rows /\ rows[k].by = rebuild[r].existing[k].by

\* IntegrityError: a key inserted twice, or in the table already.
Duplicates(r) ==
    \/ Inserts(r) \cap DOMAIN rows # {}
    \/ \E x, y \in rebuild[r].proposals :
          x # y /\ x.key = y.key /\ x.key \in Inserts(r)

\* The rows an UPDATE is sent for, with the values of last.
Sent(r, last) == {k \in Updates(r) : Changes(r, k, last[k])}

\* External: an UPDATE matches no row. SQLAlchemy raises StaleDataError for one
\* that it sends alone, and does not look when it sends several at once, as it
\* does those that change the same columns.
Stale(r, last) == \E k \in Sent(r, last) : ~SameRow(r, k)

\* The table after the flush.
Synced(r, last) ==
    LET gone == {k \in Deletes(r) : SameRow(r, k)}
    IN  [k \in (DOMAIN rows \ gone) \cup Inserts(r) |->
           IF k \in Inserts(r)
           THEN Row(r, last[k].ids, last[k].why, "unverified")
           ELSE IF k \in Sent(r, last) /\ SameRow(r, k)
           THEN Overwritten(r, k, last[k])
           ELSE rows[k]]

-----------------------------------------------------------------------------
Init ==
    /\ \E s \in Starts : profile = s.profile /\ chunks = s.chunks
    /\ rows = <<>>
    /\ rebuild = [r \in Requests |-> Idle]
    /\ budget = [edits |-> Edits, reviews |-> Reviews, faults |-> Faults]

\* The route reads the person, or answers 404.
Check(r, p) ==
    /\ rebuild[r].phase = "idle"
    /\ Cardinality({s \in Requests : Active(s)}) < Workers
    /\ rebuild' = [rebuild EXCEPT ![r] =
         IF p \in DOMAIN profile
         THEN [Idle EXCEPT !.phase = "ids", !.person = p,
                           !.read = [q \in {p} |-> profile[p]]]
         ELSE [Idle EXCEPT !.phase = "failed", !.person = p]]
    /\ UNCHANGED <<data, rows, budget>>

\* filter_ids of the empty intent.
FilterIds(r) ==
    /\ rebuild[r].phase = "ids"
    /\ rebuild' = [rebuild EXCEPT ![r].phase = "profiles",
                     ![r].ids = FirstOf(DOMAIN profile, PeerLimit)]
    /\ UNCHANGED <<data, rows, budget>>

\* profiles: of the person itself, the one of the route's check if the session's
\* weak identity map still holds it.
ReadProfiles(r) ==
    /\ rebuild[r].phase = "profiles"
    /\ LET l == rebuild[r]
       IN  \E held \in SUBSET {l.person} :
             rebuild' = [rebuild EXCEPT ![r].phase = "evidence",
                           ![r].read = [q \in l.ids \cup {l.person} |->
                             IF q \in held THEN l.read[q] ELSE profile[q]]]
    /\ UNCHANGED <<data, rows, budget>>

\* evidence, and the engine.
ReadEvidence(r) ==
    /\ rebuild[r].phase = "evidence"
    /\ rebuild' = [rebuild EXCEPT ![r].phase = "rows",
                     ![r].proposals = Proposals(rebuild[r].person, rebuild[r].read)]
    /\ UNCHANGED <<data, rows, budget>>

\* Mutant of ReadRows: only the rows a rebuild may change are read.
ReadRowsUnverified(r) ==
    /\ rebuild[r].phase = "rows"
    /\ LET mine == {k \in DOMAIN rows : /\ k[1] = rebuild[r].person
                                        /\ Unverified(rows[k])}
       IN  rebuild' = [rebuild EXCEPT ![r].phase = "commit",
                         ![r].existing = [k \in mine |-> rows[k]]]
    /\ UNCHANGED <<data, rows, budget>>

\* select(CandidateInferenceModel) of the person.
ReadRows(r) ==
    /\ rebuild[r].phase = "rows"
    /\ LET mine == {k \in DOMAIN rows : k[1] = rebuild[r].person}
       IN  rebuild' = [rebuild EXCEPT ![r].phase = "commit",
                         ![r].existing = [k \in mine |-> rows[k]]]
    /\ UNCHANGED <<data, rows, budget>>

\* History: who has read rows that somebody else now commits.
Overtaken(p) ==
    [r \in Requests |-> [rebuild[r] EXCEPT !.alone =
       @ /\ ~(rebuild[r].phase = "commit" /\ rebuild[r].person = p)]]

Commit(r) ==
    /\ rebuild[r].phase = "commit"
    /\ \E last \in LastOf(r) :
         /\ ~Duplicates(r)
         /\ Stale(r, last) => Cardinality(Sent(r, last)) > 1
         /\ rows' = Synced(r, last)
    /\ rebuild' = [Overtaken(rebuild[r].person) EXCEPT
                     ![r] = [rebuild[r] EXCEPT !.phase = "done"]]
    /\ UNCHANGED <<data, budget>>

\* The flush raises, the transaction is rolled back, the caller gets a 500.
FlushRaises(r) ==
    /\ rebuild[r].phase = "commit"
    /\ \E last \in LastOf(r) : Duplicates(r) \/ Stale(r, last)
    /\ rebuild' = [rebuild EXCEPT ![r].phase = "failed"]
    /\ UNCHANGED <<data, rows, budget>>

Fault(kind) == budget[kind] > 0 /\ budget' = [budget EXCEPT ![kind] = @ - 1]

\* The connection is lost, the process dies, or PostgreSQL breaks a deadlock.
Lost(r) ==
    /\ Active(r)
    /\ Fault("faults")
    /\ rebuild' = [rebuild EXCEPT ![r].phase = "failed"]
    /\ UNCHANGED <<data, rows>>

\* An ingestion commits a person, or more links of one.
Ingest(p, f) ==
    /\ Fault("edits")
    /\ p \in DOMAIN profile =>
         /\ f # profile[p]
         /\ profile[p].domains \subseteq f.domains
         /\ profile[p].others \subseteq f.others
         /\ profile[p].companies \subseteq f.companies
    /\ profile' = [q \in DOMAIN profile \cup {p} |->
                     IF q = p THEN f ELSE profile[q]]
    /\ UNCHANGED <<chunks, rows, rebuild>>

\* The embedding stage writes a chunk, or deletes it.
WriteChunk(c, mentions) ==
    /\ Fault("edits")
    /\ OwnerOf[c] \in DOMAIN profile
    /\ c \in DOMAIN chunks => mentions # chunks[c]
    /\ chunks' = [d \in DOMAIN chunks \cup {c} |->
                    IF d = c THEN mentions ELSE chunks[d]]
    /\ UNCHANGED <<profile, rows, rebuild>>

DeleteChunk(c) ==
    /\ Fault("edits")
    /\ c \in DOMAIN chunks
    /\ chunks' = [d \in DOMAIN chunks \ {c} |-> chunks[d]]
    /\ UNCHANGED <<profile, rows, rebuild>>

\* Somebody sets the status of a stored row; nothing under src/app does.
Review(k, status) ==
    /\ Fault("reviews")
    /\ k \in DOMAIN rows
    /\ rows' = [rows EXCEPT ![k] = Row(@.by, @.ids, @.why, status)]
    /\ rebuild' = Overtaken(k[1])
    /\ UNCHANGED data

Done == \A r \in Requests : rebuild[r].phase \in {"done", "failed"}

Next ==
    \/ \E r \in Requests :
         \/ \E p \in Subjects : Check(r, p)
         \/ FilterIds(r) \/ ReadProfiles(r) \/ ReadEvidence(r) \/ ReadRows(r)
         \/ Commit(r) \/ FlushRaises(r) \/ Lost(r)
    \/ \E p \in People, f \in Profiles : Ingest(p, f)
    \/ \E c \in ChunkIds, mentions \in SUBSET Domains : WriteChunk(c, mentions)
    \/ \E c \in ChunkIds : DeleteChunk(c)
    \/ \E k \in DOMAIN rows, status \in Verdicts : Review(k, status)
    \/ Done /\ UNCHANGED vars

Spec == Init /\ [][Next]_vars

-----------------------------------------------------------------------------
(* Properties *)

\* Every variable keeps its type.
TypeOK ==
    /\ DOMAIN profile \subseteq People /\ DOMAIN chunks \subseteq ChunkIds
    /\ \A p \in DOMAIN profile : profile[p] \in Profiles
    /\ \A k \in DOMAIN rows :
         /\ k \in People \X Types \X Claims
         /\ rows[k].by \in Requests /\ rows[k].ids \subseteq ChunkIds
         /\ rows[k].status \in {"unverified"} \cup Verdicts
    /\ \A r \in Requests :
         /\ rebuild[r].phase \in Phases
         /\ rebuild[r].person \in People \cup {0}
         /\ Active(r) => rebuild[r].person \in DOMAIN rebuild[r].read
         /\ DOMAIN rebuild[r].existing
              \subseteq {rebuild[r].person} \X Types \X Claims
    /\ budget \in [{"edits", "reviews", "faults"} -> Nat]

\* A stored inference cites evidence: chunks of its person, at least two for
\* expertise, or of people with the name it compares with.
Belongs(k, ids) ==
    /\ ids # {}
    /\ k[2] = "expertise" => Cardinality(ids) >= 2
    /\ \A c \in ids : \/ OwnerOf[c] = k[1]
                      \/ k[2] # "expertise" /\ NameOf[OwnerOf[c]] = k[3]

EvidenceBelongs == \A k \in DOMAIN rows : Belongs(k, rows[k].ids)

\* A review stands, whatever rebuilds run: none undoes the verdict, and a row
\* that was reviewed before a rebuild read it, or that it did not read at all,
\* is left alone. (A row that is reviewed between the reading and the commit
\* may be deleted, or get other evidence.)
ReviewsStand ==
    [][\A r \in Requests : Commit(r) =>
         LET seen == rebuild[r].existing
         IN  \A k \in {k \in DOMAIN rows : ~Unverified(rows[k])} :
               IF k \in DOMAIN seen /\ Unverified(seen[k])
               THEN k \in DOMAIN rows' => rows'[k].status = rows[k].status
               ELSE k \in DOMAIN rows' /\ rows'[k] = rows[k]]_vars

\* A rebuild whose rows nobody else wrote since it read them leaves exactly its
\* proposals and the reviewed rows, each as the engine made it, and touches no
\* other person's.
LoneRebuildIsExact ==
    [][\A r \in Requests : Commit(r) /\ rebuild[r].alone =>
         LET p == rebuild[r].person
             Of(table) == {k \in DOMAIN table : k[1] = p}
         IN  /\ Of(rows') = KeysOf(rebuild[r].proposals)
                              \cup {k \in Of(rows) : ~Unverified(rows[k])}
             /\ \A k \in Of(rows') : Unverified(rows'[k]) =>
                  \E x \in rebuild[r].proposals :
                    x.key = k /\ x.ids = rows'[k].ids /\ x.why = rows'[k].why
             /\ DOMAIN rows \ Of(rows) = DOMAIN rows' \ Of(rows')
             /\ \A k \in DOMAIN rows \ Of(rows) : rows'[k] = rows[k]]_vars

\* The database refuses a rebuild for one of two reasons: somebody else wrote
\* rows of the person since it read them, or two of the people it compares the
\* person with have one name, and so one claim.
RefusalsHaveCause ==
    [][\A r \in Requests : FlushRaises(r) =>
         \/ ~rebuild[r].alone
         \/ \E q1, q2 \in DOMAIN rebuild[r].read \ {rebuild[r].person} :
              q1 # q2 /\ NameOf[q1] = NameOf[q2]]_vars
=============================================================================
