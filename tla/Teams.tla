-------------------------------- MODULE Teams --------------------------------
(***************************************************************************)
(* POST /team: TeamBuilderAgent.build (app/team_builder/agent.py) fills the *)
(* slots of its roles one by one with what HybridRetriever.search returns   *)
(* for each role. POST /search uses the same retriever.                     *)
(***************************************************************************)
EXTENDS Finder

CONSTANTS
    Requests,  \* [roles: sequence of [intent, count], limit: per role]
    Diversity  \* diversity_weight, in the unit of the scores

ASSUME TeamTypes ==
    /\ Diversity \in Nat
    /\ \A r \in Requests :
          /\ r.limit \in Nat \ {0} /\ r.roles \in Seq(Range(r.roles))
          /\ \A i \in DOMAIN r.roles :
                /\ r.roles[i].count \in Nat \ {0}
                /\ IsIntent(r.roles[i].intent) /\ Validates(r.roles[i].intent)

VARIABLE team  \* the local variables of build

vars == <<asked, call, team>>

-----------------------------------------------------------------------------
\* _terms
Terms(m) == UNION {e.words : e \in m.evidence}

\* The part of an assignment's score that _overlap leaves.
Selection(m, words) ==
    LET either == Terms(m) \cup words
        penalty == IF either = {} THEN 0
                   ELSE (Diversity * Cardinality(Terms(m) \cap words))
                            \div Cardinality(either)
    IN  Best({m.score - penalty})

\* The key of max.
Preferred(m, n, words) ==
    LET a == Selection(m, words)
        b == Selection(n, words)
    IN  \/ a > b
        \/ a = b /\ m.score > n.score
        \/ a = b /\ m.score = n.score /\ m.person > n.person

\* Mutant of Available: a candidate is unavailable only for its own role.
AvailableForRole(found, assigned, role) ==
    {m \in Range(found) :
        \A a \in assigned : a.role = role => a.person # m.person}

\* The candidates of a role who are not in selected_ids.
Available(found, assigned, role) ==
    {m \in Range(found) : \A a \in assigned : a.person # m.person}

-----------------------------------------------------------------------------
NoTeam == [phase |-> "idle", request |-> {}, role |-> 1, slot |-> 1,
           words |-> {}, assigned |-> {}, unfilled |-> {},
           found |-> <<>>]  \* history: the people found for each role

Init == FinderInit /\ team = NoTeam

Role == (CHOOSE r \in team.request : TRUE).roles[team.role]

Build(request) ==
    /\ call.phase = "idle" /\ team.phase = "idle"
    /\ team' = [team EXCEPT !.phase = "role", !.request = {request}]
    /\ UNCHANGED <<asked, call>>

Search(query, limit) ==
    /\ team.phase = "idle"
    /\ Ask(query, limit)
    /\ UNCHANGED team

\* A turn of the loop over roles, and its end.
NextRole ==
    /\ team.phase = "role"
    /\ \E request \in team.request :
          IF team.role > Len(request.roles)
          THEN /\ team' = [team EXCEPT !.phase = "done"]
               /\ call' = Idle
          ELSE /\ team' = [team EXCEPT !.phase = "slots", !.slot = 1]
               /\ call' = Called("filter", Role.intent, request.limit)
    /\ UNCHANGED asked

Filling == team.phase = "slots" /\ call.phase = "done"

\* Mutant of Advanced: a role is given up with its first empty slot.
AdvancedByRole(next) ==
    IF team.slot < Role.count /\ next.unfilled = team.unfilled
    THEN [next EXCEPT !.slot = @ + 1]
    ELSE [next EXCEPT !.phase = "role", !.role = @ + 1,
                      !.found = Append(@, {m.person : m \in Range(call.result)})]

\* The end of a turn of the loop over the slots of a role.
Advanced(next) ==
    IF team.slot < Role.count
    THEN [next EXCEPT !.slot = @ + 1]
    ELSE [next EXCEPT !.phase = "role", !.role = @ + 1,
                      !.found = Append(@, {m.person : m \in Range(call.result)})]

Assign ==
    /\ Filling
    /\ LET available == Available(call.result, team.assigned, team.role)
       IN  \E m \in available :
              /\ \A n \in available \ {m} : Preferred(m, n, team.words)
              /\ team' = Advanced([team EXCEPT
                    !.words = @ \cup Terms(m),
                    !.assigned = @ \cup {[role |-> team.role,
                                          slot |-> team.slot,
                                          person |-> m.person,
                                          score |-> Selection(m, team.words)]}])
    /\ UNCHANGED <<asked, call>>

LeaveUnfilled ==
    /\ Filling
    /\ Available(call.result, team.assigned, team.role) = {}
    /\ team' = Advanced([team EXCEPT
                           !.unfilled = @ \cup {<<team.role, team.slot>>}])
    /\ UNCHANGED <<asked, call>>

\* An exception of one search is that of the whole request.
BuildRaises ==
    /\ team.phase = "slots" /\ call.phase = "failed"
    /\ team' = [team EXCEPT !.phase = "failed"]
    /\ UNCHANGED <<asked, call>>

\* The response has been sent.
Ended ==
    /\ IF team.phase = "idle" THEN call.phase \in {"done", "failed"}
       ELSE team.phase \in {"done", "failed"}
    /\ UNCHANGED vars

Next ==
    \/ \E query \in Queries, limit \in 1..Cardinality(People) :
          Search(query, limit)
    \/ \E request \in Requests : Build(request)
    \/ FinderStep /\ UNCHANGED team
    \/ NextRole \/ Assign \/ LeaveUnfilled \/ BuildRaises
    \/ Ended

Spec == Init /\ [][Next]_vars

-----------------------------------------------------------------------------
(* Properties *)

\* Nobody is given two slots, of one role or of two, although each role is
\* searched anew and returns the same people again.
NobodyTwice ==
    \A a, b \in team.assigned : a.person = b.person => a = b

\* A team that is answered says of every slot of every role, once, who has it or
\* that it is unfilled; who has it satisfies what the role requires; and a slot
\* is unfilled only when everybody who was found for the role has another one.
SlotsAreAnswered ==
    team.phase = "done" =>
        \A request \in team.request : \A r \in DOMAIN request.roles :
            LET role == request.roles[r]
                Holders(s) == {a \in team.assigned : a.role = r /\ a.slot = s}
            IN  /\ \A s \in 1..role.count :
                      /\ Cardinality(Holders(s)) =
                            IF <<r, s>> \in team.unfilled THEN 0 ELSE 1
                      /\ \A a \in Holders(s) : Satisfies(a.person, role.intent)
                /\ (\E s \in 1..role.count : <<r, s>> \in team.unfilled) =>
                      team.found[r] \subseteq
                          {a.person : a \in {a \in team.assigned : a.role <= r}}
=============================================================================
