---------------------------- MODULE Teams_proofs ----------------------------
(***************************************************************************)
(* Theorems about Teams and the searches it makes, for any people,          *)
(* requests, limits, scores and answers of the language model.              *)
(*                                                                         *)
(* Sorting is a CHOOSE among the sequences of a set, so what is proved of   *)
(* it first is that a strict total order of a finite set has exactly one    *)
(* arrangement, in which everything stands at its rank.                     *)
(***************************************************************************)
EXTENDS Teams, FiniteSetTheorems, SequenceTheorems, TLAPS

-----------------------------------------------------------------------------
(* Orders of finite sets, as sets R of pairs.                               *)

Orders(R, S) ==
    /\ \A x \in S : <<x, x>> \notin R
    /\ \A x, y, z \in S : <<x, y>> \in R /\ <<y, z>> \in R => <<x, z>> \in R
    /\ \A x, y \in S : x = y \/ <<x, y>> \in R \/ <<y, x>> \in R

\* What comes before x, and how much of it there is.
Below(x, R, S) == {y \in S : <<y, x>> \in R}

Rank(x, R, S) == Cardinality(Below(x, R, S))

InOrder(s, R) == \A i, j \in DOMAIN s : i < j => <<s[i], s[j]>> \in R

LEMMA BelowIsFinite ==
    ASSUME NEW R, NEW S, IsFiniteSet(S), NEW x
    PROVE  IsFiniteSet(Below(x, R, S)) /\ Rank(x, R, S) \in Nat
  BY FS_Subset, FS_CardinalityType DEF Below, Rank

\* Ranks grow along the order, and are all smaller than the number of elements.
LEMMA RanksGrow ==
    ASSUME NEW R, NEW S, IsFiniteSet(S), Orders(R, S), NEW x \in S
    PROVE  /\ Rank(x, R, S) < Cardinality(S)
           /\ \A y \in S : <<x, y>> \in R => Rank(x, R, S) < Rank(y, R, S)
<1>1. Cardinality(S) \in Nat
  BY FS_CardinalityType
<1>2. Rank(x, R, S) < Cardinality(S)
  <2>1. Below(x, R, S) \in SUBSET S /\ x \notin Below(x, R, S)
    BY DEF Below, Orders
  <2>2. Rank(x, R, S) <= Cardinality(S) /\ Rank(x, R, S) # Cardinality(S)
    BY <2>1, FS_Subset DEF Rank
  <2> QED
    BY <1>1, <2>2, BelowIsFinite
<1>3. ASSUME NEW y \in S, <<x, y>> \in R
      PROVE  Rank(x, R, S) < Rank(y, R, S)
  <2>1. Below(x, R, S) \in SUBSET Below(y, R, S) /\ x \in Below(y, R, S)
        /\ x \notin Below(x, R, S)
    BY <1>3 DEF Below, Orders
  <2>2. IsFiniteSet(Below(y, R, S))
    BY BelowIsFinite
  <2>3. Rank(x, R, S) <= Rank(y, R, S) /\ Rank(x, R, S) # Rank(y, R, S)
    BY <2>1, <2>2, FS_Subset DEF Rank
  <2> QED
    BY <2>3, BelowIsFinite
<1> QED
  BY <1>2, <1>3

\* So they number the elements.
LEMMA RanksNumber ==
    ASSUME NEW R, NEW S, IsFiniteSet(S), Orders(R, S)
    PROVE  LET f == [x \in S |-> Rank(x, R, S) + 1]
           IN  f \in Bijection(S, 1..Cardinality(S))
<1> DEFINE f == [x \in S |-> Rank(x, R, S) + 1]
           n == Cardinality(S)
<1>1. n \in Nat /\ IsFiniteSet(1..n) /\ Cardinality(1..n) = n
  <2>1. n \in Nat
    BY FS_CardinalityType
  <2> QED
    BY <2>1, FS_Interval
<1>2. \A x \in S : Rank(x, R, S) \in Nat
  BY BelowIsFinite
<1>3. f \in [S -> 1..n]
  <2>1. \A x \in S : f[x] \in 1..n
    <3> SUFFICES ASSUME NEW x \in S PROVE Rank(x, R, S) + 1 \in 1..n
      OBVIOUS
    <3>1. Rank(x, R, S) < n /\ Rank(x, R, S) \in Nat
      BY <1>2, RanksGrow
    <3> QED
      BY <1>1, <3>1
  <2> QED
    BY <2>1
<1>4. \A x, y \in S : f[x] = f[y] => x = y
  <2> SUFFICES ASSUME NEW x \in S, NEW y \in S, x # y PROVE f[x] # f[y]
    OBVIOUS
  <2>1. <<x, y>> \in R \/ <<y, x>> \in R
    BY DEF Orders
  <2>2. Rank(x, R, S) < Rank(y, R, S) \/ Rank(y, R, S) < Rank(x, R, S)
    BY <2>1, RanksGrow
  <2> QED
    BY <1>2, <2>2
<1>5. f \in Injection(S, 1..n)
  BY <1>3, <1>4 DEF Injection, IsInjective
<1>6. f \in Surjection(S, 1..n)
  BY <1>1, <1>5, FS_Injection
<1> QED
  BY <1>5, <1>6 DEF Bijection

\* There is one arrangement of a finite set.
LEMMA Arrangement ==
    ASSUME NEW R, NEW S, IsFiniteSet(S), Orders(R, S)
    PROVE  \E s \in SetToSeqs(S) : InOrder(s, R)
<1> DEFINE f == [x \in S |-> Rank(x, R, S) + 1]
           n == Cardinality(S)
           s == [i \in 1..n |-> CHOOSE x \in S : f[x] = i]
<1>0. n \in Nat
  BY FS_CardinalityType
<1>1. f \in Bijection(S, 1..n)
  BY RanksNumber
<1>2. \A i \in 1..n : \E x \in S : f[x] = i
  BY <1>1 DEF Bijection, Surjection
<1>3. ASSUME NEW i \in 1..n PROVE s[i] \in S /\ f[s[i]] = i
  <2>1. (CHOOSE x \in S : f[x] = i) \in S /\ f[CHOOSE x \in S : f[x] = i] = i
    <3> HIDE DEF f
    <3> QED
      BY <1>2
  <2> QED
    BY <2>1
<1>4. s \in SetToSeqs(S)
  <2>1. s \in [1..n -> S]
    BY <1>3
  <2>2. \A i, j \in 1..n : i # j => s[i] # s[j]
    BY <1>3
  <2> QED
    BY <2>1, <2>2 DEF SetToSeqs
<1>5. ASSUME NEW i \in 1..n, NEW j \in 1..n, i < j
      PROVE  <<s[i], s[j]>> \in R
  <2> DEFINE x == s[i]
             y == s[j]
  <2>1. x \in S /\ y \in S /\ Rank(x, R, S) + 1 = i /\ Rank(y, R, S) + 1 = j
    BY <1>3
  <2> HIDE DEF x, y, s, f
  <2>2. Rank(x, R, S) \in Nat /\ Rank(y, R, S) \in Nat
    BY BelowIsFinite
  <2>3. Rank(x, R, S) < Rank(y, R, S)
    BY <1>5, <2>1, <2>2
  <2>4. x # y /\ ~(<<y, x>> \in R)
    BY <2>1, <2>2, <2>3, RanksGrow
  <2>5. <<x, y>> \in R
    BY <2>1, <2>4 DEF Orders
  <2> QED
    BY <2>5 DEF x, y
<1>6. DOMAIN s = 1..n
  OBVIOUS
<1>7. InOrder(s, R)
  <2> HIDE DEF s
  <2> QED
    BY <1>5, <1>6 DEF InOrder
<1> QED
  BY <1>4, <1>7

\* In it, elements stand at their ranks.
LEMMA StandAtRank ==
    ASSUME NEW R, NEW S, IsFiniteSet(S), Orders(R, S),
           NEW s \in SetToSeqs(S), InOrder(s, R)
    PROVE  /\ s \in [1..Cardinality(S) -> S] /\ s \in Seq(S)
           /\ Len(s) = Cardinality(S) /\ Range(s) = S
           /\ \A i \in 1..Cardinality(S) : Rank(s[i], R, S) = i - 1
<1> DEFINE n == Cardinality(S)
<1>0. n \in Nat
  BY FS_CardinalityType
<1>1. s \in [1..n -> S] /\ \A i, j \in 1..n : i # j => s[i] # s[j]
  BY DEF SetToSeqs
<1>2. s \in Injection(1..n, S)
  BY <1>1 DEF Injection, IsInjective
<1>3. IsFiniteSet(1..n) /\ Cardinality(1..n) = n
  BY <1>0, FS_Interval
<1>4. s \in Surjection(1..n, S)
  BY <1>2, <1>3, FS_Injection
<1>5. Range(s) = S
  BY <1>1, <1>4 DEF Surjection, Range
<1>6. s \in Seq(S) /\ Len(s) = n
  BY <1>0, <1>1
<1>7. ASSUME NEW i \in 1..n PROVE Rank(s[i], R, S) = i - 1
  <2>1. Below(s[i], R, S) = {s[k] : k \in 1..(i - 1)}
    <3>1. ASSUME NEW y \in S PROVE <<y, s[i]>> \in R <=> y \in {s[k] : k \in 1..(i - 1)}
      <4>1. PICK k \in 1..n : y = s[k]
        BY <1>1, <1>4 DEF Surjection
      <4>2. s[i] \in S
        BY <1>1
      <4>3. CASE k < i
        <5>1. <<s[k], s[i]>> \in R
          BY <1>1, <4>3 DEF InOrder
        <5> QED
          BY <1>0, <4>1, <4>3, <5>1
      <4>4. CASE k = i
        <5>1. <<y, s[i]>> \notin R
          BY <3>1, <4>1, <4>4 DEF Orders
        <5>2. \A l \in 1..(i - 1) : l \in 1..n /\ l # i
          BY <1>0
        <5> QED
          BY <1>1, <4>1, <4>4, <5>1, <5>2
      <4>5. CASE i < k
        <5>1. <<s[i], s[k]>> \in R
          BY <1>1, <4>5 DEF InOrder
        <5>2. <<y, s[i]>> \notin R
          BY <3>1, <4>1, <4>2, <5>1 DEF Orders
        <5>3. \A l \in 1..(i - 1) : l \in 1..n /\ l # k
          BY <1>0, <4>5
        <5> QED
          BY <1>1, <4>1, <5>2, <5>3
      <4> QED
        BY <1>0, <4>3, <4>4, <4>5
    <3>2. \A k \in 1..(i - 1) : s[k] \in S
      BY <1>0, <1>1
    <3> QED
      BY <3>1, <3>2 DEF Below
  <2>2. Cardinality({s[k] : k \in 1..(i - 1)}) = i - 1
    <3> DEFINE T == {s[k] : k \in 1..(i - 1)}
               g == [k \in 1..(i - 1) |-> s[k]]
    <3>1. g \in Bijection(1..(i - 1), T)
      <4>1. g \in [1..(i - 1) -> T]
        OBVIOUS
      <4>2. \A k \in 1..(i - 1) : k \in 1..n
        BY <1>0
      <4>3. \A k, l \in 1..(i - 1) : g[k] = g[l] => k = l
        BY <1>1, <4>2
      <4>4. \A t \in T : \E k \in 1..(i - 1) : g[k] = t
        OBVIOUS
      <4>5. DOMAIN g = 1..(i - 1)
        OBVIOUS
      <4> HIDE DEF g, T
      <4> QED
        BY <4>1, <4>3, <4>4, <4>5 DEF Bijection, Injection, Surjection, IsInjective
    <3>2. ExistsBijection(1..(i - 1), T)
      BY <3>1 DEF ExistsBijection
    <3>3. i - 1 \in Nat
      BY <1>0
    <3> QED
      BY <3>2, <3>3, FS_CountingElements
  <2> QED
    BY <2>1, <2>2 DEF Rank
<1> QED
  BY <1>1, <1>5, <1>6, <1>7

LEMMA OneArrangement ==
    ASSUME NEW R, NEW S, IsFiniteSet(S), Orders(R, S),
           NEW s \in SetToSeqs(S), InOrder(s, R),
           NEW t \in SetToSeqs(S), InOrder(t, R)
    PROVE  s = t
<1> DEFINE n == Cardinality(S)
<1>0. n \in Nat
  BY FS_CardinalityType
<1>1. s \in [1..n -> S] /\ t \in [1..n -> S]
  BY DEF SetToSeqs
<1>2. ASSUME NEW i \in 1..n PROVE s[i] = t[i]
  <2>1. s[i] \in S /\ t[i] \in S
    BY <1>1
  <2>2. Rank(s[i], R, S) = i - 1 /\ Rank(t[i], R, S) = i - 1
    BY StandAtRank
  <2>3. ~(Rank(s[i], R, S) < Rank(t[i], R, S)) /\ ~(Rank(t[i], R, S) < Rank(s[i], R, S))
    BY <1>0, <2>2
  <2>4. <<s[i], t[i]>> \notin R /\ <<t[i], s[i]>> \notin R
    BY <2>1, <2>3, RanksGrow
  <2> QED
    BY <2>1, <2>4 DEF Orders
<1>3. DOMAIN s = 1..n /\ DOMAIN t = 1..n
  BY <1>1
<1>4. s = [i \in 1..n |-> s[i]] /\ t = [i \in 1..n |-> t[i]]
  BY <1>1
<1>5. [i \in 1..n |-> s[i]] = [i \in 1..n |-> t[i]]
  BY <1>2
<1> QED
  BY <1>4, <1>5
-----------------------------------------------------------------------------
(* Scores are numbers, so that Before orders the matches of a search.       *)

LEMMA LeastNumber ==
    ASSUME NEW S \in SUBSET Nat, S # {}
    PROVE  \E x \in S : \A y \in S : x <= y
<1>1. PICK R : R = OpToRel(<, Nat)
  OBVIOUS
<1>2. IsWellFoundedOn(R, Nat)
  BY <1>1, NatLessThanWellFounded
<1>3. \A x, y \in Nat : <<y, x>> \in R <=> y < x
  BY <1>1 DEF OpToRel
<1>4. PICK x \in S : \A y \in S : ~(<<y, x>> \in R)
  BY <1>2, WFMin
<1>5. ASSUME NEW y \in S PROVE x <= y
  <2>1. ~(y < x)
    BY <1>3, <1>4
  <2> QED
    BY <2>1
<1> QED
  BY <1>5

LEMMA BestIs ==
    ASSUME NEW S \in SUBSET Int, NEW b \in Nat, \A x \in S : x <= b
    PROVE  Best(S) \in Nat
<1> DEFINE T == {k \in Nat : \E x \in S \cup {0} : k = b - x}
<1>1. b \in T
  OBVIOUS
<1>2. PICK k \in T : \A l \in T : k <= l
  <2> HIDE DEF T
  <2>1. T \in SUBSET Nat
    BY DEF T
  <2> QED
    BY <1>1, <2>1, LeastNumber
<1>3. PICK y \in S \cup {0} : k = b - y
  OBVIOUS
<1>4. ASSUME NEW x \in S \cup {0} PROVE y >= x
  <2>1. b - x \in T
    OBVIOUS
  <2>2. k <= b - x
    BY <1>2, <2>1
  <2> QED
    BY <1>3, <2>2
<1>5. Best(S) \in S \cup {0} /\ \A x \in S \cup {0} : Best(S) >= x
  BY <1>4 DEF Best, Max
<1> HIDE DEF T
<1>6. Best(S) \in Int
  <2>1. Best(S) \in S \cup {0}
    BY <1>5
  <2>2. \A x \in S \cup {0} : x \in Int
    OBVIOUS
  <2> QED
    BY <2>1, <2>2
<1>7. Best(S) >= 0
  BY <1>5
<1> QED
  BY <1>6, <1>7

LEMMA BestOfOne ==
    ASSUME NEW S \in SUBSET Int, NEW n \in Int, S \subseteq {n}
    PROVE  Best(S) \in Nat
<1>1. CASE n >= 0
  BY <1>1, BestIs
<1>2. CASE n < 0
  <2>1. \A x \in S : x <= 0
    BY <1>2
  <2> QED
    BY <2>1, BestIs
<1> QED
  BY <1>1, <1>2

LEMMA ShareIsNumber ==
    ASSUME NEW requested, IsFiniteSet(requested), NEW matched \in SUBSET requested
    PROVE  Share(matched, requested) \in Int
<1>1. Cardinality(requested) \in Nat /\ (requested # {} => Cardinality(requested) # 0)
  BY FS_CardinalityType, FS_EmptySet
<1>2. Cardinality(matched) \in Nat
  BY FS_Subset, FS_CardinalityType
<1>3. Unit * Cardinality(matched) \in Int
  BY <1>2, RankingTypes
<1> QED
  BY <1>1, <1>3 DEF Share

LEMMA MeanIsNumber ==
    ASSUME NEW r, NEW s, NEW t, IsFiniteSet(r), IsFiniteSet(s), IsFiniteSet(t),
           Best(r) \in Nat, Best(s) \in Nat, Best(t) \in Nat
    PROVE  Mean(r, s, t) \in Int
<1>1. Cardinality(r) \in Nat /\ Cardinality(s) \in Nat /\ Cardinality(t) \in Nat
  BY FS_CardinalityType
<1> QED
  BY <1>1 DEF Mean

\* What a search knows of a person's evidence and paths.
IsScored(S) == \A x \in S : x.score \in 0..Unit

LEMMA BestScoreIsNumber ==
    ASSUME NEW S, IsScored(S)
    PROVE  Best({x.score : x \in S}) \in Nat
<1>1. {x.score : x \in S} \in SUBSET Int /\ \A n \in {x.score : x \in S} : n <= Unit
  BY RankingTypes DEF IsScored
<1> QED
  BY <1>1, RankingTypes, BestIs

\* Intents that can be ranked by.
Rankable(intent) == IsIntent(intent) /\ intent.years \subseteq Nat

LEMMA ExperienceIsNumber ==
    ASSUME NEW p \in People, NEW intent, Rankable(intent)
    PROVE  Experience(p, intent) \in Int
<1> DEFINE x == Profile[p]
           has == Best(x.years)
           r == IF intent.role = {} THEN {}
                ELSE {Share(intent.role \cap x.title, intent.role)}
           Of(s) == IF s \in x.title THEN Unit ELSE 0
           s == {Of(q) : q \in intent.seniority}
           At(y) == IF y = 0 \/ has >= y THEN Unit ELSE (Unit * has) \div y
           t == {At(y) : y \in intent.years}
<1>0. IsFiniteSet(intent.role) /\ IsFiniteSet(intent.seniority) /\ IsFiniteSet(intent.years)
  BY DEF Rankable, IsIntent, NoIntent
<1>1. has \in Nat
  <2>1. PICK n \in Profile[p].years \cup {0} : Profile[p].years \subseteq {n}
    BY RankingTypes
  <2>2. n \in Int /\ x.years \in SUBSET Int
    BY <2>1, RankingTypes
  <2> QED
    BY <2>1, <2>2, BestOfOne
<1>2. IsFiniteSet(r) /\ Best(r) \in Nat
  <2>1. Share(intent.role \cap x.title, intent.role) \in Int
    BY <1>0, ShareIsNumber
  <2>2. r \in SUBSET Int /\ r \subseteq {Share(intent.role \cap x.title, intent.role)}
    BY <2>1
  <2>3. IsFiniteSet(r)
    BY FS_EmptySet, FS_Singleton
  <2> HIDE DEF r
  <2> QED
    BY <2>1, <2>2, <2>3, BestOfOne
<1>3. IsFiniteSet(s) /\ Best(s) \in Nat
  <2>1. s \in SUBSET Int /\ \A n \in s : n <= Unit
    BY RankingTypes
  <2>2. IsFiniteSet(s)
    <3>1. IsFiniteSet({Unit} \cup {0})
      BY FS_Singleton, FS_Union
    <3>2. s \in SUBSET ({Unit} \cup {0})
      OBVIOUS
    <3> HIDE DEF s
    <3> QED
      BY <3>1, <3>2, FS_Subset
  <2> HIDE DEF s
  <2> QED
    BY <2>1, <2>2, RankingTypes, BestIs
<1>4. IsFiniteSet(t) /\ Best(t) \in Nat
  <2>1. PICK n \in intent.years \cup {0} : intent.years \subseteq {n}
    BY DEF Rankable, IsIntent
  <2>3. n \in Nat
    BY <2>1 DEF Rankable
  <2>4. Unit * has \in Int
    BY <1>1, RankingTypes
  <2>5. At(n) \in Int
    <3> HIDE DEF has
    <3> QED
      BY <1>1, <2>3, <2>4, RankingTypes
  <2>6. t \in SUBSET {At(n)}
    BY <2>1
  <2> HIDE DEF t, At
  <2>2. IsFiniteSet(t)
    BY <2>6, FS_Singleton, FS_Subset
  <2> QED
    BY <2>2, <2>5, <2>6, BestOfOne
<1>5. Experience(p, intent) = Mean(r, s, t)
  BY DEF Experience
<1> HIDE DEF r, s, t
<1> QED
  BY <1>2, <1>3, <1>4, <1>5, MeanIsNumber

LEMMA LocatedIsNumber ==
    ASSUME NEW p \in People, NEW intent
    PROVE  Located(p, intent) \in Int
<1> DEFINE Given(requested, has) ==
               IF requested = {} THEN {}
               ELSE {IF requested \cap has # {} THEN Unit ELSE 0}
           r == Given(intent.country, Profile[p].country)
           s == Given(intent.cities, Profile[p].city)
<1>1. ASSUME NEW requested, NEW has
      PROVE  IsFiniteSet(Given(requested, has)) /\ Best(Given(requested, has)) \in Nat
  <2>1. Given(requested, has) \in SUBSET Int /\ \A n \in Given(requested, has) : n <= Unit
    BY RankingTypes
  <2>2. IsFiniteSet(Given(requested, has))
    BY FS_EmptySet, FS_Singleton
  <2> HIDE DEF Given
  <2> QED
    BY <2>1, <2>2, RankingTypes, BestIs
<1>2. IsFiniteSet({}) /\ Best({}) \in Nat
  BY FS_EmptySet, BestIs
<1>3. Located(p, intent) = Mean(r, s, {})
  BY DEF Located
<1>4. IsFiniteSet(r) /\ Best(r) \in Nat /\ IsFiniteSet(s) /\ Best(s) \in Nat
  BY <1>1
<1> HIDE DEF r, s
<1> QED
  BY <1>2, <1>3, <1>4, MeanIsNumber

\* Every criterion is a number, and so is the score.
LEMMA ScoreIsNumber ==
    ASSUME NEW p \in People, NEW intent, Rankable(intent),
           NEW evidence, IsScored(evidence[p]),
           NEW paths, IsScored(Range(paths))
    PROVE  /\ Match(p, intent, evidence, paths).score \in Int
           /\ Match(p, intent, evidence, paths).person = p
<1> DEFINE own == {i \in DOMAIN paths : paths[i].person = p}
           its == {paths[i] : i \in own}
           near == {e \in evidence[p] : e.source = "vector"}
           parts == Breakdown(p, intent, evidence[p], its)
<1>0. \A field \in {"skills", "technologies", "domains", "liked"} : IsFiniteSet(intent[field])
  BY DEF Rankable, IsIntent, NoIntent
<1>1. Best({e.score : e \in near}) \in Nat /\ Best({path.score : path \in its}) \in Nat
  <2>1. IsScored(near) /\ IsScored(its)
    BY DEF IsScored, Range
  <2> HIDE DEF near, its
  <2> QED
    BY <2>1, BestScoreIsNumber
<1>2. ASSUME NEW requested, IsFiniteSet(requested), NEW actual
      PROVE  Ratio(requested, actual) \in Int
  <2>1. {r \in requested : Canonical[r[2]] \in actual} \in SUBSET requested
    OBVIOUS
  <2> QED
    BY <1>2, <2>1, ShareIsNumber DEF Ratio
<1>3. IsFiniteSet(({"skill"} \X intent.skills) \cup ({"technology"} \X intent.technologies))
  <2>1. IsFiniteSet({"skill"} \X intent.skills) /\ IsFiniteSet({"technology"} \X intent.technologies)
    BY <1>0, FS_Singleton, FS_Product
  <2> QED
    BY <2>1, FS_Union
<1>4. Share(intent.domains \cap Profile[p].domains, intent.domains) \in Int
  BY <1>0, ShareIsNumber
<1>5. /\ parts.semantic \in Int /\ parts.skills \in Int /\ parts.domains \in Int
      /\ parts.experience \in Int /\ parts.graph \in Int /\ parts.location \in Int
      /\ parts.preference \in Int
  <2>1. IsFiniteSet(intent.liked)
    BY <1>0
  <2>2. parts.semantic \in Int /\ parts.graph \in Int
    BY <1>1 DEF Breakdown
  <2>3. parts.skills \in Int
    BY <1>2, <1>3 DEF Breakdown
  <2>4. parts.preference \in Int
    BY <1>2, <2>1 DEF Breakdown
  <2>5. parts.domains \in Int /\ parts.experience \in Int /\ parts.location \in Int
    BY <1>4, ExperienceIsNumber, LocatedIsNumber DEF Breakdown
  <2> QED
    BY <2>2, <2>3, <2>4, <2>5
<1>6. Weighted(parts) \in Int
  <2> HIDE DEF parts
  <2>1. \A c \in Criteria : Weight[c] \in Int
    BY RankingTypes
  <2>2. \A c \in Criteria, n \in Int : Weight[c] * n \in Int
    BY <2>1
  <2>3. /\ Weight["semantic"] * parts.semantic \in Int
        /\ Weight["skills"] * parts.skills \in Int
        /\ Weight["domains"] * parts.domains \in Int
        /\ Weight["experience"] * parts.experience \in Int
        /\ Weight["graph"] * parts.graph \in Int
        /\ Weight["location"] * parts.location \in Int
        /\ Weight["preference"] * parts.preference \in Int
    BY <1>5, <2>2 DEF Criteria
  <2> QED
    BY <2>3 DEF Weighted
<1>7. Match(p, intent, evidence, paths).score = Weighted(parts)
      /\ Match(p, intent, evidence, paths).person = p
  BY DEF Match
<1> QED
  BY <1>6, <1>7

\* The first elements of an arrangement are the arrangement of the elements of
\* the lowest ranks.
Lowest(S, R, n) == {x \in S : Rank(x, R, S) < n}

LEMMA FirstOnes ==
    ASSUME NEW R, NEW S, IsFiniteSet(S), Orders(R, S),
           NEW s \in SetToSeqs(S), InOrder(s, R), NEW n \in Nat
    PROVE  /\ FirstN(s, n) \in SetToSeqs(Lowest(S, R, n)) /\ InOrder(FirstN(s, n), R)
           /\ FirstN(s, n) \in Seq(S) /\ Len(FirstN(s, n)) <= n
           /\ Range(FirstN(s, n)) = Lowest(S, R, n)
           /\ Cardinality(Lowest(S, R, n)) = IF n < Cardinality(S) THEN n ELSE Cardinality(S)
<1> DEFINE m == Cardinality(S)
           k == IF n < m THEN n ELSE m
           t == FirstN(s, n)
           H == Lowest(S, R, n)
<1>0. m \in Nat
  BY FS_CardinalityType
<1>1. s \in [1..m -> S] /\ s \in Seq(S) /\ Len(s) = m /\ Range(s) = S
  BY StandAtRank
<1>2. \A i, j \in 1..m : i # j => s[i] # s[j]
  BY DEF SetToSeqs
<1>3. k \in Nat /\ k <= m /\ k <= n /\ \A i \in 1..m : i <= k <=> i <= n
  BY <1>0
<1>4. t = SubSeq(s, 1, k)
  BY <1>1 DEF FirstN
<1>5. t \in Seq(S) /\ Len(t) = k /\ \A i \in 1..k : t[i] = s[i]
  <2>1. \A i \in 1..k : s[i] \in S
    BY <1>0, <1>1, <1>3
  <2> HIDE DEF k, m, t
  <2>2. /\ t \in Seq(S) /\ Len(t) = IF 1 <= k THEN k - 1 + 1 ELSE 0
        /\ \A i \in 1..(k - 1 + 1) : t[i] = s[1 + i - 1]
    BY <1>3, <1>4, <2>1, SubSeqProperties
  <2>3. k - 1 + 1 = k /\ (~(1 <= k) => k = 0) /\ \A i \in 1..k : 1 + i - 1 = i
    BY <1>3
  <2>4. Len(t) = k
    BY <2>2, <2>3
  <2> QED
    BY <2>2, <2>3, <2>4
<1>6. t \in [1..k -> S] /\ DOMAIN t = 1..k
  BY <1>5
<1> HIDE DEF t
<1>7. \A i \in 1..k : t[i] \in H
  <2> SUFFICES ASSUME NEW i \in 1..k PROVE t[i] \in H
    OBVIOUS
  <2>1. i \in 1..m /\ i <= n
    BY <1>0, <1>3
  <2>2. Rank(s[i], R, S) = i - 1 /\ s[i] \in S
    BY <1>1, <2>1, StandAtRank
  <2>3. i - 1 < n
    BY <2>1
  <2> QED
    BY <1>5, <2>2, <2>3 DEF Lowest
<1>8. \A x \in H : \E i \in 1..k : t[i] = x
  <2> SUFFICES ASSUME NEW x \in H PROVE \E i \in 1..k : t[i] = x
    OBVIOUS
  <2>1. PICK i \in 1..m : s[i] = x
    BY <1>1 DEF Range, Lowest
  <2>2. Rank(x, R, S) = i - 1 /\ Rank(x, R, S) < n
    BY <2>1, StandAtRank DEF Lowest
  <2>3. i <= n
    BY <2>2
  <2>4. i \in 1..k
    BY <1>0, <1>3, <2>3
  <2> QED
    BY <1>5, <2>1, <2>4
<1>9. Range(t) = H
  BY <1>6, <1>7, <1>8 DEF Range
<1>10. \A i, j \in 1..k : i # j => t[i] # t[j]
  <2>1. \A i \in 1..k : i \in 1..m
    BY <1>0, <1>3
  <2> QED
    BY <1>2, <1>5, <2>1
<1>11. Cardinality(H) = k
  <2>1. t \in [1..k -> H]
    BY <1>6, <1>7
  <2>2. t \in Bijection(1..k, H)
    BY <1>8, <1>10, <2>1 DEF Bijection, Injection, Surjection, IsInjective
  <2>3. ExistsBijection(1..k, H)
    BY <2>2 DEF ExistsBijection
  <2> QED
    BY <1>3, <2>3, FS_CountingElements
<1>12. t \in SetToSeqs(H)
  <2>1. t \in [1..k -> H]
    BY <1>6, <1>7
  <2> QED
    BY <1>10, <1>11, <2>1 DEF SetToSeqs
<1>13. InOrder(t, R)
  <2> SUFFICES ASSUME NEW i \in 1..k, NEW j \in 1..k, i < j
               PROVE  <<t[i], t[j]>> \in R
    BY <1>6 DEF InOrder
  <2>1. i \in 1..m /\ j \in 1..m
    BY <1>0, <1>3
  <2>2. DOMAIN s = 1..m
    BY <1>1
  <2>3. <<s[i], s[j]>> \in R
    BY <2>1, <2>2 DEF InOrder
  <2> QED
    BY <1>5, <2>3
<1> QED
  BY <1>3, <1>5, <1>9, <1>11, <1>12, <1>13 DEF t

-----------------------------------------------------------------------------
(* The order of the matches of a search.                                    *)

AreMatches(S) ==
    /\ IsFiniteSet(S)
    /\ \A m \in S : m.person \in People /\ m.score \in Int
    /\ \A m, n \in S : m.person = n.person => m = n

Ahead(S) == {pair \in S \X S : Before(pair[1], pair[2])}

LEMMA BeforeOrders ==
    ASSUME NEW S, AreMatches(S), NEW T \in SUBSET S
    PROVE  Orders(Ahead(S), T) /\ IsFiniteSet(T) /\ AreMatches(T)
<1>0. ASSUME NEW m \in S
      PROVE  m.person \in Int /\ m.score \in Int /\ Profile[m.person].name \in Int
  <2>1. m.person \in People /\ m.score \in Int
    BY DEF AreMatches
  <2>2. m.person \in Nat /\ Profile[m.person].name \in Nat
    BY <2>1, RankingTypes
  <2> QED
    BY <2>1, <2>2
<1>1. ASSUME NEW m \in S, NEW n \in S PROVE <<m, n>> \in Ahead(S) <=> Before(m, n)
  BY DEF Ahead
<1>2. ASSUME NEW m \in S PROVE ~Before(m, m)
  BY <1>0 DEF Before
<1>3. ASSUME NEW l \in S, NEW m \in S, NEW n \in S, Before(l, m), Before(m, n)
      PROVE  Before(l, n)
  <2>1. /\ l.person \in Int /\ l.score \in Int /\ Profile[l.person].name \in Int
        /\ m.person \in Int /\ m.score \in Int /\ Profile[m.person].name \in Int
        /\ n.person \in Int /\ n.score \in Int /\ Profile[n.person].name \in Int
    BY <1>0
  <2> QED
    BY <1>3, <2>1 DEF Before
<1>4. ASSUME NEW m \in S, NEW n \in S, m # n PROVE Before(m, n) \/ Before(n, m)
  <2>1. m.person # n.person
    BY <1>4 DEF AreMatches
  <2>2. /\ m.person \in Int /\ m.score \in Int /\ Profile[m.person].name \in Int
        /\ n.person \in Int /\ n.score \in Int /\ Profile[n.person].name \in Int
    BY <1>0
  <2> QED
    BY <2>1, <2>2 DEF Before
<1>5. Orders(Ahead(S), T)
  <2>1. \A x \in T : x \in S
    OBVIOUS
  <2>2. \A x \in T : <<x, x>> \notin Ahead(S)
    BY <1>1, <1>2, <2>1
  <2>3. \A x, y, z \in T :
           <<x, y>> \in Ahead(S) /\ <<y, z>> \in Ahead(S) => <<x, z>> \in Ahead(S)
    BY <1>1, <1>3, <2>1
  <2>4. \A x, y \in T : x = y \/ <<x, y>> \in Ahead(S) \/ <<y, x>> \in Ahead(S)
    BY <1>1, <1>4, <2>1
  <2> QED
    BY <2>2, <2>3, <2>4 DEF Orders
<1>6. IsFiniteSet(T) /\ AreMatches(T)
  <2>1. IsFiniteSet(T)
    BY FS_Subset DEF AreMatches
  <2> QED
    BY <2>1 DEF AreMatches
<1> QED
  BY <1>5, <1>6

LEMMA SortedIs ==
    ASSUME NEW S, AreMatches(S), NEW T \in SUBSET S
    PROVE  Sorted(T) \in SetToSeqs(T) /\ InOrder(Sorted(T), Ahead(S))
<1>1. Orders(Ahead(S), T) /\ IsFiniteSet(T)
  BY BeforeOrders
<1>2. PICK s \in SetToSeqs(T) : InOrder(s, Ahead(S))
  BY <1>1, Arrangement
<1>3. ASSUME NEW t \in SetToSeqs(T)
      PROVE  InOrder(t, Ahead(S)) <=>
                \A i, j \in DOMAIN t : i < j => Before(t[i], t[j])
  <2>1. \A i \in DOMAIN t : t[i] \in S
    BY DEF SetToSeqs
  <2>2. \A i, j \in DOMAIN t : <<t[i], t[j]>> \in Ahead(S) <=> Before(t[i], t[j])
    BY <2>1 DEF Ahead
  <2> QED
    BY <2>2 DEF InOrder
<1>4. /\ Sorted(T) \in SetToSeqs(T)
      /\ \A i, j \in DOMAIN Sorted(T) : i < j => Before(Sorted(T)[i], Sorted(T)[j])
  BY <1>2, <1>3 DEF Sorted, Arranged
<1> QED
  BY <1>3, <1>4

-----------------------------------------------------------------------------
(* The reranker.                                                            *)

\* The places of the answer that name the match at i.
NamedAt(list, answer, i) ==
    {k \in DOMAIN answer : i <= TopN /\ answer[k] = list[i].person}

\* Different matches are named at different places, so that the order of their
\* first places is total.
LEMMA RerankedHasAll ==
    ASSUME NEW S, AreMatches(S), NEW list \in Seq(S), NEW answer \in Seq(Nat),
           \A i, j \in DOMAIN list : i # j => list[i] # list[j]
    PROVE  Range(Reranked(list, answer)) = Range(list)
<1> DEFINE D == DOMAIN list
           Named(i) == NamedAt(list, answer, i)
           Comes(i, j) ==
               \/ \E k \in Named(i) : \A l \in Named(j) : k < l
               \/ Named(i) = {} /\ Named(j) = {} /\ i < j
           A == {pair \in D \X D : Comes(pair[1], pair[2])}
           order == Arranged(D, Comes)
<1>1. D = 1..Len(list) /\ Len(list) \in Nat /\ IsFiniteSet(D) /\ Cardinality(D) = Len(list)
  <2>1. D = 1..Len(list) /\ Len(list) \in Nat
    OBVIOUS
  <2>2. PICK n \in Nat : n = Len(list)
    BY <2>1
  <2>3. IsFiniteSet(1..n) /\ Cardinality(1..n) = n
    BY FS_Interval
  <2> QED
    BY <2>1, <2>2, <2>3
<1>2. ASSUME NEW i \in D PROVE Named(i) \in SUBSET Nat
  BY DEF NamedAt
<1>3. ASSUME NEW i \in D, NEW j \in D, i # j PROVE Named(i) \cap Named(j) = {}
  <2>1. list[i] \in S /\ list[j] \in S /\ list[i] # list[j]
    BY <1>3
  <2>2. list[i].person # list[j].person
    BY <2>1 DEF AreMatches
  <2> QED
    BY <2>2 DEF NamedAt
<1> HIDE DEF Named
<1>4. Orders(A, D)
  <2>1. ASSUME NEW i \in D PROVE ~Comes(i, i)
    <3>1. ~(i < i)
      BY <1>1
    <3>2. ASSUME NEW k \in Named(i), \A l \in Named(i) : k < l PROVE FALSE
      <4>1. k < k /\ k \in Nat
        BY <1>2, <3>2
      <4> QED
        BY <4>1
    <3> QED
      BY <3>1, <3>2
  <2>2. ASSUME NEW i \in D, NEW j \in D, NEW m \in D, Comes(i, j), Comes(j, m)
        PROVE  Comes(i, m)
    <3>1. CASE Named(j) = {}
      <4>1. Named(m) = {}
        BY <2>2, <3>1
      <4>2. CASE Named(i) = {}
        <5>1. i < j /\ j < m
          BY <2>2, <3>1, <4>2
        <5>2. i < m
          BY <1>1, <5>1
        <5> QED
          BY <4>1, <4>2, <5>2
      <4>3. CASE Named(i) # {}
        BY <4>1, <4>3
      <4> QED
        BY <4>2, <4>3
    <3>2. CASE Named(j) # {}
      <4>1. PICK k \in Named(i) : \A l \in Named(j) : k < l
        BY <2>2, <3>2
      <4>2. PICK l \in Named(j) : \A n \in Named(m) : l < n
        BY <2>2, <3>2
      <4>3. ASSUME NEW n \in Named(m) PROVE k < n
        <5>1. k < l /\ l < n
          BY <4>1, <4>2
        <5>2. k \in Nat /\ l \in Nat /\ n \in Nat
          BY <1>2
        <5> QED
          BY <5>1, <5>2
      <4> QED
        BY <4>3
    <3> QED
      BY <3>1, <3>2
  <2>3. ASSUME NEW i \in D, NEW j \in D, i # j PROVE Comes(i, j) \/ Comes(j, i)
    <3>1. CASE Named(i) = {} /\ Named(j) = {}
      <4>1. i < j \/ j < i
        BY <1>1, <2>3
      <4> QED
        BY <3>1, <4>1
    <3>2. CASE Named(i) # {} /\ Named(j) = {}
      BY <3>2
    <3>3. CASE Named(i) = {} /\ Named(j) # {}
      BY <3>3
    <3>4. CASE Named(i) # {} /\ Named(j) # {}
      <4>1. PICK k \in Named(i) : \A n \in Named(i) : k <= n
        BY <1>2, <3>4, LeastNumber
      <4>2. PICK l \in Named(j) : \A n \in Named(j) : l <= n
        BY <1>2, <3>4, LeastNumber
      <4>3. k # l /\ k \in Nat /\ l \in Nat
        BY <1>2, <1>3, <2>3
      <4>4. CASE k < l
        <5>1. ASSUME NEW n \in Named(j) PROVE k < n
          <6>1. l <= n /\ n \in Nat
            BY <1>2, <4>2
          <6> QED
            BY <4>3, <4>4, <6>1
        <5> QED
          BY <5>1
      <4>5. CASE l < k
        <5>1. ASSUME NEW n \in Named(i) PROVE l < n
          <6>1. k <= n /\ n \in Nat
            BY <1>2, <4>1
          <6> QED
            BY <4>3, <4>5, <6>1
        <5> QED
          BY <5>1
      <4> QED
        BY <4>3, <4>4, <4>5
    <3> QED
      BY <3>1, <3>2, <3>3, <3>4
  <2> HIDE DEF Comes, D
  <2>4. \A i, j \in D : <<i, j>> \in A <=> Comes(i, j)
    OBVIOUS
  <2> HIDE DEF A
  <2>5. \A i \in D : <<i, i>> \notin A
    BY <2>1, <2>4
  <2>6. \A i, j, m \in D : <<i, j>> \in A /\ <<j, m>> \in A => <<i, m>> \in A
    BY <2>2, <2>4
  <2>7. \A i, j \in D : i = j \/ <<i, j>> \in A \/ <<j, i>> \in A
    BY <2>3, <2>4
  <2> QED
    BY <2>5, <2>6, <2>7 DEF Orders
<1>5. order \in SetToSeqs(D) /\ InOrder(order, A)
  <2>1. PICK s \in SetToSeqs(D) : InOrder(s, A)
    BY <1>1, <1>4, Arrangement
  <2> HIDE DEF Comes, D
  <2>2. ASSUME NEW t \in SetToSeqs(D)
        PROVE  InOrder(t, A) <=> \A i, j \in DOMAIN t : i < j => Comes(t[i], t[j])
    <3>1. \A i \in DOMAIN t : t[i] \in D
      BY DEF SetToSeqs
    <3>2. \A i, j \in DOMAIN t : <<t[i], t[j]>> \in A <=> Comes(t[i], t[j])
      BY <3>1
    <3> HIDE DEF A
    <3> QED
      BY <3>2 DEF InOrder
  <2>3. /\ order \in SetToSeqs(D)
        /\ \A i, j \in DOMAIN order : i < j => Comes(order[i], order[j])
    BY <2>1, <2>2 DEF Arranged
  <2> QED
    BY <2>2, <2>3
<1>6. order \in [D -> D] /\ Range(order) = D
  <2> HIDE DEF order, A, D
  <2>1. order \in [1..Cardinality(D) -> D] /\ Range(order) = D
    BY <1>1, <1>4, <1>5, StandAtRank
  <2> QED
    BY <1>1, <2>1
<1>7. Reranked(list, answer) = [i \in D |-> list[order[i]]]
  BY DEF Reranked, Named, NamedAt
<1> HIDE DEF order
<1>8. \A k \in D : \E i \in D : order[i] = k
  BY <1>6 DEF Range
<1> QED
  BY <1>6, <1>7, <1>8 DEF Range

\* So what the reranker makes of the best of S, filtered and sorted again, is the
\* best of what the filter leaves of S, which is closed upwards.
LEMMA RerankerIsUndone ==
    ASSUME NEW S, AreMatches(S), NEW intent, NEW limit \in Nat, NEW answer \in Seq(Nat)
    PROVE  Visible(intent, Reranked(FirstN(Sorted(S), limit), answer), limit)
              = FirstN(Sorted({m \in S : Hard(intent) \/ m.score >= MinScore}), limit)
<1> DEFINE R == Ahead(S)
           G == {m \in S : Hard(intent) \/ m.score >= MinScore}
           top == FirstN(Sorted(S), limit)
           T == Lowest(S, R, limit)
           H == Lowest(G, R, limit)
<1>1. /\ Orders(R, S) /\ IsFiniteSet(S) /\ Orders(R, G) /\ IsFiniteSet(G)
      /\ Sorted(S) \in SetToSeqs(S) /\ InOrder(Sorted(S), R)
      /\ Sorted(G) \in SetToSeqs(G) /\ InOrder(Sorted(G), R)
  BY BeforeOrders, SortedIs
<1>2. top \in SetToSeqs(T) /\ top \in Seq(S) /\ Range(top) = T
  <2> HIDE DEF R
  <2> QED
    BY <1>1, FirstOnes
<1>3. Range(Reranked(top, answer)) = T
  <2>1. \A i, j \in DOMAIN top : i # j => top[i] # top[j]
    BY <1>2 DEF SetToSeqs
  <2> HIDE DEF top, T
  <2> QED
    BY <1>2, <2>1, RerankedHasAll
<1>4. ASSUME NEW m \in G PROVE Rank(m, R, G) = Rank(m, R, S)
  <2>1. ASSUME NEW n \in S, <<n, m>> \in R PROVE n \in G
    <3>1. Before(n, m) /\ m \in S
      BY <2>1 DEF Ahead
    <3>2. n.score \in Int /\ m.score \in Int
      BY <3>1 DEF AreMatches
    <3>3. n.score >= m.score
      BY <3>1, <3>2 DEF Before
    <3>4. CASE Hard(intent)
      BY <3>4
    <3>5. CASE ~Hard(intent)
      <4>1. m.score >= MinScore
        BY <3>5
      <4>2. n.score >= MinScore
        BY <3>2, <3>3, <4>1, FinderTypes
      <4> QED
        BY <4>2
    <3> QED
      BY <3>4, <3>5
  <2>2. Below(m, R, G) = Below(m, R, S)
    BY <2>1 DEF Below
  <2> QED
    BY <2>2 DEF Rank
<1>5. {m \in Range(Reranked(top, answer)) : Hard(intent) \/ m.score >= MinScore} = H
  BY <1>3, <1>4 DEF Lowest
<1>6. Visible(intent, Reranked(top, answer), limit) = FirstN(Sorted(H), limit)
  BY <1>5 DEF Visible
<1>7. /\ FirstN(Sorted(G), limit) \in SetToSeqs(H)
      /\ InOrder(FirstN(Sorted(G), limit), R)
      /\ FirstN(Sorted(G), limit) \in Seq(G)
      /\ Len(FirstN(Sorted(G), limit)) <= limit
  <2> HIDE DEF R, G
  <2> QED
    BY <1>1, FirstOnes
<1>8. Sorted(H) \in SetToSeqs(H) /\ InOrder(Sorted(H), R) /\ Orders(R, H) /\ IsFiniteSet(H)
  <2>1. H \in SUBSET S
    BY DEF Lowest
  <2> HIDE DEF H
  <2> QED
    BY <2>1, BeforeOrders, SortedIs
<1>9. Sorted(H) = FirstN(Sorted(G), limit)
  <2> HIDE DEF R, G, H
  <2> QED
    BY <1>7, <1>8, OneArrangement
<1>10. FirstN(Sorted(H), limit) = Sorted(H)
  <2>1. PICK t : t = Sorted(H)
    OBVIOUS
  <2>2. t \in Seq(G) /\ Len(t) <= limit
    BY <1>7, <1>9, <2>1
  <2> HIDE DEF G, H
  <2>3. Len(t) \in Nat
    BY <2>2
  <2>4. (IF limit < Len(t) THEN limit ELSE Len(t)) = Len(t)
    BY <2>2, <2>3
  <2>5. FirstN(t, limit) = SubSeq(t, 1, Len(t))
    BY <2>4 DEF FirstN
  <2>6. SubSeq(t, 1, Len(t)) = t
    BY <2>2, SubSeqFull
  <2> QED
    BY <2>1, <2>5, <2>6
<1> QED
  BY <1>6, <1>9, <1>10

-----------------------------------------------------------------------------
(* The lists of ids, and the pool.                                          *)

\* A list that is cut has as many ids as the limit says.
LEMMA FullOrAll ==
    ASSUME NEW S \in SUBSET People, NEW limit \in Nat
    PROVE  FirstOf(S, limit) = S \/ Cardinality(FirstOf(S, limit)) = limit
<1> DEFINE R == {pair \in S \X S : pair[1] < pair[2]}
           H == Lowest(S, R, limit)
<1>1. IsFiniteSet(S) /\ S \in SUBSET Nat
  BY FS_Subset, RankingTypes
<1>2. Orders(R, S)
  <2>1. \A p, q \in S : <<p, q>> \in R <=> p < q
    OBVIOUS
  <2> HIDE DEF R
  <2>2. \A p \in S : <<p, p>> \notin R
    BY <1>1, <2>1
  <2>3. \A p, q, r \in S : <<p, q>> \in R /\ <<q, r>> \in R => <<p, r>> \in R
    BY <1>1, <2>1
  <2>4. ASSUME NEW p \in S, NEW q \in S
        PROVE  p = q \/ <<p, q>> \in R \/ <<q, p>> \in R
    <3>1. p \in Nat /\ q \in Nat
      BY <1>1
    <3>2. p = q \/ p < q \/ q < p
      BY <3>1
    <3> QED
      BY <2>1, <3>2
  <2> QED
    BY <2>2, <2>3, <2>4 DEF Orders
<1>3. FirstOf(S, limit) = H
  <2>1. ASSUME NEW p \in S PROVE {q \in S : q < p} = Below(p, R, S)
    BY DEF Below
  <2> QED
    BY <2>1 DEF FirstOf, Rank, Lowest
<1>4. PICK s \in SetToSeqs(S) : InOrder(s, R)
  BY <1>1, <1>2, Arrangement
<1>5. Cardinality(H) = IF limit < Cardinality(S) THEN limit ELSE Cardinality(S)
  <2> HIDE DEF R
  <2> QED
    BY <1>1, <1>2, <1>4, FirstOnes
<1>6. H = S \/ Cardinality(H) = limit
  <2>1. H \in SUBSET S
    BY DEF Lowest
  <2> HIDE DEF H
  <2>2. Cardinality(H) = Cardinality(S) => H = S
    BY <1>1, <2>1, FS_Subset
  <2> QED
    BY <1>5, <2>2
<1> QED
  BY <1>3, <1>6

Satisfying(intent) == {p \in People : Satisfies(p, intent)}

Connected(intent) == {p \in People : GraphMatches(p, intent)}

\* Names that are canonical stay as they are.
LEMMA CanonicalAlready ==
    ASSUME NEW S, \A n \in S : Canonical[n] = n
    PROVE  CanonicalNames(S) = S
  BY DEF CanonicalNames

\* The graph's idea of a domain is the wider one, unless it is given an alias.
LEMMA SatisfyingAreConnected ==
    ASSUME NEW intent, \A n \in GraphTerms(intent) : Canonical[n] = n
    PROVE  Satisfying(intent) \subseteq Connected(intent)
<1>1. /\ CanonicalNames(intent.domains) = intent.domains
      /\ CanonicalNames(intent.companies) = intent.companies
      /\ CanonicalNames(intent.projects) = intent.projects
  BY CanonicalAlready DEF GraphTerms
<1> QED
  BY <1>1 DEF Satisfying, Connected, Satisfies, GraphMatches

\* Without hard filters there is nothing to satisfy.
LEMMA SoftIsSatisfied ==
    ASSUME NEW intent, ~Hard(intent), NEW p \in People
    PROVE  Satisfies(p, intent)
<1>1. /\ intent.country = {} /\ intent.cities = {} /\ intent.years = {}
      /\ intent.minAge = {} /\ intent.maxAge = {} /\ intent.skills = {}
      /\ intent.technologies = {} /\ intent.domains = {}
      /\ intent.companies = {} /\ intent.projects = {}
  BY DEF Hard
<1> QED
  BY <1>1 DEF Satisfies, CanonicalNames

\* Pool, of a state of the search.
PoolOf(c) == CandidatePool(c.intent, c.structured,
                           {p \in People : c.near[p] # {}}, c.graph)

MatchesOf(c) == {Match(p, c.intent, c.evidence, c.paths) : p \in PoolOf(c)}

Good(c) == {m \in MatchesOf(c) : Hard(c.intent) \/ m.score >= MinScore}

Fields == {"phase", "intent", "limit", "structured", "near", "graph", "paths",
           "evidence", "ranked", "result"}

Unfiltered == {"idle", "parse", "filter"}

Gathered == {"evidence", "paths", "rank", "rerank"}

IsFresh(c) ==
    /\ c.structured = {} /\ c.near = Nothing /\ c.graph = {} /\ c.paths = <<>>
    /\ c.evidence = Nothing /\ c.ranked = <<>>

\* A state of the search. Hard filters that nobody satisfies end it; the lists of
\* ids are what they were cut to; and there is no ranking before its time.
CallFits(c) ==
    /\ DOMAIN c = Fields
    /\ c.limit \in Nat /\ Rankable(c.intent)
    /\ c.phase \in Unfiltered => IsFresh(c)
    /\ c.structured \subseteq Satisfying(c.intent) /\ c.graph \subseteq People
    /\ \A p \in People : IsScored(c.near[p]) /\ IsScored(c.evidence[p])
    /\ IsScored(Range(c.paths))
    /\ c.phase \in {"vector", "graph"} \cup Gathered =>
          /\ c.structured = FirstOf(Satisfying(c.intent), PoolSize)
          /\ Hard(c.intent) => c.structured # {}
    /\ Hard(c.intent) /\ c.structured = {} => c.near = Nothing /\ c.graph = {}
    /\ c.phase \in Gathered /\ UsesGraph(c.intent) =>
          c.graph = FirstOf(Connected(c.intent), GraphLimit)
    /\ c.phase = "rerank" => c.ranked = FirstN(Sorted(MatchesOf(c)), c.limit)
    /\ c.result = IF c.phase = "done" THEN FirstN(Sorted(Good(c)), c.limit)
                  ELSE <<>>

LEMMA PoolFits ==
    ASSUME NEW c, CallFits(c)
    PROVE  /\ PoolOf(c) \in SUBSET People
           /\ Hard(c.intent) => PoolOf(c) \subseteq Satisfying(c.intent)
           /\ AreMatches(MatchesOf(c))
<1>1. PoolOf(c) \in SUBSET People
  BY DEF CallFits, PoolOf, CandidatePool, Satisfying
<1>2. ASSUME Hard(c.intent) PROVE PoolOf(c) \subseteq Satisfying(c.intent)
  <2>1. CASE c.structured # {}
    BY <1>2, <2>1 DEF CallFits, PoolOf, CandidatePool
  <2>2. CASE c.structured = {}
    <3>1. {p \in People : c.near[p] # {}} = {} /\ c.graph = {}
      BY <1>2, <2>2 DEF CallFits, Nothing
    <3> QED
      BY <2>2, <3>1 DEF PoolOf, CandidatePool
  <2> QED
    BY <2>1, <2>2
<1>3. IsFiniteSet(PoolOf(c))
  BY <1>1, FS_Subset, RankingTypes
<1>4. ASSUME NEW p \in PoolOf(c)
      PROVE  /\ Match(p, c.intent, c.evidence, c.paths).score \in Int
             /\ Match(p, c.intent, c.evidence, c.paths).person = p
  <2>1. Rankable(c.intent) /\ IsScored(c.evidence[p]) /\ IsScored(Range(c.paths)) /\ p \in People
    BY <1>1 DEF CallFits
  <2> QED
    BY <2>1, ScoreIsNumber
<1>5. IsFiniteSet(MatchesOf(c))
  <2> DEFINE f == [p \in PoolOf(c) |-> Match(p, c.intent, c.evidence, c.paths)]
  <2>1. f \in Surjection(PoolOf(c), MatchesOf(c))
    BY DEF Surjection, MatchesOf
  <2> HIDE DEF f
  <2> QED
    BY <1>3, <2>1, FS_Surjection
<1>6. \A m \in MatchesOf(c) : m.person \in PoolOf(c) /\ m.score \in Int
                              /\ m = Match(m.person, c.intent, c.evidence, c.paths)
  BY <1>4 DEF MatchesOf
<1>7. AreMatches(MatchesOf(c))
  BY <1>1, <1>5, <1>6 DEF AreMatches
<1> QED
  BY <1>1, <1>2, <1>7

\* Who is found satisfies what was asked for.
LEMMA FoundSatisfy ==
    ASSUME NEW c, CallFits(c), NEW m \in Range(c.result)
    PROVE  m.person \in People /\ Satisfies(m.person, c.intent)
<1>1. c.phase = "done" /\ c.result = FirstN(Sorted(Good(c)), c.limit)
  <2>1. c.result # <<>>
    BY DEF Range
  <2> QED
    BY <2>1 DEF CallFits
<1>2. Good(c) \in SUBSET MatchesOf(c) /\ AreMatches(MatchesOf(c))
  BY PoolFits DEF Good
<1>3. m \in Good(c)
  <2> DEFINE R == Ahead(MatchesOf(c))
  <2>1. /\ Orders(R, Good(c)) /\ IsFiniteSet(Good(c))
        /\ Sorted(Good(c)) \in SetToSeqs(Good(c)) /\ InOrder(Sorted(Good(c)), R)
    BY <1>2, BeforeOrders, SortedIs
  <2>2. c.limit \in Nat
    BY DEF CallFits
  <2>3. Range(FirstN(Sorted(Good(c)), c.limit)) = Lowest(Good(c), R, c.limit)
    <3> HIDE DEF R
    <3> QED
      BY <2>1, <2>2, FirstOnes
  <2> QED
    BY <1>1, <2>3 DEF Lowest
<1>4. PICK p \in PoolOf(c) : m = Match(p, c.intent, c.evidence, c.paths)
  BY <1>3 DEF Good, MatchesOf
<1>5. m.person = p
  BY <1>4 DEF Match
<1>6. p \in People /\ (Hard(c.intent) => Satisfies(p, c.intent))
  BY PoolFits DEF Satisfying
<1> QED
  BY <1>5, <1>6, SoftIsSatisfied

-----------------------------------------------------------------------------
(* The intent of a query.                                                   *)

IfSaid(query, term, S) == IF term \in query.terms THEN S ELSE {}

IfWanted(query) == IF WantsMLOps(query) THEN {MLOps} ELSE {}

\* Field by field, where each part of an intent comes from.
IsGrounded(g, query, answer, vocabulary) ==
    /\ DOMAIN g = DOMAIN NoIntent
    /\ IsFiniteSet(g.country)
    /\ g.country \subseteq Detected(query, vocabulary, "country")
    /\ g.cities = Detected(query, vocabulary, "city")
    /\ g.companies = Detected(query, vocabulary, "company")
    /\ g.skills = Required(answer.skills, query, vocabulary, "skill")
    /\ g.technologies = Required(answer.technologies, query, vocabulary, "technology")
    /\ g.domains = Required(answer.domains, query, vocabulary, "domain")
    /\ \A field \in {"role", "seniority", "years", "minAge", "maxAge",
                     "projects", "liked"} : g[field] = answer[field]

LEMMA GroundedIs ==
    ASSUME NEW query, NEW answer \in Answers, NEW vocabulary,
           NEW g \in Grounded(query, answer, vocabulary)
    PROVE  IsGrounded(g, query, answer, vocabulary)
<1>1. DOMAIN answer = DOMAIN NoIntent
  BY FinderTypes DEF IsIntent
<1>2. DOMAIN answer = {"role", "seniority", "country", "cities", "years", "minAge",
                       "maxAge", "skills", "technologies", "domains", "companies",
                       "projects", "liked"}
  BY <1>1 DEF NoIntent
<1>3. PICK country :
         /\ country = {} \/ \E c \in Detected(query, vocabulary, "country") : country = {c}
         /\ g = [answer EXCEPT
                   !.country = country,
                   !.cities = Detected(query, vocabulary, "city"),
                   !.companies = Detected(query, vocabulary, "company"),
                   !.skills = Required(@, query, vocabulary, "skill"),
                   !.technologies = Required(@, query, vocabulary, "technology"),
                   !.domains = Required(@, query, vocabulary, "domain")]
  BY DEF Grounded
<1>4. IsFiniteSet(country) /\ country \subseteq Detected(query, vocabulary, "country")
  BY <1>3, FS_EmptySet, FS_Singleton
<1>5. DOMAIN g = DOMAIN answer
  BY <1>3
<1>6. /\ g.country = country
      /\ g.cities = Detected(query, vocabulary, "city")
      /\ g.companies = Detected(query, vocabulary, "company")
  BY <1>2, <1>3
<1>7. /\ g.skills = Required(answer.skills, query, vocabulary, "skill")
      /\ g.technologies = Required(answer.technologies, query, vocabulary, "technology")
      /\ g.domains = Required(answer.domains, query, vocabulary, "domain")
  BY <1>2, <1>3
<1>8. \A field \in {"role", "seniority", "years", "minAge", "maxAge",
                    "projects", "liked"} : g[field] = answer[field]
  BY <1>2, <1>3
<1> QED
  BY <1>1, <1>4, <1>5, <1>6, <1>7, <1>8 DEF IsGrounded

IsEnriched(intent, query, g) ==
    /\ DOMAIN intent = DOMAIN NoIntent
    /\ intent.cities = g.cities \cup query.cities
    /\ intent.skills = g.skills \cup IfWanted(query)
                          \cup IfSaid(query, "python", {Python})
    /\ intent.technologies \subseteq g.technologies
    /\ intent.companies = g.companies \cup IfSaid(query, "mts", {MTS})
    /\ intent.liked \subseteq g.liked
          \cup {<<"technology", MachineLearning>>, <<"technology", MLOps>>,
                <<"skill", MachineLearning>>}
    /\ intent.years \subseteq g.years
    /\ intent.minAge = IF query.older # {} THEN {n + 1 : n \in query.older}
                       ELSE IF query.from # {} THEN query.from ELSE g.minAge
    /\ intent.maxAge = IF query.younger # {} THEN {n - 1 : n \in query.younger}
                       ELSE IF query.upTo # {} THEN query.upTo ELSE g.maxAge
    /\ \A field \in {"role", "seniority", "country", "domains", "projects"} :
          intent[field] = g[field]

LEMMA EnrichedIs ==
    ASSUME NEW query, NEW g, DOMAIN g = DOMAIN NoIntent,
           NEW intent, intent = Enriched(query, g)
    PROVE  IsEnriched(intent, query, g)
<1>1. DOMAIN g = {"role", "seniority", "country", "cities", "years", "minAge",
                  "maxAge", "skills", "technologies", "domains", "companies",
                  "projects", "liked"}
  BY DEF NoIntent
<1>2. DOMAIN intent = DOMAIN NoIntent
  BY DEF Enriched
<1>3. /\ intent.cities = g.cities \cup query.cities
      /\ intent.skills = g.skills \cup IfWanted(query)
                            \cup IfSaid(query, "python", {Python})
  BY <1>1 DEF Enriched, IfSaid, IfWanted
<1>4. /\ intent.technologies \subseteq g.technologies
      /\ intent.companies = g.companies \cup IfSaid(query, "mts", {MTS})
      /\ intent.years \subseteq g.years
  BY <1>1 DEF Enriched, IfSaid
<1>5. intent.liked \subseteq g.liked
         \cup {<<"technology", MachineLearning>>, <<"technology", MLOps>>,
               <<"skill", MachineLearning>>}
  BY <1>1 DEF Enriched
<1>6. /\ intent.minAge = IF query.older # {} THEN {n + 1 : n \in query.older}
                         ELSE IF query.from # {} THEN query.from ELSE g.minAge
      /\ intent.maxAge = IF query.younger # {} THEN {n - 1 : n \in query.younger}
                         ELSE IF query.upTo # {} THEN query.upTo ELSE g.maxAge
  BY <1>1 DEF Enriched
<1>7. \A field \in {"role", "seniority", "country", "domains", "projects"} :
         intent[field] = g[field]
  BY <1>1 DEF Enriched
<1> QED
  BY <1>2, <1>3, <1>4, <1>5, <1>6, <1>7 DEF IsEnriched

\* Numbers plus or minus one are as many.
LEMMA ShiftIsFinite ==
    ASSUME NEW S \in SUBSET Nat, IsFiniteSet(S)
    PROVE  IsFiniteSet({n + 1 : n \in S}) /\ IsFiniteSet({n - 1 : n \in S})
<1>1. [n \in S |-> n + 1] \in Surjection(S, {n + 1 : n \in S})
  BY DEF Surjection
<1>2. [n \in S |-> n - 1] \in Surjection(S, {n - 1 : n \in S})
  BY DEF Surjection
<1> QED
  BY <1>1, <1>2, FS_Surjection

\* A vocabulary has names of the database.
LEMMA VocabularyIsStored ==
    ASSUME NEW vocabulary \in Vocabularies
    PROVE  \A kind \in Kinds : vocabulary[kind] \subseteq Corpus[kind]
<1>1. \A kind \in Kinds : vocabulary[kind] \in Listed(kind)
  BY DEF Vocabularies, Kinds
<1> QED
  BY <1>1 DEF Listed

LEMMA ParsedIsRankable ==
    ASSUME NEW query \in Queries, NEW answer \in Answers, Validates(answer),
           NEW vocabulary \in Vocabularies, NEW intent \in Parsed(query, answer, vocabulary)
    PROVE  Rankable(intent)
<1>1. PICK g \in Grounded(query, answer, vocabulary) : intent = Enriched(query, g)
  BY DEF Parsed
<1>2. /\ IsGrounded(g, query, answer, vocabulary) /\ DOMAIN g = DOMAIN NoIntent
      /\ IsEnriched(intent, query, g) /\ DOMAIN intent = DOMAIN NoIntent
  <2>1. IsGrounded(g, query, answer, vocabulary)
    BY GroundedIs
  <2>2. DOMAIN g = DOMAIN NoIntent
    BY <2>1 DEF IsGrounded
  <2>3. IsEnriched(intent, query, g)
    BY <1>1, <2>2, EnrichedIs
  <2> QED
    BY <2>1, <2>2, <2>3 DEF IsEnriched
<1>3. IsQuery(query) /\ \A field \in DOMAIN NoIntent : IsFiniteSet(answer[field])
  BY FinderTypes DEF IsIntent
<1>4. IsFiniteSet(g.cities) /\ IsFiniteSet(g.companies)
  <2>1. \A kind \in Kinds : vocabulary[kind] \subseteq Corpus[kind]
    BY VocabularyIsStored
  <2>2. g.cities \in SUBSET Corpus["city"] /\ g.companies \in SUBSET Corpus["company"]
    BY <1>2, <2>1 DEF IsGrounded, Detected, Kinds
  <2>3. IsFiniteSet(Corpus["city"]) /\ IsFiniteSet(Corpus["company"])
    BY VocabularyTypes DEF Kinds
  <2> QED
    BY <2>2, <2>3, FS_Subset
<1>5. IsFiniteSet(g.skills) /\ IsFiniteSet(g.technologies) /\ IsFiniteSet(g.domains)
  <2>1. /\ g.skills \in SUBSET answer.skills /\ g.technologies \in SUBSET answer.technologies
        /\ g.domains \in SUBSET answer.domains
    BY <1>2 DEF IsGrounded, Required
  <2>2. IsFiniteSet(answer.skills) /\ IsFiniteSet(answer.technologies)
        /\ IsFiniteSet(answer.domains)
    BY <1>3 DEF NoIntent
  <2> QED
    BY <2>1, <2>2, FS_Subset
<1>6. \A field \in {"role", "seniority", "country", "years", "minAge", "maxAge",
                    "projects", "liked"} : IsFiniteSet(g[field])
  <2>1. \A field \in {"role", "seniority", "years", "minAge", "maxAge", "projects",
                      "liked"} : g[field] = answer[field] /\ field \in DOMAIN NoIntent
    BY <1>2 DEF IsGrounded, NoIntent
  <2>2. IsFiniteSet(g.country)
    BY <1>2 DEF IsGrounded
  <2> QED
    BY <1>3, <2>1, <2>2
<1>7. /\ \A term, x : IsFiniteSet(IfSaid(query, term, {x}))
      /\ IsFiniteSet(IfWanted(query))
  BY FS_EmptySet, FS_Singleton DEF IfSaid, IfWanted
<1>8. IsFiniteSet(intent.cities) /\ IsFiniteSet(intent.companies)
  <2>1. intent.cities = g.cities \cup query.cities
        /\ intent.companies = g.companies \cup IfSaid(query, "mts", {MTS})
    BY <1>2 DEF IsEnriched
  <2>2. IsFiniteSet(query.cities)
    BY <1>3 DEF IsQuery
  <2> QED
    BY <1>4, <1>7, <2>1, <2>2, FS_Union
<1>9. IsFiniteSet(intent.skills) /\ IsFiniteSet(intent.technologies)
      /\ IsFiniteSet(intent.years) /\ IsFiniteSet(intent.liked)
  <2>1. /\ intent.skills = (g.skills \cup IfWanted(query))
                               \cup IfSaid(query, "python", {Python})
        /\ intent.technologies \in SUBSET g.technologies
        /\ intent.years \in SUBSET g.years
        /\ intent.liked \in SUBSET (g.liked
              \cup {<<"technology", MachineLearning>>, <<"technology", MLOps>>,
                    <<"skill", MachineLearning>>})
    BY <1>2 DEF IsEnriched
  <2>2. IsFiniteSet(intent.skills)
    <3>1. IsFiniteSet(g.skills \cup IfWanted(query))
      BY <1>5, <1>7, FS_Union
    <3>2. IsFiniteSet(IfSaid(query, "python", {Python}))
      BY <1>7
    <3>3. IsFiniteSet((g.skills \cup IfWanted(query))
                         \cup IfSaid(query, "python", {Python}))
      BY <3>1, <3>2, FS_Union
    <3> QED
      BY <2>1, <3>3
  <2>3. IsFiniteSet(({<<"technology", MachineLearning>>} \cup {<<"technology", MLOps>>})
                       \cup {<<"skill", MachineLearning>>})
    BY FS_Singleton, FS_Union
  <2>4. ({<<"technology", MachineLearning>>} \cup {<<"technology", MLOps>>})
           \cup {<<"skill", MachineLearning>>}
        = {<<"technology", MachineLearning>>, <<"technology", MLOps>>,
           <<"skill", MachineLearning>>}
    OBVIOUS
  <2>5. IsFiniteSet(g.liked
           \cup {<<"technology", MachineLearning>>, <<"technology", MLOps>>,
                 <<"skill", MachineLearning>>})
    BY <1>6, <2>3, <2>4, FS_Union
  <2> QED
    BY <1>5, <1>6, <2>1, <2>2, <2>5, FS_Subset
<1>10. IsFiniteSet(intent.minAge) /\ IsFiniteSet(intent.maxAge)
  <2>1. /\ query.older \in SUBSET Nat /\ IsFiniteSet(query.older)
        /\ query.younger \in SUBSET Nat /\ IsFiniteSet(query.younger)
        /\ IsFiniteSet(query.from) /\ IsFiniteSet(query.upTo)
    BY <1>3 DEF IsQuery
  <2>2. IsFiniteSet({n + 1 : n \in query.older}) /\ IsFiniteSet({n - 1 : n \in query.younger})
    BY <2>1, ShiftIsFinite
  <2>3. /\ intent.minAge \in {{n + 1 : n \in query.older}, query.from, g.minAge}
        /\ intent.maxAge \in {{n - 1 : n \in query.younger}, query.upTo, g.maxAge}
    BY <1>2 DEF IsEnriched
  <2> QED
    BY <1>6, <2>1, <2>2, <2>3
<1>11. \A field \in {"role", "seniority", "country", "domains", "projects"} :
          IsFiniteSet(intent[field])
  <2>1. \A field \in {"role", "seniority", "country", "domains", "projects"} :
           intent[field] = g[field]
    BY <1>2 DEF IsEnriched
  <2> QED
    BY <1>5, <1>6, <2>1
<1>12. \A field \in DOMAIN intent : IsFiniteSet(intent[field])
  <2>1. DOMAIN intent = {"role", "seniority", "country", "cities", "years", "minAge",
                         "maxAge", "skills", "technologies", "domains", "companies",
                         "projects", "liked"}
    BY <1>2 DEF NoIntent
  <2> QED
    BY <1>8, <1>9, <1>10, <1>11, <2>1
<1>13. intent.years \subseteq answer.years
  <2>1. intent.years \subseteq g.years
    BY <1>2 DEF IsEnriched
  <2>2. g.years = answer.years
    BY <1>2 DEF IsGrounded
  <2> QED
    BY <2>1, <2>2
<1>14. \E n \in intent.years \cup {0} : intent.years \subseteq {n}
  <2>1. PICK n \in answer.years \cup {0} : answer.years \subseteq {n}
    BY FinderTypes DEF IsIntent
  <2> QED
    BY <1>13, <2>1
<1> QED
  BY <1>2, <1>12, <1>13, <1>14 DEF Rankable, IsIntent, Validates

-----------------------------------------------------------------------------
(* What a search may do.                                                    *)

\* From the parser on, the intent of a search is the one of its query.
Understood(c, query) ==
    \/ c.phase \in {"parse", "failed"} /\ c.intent = NoIntent
    \/ /\ c.phase \notin {"idle", "parse"}
       /\ \E answer \in Answers, vocabulary \in Vocabularies :
             Validates(answer) /\ c.intent \in Parsed(query, answer, vocabulary)

FinderFits(c, queries) ==
    /\ CallFits(c)
    /\ \A query, other \in queries : query = other
    /\ queries \subseteq Queries /\ \A query \in queries : Understood(c, query)

\* A search that has not begun.
LEMMA CalledFits ==
    ASSUME NEW phase \in Unfiltered, NEW intent, Rankable(intent), NEW limit \in Nat
    PROVE  CallFits(Called(phase, intent, limit))
<1> DEFINE c == Called(phase, intent, limit)
<1>1. /\ c.phase = phase /\ c.intent = intent /\ c.limit = limit /\ c.structured = {}
      /\ c.near = Nothing /\ c.graph = {} /\ c.paths = <<>> /\ c.evidence = Nothing
      /\ c.ranked = <<>> /\ c.result = <<>> /\ DOMAIN c = Fields
  BY DEF Called, Fields
<1> HIDE DEF c
<1>2. IsFresh(c)
  BY <1>1 DEF IsFresh
<1>3. \A p \in People : IsScored(c.near[p]) /\ IsScored(c.evidence[p])
  BY <1>1 DEF Nothing, IsScored
<1>4. IsScored(Range(c.paths))
  BY <1>1 DEF IsScored, Range
<1>5. c.phase \notin {"vector", "graph", "evidence", "paths", "rank", "rerank", "done"}
  BY <1>1 DEF Unfiltered
<1> QED
  BY <1>1, <1>2, <1>3, <1>4, <1>5 DEF CallFits, Gathered, c

LEMMA ParseFits ==
    ASSUME NEW c, NEW query \in Queries, FinderFits(c, {query}), c.phase = "parse",
           NEW answer \in Answers, NEW vocabulary \in Vocabularies, Validates(answer),
           NEW intent \in Parsed(query, answer, vocabulary),
           NEW d, d = [[c EXCEPT !.intent = intent] EXCEPT !.phase = "filter"]
    PROVE  FinderFits(d, {query})
<1>1. /\ DOMAIN c = Fields /\ c.limit \in Nat /\ IsFresh(c) /\ c.result = <<>>
      /\ c.structured \subseteq Satisfying(c.intent) /\ c.graph \subseteq People
      /\ \A p \in People : IsScored(c.near[p]) /\ IsScored(c.evidence[p])
      /\ IsScored(Range(c.paths))
  BY DEF FinderFits, CallFits, Unfiltered
<1>2. /\ DOMAIN d = Fields /\ d.phase = "filter" /\ d.intent = intent
      /\ d.limit = c.limit /\ d.structured = c.structured /\ d.near = c.near
      /\ d.graph = c.graph /\ d.paths = c.paths /\ d.evidence = c.evidence
      /\ d.ranked = c.ranked /\ d.result = c.result
  BY <1>1 DEF Fields
<1>3. CallFits(d)
  <2>1. Rankable(intent)
    BY ParsedIsRankable
  <2>2. IsFresh(d) /\ d.structured \subseteq Satisfying(intent)
    BY <1>1, <1>2 DEF IsFresh
  <2> QED
    BY <1>1, <1>2, <2>1, <2>2 DEF CallFits, IsFresh, Unfiltered, Gathered
<1>4. d.phase = "filter" /\ d.intent = intent
  BY <1>2
<1>5. Understood(d, query)
  BY <1>4 DEF Understood
<1> QED
  BY <1>3, <1>5 DEF FinderFits

LEMMA FilterFits ==
    ASSUME NEW c, CallFits(c), c.phase = "filter",
           NEW ids, ids = FirstOf(Satisfying(c.intent), PoolSize),
           NEW phase, phase = IF Hard(c.intent) /\ ids = {} THEN "done" ELSE "vector",
           NEW d, d = [[c EXCEPT !.structured = ids] EXCEPT !.phase = phase]
    PROVE  CallFits(d)
<1>0. IsFresh(c) /\ DOMAIN c = Fields /\ c.result = <<>>
  BY DEF CallFits, Unfiltered
<1>1. /\ DOMAIN d = Fields /\ d.phase = phase /\ d.structured = ids
      /\ d.intent = c.intent /\ d.limit = c.limit /\ d.near = Nothing /\ d.graph = {}
      /\ d.paths = <<>> /\ d.evidence = Nothing /\ d.ranked = <<>> /\ d.result = <<>>
  BY <1>0 DEF IsFresh, Fields
<1>2. ids \subseteq Satisfying(c.intent)
  BY DEF FirstOf
<1>3. \A p \in People : IsScored(d.near[p]) /\ IsScored(d.evidence[p])
  BY <1>1 DEF Nothing, IsScored
<1>4. IsScored(Range(d.paths))
  BY <1>1 DEF IsScored, Range
<1>5. Rankable(d.intent) /\ d.limit \in Nat
  BY <1>1 DEF CallFits
<1>6. d.phase = "vector" => (Hard(d.intent) => d.structured # {})
  BY <1>1
<1>7. CASE phase = "done"
  <2>1. d.structured = {} /\ Hard(d.intent)
    BY <1>1, <1>7
  <2>2. {p \in People : d.near[p] # {}} = {}
    BY <1>1 DEF Nothing
  <2>3. PoolOf(d) = {}
    BY <1>1, <2>1, <2>2 DEF PoolOf, CandidatePool
  <2>4. Good(d) = {} /\ MatchesOf(d) = {}
    BY <2>3 DEF Good, MatchesOf
  <2>5. FirstN(Sorted({}), d.limit) = <<>>
    <3>1. AreMatches({})
      BY FS_EmptySet DEF AreMatches
    <3>2. Sorted({}) \in SetToSeqs({})
      BY <3>1, SortedIs
    <3>3. Sorted({}) = <<>>
      <4>1. Cardinality({}) = 0
        BY FS_EmptySet
      <4> QED
        BY <3>2, <4>1 DEF SetToSeqs
    <3>4. Len(<<>>) = 0 /\ ~(d.limit < 0)
      BY <1>5
    <3>5. FirstN(<<>>, d.limit) = SubSeq(<<>>, 1, 0)
      BY <3>4 DEF FirstN
    <3>6. SubSeq(<<>>, 1, 0) = <<>>
      BY SubSeqEmpty
    <3> QED
      BY <3>3, <3>5, <3>6
  <2>6. d.phase = "done" /\ d.result = FirstN(Sorted(Good(d)), d.limit)
    BY <1>1, <1>7, <2>4, <2>5
  <2> QED
    BY <1>1, <1>2, <1>3, <1>4, <1>5, <2>6 DEF CallFits, Unfiltered, Gathered
<1>8. CASE phase = "vector"
  <2>1. d.phase = "vector"
    BY <1>1, <1>8
  <2> QED
    BY <1>1, <1>2, <1>3, <1>4, <1>5, <1>6, <2>1 DEF CallFits, Unfiltered, Gathered
<1> QED
  BY <1>7, <1>8

LEMMA VectorFits ==
    ASSUME NEW c, CallFits(c), c.phase = "vector",
           NEW near, \A p \in People : IsScored(near[p]),
           NEW phase, phase = IF UsesGraph(c.intent) THEN "graph" ELSE "evidence",
           NEW d, d = [[c EXCEPT !.near = near] EXCEPT !.phase = phase]
    PROVE  CallFits(d)
<1>1. /\ DOMAIN d = Fields /\ d.phase = phase /\ d.near = near
      /\ d.intent = c.intent /\ d.limit = c.limit /\ d.structured = c.structured
      /\ d.graph = c.graph /\ d.paths = c.paths /\ d.evidence = c.evidence
      /\ d.ranked = c.ranked /\ d.result = c.result
  BY DEF CallFits, Fields
<1>2. d.phase \in {"graph", "evidence"} /\ (d.phase = "evidence" => ~UsesGraph(d.intent))
  BY <1>1
<1>3. /\ c.limit \in Nat /\ Rankable(c.intent)
      /\ c.structured \subseteq Satisfying(c.intent) /\ c.graph \subseteq People
      /\ \A p \in People : IsScored(c.evidence[p])
      /\ IsScored(Range(c.paths))
      /\ c.structured = FirstOf(Satisfying(c.intent), PoolSize)
      /\ Hard(c.intent) => c.structured # {}
      /\ c.result = <<>>
  BY DEF CallFits
<1> QED
  BY <1>1, <1>2, <1>3 DEF CallFits, Unfiltered, Gathered

LEMMA GraphFits ==
    ASSUME NEW c, CallFits(c), c.phase = "graph",
           NEW ids, ids = FirstOf(Connected(c.intent), GraphLimit),
           NEW d, d = [[c EXCEPT !.graph = ids] EXCEPT !.phase = "evidence"]
    PROVE  CallFits(d)
<1>1. /\ DOMAIN d = Fields /\ d.phase = "evidence" /\ d.graph = ids
      /\ d.intent = c.intent /\ d.limit = c.limit /\ d.structured = c.structured
      /\ d.near = c.near /\ d.paths = c.paths /\ d.evidence = c.evidence
      /\ d.ranked = c.ranked /\ d.result = c.result
  BY DEF CallFits, Fields
<1>2. ids \subseteq People
  BY DEF FirstOf, Connected
<1>3. /\ c.limit \in Nat /\ Rankable(c.intent)
      /\ c.structured \subseteq Satisfying(c.intent)
      /\ \A p \in People : IsScored(c.near[p]) /\ IsScored(c.evidence[p])
      /\ IsScored(Range(c.paths))
      /\ c.structured = FirstOf(Satisfying(c.intent), PoolSize)
      /\ Hard(c.intent) => c.structured # {}
      /\ c.result = <<>>
  BY DEF CallFits
<1> QED
  BY <1>1, <1>2, <1>3 DEF CallFits, Unfiltered, Gathered

LEMMA EvidenceFits ==
    ASSUME NEW c, CallFits(c), c.phase \in {"evidence", "paths"},
           NEW paths, IsScored(Range(paths)),
           NEW evidence, \A p \in People : IsScored(evidence[p]),
           NEW phase \in {"paths", "rank"},
           NEW d, DOMAIN d = Fields, d.phase = phase, d.paths = paths, d.evidence = evidence,
           d.intent = c.intent, d.limit = c.limit, d.structured = c.structured,
           d.near = c.near, d.graph = c.graph, d.result = c.result
    PROVE  CallFits(d)
<1>1. /\ c.limit \in Nat /\ Rankable(c.intent)
      /\ c.structured \subseteq Satisfying(c.intent) /\ c.graph \subseteq People
      /\ \A p \in People : IsScored(c.near[p])
      /\ c.structured = FirstOf(Satisfying(c.intent), PoolSize)
      /\ Hard(c.intent) => c.structured # {}
      /\ UsesGraph(c.intent) => c.graph = FirstOf(Connected(c.intent), GraphLimit)
      /\ c.result = <<>>
  BY DEF CallFits, Gathered
<1>2. d.phase \in Gathered /\ d.phase \notin {"rerank", "done"} /\ d.phase \notin Unfiltered
  BY DEF Gathered, Unfiltered
<1> QED
  BY <1>1, <1>2 DEF CallFits

LEMMA RankFits ==
    ASSUME NEW c, CallFits(c), c.phase = "rank",
           NEW ranked, ranked = FirstN(Sorted(MatchesOf(c)), c.limit),
           NEW d, d = [[c EXCEPT !.ranked = ranked] EXCEPT !.phase = "rerank"]
    PROVE  CallFits(d)
<1>1. /\ DOMAIN d = Fields /\ d.phase = "rerank" /\ d.ranked = ranked
      /\ d.intent = c.intent /\ d.limit = c.limit /\ d.structured = c.structured
      /\ d.near = c.near /\ d.graph = c.graph /\ d.paths = c.paths
      /\ d.evidence = c.evidence /\ d.result = c.result
  BY DEF CallFits, Fields
<1>2. MatchesOf(d) = MatchesOf(c)
  BY <1>1 DEF MatchesOf, PoolOf
<1>3. /\ c.limit \in Nat /\ Rankable(c.intent)
      /\ c.structured \subseteq Satisfying(c.intent) /\ c.graph \subseteq People
      /\ \A p \in People : IsScored(c.near[p]) /\ IsScored(c.evidence[p])
      /\ IsScored(Range(c.paths))
      /\ c.structured = FirstOf(Satisfying(c.intent), PoolSize)
      /\ Hard(c.intent) => c.structured # {}
      /\ UsesGraph(c.intent) => c.graph = FirstOf(Connected(c.intent), GraphLimit)
      /\ c.result = <<>>
  BY DEF CallFits, Gathered
<1> QED
  BY <1>1, <1>2, <1>3 DEF CallFits, Unfiltered, Gathered

LEMMA RerankFits ==
    ASSUME NEW c, CallFits(c), c.phase = "rerank", NEW answer \in Seq(Nat),
           NEW result, result = Visible(c.intent, Reranked(c.ranked, answer), c.limit),
           NEW d, d = [[c EXCEPT !.result = result] EXCEPT !.phase = "done"]
    PROVE  CallFits(d)
<1>1. /\ DOMAIN d = Fields /\ d.phase = "done" /\ d.result = result
      /\ d.intent = c.intent /\ d.limit = c.limit /\ d.structured = c.structured
      /\ d.near = c.near /\ d.graph = c.graph /\ d.paths = c.paths
      /\ d.evidence = c.evidence /\ d.ranked = c.ranked
  BY DEF CallFits, Fields
<1>2. Good(d) = Good(c) /\ MatchesOf(d) = MatchesOf(c)
  BY <1>1 DEF Good, MatchesOf, PoolOf
<1>3. /\ c.limit \in Nat /\ Rankable(c.intent)
      /\ c.structured \subseteq Satisfying(c.intent) /\ c.graph \subseteq People
      /\ \A p \in People : IsScored(c.near[p]) /\ IsScored(c.evidence[p])
      /\ IsScored(Range(c.paths))
      /\ Hard(c.intent) /\ c.structured = {} => c.near = Nothing /\ c.graph = {}
      /\ c.ranked = FirstN(Sorted(MatchesOf(c)), c.limit)
  BY DEF CallFits
<1>4. result = FirstN(Sorted(Good(c)), c.limit)
  <2>1. AreMatches(MatchesOf(c))
    BY PoolFits
  <2> QED
    BY <1>3, <2>1, RerankerIsUndone DEF Good
<1>5. d.phase \notin Unfiltered /\ d.phase \notin {"vector", "graph"} \cup Gathered
  BY <1>1 DEF Unfiltered, Gathered
<1>6. d.phase \notin Gathered /\ d.phase # "rerank"
  BY <1>1 DEF Gathered
<1> QED
  BY <1>1, <1>2, <1>3, <1>4, <1>5, <1>6 DEF CallFits

LEMMA RaiseFits ==
    ASSUME NEW c, CallFits(c), c.phase \notin {"idle", "done", "failed"},
           NEW d, d = [c EXCEPT !.phase = "failed"]
    PROVE  CallFits(d)
<1>1. /\ DOMAIN d = Fields /\ d.phase = "failed" /\ d.result = c.result
      /\ d.intent = c.intent /\ d.limit = c.limit /\ d.structured = c.structured
      /\ d.near = c.near /\ d.graph = c.graph /\ d.paths = c.paths
      /\ d.evidence = c.evidence /\ d.ranked = c.ranked
  BY DEF CallFits, Fields
<1>2. /\ c.limit \in Nat /\ Rankable(c.intent)
      /\ c.structured \subseteq Satisfying(c.intent) /\ c.graph \subseteq People
      /\ \A p \in People : IsScored(c.near[p]) /\ IsScored(c.evidence[p])
      /\ IsScored(Range(c.paths))
      /\ Hard(c.intent) /\ c.structured = {} => c.near = Nothing /\ c.graph = {}
      /\ c.result = <<>>
  BY DEF CallFits
<1>3. d.phase \notin Unfiltered /\ d.phase \notin {"vector", "graph"} \cup Gathered
  BY <1>1 DEF Unfiltered, Gathered
<1>4. d.phase \notin Gathered /\ d.phase \notin {"rerank", "done"}
  BY <1>1 DEF Gathered
<1> QED
  BY <1>1, <1>2, <1>3, <1>4 DEF CallFits

LEMMA StaysUnderstood ==
    ASSUME NEW c, NEW query, Understood(c, query), c.phase # "idle",
           NEW d, d.intent = c.intent,
           d.phase = "failed" \/ (c.phase # "parse" /\ d.phase \notin {"idle", "parse"})
    PROVE  \/ Understood(d, query)
           \/ c.phase = "failed"
  BY DEF Understood

LEMMA FinderKeeps ==
    ASSUME FinderFits(call, asked), FinderStep
    PROVE  /\ FinderFits(call', asked') /\ asked' = asked
           /\ call.phase \notin {"idle", "done", "failed"}
           /\ call'.phase \notin {"idle", "parse"}
           /\ call.phase # "parse" => call'.intent = call.intent
<1>0. PICK c, d, queries : c = call /\ d = call' /\ queries = asked
  OBVIOUS
<1>1. asked' = queries
  BY <1>0 DEF FinderStep, Parse, FilterIds, VectorSearch, GraphSearchIds, ReadPool,
              ReadPaths, RankPool, Rerank, CallRaises, Goto
<1>2. FinderFits(c, queries)
  BY <1>0
<1>3. CallFits(c) /\ DOMAIN c = Fields
  BY <1>2 DEF FinderFits, CallFits
<1>4. ASSUME CallFits(d), d.intent = c.intent, c.phase \notin {"idle", "failed"},
             d.phase = "failed" \/ (c.phase # "parse" /\ d.phase \notin {"idle", "parse"})
      PROVE  FinderFits(d, queries) /\ d.phase \notin {"idle", "parse"}
  <2>1. \A query \in queries : Understood(c, query)
    BY <1>2 DEF FinderFits
  <2>2. \A query \in queries : Understood(d, query)
    BY <1>4, <2>1, StaysUnderstood
  <2> QED
    BY <1>2, <1>4, <2>2 DEF FinderFits
<1>5. CASE CallRaises
  <2>1. c.phase \notin {"idle", "done", "failed"} /\ d = [c EXCEPT !.phase = "failed"]
    BY <1>0, <1>5 DEF CallRaises, Goto
  <2>2. d.phase = "failed" /\ d.intent = c.intent
    BY <1>3, <2>1 DEF Fields
  <2>3. CallFits(d)
    BY <1>3, <2>1, RaiseFits
  <2> QED
    BY <1>0, <1>1, <1>4, <2>1, <2>2, <2>3
<1>6. CASE Parse
  <2>1. PICK query \in queries, answer \in Answers, vocabulary \in Vocabularies :
          IF Validates(answer)
          THEN \E intent \in Parsed(query, answer, vocabulary) :
                  d = [[c EXCEPT !.intent = intent] EXCEPT !.phase = "filter"]
          ELSE d = [c EXCEPT !.phase = "failed"]
    BY <1>0, <1>6 DEF Parse, Goto
  <2>2. c.phase = "parse"
    BY <1>0, <1>6 DEF Parse
  <2>3. CASE ~Validates(answer)
    <3>1. d = [c EXCEPT !.phase = "failed"]
      BY <2>1, <2>3
    <3>2. d.phase = "failed" /\ d.intent = c.intent
      BY <1>3, <3>1 DEF Fields
    <3>3. CallFits(d)
      BY <1>3, <2>2, <3>1, RaiseFits
    <3> QED
      BY <1>0, <1>1, <1>4, <2>2, <3>2, <3>3
  <2>4. CASE Validates(answer)
    <3>1. PICK intent \in Parsed(query, answer, vocabulary) :
             d = [[c EXCEPT !.intent = intent] EXCEPT !.phase = "filter"]
      BY <2>1, <2>4
    <3>2. query \in Queries /\ FinderFits(c, {query})
      BY <1>2 DEF FinderFits
    <3>3. FinderFits(d, {query})
      BY <2>2, <2>4, <3>1, <3>2, ParseFits
    <3>4. queries = {query}
      BY <1>2 DEF FinderFits
    <3>5. d.phase = "filter"
      BY <1>3, <3>1 DEF Fields
    <3> QED
      BY <1>0, <1>1, <2>2, <3>3, <3>4, <3>5
  <2> QED
    BY <2>3, <2>4
<1>7. CASE FilterIds
  <2>1. PICK ids, phase :
          /\ ids = FirstOf(Satisfying(c.intent), PoolSize)
          /\ phase = IF Hard(c.intent) /\ ids = {} THEN "done" ELSE "vector"
          /\ d = [[c EXCEPT !.structured = ids] EXCEPT !.phase = phase]
    BY <1>0, <1>7 DEF FilterIds, Goto, Satisfying
  <2>2. c.phase = "filter"
    BY <1>0, <1>7 DEF FilterIds
  <2>3. CallFits(d)
    BY <1>3, <2>1, <2>2, FilterFits
  <2>4. d.intent = c.intent /\ d.phase = phase
    BY <1>3, <2>1 DEF Fields
  <2> QED
    BY <1>0, <1>1, <1>4, <2>1, <2>2, <2>3, <2>4
<1>8. CASE VectorSearch
  <2>1. PICK found, score, near, phase :
          /\ score \in [found -> Similarities]
          /\ near = [p \in People |-> {ChunkEvidence("vector", x, score[x]) :
                                       x \in found \cap ChunksOf(p)}]
          /\ phase = IF UsesGraph(c.intent) THEN "graph" ELSE "evidence"
          /\ d = [[c EXCEPT !.near = near] EXCEPT !.phase = phase]
    BY <1>0, <1>8 DEF VectorSearch, Goto
  <2>2. c.phase = "vector"
    BY <1>0, <1>8 DEF VectorSearch
  <2>3. \A p \in People : IsScored(near[p])
    BY <2>1, FinderTypes DEF IsScored, ChunkEvidence, Evidence
  <2>4. CallFits(d)
    BY <1>3, <2>1, <2>2, <2>3, VectorFits
  <2>5. d.intent = c.intent /\ d.phase = phase
    BY <1>3, <2>1 DEF Fields
  <2> QED
    BY <1>0, <1>1, <1>4, <2>1, <2>2, <2>4, <2>5
<1>9. CASE GraphSearchIds
  <2>1. PICK ids :
          /\ ids = FirstOf(Connected(c.intent), GraphLimit)
          /\ d = [[c EXCEPT !.graph = ids] EXCEPT !.phase = "evidence"]
    BY <1>0, <1>9 DEF GraphSearchIds, Goto, Connected
  <2>2. c.phase = "graph"
    BY <1>0, <1>9 DEF GraphSearchIds
  <2>3. CallFits(d)
    BY <1>3, <2>1, <2>2, GraphFits
  <2>4. d.intent = c.intent /\ d.phase = "evidence"
    BY <1>3, <2>1 DEF Fields
  <2> QED
    BY <1>0, <1>1, <1>4, <2>2, <2>3, <2>4
<1>10. CASE ReadPool
  <2>1. PICK evidence, phase :
          /\ phase \in {"paths", "rank"}
          /\ evidence = [p \in People |->
                IF p \in PoolOf(c) THEN FirstChunks(p) \cup c.near[p] ELSE {}]
          /\ d = [[c EXCEPT !.evidence = evidence] EXCEPT !.phase = phase]
    BY <1>0, <1>10 DEF ReadPool, Goto, Pool, PoolOf
  <2>2. c.phase = "evidence"
    BY <1>0, <1>10 DEF ReadPool
  <2>3. \A p \in People : IsScored(evidence[p])
    <3>1. \A p \in People : IsScored(c.near[p])
      BY <1>3 DEF CallFits
    <3>2. Unit \in 0..Unit
      BY RankingTypes
    <3> QED
      BY <2>1, <3>1, <3>2 DEF IsScored, FirstChunks, ChunkEvidence, Evidence
  <2>4. /\ DOMAIN d = Fields /\ d.phase = phase /\ d.paths = c.paths
        /\ d.evidence = evidence /\ d.intent = c.intent /\ d.limit = c.limit
        /\ d.structured = c.structured /\ d.near = c.near /\ d.graph = c.graph
        /\ d.result = c.result
    BY <1>3, <2>1 DEF Fields
  <2>5. IsScored(Range(c.paths))
    BY <1>3 DEF CallFits
  <2>6. CallFits(d)
    BY <1>3, <2>1, <2>2, <2>3, <2>4, <2>5, EvidenceFits
  <2> QED
    BY <1>0, <1>1, <1>4, <2>1, <2>2, <2>4, <2>6
<1>11. CASE ReadPaths
  <2> DEFINE among == {path \in Paths : path.person \in Pool}
  <2>1. PICK chosen \in kSubset(Min({GraphLimit, Cardinality(among)}), among) :
            \E paths \in SetToSeqs(Relevant(call.intent, chosen)) :
               Goto("rank", [call EXCEPT !.paths = paths,
                               !.evidence = [p \in People |->
                                               @[p] \cup PathEvidence(p, paths)]])
    BY <1>11 DEF ReadPaths
  <2>2. PICK paths \in SetToSeqs(Relevant(call.intent, chosen)) :
            Goto("rank", [call EXCEPT !.paths = paths,
                            !.evidence = [p \in People |->
                                            @[p] \cup PathEvidence(p, paths)]])
    BY <2>1
  <2>3. /\ paths \in SetToSeqs(Relevant(c.intent, chosen))
        /\ d = [[c EXCEPT !.paths = paths,
                   !.evidence = [p \in People |-> @[p] \cup PathEvidence(p, paths)]]
                 EXCEPT !.phase = "rank"]
    BY <1>0, <2>2 DEF Goto
  <2>4. chosen \in SUBSET Paths
    BY <2>1 DEF kSubset
  <2>5. PICK evidence :
           evidence = [p \in People |-> c.evidence[p] \cup PathEvidence(p, paths)]
    OBVIOUS
  <2>6. d = [[c EXCEPT !.paths = paths, !.evidence = evidence] EXCEPT !.phase = "rank"]
    BY <1>3, <2>3, <2>5 DEF Fields
  <2>7. c.phase = "paths"
    BY <1>0, <1>11 DEF ReadPaths
  <2>8. \A i \in DOMAIN paths : paths[i].score \in 0..Unit
    <3>1. \A i \in DOMAIN paths : paths[i] \in Paths
      BY <2>3, <2>4 DEF SetToSeqs, Relevant
    <3> QED
      BY <3>1, FinderTypes
  <2>9. \A p \in People : IsScored(evidence[p])
    <3>1. \A p \in People : IsScored(c.evidence[p])
      BY <1>3 DEF CallFits
    <3>2. \A p \in People : IsScored(PathEvidence(p, paths))
      BY <2>8 DEF IsScored, PathEvidence, Evidence
    <3> QED
      BY <2>5, <3>1, <3>2 DEF IsScored
  <2>10. /\ DOMAIN d = Fields /\ d.phase = "rank" /\ d.paths = paths
        /\ d.evidence = evidence /\ d.intent = c.intent /\ d.limit = c.limit
        /\ d.structured = c.structured /\ d.near = c.near /\ d.graph = c.graph
        /\ d.result = c.result
    BY <1>3, <2>6 DEF Fields
  <2>11. IsScored(Range(paths))
    BY <2>8 DEF IsScored, Range
  <2>12. CallFits(d)
    BY <1>3, <2>7, <2>9, <2>10, <2>11, EvidenceFits
  <2> QED
    BY <1>0, <1>1, <1>4, <2>7, <2>10, <2>12
<1>12. CASE RankPool
  <2>1. PICK ranked :
          /\ ranked = FirstN(Sorted(MatchesOf(c)), c.limit)
          /\ d = [[c EXCEPT !.ranked = ranked] EXCEPT !.phase = "rerank"]
    <3>1. d = [[c EXCEPT !.ranked = Ranked(Pool, c.intent, c.evidence, c.paths, c.limit)]
                 EXCEPT !.phase = "rerank"]
      BY <1>0, <1>12 DEF RankPool, Goto
    <3>2. Ranked(Pool, c.intent, c.evidence, c.paths, c.limit)
             = FirstN(Sorted(MatchesOf(c)), c.limit)
      BY <1>0 DEF Ranked, MatchesOf, Pool, PoolOf
    <3> QED
      BY <3>1, <3>2
  <2>2. c.phase = "rank"
    BY <1>0, <1>12 DEF RankPool
  <2>3. CallFits(d)
    BY <1>3, <2>1, <2>2, RankFits
  <2>4. d.intent = c.intent /\ d.phase = "rerank"
    BY <1>3, <2>1 DEF Fields
  <2> QED
    BY <1>0, <1>1, <1>4, <2>2, <2>3, <2>4
<1>13. CASE Rerank
  <2>1. PICK answer, result :
          /\ answer \in Seq(Nat)
          /\ result = Visible(c.intent, Reranked(c.ranked, answer), c.limit)
          /\ d = [[c EXCEPT !.result = result] EXCEPT !.phase = "done"]
    <3>1. PICK answer \in IF Len(FirstN(c.ranked, TopN)) < 2 THEN {<<>>} ELSE Rankings :
            d = [[c EXCEPT !.result = Visible(c.intent, Reranked(c.ranked, answer), c.limit)]
                    EXCEPT !.phase = "done"]
      BY <1>0, <1>13 DEF Rerank, Goto
    <3>2. answer \in Seq(Nat)
      <4>1. <<>> \in Seq(Nat) /\ Rankings \subseteq Seq(Nat)
        BY FinderTypes
      <4> QED
        BY <3>1, <4>1
    <3> QED
      BY <3>1, <3>2
  <2>2. c.phase = "rerank"
    BY <1>0, <1>13 DEF Rerank
  <2>3. CallFits(d)
    BY <1>3, <2>1, <2>2, RerankFits
  <2>4. d.intent = c.intent /\ d.phase = "done"
    BY <1>3, <2>1 DEF Fields
  <2> QED
    BY <1>0, <1>1, <1>4, <2>2, <2>3, <2>4
<1> QED
  BY <1>5, <1>6, <1>7, <1>8, <1>9, <1>10, <1>11, <1>12, <1>13 DEF FinderStep

-----------------------------------------------------------------------------
(* What follows for the properties.                                         *)

\* No alias of a company or domain gets into the intent of a free-form query.
LEMMA UngroundedOnly ==
    ASSUME FinderFits(call, asked), NEW n \in GraphTerms(call.intent),
           n \notin Ungrounded(call.intent)
    PROVE  Canonical[n] = n
<1>0. PICK c, queries : c = call /\ queries = asked
  OBVIOUS
<1>1. PICK query \in queries : n \in c.intent.domains \cup c.intent.companies
  BY <1>0 DEF Ungrounded, GraphTerms
<1>2. Understood(c, query)
  BY <1>0, <1>1 DEF FinderFits
<1>3. c.intent # NoIntent
  BY <1>1 DEF NoIntent
<1>4. PICK answer \in Answers, vocabulary \in Vocabularies :
         Validates(answer) /\ c.intent \in Parsed(query, answer, vocabulary)
  BY <1>2, <1>3 DEF Understood
<1>5. PICK g \in Grounded(query, answer, vocabulary) : c.intent = Enriched(query, g)
  BY <1>4 DEF Parsed
<1>6. IsGrounded(g, query, answer, vocabulary) /\ IsEnriched(c.intent, query, g)
  <2>1. IsGrounded(g, query, answer, vocabulary)
    BY GroundedIs
  <2> QED
    BY <1>5, <2>1, EnrichedIs DEF IsGrounded
<1>7. /\ vocabulary["domain"] \subseteq Corpus["domain"]
      /\ vocabulary["company"] \subseteq Corpus["company"]
  BY VocabularyIsStored DEF Kinds
<1>8. c.intent.domains \subseteq Corpus["domain"]
  BY <1>6, <1>7 DEF IsEnriched, IsGrounded, Required, Detected
<1>9. c.intent.companies \subseteq Corpus["company"] \cup {MTS}
  BY <1>6, <1>7 DEF IsEnriched, IsGrounded, Detected, IfSaid
<1> QED
  BY <1>1, <1>8, <1>9, StoredNamesAreCanonical

LEMMA ListsLose ==
    ASSUME FinderFits(call, asked)
    PROVE  OnlyFullListsLose
<1>0. PICK c : c = call
  OBVIOUS
<1> SUFFICES ASSUME c.phase \in Gathered, Hard(c.intent),
                    \A n \in Ungrounded(c.intent) : Canonical[n] = n
             PROVE  \/ Satisfying(c.intent) \subseteq PoolOf(c)
                    \/ Cardinality(c.structured) = PoolSize
                    \/ UsesGraph(c.intent) /\ Cardinality(c.graph) = GraphLimit
  BY <1>0 DEF OnlyFullListsLose, Gathered, Satisfying, Pool, PoolOf
<1>1. /\ c.structured = FirstOf(Satisfying(c.intent), PoolSize) /\ c.structured # {}
      /\ UsesGraph(c.intent) => c.graph = FirstOf(Connected(c.intent), GraphLimit)
  BY <1>0 DEF FinderFits, CallFits
<1>2. PoolOf(c) = IF UsesGraph(c.intent) THEN c.structured \cap c.graph ELSE c.structured
  BY <1>1 DEF PoolOf, CandidatePool
<1>3. PoolSize \in Nat /\ GraphLimit \in Nat
  BY FinderTypes
<1>4. c.structured = Satisfying(c.intent) \/ Cardinality(c.structured) = PoolSize
  <2>1. Satisfying(c.intent) \in SUBSET People
    BY DEF Satisfying
  <2> QED
    BY <1>1, <1>3, <2>1, FullOrAll
<1>5. UsesGraph(c.intent) =>
         c.graph = Connected(c.intent) \/ Cardinality(c.graph) = GraphLimit
  <2>1. Connected(c.intent) \in SUBSET People
    BY DEF Connected
  <2> QED
    BY <1>1, <1>3, <2>1, FullOrAll
<1>6. \A n \in GraphTerms(c.intent) : Canonical[n] = n
  BY <1>0, UngroundedOnly
<1> QED
  BY <1>2, <1>4, <1>5, <1>6, SatisfyingAreConnected

LEMMA RerankerChanges ==
    ASSUME CallFits(call)
    PROVE  RerankerChangesNothing
  BY DEF RerankerChangesNothing, CallFits, Good, MatchesOf, Pool, PoolOf

\* What an intent demands is said, or it is a number or project of the answer.
LEMMA OnlySaidIsDemanded ==
    ASSUME NEW query, NEW answer \in Answers, NEW vocabulary \in Vocabularies,
           NEW intent \in Parsed(query, answer, vocabulary)
    PROVE  /\ intent.country \subseteq Said(query, "country")
           /\ intent.cities \subseteq Said(query, "city") \cup query.cities
           /\ intent.companies \subseteq
                 Said(query, "company") \cup IfSaid(query, "mts", {MTS})
           /\ intent.skills \subseteq
                 Said(query, "skill") \cup IfWanted(query)
                     \cup IfSaid(query, "python", {Python})
           /\ intent.technologies \subseteq Said(query, "technology")
           /\ intent.domains \subseteq Said(query, "domain")
           /\ query.older \cup query.from # {} =>
                 intent.minAge \in {{n + 1 : n \in query.older}, query.from}
           /\ query.younger \cup query.upTo # {} =>
                 intent.maxAge \in {{n - 1 : n \in query.younger}, query.upTo}
           /\ DOMAIN intent = DOMAIN NoIntent
<1>1. PICK g \in Grounded(query, answer, vocabulary) : intent = Enriched(query, g)
  BY DEF Parsed
<1>2. IsGrounded(g, query, answer, vocabulary) /\ IsEnriched(intent, query, g)
  <2>1. IsGrounded(g, query, answer, vocabulary)
    BY GroundedIs
  <2> QED
    BY <1>1, <2>1, EnrichedIs DEF IsGrounded
<1>3. \A kind \in Kinds : vocabulary[kind] \subseteq Corpus[kind]
  BY VocabularyIsStored
<1>4. /\ g.country \subseteq Said(query, "country")
      /\ g.cities \subseteq Said(query, "city")
      /\ g.companies \subseteq Said(query, "company")
      /\ g.skills \subseteq Said(query, "skill")
      /\ g.technologies \subseteq Said(query, "technology")
      /\ g.domains \subseteq Said(query, "domain")
  BY <1>2, <1>3 DEF IsGrounded, Required, Detected, Kinds, Said
<1>5. /\ query.older \cup query.from # {} =>
            intent.minAge \in {{n + 1 : n \in query.older}, query.from}
      /\ query.younger \cup query.upTo # {} =>
            intent.maxAge \in {{n - 1 : n \in query.younger}, query.upTo}
      /\ DOMAIN intent = DOMAIN NoIntent
  BY <1>2 DEF IsEnriched
<1>6. /\ intent.country = g.country /\ intent.domains = g.domains
      /\ intent.cities = g.cities \cup query.cities
      /\ intent.companies = g.companies \cup IfSaid(query, "mts", {MTS})
      /\ intent.skills = g.skills \cup IfWanted(query)
                            \cup IfSaid(query, "python", {Python})
      /\ intent.technologies \subseteq g.technologies
  BY <1>2 DEF IsEnriched
<1> QED
  BY <1>4, <1>5, <1>6

\* An intent without what the model may have made up.
Purged(intent, query) ==
    [intent EXCEPT
       !.projects = {}, !.years = {},
       !.minAge = IF query.older \cup query.from = {} THEN {} ELSE @,
       !.maxAge = IF query.younger \cup query.upTo = {} THEN {} ELSE @]

LEMMA PurgedIs ==
    ASSUME NEW intent, NEW query, DOMAIN intent = DOMAIN NoIntent
    PROVE  LET i == Purged(intent, query)
           IN  /\ i.projects = {} /\ i.years = {}
               /\ i.minAge = IF query.older \cup query.from = {} THEN {}
                             ELSE intent.minAge
               /\ i.maxAge = IF query.younger \cup query.upTo = {} THEN {}
                             ELSE intent.maxAge
               /\ \A field \in {"country", "cities", "companies", "skills",
                                 "technologies", "domains"} :
                     i[field] = intent[field]
<1>1. DOMAIN intent = {"role", "seniority", "country", "cities", "years", "minAge",
                       "maxAge", "skills", "technologies", "domains", "companies",
                       "projects", "liked"}
  BY DEF NoIntent
<1> QED
  BY <1>1 DEF Purged

LEMMA CanonicalNamesGrow ==
    ASSUME NEW S, NEW T, S \subseteq T
    PROVE  CanonicalNames(S) \subseteq CanonicalNames(T)
  BY DEF CanonicalNames

LEMMA SaidIsEnough ==
    ASSUME NEW query \in Queries, NEW p \in People, HasAllThatIsSaid(p, query),
           NEW answer \in Answers, NEW vocabulary \in Vocabularies,
           NEW intent \in Parsed(query, answer, vocabulary)
    PROVE  Satisfies(p, Purged(intent, query))
<1> DEFINE x == Profile[p]
           i == Purged(intent, query)
           competent == Said(query, "skill") \cup Said(query, "technology")
                          \cup IfWanted(query) \cup IfSaid(query, "python", {Python})
<1>1. /\ i.projects = {} /\ i.years = {}
      /\ i.minAge = IF query.older \cup query.from = {} THEN {} ELSE intent.minAge
      /\ i.maxAge = IF query.younger \cup query.upTo = {} THEN {} ELSE intent.maxAge
      /\ i.country = intent.country /\ i.cities = intent.cities
      /\ i.companies = intent.companies /\ i.skills = intent.skills
      /\ i.technologies = intent.technologies /\ i.domains = intent.domains
  BY OnlySaidIsDemanded, PurgedIs
<1>2. /\ intent.country \subseteq Said(query, "country")
      /\ intent.cities \subseteq Said(query, "city") \cup query.cities
      /\ intent.companies \subseteq
            Said(query, "company") \cup IfSaid(query, "mts", {MTS})
      /\ intent.skills \cup intent.technologies \subseteq competent
      /\ intent.domains \subseteq Said(query, "domain")
  BY OnlySaidIsDemanded
<1>3. /\ Said(query, "country") \subseteq x.country
      /\ \A c \in Said(query, "city") \cup query.cities :
            x.city \cap Spellings[c] # {}
      /\ Said(query, "company") \cup IfSaid(query, "mts", {MTS})
            \subseteq x.companies
      /\ CanonicalNames(competent) \subseteq Competencies(p)
      /\ Said(query, "domain") \subseteq x.domains
  BY DEF HasAllThatIsSaid, IfSaid, IfWanted
<1>4. /\ \A n \in query.older : \E a \in x.age : a > n
      /\ \A n \in query.younger : \E a \in x.age : a < n
      /\ \A n \in query.from : \E a \in x.age : a >= n
      /\ \A n \in query.upTo : \E a \in x.age : a <= n
  BY DEF HasAllThatIsSaid
<1>5. /\ query.older \cup query.from # {} =>
            intent.minAge \in {{n + 1 : n \in query.older}, query.from}
      /\ query.younger \cup query.upTo # {} =>
            intent.maxAge \in {{n - 1 : n \in query.younger}, query.upTo}
  BY OnlySaidIsDemanded
<1>6. /\ query.older \cup query.from \cup query.younger \cup query.upTo \subseteq Nat
      /\ x.age \subseteq Nat
  BY FinderTypes, RankingTypes DEF IsQuery
<1>7. /\ CanonicalNames(i.companies) = i.companies
      /\ CanonicalNames(i.domains) = i.domains
  <2>1. /\ i.companies \subseteq Corpus["company"] \cup {MTS}
        /\ i.domains \subseteq Corpus["domain"]
    BY <1>1, <1>2 DEF IfSaid, Said
  <2>2. /\ \A n \in i.companies : Canonical[n] = n
        /\ \A n \in i.domains : Canonical[n] = n
    BY <2>1, StoredNamesAreCanonical
  <2> HIDE DEF i
  <2> QED
    BY <2>2, CanonicalAlready
<1>8. CanonicalNames(i.projects) = {}
  BY <1>1 DEF CanonicalNames
<1>9. CanonicalNames(i.skills \cup i.technologies) \subseteq Competencies(p)
  <2>1. CanonicalNames(i.skills \cup i.technologies) \subseteq CanonicalNames(competent)
    BY <1>1, <1>2, CanonicalNamesGrow
  <2> QED
    BY <1>3, <2>1
<1> HIDE DEF x, i, competent
<1>10. i.country \subseteq x.country
  BY <1>1, <1>2, <1>3
<1>11. i.cities # {} => x.city \cap UNION {Spellings[c] : c \in i.cities} # {}
  BY <1>1, <1>2, <1>3
<1>12. \A y \in i.minAge : \E z \in x.age : z >= y
  <2> SUFFICES ASSUME NEW y \in i.minAge PROVE \E z \in x.age : z >= y
    OBVIOUS
  <2>1. CASE y \in query.from
    BY <1>4, <2>1
  <2>2. ASSUME NEW n \in query.older, y = n + 1 PROVE \E z \in x.age : z >= y
    <3>1. PICK a \in x.age : a > n
      BY <1>4
    <3>2. a \in Nat /\ n \in Nat
      BY <1>6
    <3>3. a >= y
      BY <2>2, <3>1, <3>2
    <3> QED
      BY <3>3
  <2> QED
    BY <1>1, <1>5, <2>1, <2>2
<1>13. \A y \in i.maxAge : \E z \in x.age : z <= y
  <2> SUFFICES ASSUME NEW y \in i.maxAge PROVE \E z \in x.age : z <= y
    OBVIOUS
  <2>1. CASE y \in query.upTo
    BY <1>4, <2>1
  <2>2. ASSUME NEW n \in query.younger, y = n - 1 PROVE \E z \in x.age : z <= y
    <3>1. PICK a \in x.age : a < n
      BY <1>4
    <3>2. a \in Nat /\ n \in Nat
      BY <1>6
    <3>3. a <= y
      BY <2>2, <3>1, <3>2
    <3> QED
      BY <3>3
  <2> QED
    BY <1>1, <1>5, <2>1, <2>2
<1>14. \A y \in i.years : \E z \in x.years : z >= y
  BY <1>1
<1>15. i.domains \subseteq x.domains /\ i.companies \subseteq x.companies
  BY <1>1, <1>2, <1>3
<1>16. Satisfies(p, i)
  BY <1>7, <1>8, <1>9, <1>10, <1>11, <1>12, <1>13, <1>14, <1>15 DEF Satisfies, x
<1> QED
  BY <1>16 DEF i

LEMMA NoInventionExcludes ==
    ASSUME FinderFits(call, asked)
    PROVE  InventionsExcludeNobody
<1>0. PICK c, queries : c = call /\ queries = asked
  OBVIOUS
<1> SUFFICES ASSUME NEW query \in queries, NEW p \in People,
                    HasAllThatIsSaid(p, query)
             PROVE  Satisfies(p, Purged(c.intent, query))
  BY <1>0 DEF InventionsExcludeNobody, Purged
<1>1. Understood(c, query) /\ query \in Queries
  BY <1>0 DEF FinderFits
<1>2. CASE c.intent = NoIntent
  <2> DEFINE i == Purged(NoIntent, query)
  <2>1. ~Hard(i)
    BY DEF Purged, NoIntent, Hard
  <2> HIDE DEF i
  <2>2. Satisfies(p, i)
    BY <2>1, SoftIsSatisfied
  <2> QED
    BY <1>2, <2>2 DEF i
<1>3. ASSUME NEW answer \in Answers, NEW vocabulary \in Vocabularies,
             c.intent \in Parsed(query, answer, vocabulary)
      PROVE  Satisfies(p, Purged(c.intent, query))
  BY <1>1, <1>3, SaidIsEnough
<1> QED
  BY <1>1, <1>2, <1>3 DEF Understood

LEMMA LimitsHold ==
    ASSUME FinderFits(call, asked)
    PROVE  StatedLimitsHold
<1>0. PICK c, queries : c = call /\ queries = asked
  OBVIOUS
<1> SUFFICES ASSUME NEW query \in queries, NEW m \in Range(c.result)
             PROVE  LET x == Profile[m.person]
                        cities == query.cities \cup Said(query, "city")
                    IN  /\ \A n \in query.older : \E a \in x.age : a > n
                        /\ \A n \in query.younger : \E a \in x.age : a < n
                        /\ query.older = {} =>
                              \A n \in query.from : \E a \in x.age : a >= n
                        /\ query.younger = {} =>
                              \A n \in query.upTo : \E a \in x.age : a <= n
                        /\ "mts" \in query.terms => MTS \in x.companies
                        /\ query.cities # {} =>
                              \E city \in cities : x.city \cap Spellings[city] # {}
  BY <1>0 DEF StatedLimitsHold
<1>1. /\ CallFits(c) /\ Understood(c, query) /\ query \in Queries
  BY <1>0 DEF FinderFits
<1>2. m.person \in People /\ Satisfies(m.person, c.intent)
  BY <1>1, FoundSatisfy
<1>3. c.phase = "done"
  <2>1. c.result # <<>>
    BY DEF Range
  <2> QED
    BY <1>1, <2>1 DEF CallFits
<1>4. PICK answer \in Answers, vocabulary \in Vocabularies :
         Validates(answer) /\ c.intent \in Parsed(query, answer, vocabulary)
  BY <1>1, <1>3 DEF Understood
<1>5. PICK g \in Grounded(query, answer, vocabulary) : c.intent = Enriched(query, g)
  BY <1>4 DEF Parsed
<1>6. IsGrounded(g, query, answer, vocabulary) /\ IsEnriched(c.intent, query, g)
  <2>1. IsGrounded(g, query, answer, vocabulary)
    BY GroundedIs
  <2> QED
    BY <1>5, <2>1, EnrichedIs DEF IsGrounded
<1> DEFINE x == Profile[m.person]
<1>7. x.age \subseteq Nat
  BY <1>2, RankingTypes
<1>8. /\ \A y \in c.intent.minAge : \E z \in x.age : z >= y
      /\ \A y \in c.intent.maxAge : \E z \in x.age : z <= y
      /\ CanonicalNames(c.intent.companies) \subseteq x.companies
      /\ c.intent.cities # {} => x.city \cap UNION {Spellings[city] : city \in c.intent.cities} # {}
  BY <1>2 DEF Satisfies
<1>9. query.older \cup query.from \cup query.younger \cup query.upTo \subseteq Nat
  BY <1>1, FinderTypes DEF IsQuery
<1>10. /\ c.intent.minAge = IF query.older # {} THEN {n + 1 : n \in query.older}
                            ELSE IF query.from # {} THEN query.from ELSE g.minAge
       /\ c.intent.maxAge = IF query.younger # {} THEN {n - 1 : n \in query.younger}
                            ELSE IF query.upTo # {} THEN query.upTo ELSE g.maxAge
  BY <1>6 DEF IsEnriched
<1> HIDE DEF x
<1>11. ASSUME NEW n \in query.older PROVE \E a \in x.age : a > n
  <2>1. n + 1 \in c.intent.minAge
    BY <1>10
  <2>2. PICK a \in x.age : a >= n + 1
    BY <1>8, <2>1
  <2>3. a \in Nat /\ n \in Nat
    BY <1>7, <1>9
  <2>4. a > n
    BY <2>2, <2>3
  <2> QED
    BY <2>4
<1>12. ASSUME NEW n \in query.younger PROVE \E a \in x.age : a < n
  <2>1. n - 1 \in c.intent.maxAge
    BY <1>10
  <2>2. PICK a \in x.age : a <= n - 1
    BY <1>8, <2>1
  <2>3. a \in Nat /\ n \in Nat
    BY <1>7, <1>9
  <2>4. a < n
    BY <2>2, <2>3
  <2> QED
    BY <2>4
<1>13. query.older = {} => \A n \in query.from : \E a \in x.age : a >= n
  BY <1>8, <1>10
<1>14. query.younger = {} => \A n \in query.upTo : \E a \in x.age : a <= n
  BY <1>8, <1>10
<1>15. "mts" \in query.terms => MTS \in x.companies
  BY <1>6, <1>8, StoredNamesAreCanonical DEF IsEnriched, IfSaid, CanonicalNames
<1>16. ASSUME query.cities # {}
       PROVE  \E city \in query.cities \cup Said(query, "city") :
                 x.city \cap Spellings[city] # {}
  <2>1. c.intent.cities \subseteq query.cities \cup Said(query, "city")
    <3>1. vocabulary["city"] \subseteq Corpus["city"]
      BY DEF Vocabularies, Listed
    <3> QED
      BY <1>6, <3>1 DEF IsEnriched, IsGrounded, Detected, Said
  <2>2. c.intent.cities # {}
    BY <1>6, <1>16 DEF IsEnriched
  <2>3. PICK city \in c.intent.cities : x.city \cap Spellings[city] # {}
    BY <1>8, <2>2
  <2> QED
    BY <2>1, <2>3
<1> QED
  BY <1>11, <1>12, <1>13, <1>14, <1>15, <1>16 DEF x

-----------------------------------------------------------------------------
(* The slots.                                                               *)

\* The local variables of build.
Locals == {"phase", "request", "role", "slot", "words", "assigned", "unfilled",
           "found"}

\* The turns that build has done.
Past(t, r, s) == r < t.role \/ (r = t.role /\ t.phase = "slots" /\ s < t.slot)

HoldersOf(t, r, s) == {a \in t.assigned : a.role = r /\ a.slot = s}

Persons(list) == {m.person : m \in Range(list)}

Assignees(assigned) == {a.person : a \in assigned}

\* Where build is, and which search it waits for.
InPlace(t, c) ==
    /\ t.role \in Nat \ {0} /\ t.slot \in Nat \ {0}
    /\ t.request \subseteq Requests
    /\ \A request, other \in t.request : request = other
    /\ t.phase = "idle" =>
          /\ t.request = {} /\ t.role = 1 /\ t.assigned = {} /\ t.unfilled = {}
          /\ t.found = <<>>
    /\ \A request \in t.request :
          /\ t.role <= Len(request.roles) + 1
          /\ t.phase = "done" => t.role = Len(request.roles) + 1
          /\ t.phase = "slots" =>
                /\ t.role \in DOMAIN request.roles
                /\ t.slot <= request.roles[t.role].count
                /\ c.intent = request.roles[t.role].intent
    /\ t.phase = "slots" =>
          /\ t.request # {} /\ c.phase \notin {"idle", "parse"}
          /\ c.phase # "done" => t.slot = 1

\* What has been said of slots is said of past ones, once of each; and to people
\* who satisfy the role.
IsSaid(t) ==
    /\ t.unfilled \subseteq (Nat \ {0}) \X (Nat \ {0})
    /\ \A u \in t.unfilled : Past(t, u[1], u[2])
    /\ \A a \in t.assigned :
          a.role \in Nat \ {0} /\ a.slot \in Nat \ {0} /\ Past(t, a.role, a.slot)
    /\ \A request \in t.request :
          /\ \A a \in t.assigned :
                /\ a.role \in DOMAIN request.roles
                /\ Satisfies(a.person, request.roles[a.role].intent)
          /\ \A r \in DOMAIN request.roles : \A s \in 1..request.roles[r].count :
                Past(t, r, s) =>
                   IF <<r, s>> \in t.unfilled THEN HoldersOf(t, r, s) = {}
                   ELSE \E a \in t.assigned : HoldersOf(t, r, s) = {a}

\* Where a slot was left unfilled, everyone found has one.
NobodyWasLeft(t, c) ==
    /\ t.found \in Seq(SUBSET People) /\ Len(t.found) = t.role - 1
    /\ \A u \in t.unfilled :
          IF u[1] < t.role
          THEN t.found[u[1]] \subseteq Assignees({a \in t.assigned : a.role <= u[1]})
          ELSE Persons(c.result) \subseteq Assignees(t.assigned)

TeamFits(t, c) ==
    /\ DOMAIN t = Locals
    /\ t.phase # "failed" => InPlace(t, c) /\ IsSaid(t) /\ NobodyWasLeft(t, c)

\* Somebody gets the slot, or nobody is left.
Fills(A, U, t, c, role) ==
    \/ \E g : /\ A = {g} /\ U = {} /\ g.role = t.role /\ g.slot = t.slot
              /\ Satisfies(g.person, role.intent)
    \/ /\ A = {} /\ U = {<<t.role, t.slot>>}
       /\ Persons(c.result) \subseteq Assignees(t.assigned)

\* The next slot, of the role or of the next one.
Turns(d, t, c, role) ==
    \/ /\ t.slot < role.count
       /\ d.phase = "slots" /\ d.role = t.role /\ d.slot = t.slot + 1
       /\ d.found = t.found
    \/ /\ ~(t.slot < role.count)
       /\ d.phase = "role" /\ d.role = t.role + 1 /\ d.slot = t.slot
       /\ d.found = Append(t.found, Persons(c.result))

LEMMA TurnFits ==
    ASSUME NEW t, NEW c, TeamFits(t, c), t.phase = "slots", c.phase = "done",
           NEW request \in t.request, NEW role, role = request.roles[t.role],
           Persons(c.result) \subseteq People,
           NEW A, NEW U, Fills(A, U, t, c, role),
           NEW d, DOMAIN d = Locals, d.request = t.request, Turns(d, t, c, role),
           d.assigned = t.assigned \cup A, d.unfilled = t.unfilled \cup U
    PROVE  TeamFits(d, c)
<1> USE DEF Fills, Turns
<1>1. InPlace(t, c) /\ IsSaid(t) /\ NobodyWasLeft(t, c)
  BY DEF TeamFits
<1>2. /\ t.role \in Nat \ {0} /\ t.slot \in Nat \ {0} /\ t.request = {request}
      /\ request \in Requests
      /\ t.role \in DOMAIN request.roles /\ t.slot <= role.count
      /\ c.intent = role.intent
  BY <1>1 DEF InPlace
<1>3. /\ request.roles \in Seq(Range(request.roles)) /\ role.count \in Nat \ {0}
      /\ DOMAIN request.roles = 1..Len(request.roles) /\ Len(request.roles) \in Nat
  <2>1. request.roles \in Seq(Range(request.roles)) /\ role.count \in Nat \ {0}
    BY <1>2, TeamTypes
  <2> QED
    BY <2>1
\* What is past now.
<1>4. ASSUME NEW r \in Nat, NEW s \in Nat
      PROVE  /\ Past(t, r, s) \/ (r = t.role /\ s = t.slot) => Past(d, r, s)
             /\ Past(d, r, s) /\ (r = t.role => s <= role.count) =>
                   Past(t, r, s) \/ (r = t.role /\ s = t.slot)
  <2>1. CASE t.slot < role.count
    BY <1>2, <1>3, <2>1 DEF Past
  <2>2. CASE ~(t.slot < role.count)
    BY <1>2, <1>3, <2>2 DEF Past
  <2> QED
    BY <2>1, <2>2
<1>5. ~Past(t, t.role, t.slot)
  BY <1>2 DEF Past
<1>6. InPlace(d, c)
  <2>1. CASE t.slot < role.count
    BY <1>1, <1>2, <1>3, <2>1 DEF InPlace
  <2>2. CASE ~(t.slot < role.count)
    BY <1>1, <1>2, <1>3, <2>2 DEF InPlace
  <2> QED
    BY <2>1, <2>2
<1>7. IsSaid(d)
  <2>1. /\ d.unfilled \subseteq (Nat \ {0}) \X (Nat \ {0})
        /\ \A u \in d.unfilled : Past(d, u[1], u[2])
    <3>1. \A u \in U : u = <<t.role, t.slot>>
      OBVIOUS
    <3>2. \A u \in t.unfilled : u[1] \in Nat /\ u[2] \in Nat /\ Past(t, u[1], u[2])
      BY <1>1 DEF IsSaid
    <3>3. \A u \in t.unfilled : Past(d, u[1], u[2])
      BY <1>4, <3>2
    <3>4. Past(d, t.role, t.slot)
      BY <1>2, <1>4
    <3> QED
      BY <1>1, <1>2, <3>1, <3>3, <3>4 DEF IsSaid
  <2>2. \A a \in d.assigned :
           a.role \in Nat \ {0} /\ a.slot \in Nat \ {0} /\ Past(d, a.role, a.slot)
    <3>1. \A a \in A : a.role = t.role /\ a.slot = t.slot
      OBVIOUS
    <3>2. \A a \in t.assigned : a.role \in Nat \ {0} /\ a.slot \in Nat \ {0} /\ Past(t, a.role, a.slot)
      BY <1>1 DEF IsSaid
    <3>3. \A a \in t.assigned : Past(d, a.role, a.slot)
      BY <1>4, <3>2
    <3>4. Past(d, t.role, t.slot)
      BY <1>2, <1>4
    <3> QED
      BY <1>2, <3>1, <3>2, <3>3, <3>4
  <2>3. \A a \in d.assigned :
           /\ a.role \in DOMAIN request.roles
           /\ Satisfies(a.person, request.roles[a.role].intent)
    BY <1>1, <1>2 DEF IsSaid
  <2>4. ASSUME NEW r \in DOMAIN request.roles, NEW s \in 1..request.roles[r].count,
               Past(d, r, s)
        PROVE  IF <<r, s>> \in d.unfilled THEN HoldersOf(d, r, s) = {}
               ELSE \E a \in d.assigned : HoldersOf(d, r, s) = {a}
    <3>0. r \in Nat /\ s \in Nat /\ (r = t.role => s <= role.count)
      <4>1. r \in Nat /\ s \in Nat
        BY <1>3
      <4>2. request.roles[r].count \in Nat
        BY <1>2, TeamTypes
      <4> QED
        BY <4>1, <4>2
    <3>1. CASE r = t.role /\ s = t.slot
      <4>1. <<r, s>> \notin t.unfilled
        <5>1. ASSUME <<r, s>> \in t.unfilled PROVE FALSE
          <6>1. Past(t, r, s)
            BY <1>1, <5>1 DEF IsSaid
          <6> QED
            BY <1>5, <3>1, <6>1
        <5> QED
          BY <5>1
      <4>2. HoldersOf(t, r, s) = {}
        <5>1. \A a \in t.assigned : Past(t, a.role, a.slot)
          BY <1>1 DEF IsSaid
        <5> QED
          BY <1>5, <3>1, <5>1 DEF HoldersOf
      <4>3. CASE A = {} /\ U = {<<t.role, t.slot>>}
        <5>1. <<r, s>> \in d.unfilled /\ HoldersOf(d, r, s) = HoldersOf(t, r, s)
          BY <3>1, <4>3 DEF HoldersOf
        <5> QED
          BY <4>2, <5>1
      <4>4. CASE U = {} /\ \E g : A = {g} /\ g.role = t.role /\ g.slot = t.slot
        <5>1. PICK g : A = {g} /\ g.role = t.role /\ g.slot = t.slot
          BY <4>4
        <5>2. <<r, s>> \notin d.unfilled
          BY <4>1, <4>4
        <5>3. HoldersOf(d, r, s) = HoldersOf(t, r, s) \cup {g}
          BY <3>1, <5>1 DEF HoldersOf
        <5>4. g \in d.assigned /\ HoldersOf(d, r, s) = {g}
          BY <4>2, <5>1, <5>3
        <5> QED
          BY <5>2, <5>4
      <4> QED
        BY <4>3, <4>4
    <3>2. CASE ~(r = t.role /\ s = t.slot)
      <4>1. Past(t, r, s)
        BY <1>4, <2>4, <3>0, <3>2
      <4>2. \A a \in A : ~(a.role = r /\ a.slot = s)
        BY <3>2
      <4>3. HoldersOf(d, r, s) = HoldersOf(t, r, s)
        BY <4>2 DEF HoldersOf
      <4>4. <<r, s>> \in d.unfilled <=> <<r, s>> \in t.unfilled
        BY <3>2
      <4>5. IF <<r, s>> \in t.unfilled THEN HoldersOf(t, r, s) = {}
            ELSE \E a \in t.assigned : HoldersOf(t, r, s) = {a}
        BY <1>1, <1>2, <4>1 DEF IsSaid
      <4> QED
        BY <4>3, <4>4, <4>5
    <3> QED
      BY <3>1, <3>2
  <2> QED
    BY <1>2, <2>1, <2>2, <2>3, <2>4 DEF IsSaid
<1>8. NobodyWasLeft(d, c)
  <2>1. /\ t.found \in Seq(SUBSET People) /\ Len(t.found) = t.role - 1
        /\ \A u \in t.unfilled :
              IF u[1] < t.role
              THEN t.found[u[1]] \subseteq Assignees({a \in t.assigned : a.role <= u[1]})
              ELSE Persons(c.result) \subseteq Assignees(t.assigned)
    BY <1>1 DEF NobodyWasLeft
  <2>2. /\ d.found \in Seq(SUBSET People) /\ Len(d.found) = d.role - 1
        /\ \A i \in 1..(t.role - 1) : d.found[i] = t.found[i]
    <3>1. CASE d.found = t.found /\ d.role = t.role
      BY <2>1, <3>1
    <3>2. CASE d.found = Append(t.found, Persons(c.result)) /\ d.role = t.role + 1
      <4>1. PICK f \in Seq(SUBSET People), P \in SUBSET People :
              f = t.found /\ P = Persons(c.result)
        BY <2>1
      <4>2. /\ Append(f, P) \in Seq(SUBSET People) /\ Len(Append(f, P)) = Len(f) + 1
            /\ \A i \in 1..Len(f) : Append(f, P)[i] = f[i]
        BY AppendProperties
      <4> QED
        BY <1>2, <2>1, <3>2, <4>1, <4>2
    <3> QED
      BY <3>1, <3>2
  <2>3. \A u \in d.unfilled : u[1] \in Nat /\ (u[1] < t.role \/ u[1] = t.role)
    <3>1. \A u \in d.unfilled : u[1] \in Nat /\ Past(d, u[1], u[2])
      BY <1>7 DEF IsSaid
    <3>2. d.role = t.role \/ (d.role = t.role + 1 /\ d.phase # "slots")
      OBVIOUS
    <3> QED
      BY <1>2, <3>1, <3>2 DEF Past
  <2>4. ASSUME NEW u \in d.unfilled, u[1] < t.role
        PROVE  d.found[u[1]] \subseteq Assignees({a \in d.assigned : a.role <= u[1]})
    <3>1. u \in t.unfilled
      BY <1>2, <2>4
    <3>2. t.found[u[1]] \subseteq Assignees({a \in t.assigned : a.role <= u[1]})
      BY <2>1, <2>4, <3>1
    <3>3. {a \in t.assigned : a.role <= u[1]} \subseteq {a \in d.assigned : a.role <= u[1]}
      OBVIOUS
    <3>4. u[1] \in Nat \ {0}
      BY <1>7 DEF IsSaid
    <3>5. u[1] \in 1..(t.role - 1)
      BY <1>2, <2>4, <3>4
    <3> QED
      BY <2>2, <3>2, <3>3, <3>5 DEF Assignees
  <2>5. ASSUME NEW u \in d.unfilled, u[1] = t.role
        PROVE  Persons(c.result) \subseteq Assignees(d.assigned)
    <3>1. CASE u \in t.unfilled
      <4>1. ~(u[1] < t.role)
        BY <1>2, <2>5
      <4>2. Persons(c.result) \subseteq Assignees(t.assigned)
        BY <2>1, <3>1, <4>1
      <4> QED
        BY <4>2 DEF Assignees
    <3>2. CASE u \in U
      BY <3>2 DEF Assignees
    <3> QED
      BY <3>1, <3>2
  <2>6. \A a \in d.assigned : a.role <= t.role
    <3>1. \A a \in d.assigned : a.role \in Nat /\ Past(d, a.role, a.slot)
      BY <1>7 DEF IsSaid
    <3>2. d.role = t.role \/ (d.role = t.role + 1 /\ d.phase # "slots")
      OBVIOUS
    <3> QED
      BY <1>2, <3>1, <3>2 DEF Past
  <2>7. CASE d.role = t.role
    BY <1>2, <2>2, <2>3, <2>4, <2>5, <2>7 DEF NobodyWasLeft
  <2>8. CASE d.role = t.role + 1 /\ d.found = Append(t.found, Persons(c.result))
    <3>1. ASSUME NEW u \in d.unfilled
          PROVE  /\ u[1] < d.role
                 /\ d.found[u[1]] \subseteq Assignees({a \in d.assigned : a.role <= u[1]})
      <4>1. u[1] < d.role
        BY <1>2, <2>3, <2>8
      <4>2. CASE u[1] = t.role
        <5>1. {a \in d.assigned : a.role <= u[1]} = d.assigned
          BY <2>6, <4>2
        <5>2. d.found[u[1]] = Persons(c.result)
          <6>1. PICK f \in Seq(SUBSET People), P \in SUBSET People :
                  f = t.found /\ P = Persons(c.result)
            BY <2>1
          <6>2. Append(f, P)[Len(f) + 1] = P
            BY AppendProperties
          <6>3. Len(f) + 1 = t.role
            BY <1>2, <2>1, <6>1
          <6> QED
            BY <2>8, <4>2, <6>1, <6>2, <6>3
        <5> QED
          BY <2>5, <4>1, <4>2, <5>1, <5>2
      <4> QED
        BY <2>3, <2>4, <4>1, <4>2
    <3> QED
      BY <2>2, <3>1 DEF NobodyWasLeft
  <2> QED
    BY <2>7, <2>8
<1> QED
  BY <1>6, <1>7, <1>8 DEF TeamFits

LEMMA AnsweredSlots ==
    ASSUME NEW t, NEW c, TeamFits(t, c), t.phase = "done",
           NEW request \in t.request, NEW r \in DOMAIN request.roles
    PROVE  LET role == request.roles[r]
           IN  /\ \A s \in 1..role.count :
                     /\ Cardinality(HoldersOf(t, r, s)) =
                           IF <<r, s>> \in t.unfilled THEN 0 ELSE 1
                     /\ \A a \in HoldersOf(t, r, s) : Satisfies(a.person, role.intent)
               /\ (\E s \in 1..role.count : <<r, s>> \in t.unfilled) =>
                     t.found[r] \subseteq Assignees({a \in t.assigned : a.role <= r})
<1>1. InPlace(t, c) /\ IsSaid(t) /\ NobodyWasLeft(t, c)
  BY DEF TeamFits
<1>2. r < t.role
  <2>1. request.roles \in Seq(Range(request.roles)) /\ t.role = Len(request.roles) + 1
    BY <1>1, TeamTypes DEF InPlace
  <2> QED
    BY <2>1
<1>3. ASSUME NEW s \in 1..request.roles[r].count
      PROVE  /\ Cardinality(HoldersOf(t, r, s)) =
                   IF <<r, s>> \in t.unfilled THEN 0 ELSE 1
             /\ \A a \in HoldersOf(t, r, s) : Satisfies(a.person, request.roles[r].intent)
  <2>1. IF <<r, s>> \in t.unfilled THEN HoldersOf(t, r, s) = {}
        ELSE \E a \in t.assigned : HoldersOf(t, r, s) = {a}
    BY <1>1, <1>2 DEF IsSaid, Past
  <2>2. \A a \in HoldersOf(t, r, s) : Satisfies(a.person, request.roles[r].intent)
    BY <1>1 DEF IsSaid, HoldersOf
  <2> QED
    BY <2>1, <2>2, FS_EmptySet, FS_Singleton
<1>4. ASSUME NEW s \in 1..request.roles[r].count, <<r, s>> \in t.unfilled
      PROVE  t.found[r] \subseteq Assignees({a \in t.assigned : a.role <= r})
  <2>1. PICK u \in t.unfilled : u = <<r, s>>
    BY <1>4
  <2>2. u[1] = r
    BY <2>1
  <2> QED
    BY <1>1, <1>2, <2>2 DEF NobodyWasLeft
<1> QED
  BY <1>3, <1>4

-----------------------------------------------------------------------------
(* The invariant.                                                           *)

IInv ==
    /\ FinderFits(call, asked)
    /\ asked # {} => team.phase = "idle" /\ call.phase # "idle"
    /\ TeamFits(team, call)
    /\ NobodyTwice

\* A search goes on, of its own or for the first slot of a role.
LEMMA FinderStepKeeps ==
    ASSUME IInv, FinderStep, UNCHANGED team
    PROVE  IInv'
<1>0. PICK t, c, d : t = team /\ c = call /\ d = call'
  OBVIOUS
<1>1. /\ FinderFits(call', asked') /\ asked' = asked
      /\ c.phase \notin {"idle", "done", "failed"}
      /\ d.phase \notin {"idle", "parse"}
      /\ c.phase # "parse" => d.intent = c.intent
  BY <1>0, FinderKeeps DEF IInv
<1>2. TeamFits(t, c)
  BY <1>0 DEF IInv
<1>3. TeamFits(t, d)
  <2>1. CASE t.phase = "failed"
    BY <1>2, <2>1 DEF TeamFits
  <2>2. CASE t.phase # "failed"
    <3>1. InPlace(t, c) /\ IsSaid(t) /\ NobodyWasLeft(t, c) /\ DOMAIN t = Locals
      BY <1>2, <2>2 DEF TeamFits
    <3>2. InPlace(t, d)
      BY <1>1, <3>1 DEF InPlace
    <3>3. \A u \in t.unfilled : u[1] < t.role
      <4>1. ASSUME NEW u \in t.unfilled PROVE u[1] < t.role
        <5>1. u[2] \in Nat \ {0} /\ Past(t, u[1], u[2])
          BY <3>1 DEF IsSaid
        <5>2. t.phase = "slots" => t.slot = 1
          BY <1>1, <3>1 DEF InPlace
        <5> QED
          BY <5>1, <5>2 DEF Past
      <4> QED
        BY <4>1
    <3>4. NobodyWasLeft(t, d)
      BY <3>1, <3>3 DEF NobodyWasLeft
    <3> QED
      BY <3>1, <3>2, <3>4 DEF TeamFits
  <2> QED
    BY <2>1, <2>2
<1>4. team' = t /\ call' = d
  BY <1>0
<1>5. TeamFits(team, call)'
  BY <1>3, <1>4
<1>6. asked' # {} => team'.phase = "idle" /\ call'.phase # "idle"
  BY <1>0, <1>1 DEF IInv
<1> QED
  BY <1>1, <1>5, <1>6 DEF IInv, NobodyTwice

\* A team that waits for no search.
LEMMA NotWaiting ==
    ASSUME NEW t, NEW c, NEW d, TeamFits(t, c), t.phase # "slots"
    PROVE  TeamFits(t, d)
<1>1. CASE t.phase = "failed"
  BY <1>1 DEF TeamFits
<1>2. CASE t.phase # "failed"
  <2>1. InPlace(t, c) /\ IsSaid(t) /\ NobodyWasLeft(t, c) /\ DOMAIN t = Locals
    BY <1>2 DEF TeamFits
  <2>2. InPlace(t, d)
    BY <2>1 DEF InPlace
  <2>3. \A u \in t.unfilled : u[1] < t.role
    BY <2>1 DEF IsSaid, Past
  <2>4. NobodyWasLeft(t, d)
    BY <2>1, <2>3 DEF NobodyWasLeft
  <2> QED
    BY <2>1, <2>2, <2>4 DEF TeamFits
<1> QED
  BY <1>1, <1>2

LEMMA NoIntentIsRankable == Rankable(NoIntent)
<1>1. \A field \in DOMAIN NoIntent : IsFiniteSet(NoIntent[field])
  BY FS_EmptySet DEF NoIntent
<1>2. NoIntent.years = {}
  BY DEF NoIntent
<1> QED
  BY <1>1, <1>2 DEF Rankable, IsIntent

LEMMA SearchKeeps ==
    ASSUME IInv, NEW query \in Queries, NEW limit \in 1..Cardinality(People),
           Search(query, limit)
    PROVE  IInv'
<1>1. PICK d : d = Called("parse", NoIntent, limit)
  OBVIOUS
<1>2. call' = d /\ asked' = {query} /\ team' = team /\ team.phase = "idle"
  BY <1>1 DEF Search, Ask
<1>3. CallFits(d)
  <2>1. limit \in Nat /\ "parse" \in Unfiltered
    BY DEF Unfiltered
  <2> QED
    BY <1>1, <2>1, CalledFits, NoIntentIsRankable
<1>4. d.phase = "parse" /\ d.intent = NoIntent
  BY <1>1 DEF Called
<1>5. FinderFits(d, {query})
  BY <1>3, <1>4 DEF FinderFits, Understood
<1>6. PICK t, c : t = team /\ c = call
  OBVIOUS
<1>7. TeamFits(t, d)
  BY <1>2, <1>6, NotWaiting DEF IInv
<1>8. TeamFits(team, call)'
  BY <1>2, <1>6, <1>7
<1>9. FinderFits(call, asked)'
  BY <1>2, <1>5
<1> QED
  BY <1>2, <1>4, <1>8, <1>9 DEF IInv, NobodyTwice

LEMMA BuildKeeps ==
    ASSUME IInv, NEW request \in Requests, Build(request)
    PROVE  IInv'
<1>1. PICK t, c, d : t = team /\ c = call /\ d = team'
  OBVIOUS
<1>2. /\ c.phase = "idle" /\ t.phase = "idle" /\ asked = {} /\ asked' = {} /\ call' = c
      /\ d = [t EXCEPT !.phase = "role", !.request = {request}]
  BY <1>1 DEF IInv, Build
<1>3. InPlace(t, c) /\ IsSaid(t) /\ NobodyWasLeft(t, c) /\ DOMAIN t = Locals
  BY <1>1, <1>2 DEF IInv, TeamFits
<1>4. /\ DOMAIN d = Locals /\ d.phase = "role" /\ d.request = {request} /\ d.role = 1
      /\ d.slot = t.slot /\ d.assigned = {} /\ d.unfilled = {} /\ d.found = <<>>
  BY <1>2, <1>3 DEF InPlace, Locals
<1>5. request.roles \in Seq(Range(request.roles))
  BY TeamTypes
<1>6. InPlace(d, c)
  <2>1. 1 <= Len(request.roles) + 1
    BY <1>5
  <2> QED
    BY <1>3, <1>4, <2>1 DEF InPlace
<1>7. IsSaid(d)
  <2>1. ASSUME NEW r \in DOMAIN request.roles PROVE ~(r < 1)
    BY <1>5
  <2> QED
    BY <1>4, <2>1 DEF IsSaid, Past
<1>8. NobodyWasLeft(d, c)
  BY <1>4 DEF NobodyWasLeft
<1>9. TeamFits(d, c)
  BY <1>4, <1>6, <1>7, <1>8 DEF TeamFits
<1>10. TeamFits(team, call)' /\ NobodyTwice'
  BY <1>1, <1>2, <1>4, <1>9 DEF NobodyTwice
<1>11. FinderFits(call, asked)'
  BY <1>1, <1>2 DEF IInv
<1> QED
  BY <1>2, <1>10, <1>11 DEF IInv

LEMMA NextRoleKeeps ==
    ASSUME IInv, NextRole
    PROVE  IInv'
<1>1. PICK t, c, d, e : t = team /\ c = call /\ d = team' /\ e = call'
  OBVIOUS
<1>2. PICK request \in t.request :
        IF t.role > Len(request.roles)
        THEN d = [t EXCEPT !.phase = "done"] /\ e = Idle
        ELSE /\ d = [t EXCEPT !.phase = "slots", !.slot = 1]
             /\ e = Called("filter", Role.intent, request.limit)
  BY <1>1 DEF NextRole
<1>3. t.phase = "role" /\ asked' = asked /\ asked = {}
  BY <1>1 DEF IInv, NextRole
<1>4. InPlace(t, c) /\ IsSaid(t) /\ NobodyWasLeft(t, c) /\ DOMAIN t = Locals
  BY <1>1, <1>3 DEF IInv, TeamFits
<1>5. /\ t.request = {request} /\ request \in Requests
      /\ t.role \in Nat \ {0} /\ t.role <= Len(request.roles) + 1
  BY <1>4 DEF InPlace
<1>6. /\ request.roles \in Seq(Range(request.roles)) /\ request.limit \in Nat
      /\ DOMAIN request.roles = 1..Len(request.roles) /\ Len(request.roles) \in Nat
  <2>1. request.roles \in Seq(Range(request.roles)) /\ request.limit \in Nat
    BY <1>5, TeamTypes
  <2> QED
    BY <2>1
<1>7. /\ d.phase \in {"done", "slots"} /\ DOMAIN d = Locals
      /\ d.request = t.request /\ d.role = t.role /\ d.assigned = t.assigned
      /\ d.unfilled = t.unfilled /\ d.found = t.found
  BY <1>2, <1>4 DEF Locals
\* No slot of the role is past yet.
<1>8. ASSUME NEW r \in Nat, NEW s \in Nat \ {0} PROVE Past(d, r, s) <=> Past(t, r, s)
  <2>1. CASE d.phase = "done"
    BY <1>3, <1>7, <2>1 DEF Past
  <2>2. CASE d.phase = "slots"
    <3>1. d.slot = 1
      BY <1>2, <1>4, <2>2 DEF Locals
    <3> QED
      BY <1>3, <1>7, <3>1 DEF Past
  <2> QED
    BY <1>7, <2>1, <2>2
<1>9. IsSaid(d)
  <2>1. \A u \in t.unfilled : u[1] \in Nat \ {0} /\ u[2] \in Nat \ {0} /\ Past(d, u[1], u[2])
    BY <1>4, <1>8 DEF IsSaid
  <2>2. \A a \in t.assigned :
           a.role \in Nat \ {0} /\ a.slot \in Nat \ {0} /\ Past(d, a.role, a.slot)
    BY <1>4, <1>8 DEF IsSaid
  <2>3. ASSUME NEW r \in DOMAIN request.roles, NEW s \in 1..request.roles[r].count,
               Past(d, r, s)
        PROVE  IF <<r, s>> \in d.unfilled THEN HoldersOf(d, r, s) = {}
               ELSE \E a \in d.assigned : HoldersOf(d, r, s) = {a}
    <3>1. r \in Nat /\ s \in Nat \ {0}
      <4>1. request.roles[r].count \in Nat
        BY <1>5, TeamTypes
      <4> QED
        BY <1>6, <4>1
    <3>2. Past(t, r, s)
      BY <1>8, <2>3, <3>1
    <3> QED
      BY <1>4, <1>5, <1>7, <3>2 DEF IsSaid, HoldersOf
  <2> QED
    BY <1>4, <1>5, <1>7, <2>1, <2>2, <2>3 DEF IsSaid
<1>10. \A u \in t.unfilled : u[1] < t.role
  BY <1>3, <1>4 DEF IsSaid, Past
<1>11. NobodyWasLeft(d, e)
  BY <1>4, <1>7, <1>10 DEF NobodyWasLeft
<1>12. InPlace(d, e) /\ CallFits(e)
  <2>1. CASE t.role > Len(request.roles)
    <3>1. d.phase = "done" /\ d.slot = t.slot /\ e = Idle
      BY <1>2, <1>4, <2>1 DEF Locals
    <3>2. t.role = Len(request.roles) + 1
      BY <1>5, <1>6, <2>1
    <3>3. InPlace(d, e)
      BY <1>4, <1>5, <1>7, <3>1, <3>2 DEF InPlace
    <3>4. CallFits(e)
      <4>1. 0 \in Nat /\ "idle" \in Unfiltered
        BY DEF Unfiltered
      <4> QED
        BY <3>1, <4>1, CalledFits, NoIntentIsRankable DEF Idle
    <3> QED
      BY <3>3, <3>4
  <2>2. CASE ~(t.role > Len(request.roles))
    <3>1. PICK intent : intent = request.roles[t.role].intent
      OBVIOUS
    <3>2. Role.intent = intent
      BY <1>1, <1>5, <3>1 DEF Role
    <3>3. d.phase = "slots" /\ d.slot = 1 /\ e = Called("filter", intent, request.limit)
      BY <1>2, <1>4, <2>2, <3>2 DEF Locals
    <3>4. t.role \in DOMAIN request.roles
      BY <1>5, <1>6, <2>2
    <3>5. request.roles[t.role].count \in Nat \ {0} /\ Rankable(intent)
      BY <1>5, <3>1, <3>4, TeamTypes DEF Rankable, Validates
    <3>6. 1 <= request.roles[t.role].count
      BY <3>5
    <3>7. e.phase = "filter" /\ e.intent = intent
      BY <3>3 DEF Called
    <3>8. InPlace(d, e)
      BY <1>4, <1>5, <1>7, <3>1, <3>3, <3>4, <3>6, <3>7 DEF InPlace
    <3>9. CallFits(e)
      <4>1. "filter" \in Unfiltered
        BY DEF Unfiltered
      <4> QED
        BY <1>6, <3>3, <3>5, <4>1, CalledFits
    <3> QED
      BY <3>8, <3>9
  <2> QED
    BY <2>1, <2>2
<1>13. TeamFits(d, e)
  BY <1>7, <1>9, <1>11, <1>12 DEF TeamFits
<1>14. FinderFits(e, {})
  BY <1>12 DEF FinderFits
<1>15. TeamFits(team, call)' /\ FinderFits(call, asked)' /\ NobodyTwice'
  BY <1>1, <1>3, <1>7, <1>13, <1>14 DEF IInv, NobodyTwice
<1> QED
  BY <1>3, <1>15 DEF IInv

\* What the end of a turn leaves, given the role.
LEMMA AdvancedIs ==
    ASSUME NEW role, role = Role, NEW next, DOMAIN next = Locals, next.slot = team.slot,
           next.role = team.role, next.phase = "slots",
           NEW d, d = Advanced(next)
    PROVE  /\ DOMAIN d = Locals /\ d.request = next.request
           /\ d.assigned = next.assigned /\ d.unfilled = next.unfilled
           /\ Turns(d, next, call, role)
<1>1. CASE team.slot < role.count
  <2>1. d = [next EXCEPT !.slot = @ + 1]
    BY <1>1 DEF Advanced
  <2> QED
    BY <1>1, <2>1 DEF Locals, Turns
<1>2. CASE ~(team.slot < role.count)
  <2>1. PICK persons : persons = Persons(call.result)
    OBVIOUS
  <2>2. d = [next EXCEPT !.phase = "role", !.role = @ + 1, !.found = Append(@, persons)]
    BY <1>2, <2>1 DEF Advanced, Persons
  <2> QED
    BY <1>2, <2>1, <2>2 DEF Locals, Turns
<1> QED
  BY <1>1, <1>2

LEMMA FillingFacts ==
    ASSUME IInv, Filling
    PROVE  \E request \in team.request :
              /\ Role = request.roles[team.role] /\ call.intent = Role.intent
              /\ asked = {} /\ Persons(call.result) \subseteq People
              /\ \A m \in Range(call.result) : Satisfies(m.person, Role.intent)
<1>1. PICK t, c : t = team /\ c = call
  OBVIOUS
<1>2. t.phase = "slots" /\ c.phase = "done" /\ CallFits(c) /\ asked = {}
  BY <1>1 DEF Filling, IInv, FinderFits
<1>3. InPlace(t, c)
  BY <1>1, <1>2 DEF IInv, TeamFits
<1>4. PICK request : t.request = {request} /\ c.intent = request.roles[t.role].intent
  BY <1>2, <1>3 DEF InPlace
<1>5. Role = request.roles[t.role]
  BY <1>1, <1>4 DEF Role
<1>6. \A m \in Range(c.result) : m.person \in People /\ Satisfies(m.person, c.intent)
  BY <1>2, FoundSatisfy
<1>7. Persons(c.result) \subseteq People
  BY <1>6 DEF Persons
<1> QED
  BY <1>1, <1>2, <1>4, <1>5, <1>6, <1>7

LEMMA AssignKeeps ==
    ASSUME IInv, Assign
    PROVE  IInv'
<1>1. PICK t, c, d, role : t = team /\ c = call /\ d = team' /\ role = Role
  OBVIOUS
<1>2. Filling /\ t.phase = "slots" /\ c.phase = "done"
  BY <1>1 DEF Assign, Filling
<1>3. PICK request \in t.request :
        /\ role = request.roles[t.role] /\ c.intent = role.intent
        /\ asked = {} /\ Persons(c.result) \subseteq People
        /\ \A m \in Range(c.result) : Satisfies(m.person, role.intent)
  BY <1>1, <1>2, FillingFacts
<1>4. PICK m \in Available(c.result, t.assigned, t.role) :
        d = Advanced([t EXCEPT
               !.words = @ \cup Terms(m),
               !.assigned = @ \cup {[role |-> t.role, slot |-> t.slot,
                                     person |-> m.person,
                                     score |-> Selection(m, t.words)]}])
  BY <1>1 DEF Assign
<1>5. PICK g : g = [role |-> t.role, slot |-> t.slot, person |-> m.person,
                    score |-> Selection(m, t.words)]
  OBVIOUS
<1>6. PICK next : next = [t EXCEPT !.words = @ \cup Terms(m), !.assigned = @ \cup {g}]
  OBVIOUS
<1>7. TeamFits(t, c) /\ DOMAIN t = Locals
  BY <1>1 DEF IInv, TeamFits
<1>8. /\ DOMAIN next = Locals /\ next.slot = t.slot /\ next.role = t.role
      /\ next.phase = "slots" /\ next.request = t.request /\ next.found = t.found
      /\ next.assigned = t.assigned \cup {g} /\ next.unfilled = t.unfilled
  BY <1>2, <1>6, <1>7 DEF Locals
<1>9. d = Advanced(next)
  BY <1>4, <1>5, <1>6
<1>10. /\ DOMAIN d = Locals /\ d.request = next.request
       /\ d.assigned = next.assigned /\ d.unfilled = next.unfilled
       /\ Turns(d, next, c, role)
  BY <1>1, <1>8, <1>9, AdvancedIs
<1>11. /\ m \in Range(c.result) /\ \A a \in t.assigned : a.person # m.person
       /\ g.role = t.role /\ g.slot = t.slot /\ g.person = m.person
       /\ Satisfies(g.person, role.intent)
  BY <1>3, <1>5 DEF Available
<1>12. TeamFits(d, c)
  <2>1. PICK A, U : A = {g} /\ U = {}
    OBVIOUS
  <2>2. d.assigned = t.assigned \cup A /\ d.unfilled = t.unfilled \cup U
        /\ d.request = t.request
    BY <1>8, <1>10, <2>1
  <2>3. Fills(A, U, t, c, role)
    BY <1>11, <2>1 DEF Fills
  <2>4. Turns(d, t, c, role)
    BY <1>8, <1>10 DEF Turns
  <2> QED
    BY <1>2, <1>3, <1>7, <1>10, <2>2, <2>3, <2>4, TurnFits
<1>13. call' = c /\ asked' = {} /\ team' = d
  BY <1>1, <1>3 DEF Assign
<1>14. NobodyTwice'
  <2>1. \A a, b \in t.assigned : a.person = b.person => a = b
    BY <1>1 DEF IInv, NobodyTwice
  <2>2. d.assigned = t.assigned \cup {g}
    BY <1>8, <1>10
  <2> QED
    BY <1>11, <1>13, <2>1, <2>2 DEF NobodyTwice
<1>15. TeamFits(team, call)' /\ FinderFits(call, asked)'
  BY <1>1, <1>3, <1>12, <1>13 DEF IInv
<1> QED
  BY <1>13, <1>14, <1>15 DEF IInv

LEMMA LeaveUnfilledKeeps ==
    ASSUME IInv, LeaveUnfilled
    PROVE  IInv'
<1>1. PICK t, c, d, role : t = team /\ c = call /\ d = team' /\ role = Role
  OBVIOUS
<1>2. Filling /\ t.phase = "slots" /\ c.phase = "done"
  BY <1>1 DEF LeaveUnfilled, Filling
<1>3. PICK request \in t.request :
        /\ role = request.roles[t.role] /\ c.intent = role.intent
        /\ asked = {} /\ Persons(c.result) \subseteq People
  BY <1>1, <1>2, FillingFacts
<1>4. PICK next : next = [t EXCEPT !.unfilled = @ \cup {<<t.role, t.slot>>}]
  OBVIOUS
<1>5. TeamFits(t, c) /\ DOMAIN t = Locals
  BY <1>1 DEF IInv, TeamFits
<1>6. /\ DOMAIN next = Locals /\ next.slot = t.slot /\ next.role = t.role
      /\ next.phase = "slots" /\ next.request = t.request /\ next.found = t.found
      /\ next.assigned = t.assigned /\ next.unfilled = t.unfilled \cup {<<t.role, t.slot>>}
  BY <1>2, <1>4, <1>5 DEF Locals
<1>7. d = Advanced(next) /\ Available(c.result, t.assigned, t.role) = {}
  BY <1>1, <1>4 DEF LeaveUnfilled
<1>8. /\ DOMAIN d = Locals /\ d.request = next.request
      /\ d.assigned = next.assigned /\ d.unfilled = next.unfilled
      /\ Turns(d, next, c, role)
  BY <1>1, <1>6, <1>7, AdvancedIs
<1>9. Persons(c.result) \subseteq Assignees(t.assigned)
  <2>1. \A m \in Range(c.result) : \E a \in t.assigned : a.person = m.person
    BY <1>7 DEF Available
  <2> QED
    BY <2>1 DEF Persons, Assignees
<1>10. TeamFits(d, c)
  <2>1. PICK A, U : A = {} /\ U = {<<t.role, t.slot>>}
    OBVIOUS
  <2>2. d.assigned = t.assigned \cup A /\ d.unfilled = t.unfilled \cup U
        /\ d.request = t.request
    BY <1>6, <1>8, <2>1
  <2>3. Fills(A, U, t, c, role)
    BY <1>9, <2>1 DEF Fills
  <2>4. Turns(d, t, c, role)
    BY <1>6, <1>8 DEF Turns
  <2> QED
    BY <1>2, <1>3, <1>5, <1>8, <2>2, <2>3, <2>4, TurnFits
<1>11. call' = c /\ asked' = {} /\ team' = d
  BY <1>1, <1>3 DEF LeaveUnfilled
<1>12. NobodyTwice'
  <2>1. \A a, b \in t.assigned : a.person = b.person => a = b
    BY <1>1 DEF IInv, NobodyTwice
  <2>2. d.assigned = t.assigned
    BY <1>6, <1>8
  <2> QED
    BY <1>11, <2>1, <2>2 DEF NobodyTwice
<1>13. TeamFits(team, call)' /\ FinderFits(call, asked)'
  BY <1>1, <1>3, <1>10, <1>11 DEF IInv
<1> QED
  BY <1>11, <1>12, <1>13 DEF IInv

LEMMA BuildRaisesKeeps ==
    ASSUME IInv, BuildRaises
    PROVE  IInv'
<1>1. PICK t, d : t = team /\ d = team'
  OBVIOUS
<1>2. /\ t.phase = "slots" /\ d = [t EXCEPT !.phase = "failed"] /\ DOMAIN t = Locals
      /\ asked = {} /\ asked' = {} /\ call' = call
  BY <1>1 DEF BuildRaises, IInv, TeamFits
<1>3. DOMAIN d = Locals /\ d.phase = "failed" /\ d.assigned = t.assigned
  BY <1>2 DEF Locals
<1>4. TeamFits(team, call)'
  BY <1>1, <1>3 DEF TeamFits
<1> QED
  BY <1>1, <1>2, <1>3, <1>4 DEF IInv, NobodyTwice

LEMMA NextKeeps == IInv /\ [Next]_vars => IInv'
<1> SUFFICES ASSUME IInv, [Next]_vars PROVE IInv'
  OBVIOUS
<1>1. CASE UNCHANGED vars
  BY <1>1 DEF IInv, NobodyTwice, vars
<1>2. CASE \E query \in Queries, limit \in 1..Cardinality(People) : Search(query, limit)
  BY <1>2, SearchKeeps
<1>3. CASE \E request \in Requests : Build(request)
  BY <1>3, BuildKeeps
<1>4. CASE FinderStep /\ UNCHANGED team
  BY <1>4, FinderStepKeeps
<1> QED
  BY <1>1, <1>2, <1>3, <1>4, NextRoleKeeps, AssignKeeps, LeaveUnfilledKeeps,
     BuildRaisesKeeps DEF Next, Ended

LEMMA InitFits == Init => IInv
<1> SUFFICES ASSUME Init PROVE IInv
  OBVIOUS
<1>1. PICK t, c : t = team /\ c = call
  OBVIOUS
<1>2. t = NoTeam /\ c = Idle /\ asked = {}
  BY <1>1 DEF Init, FinderInit
<1>3. CallFits(c)
  <2>1. 0 \in Nat /\ "idle" \in Unfiltered
    BY DEF Unfiltered
  <2> QED
    BY <1>2, <2>1, CalledFits, NoIntentIsRankable DEF Idle
<1>4. TeamFits(t, c)
  <2>1. /\ DOMAIN t = Locals /\ t.phase = "idle" /\ t.request = {} /\ t.role = 1
        /\ t.slot = 1 /\ t.assigned = {} /\ t.unfilled = {} /\ t.found = <<>>
    BY <1>2 DEF NoTeam, Locals
  <2> QED
    BY <2>1 DEF TeamFits, InPlace, IsSaid, NobodyWasLeft
<1>5. NobodyTwice
  BY <1>2, <1>1 DEF NobodyTwice, NoTeam
<1> QED
  BY <1>1, <1>2, <1>3, <1>4, <1>5 DEF IInv, FinderFits

LEMMA SlotsFit == IInv => SlotsAreAnswered
<1> SUFFICES ASSUME IInv, team.phase = "done",
                    NEW request \in team.request, NEW r \in DOMAIN request.roles
             PROVE  LET role == request.roles[r]
                        Holders(s) == {a \in team.assigned : a.role = r /\ a.slot = s}
                    IN  /\ \A s \in 1..role.count :
                              /\ Cardinality(Holders(s)) =
                                    IF <<r, s>> \in team.unfilled THEN 0 ELSE 1
                              /\ \A a \in Holders(s) : Satisfies(a.person, role.intent)
                        /\ (\E s \in 1..role.count : <<r, s>> \in team.unfilled) =>
                              team.found[r] \subseteq
                                  {a.person : a \in {a \in team.assigned : a.role <= r}}
  BY DEF SlotsAreAnswered
<1>1. PICK t, c : t = team /\ c = call
  OBVIOUS
<1>2. TeamFits(t, c)
  BY <1>1 DEF IInv
<1>3. LET role == request.roles[r]
      IN  /\ \A s \in 1..role.count :
                /\ Cardinality(HoldersOf(t, r, s)) =
                      IF <<r, s>> \in t.unfilled THEN 0 ELSE 1
                /\ \A a \in HoldersOf(t, r, s) : Satisfies(a.person, role.intent)
          /\ (\E s \in 1..role.count : <<r, s>> \in t.unfilled) =>
                t.found[r] \subseteq Assignees({a \in t.assigned : a.role <= r})
  BY <1>1, <1>2, AnsweredSlots
<1> QED
  BY <1>1, <1>3 DEF HoldersOf, Assignees

-----------------------------------------------------------------------------
(* The theorems.                                                            *)

\* However often the searches of a request find the same people, nobody gets two
\* slots of its team (app/team_builder/agent.py:39).
THEOREM SlotsAreOfDifferentPeople == Spec => []NobodyTwice
<1>1. IInv => NobodyTwice
  BY DEF IInv
<1> QED
  BY <1>1, InitFits, NextKeeps, PTL DEF Spec

\* A team that is answered says of every slot of every role, once, who has it or
\* that it is unfilled; who has it satisfies the role, and nobody found for the
\* role was left (TeamBuilderAgent.build, app/team_builder/agent.py:25-95).
THEOREM EverySlotIsAnswered == Spec => []SlotsAreAnswered
<1> QED
  BY InitFits, NextKeeps, SlotsFit, PTL DEF Spec

\* Only a list that is full loses somebody who satisfies hard filters, although
\* the graph's list is cut apart from the structured one, or an alias that is
\* not checked against the database: a project of a model's answer, or any term
\* of a team's role (HybridRetriever.search, app/retrieval/hybrid.py,
\* _normalized_names, app/repositories/search.py:150, and search_ids,
\* app/graph/neo4j.py:178).
THEOREM NobodyIsLostBetweenLists == Spec => []OnlyFullListsLose
<1>1. IInv => OnlyFullListsLose
  BY ListsLose DEF IInv
<1> QED
  BY <1>1, InitFits, NextKeeps, PTL DEF Spec

\* What the model answers to the reranker, be it of unknown or repeated ids, does
\* not change what is returned: the best of the pool by the composite score
\* (app/ranking/reranker.py and the end of HybridRetriever.search).
THEOREM RerankingIsUndone == Spec => []RerankerChangesNothing
<1>1. IInv => RerankerChangesNothing
  BY RerankerChanges DEF IInv, FinderFits
<1> QED
  BY <1>1, InitFits, NextKeeps, PTL DEF Spec

\* Whoever has everything that a query says is excluded by nothing but a number
\* or project of the language model's answer, whatever else it makes up and
\* however the vocabulary was cut (ground_intent_to_corpus,
\* app/retrieval/metadata_grounding.py:45, and filter_ids,
\* app/repositories/search.py).
THEOREM NobodyIsExcludedByInventions == Spec => []InventionsExcludeNobody
<1>1. IInv => InventionsExcludeNobody
  BY NoInventionExcludes DEF IInv
<1> QED
  BY <1>1, InitFits, NextKeeps, PTL DEF Spec

\* And what the rules find in the query is had by everybody returned
\* (app/retrieval/query_understanding.py).
THEOREM WhatIsSaidIsRequired == Spec => []StatedLimitsHold
<1>1. IInv => StatedLimitsHold
  BY LimitsHold DEF IInv
<1> QED
  BY <1>1, InitFits, NextKeeps, PTL DEF Spec
=============================================================================
