-------------------------- MODULE LeaderboardProofs -------------------------
(***************************************************************************)
(* The properties of the boards, for every value of their constants: any   *)
(* number of users, puzzles, days, and any period and threshold.           *)
(***************************************************************************)
EXTENDS Leaderboard, DailyContestProofs, Pages, FiniteSetTheorems

-----------------------------------------------------------------------------
(* Dense ranks *)

(* What an ORDER BY with ties is: a strict weak order. *)
StrictWeak(order, Q) ==
  /\ order \subseteq Q \X Q
  /\ \A u \in Q : <<u, u>> \notin order
  /\ \A u, v, w \in Q : <<u, v>> \in order /\ <<v, w>> \in order => <<u, w>> \in order
  /\ \A u, v, w \in Q : <<u, w>> \in order => <<u, v>> \in order \/ <<v, w>> \in order

(* The results tied with v, and those ahead of u, tie by tie. *)
LevelOf(v, Q, order) == {w \in Q : <<v, w>> \notin order /\ <<w, v>> \notin order}

LevelsAhead(u, Q, order) == {LevelOf(v, Q, order) : v \in {w \in Q : <<w, u>> \in order}}

(* DENSE_RANK counts the levels ahead. *)
LEMMA RankByLevels ==
  ASSUME NEW Q \in SUBSET Users, NEW order, StrictWeak(order, Q), NEW u \in Q
  PROVE  DenseRank(u, order) = 1 + Cardinality(LevelsAhead(u, Q, order))
  <1> DEFINE ahead == {v \in Users : <<v, u>> \in order}
             ties(v) == {w \in ahead : <<v, w>> \notin order /\ <<w, v>> \notin order}
  <1>1. ahead = {v \in Q : <<v, u>> \in order}
    BY DEF StrictWeak
  <1>2. ASSUME NEW v \in ahead PROVE ties(v) = LevelOf(v, Q, order)
    <2>1. \A w \in Q : <<v, w>> \notin order => w \in ahead
      BY <1>1, <1>2 DEF StrictWeak
    <2> QED
      BY <1>1, <2>1 DEF LevelOf
  <1>3. {ties(v) : v \in ahead} = LevelsAhead(u, Q, order)
    BY <1>1, <1>2 DEF LevelsAhead
  <1> QED
    BY <1>3 DEF DenseRank

(* The levels ahead of a tie are the same; those ahead of a worse result   *)
(* are more, by the level of the better one at least.                      *)
LEMMA LevelsGrow ==
  ASSUME NEW Q, NEW order, StrictWeak(order, Q), NEW u \in Q, NEW v \in Q
  PROVE  /\ <<u, v>> \in order =>
              /\ LevelsAhead(u, Q, order) \subseteq LevelsAhead(v, Q, order)
              /\ LevelOf(u, Q, order) \in LevelsAhead(v, Q, order)
         /\ LevelOf(u, Q, order) \notin LevelsAhead(u, Q, order)
         /\ <<u, v>> \notin order /\ <<v, u>> \notin order =>
              /\ LevelsAhead(u, Q, order) = LevelsAhead(v, Q, order)
              /\ LevelOf(u, Q, order) = LevelOf(v, Q, order)
  <1>1. ASSUME <<u, v>> \in order
        PROVE  /\ LevelsAhead(u, Q, order) \subseteq LevelsAhead(v, Q, order)
               /\ LevelOf(u, Q, order) \in LevelsAhead(v, Q, order)
    <2>1. \A w \in Q : <<w, u>> \in order => <<w, v>> \in order
      BY <1>1 DEF StrictWeak
    <2> QED
      BY <1>1, <2>1 DEF LevelsAhead
  <1>2. LevelOf(u, Q, order) \notin LevelsAhead(u, Q, order)
    <2> SUFFICES ASSUME NEW w \in Q, <<w, u>> \in order, LevelOf(u, Q, order) = LevelOf(w, Q, order)
                 PROVE  FALSE
      BY DEF LevelsAhead
    <2>1. u \in LevelOf(u, Q, order)
      BY DEF LevelOf, StrictWeak
    <2>2. u \notin LevelOf(w, Q, order)
      BY DEF LevelOf
    <2> QED
      BY <2>1, <2>2
  <1>3. ASSUME <<u, v>> \notin order, <<v, u>> \notin order
        PROVE  /\ LevelsAhead(u, Q, order) = LevelsAhead(v, Q, order)
               /\ LevelOf(u, Q, order) = LevelOf(v, Q, order)
    <2>1. \A w \in Q : <<w, u>> \in order <=> <<w, v>> \in order
      BY <1>3 DEF StrictWeak
    <2>2. \A w \in Q : <<u, w>> \in order <=> <<v, w>> \in order
      BY <1>3 DEF StrictWeak
    <2>3. LevelsAhead(u, Q, order) = LevelsAhead(v, Q, order)
      BY <2>1 DEF LevelsAhead
    <2>4. LevelOf(u, Q, order) = LevelOf(v, Q, order)
      BY <2>1, <2>2 DEF LevelOf
    <2> QED
      BY <2>3, <2>4
  <1> QED
    BY <1>1, <1>2, <1>3

(* The values of a function on a finite set are finitely many. *)
LEMMA ImageFinite ==
  ASSUME NEW S, IsFiniteSet(S), NEW f
  PROVE  IsFiniteSet({f[x] : x \in S})
  <1> DEFINE g == [x \in S |-> f[x]]
             T == {f[x] : x \in S}
  <1>1. g \in Surjection(S, T)
    BY DEF Surjection
  <1> QED
    BY <1>1, FS_Surjection

(* The levels of a finite set of results. *)
Levels(Q, order) == {LevelOf(v, Q, order) : v \in Q}

LEMMA LevelsFinite ==
  ASSUME NEW Q, IsFiniteSet(Q), NEW order, NEW u
  PROVE  /\ IsFiniteSet(Levels(Q, order)) /\ Cardinality(Levels(Q, order)) \in Nat
         /\ LevelsAhead(u, Q, order) \subseteq Levels(Q, order)
         /\ IsFiniteSet(LevelsAhead(u, Q, order))
         /\ Cardinality(LevelsAhead(u, Q, order)) \in Nat
  <1> DEFINE f == [v \in Q |-> LevelOf(v, Q, order)]
  <1>1. Levels(Q, order) = {f[v] : v \in Q}
    BY DEF Levels
  <1> HIDE DEF f
  <1>2. IsFiniteSet(Levels(Q, order))
    BY <1>1, ImageFinite
  <1>3. LevelsAhead(u, Q, order) \subseteq Levels(Q, order)
    BY DEF LevelsAhead, Levels
  <1>4. LevelsAhead(u, Q, order) \in SUBSET Levels(Q, order)
    BY <1>3
  <1>5. IsFiniteSet(LevelsAhead(u, Q, order))
    BY <1>2, <1>4, FS_Subset
  <1> QED
    BY <1>2, <1>3, <1>5, FS_CardinalityType

(* A rank is better exactly when the result is. *)
LEMMA RankOrder ==
  ASSUME NEW Q \in SUBSET Users, IsFiniteSet(Q), NEW order, StrictWeak(order, Q),
         NEW u \in Q, NEW v \in Q
  PROVE  /\ DenseRank(u, order) \in 1..Cardinality(Levels(Q, order))
         /\ DenseRank(u, order) < DenseRank(v, order) <=> <<u, v>> \in order
         /\ DenseRank(u, order) = DenseRank(v, order) =>
              LevelOf(u, Q, order) = LevelOf(v, Q, order)
  <1> DEFINE n(x) == Cardinality(LevelsAhead(x, Q, order))
             L == Levels(Q, order)
  <1>1. \A x \in Q : n(x) \in Nat /\ DenseRank(x, order) = 1 + n(x)
    BY RankByLevels, LevelsFinite
  <1>2. n(u) + 1 <= Cardinality(L)
    <2>1. /\ IsFiniteSet(L) /\ Cardinality(L) \in Nat /\ LevelsAhead(u, Q, order) \subseteq L
          /\ LevelOf(u, Q, order) \notin LevelsAhead(u, Q, order)
      BY LevelsFinite, LevelsGrow
    <2>2. LevelOf(u, Q, order) \in L
      BY DEF Levels
    <2>3. n(u) <= Cardinality(L) /\ n(u) # Cardinality(L)
      BY <2>1, <2>2, FS_Subset
    <2> QED
      BY <1>1, <2>1, <2>3
  <1>3. ASSUME NEW x \in Q, NEW y \in Q, <<x, y>> \in order
        PROVE  n(x) < n(y)
    <2>1. /\ LevelsAhead(x, Q, order) \subseteq LevelsAhead(y, Q, order)
          /\ LevelOf(x, Q, order) \in LevelsAhead(y, Q, order)
          /\ LevelOf(x, Q, order) \notin LevelsAhead(x, Q, order)
      BY <1>3, LevelsGrow
    <2>2. IsFiniteSet(LevelsAhead(y, Q, order)) /\ n(x) \in Nat /\ n(y) \in Nat
      BY LevelsFinite
    <2>3. n(x) <= n(y) /\ n(x) # n(y)
      BY <2>1, <2>2, FS_Subset
    <2> QED
      BY <2>2, <2>3
  <1>4. <<u, v>> \notin order /\ <<v, u>> \notin order =>
          n(u) = n(v) /\ LevelOf(u, Q, order) = LevelOf(v, Q, order)
    BY LevelsGrow
  <1> HIDE DEF n, L
  <1>5. n(u) < n(v) <=> <<u, v>> \in order
    BY <1>1, <1>3, <1>4
  <1>6. n(u) = n(v) => <<u, v>> \notin order /\ <<v, u>> \notin order
    BY <1>1, <1>3
  <1>7. Cardinality(L) \in Nat
    BY LevelsFinite DEF L
  <1> QED
    BY <1>1, <1>2, <1>4, <1>5, <1>6, <1>7 DEF L

(* Ranks are 1..n without gaps. *)
LEMMA DenseRanks ==
  ASSUME NEW Q \in SUBSET Users, IsFiniteSet(Q), NEW order, StrictWeak(order, Q),
         NEW rank, rank = [u \in Q |-> DenseRank(u, order)]
  PROVE  /\ {rank[u] : u \in Q} = 1..Cardinality({rank[u] : u \in Q})
         /\ \A u, v \in Q : rank[u] < rank[v] <=> <<u, v>> \in order
  <1> DEFINE L == Levels(Q, order)
             R == {rank[u] : u \in Q}
             n == Cardinality(L)
             one(level) == CHOOSE v \in Q : LevelOf(v, Q, order) = level
             f == [level \in L |-> rank[one(level)]]
  <1>1. IsFiniteSet(L) /\ n \in Nat
    BY LevelsFinite
  <1>2. R \subseteq 1..n
    BY RankOrder
  <1>3. IsFiniteSet(1..n) /\ Cardinality(1..n) = n
    BY <1>1, FS_Interval
  <1>4. IsFiniteSet(R) /\ Cardinality(R) <= n /\ (Cardinality(R) = n => R = 1..n)
    BY <1>2, <1>3, FS_Subset
  <1>5. \A level \in L : one(level) \in Q /\ LevelOf(one(level), Q, order) = level
    BY DEF Levels
  <1>6. \A u, v \in Q : rank[u] = rank[v] => LevelOf(u, Q, order) = LevelOf(v, Q, order)
    BY RankOrder
  <1>7. f \in Injection(L, R)
    <2> HIDE DEF L, one
    <2>1. f \in [L -> R]
      BY <1>5
    <2>2. \A k, l \in L : f[k] = f[l] => k = l
      BY <1>5, <1>6
    <2> QED
      BY <2>1, <2>2 DEF Injection, IsInjective
  <1>8. n <= Cardinality(R)
    BY <1>4, <1>7, FS_Injection
  <1>9. Cardinality(R) \in Nat
    BY <1>4, FS_CardinalityType
  <1>10. R = 1..Cardinality(R)
    BY <1>1, <1>4, <1>8, <1>9
  <1>11. \A u, v \in Q : rank[u] < rank[v] <=> <<u, v>> \in order
    BY RankOrder
  <1> QED
    BY <1>10, <1>11

-----------------------------------------------------------------------------
(* Orders *)

(* By a number, by a ratio of numbers, and by one order and then another.  *)
ByValue(f, Q) == {pair \in Q \X Q : f[pair[1]] < f[pair[2]]}

ByRatio(f, n, Q) == {pair \in Q \X Q : f[pair[1]] * n[pair[2]] < f[pair[2]] * n[pair[1]]}

Then(first, second, Q) ==
  {pair \in Q \X Q :
     \/ pair \in first
     \/ <<pair[2], pair[1]>> \notin first /\ pair \in second}

LEMMA ValueOrder == ASSUME NEW Q, NEW f \in [Q -> Int] PROVE StrictWeak(ByValue(f, Q), Q)
  BY DEF StrictWeak, ByValue

LEMMA ThenOrder ==
  ASSUME NEW Q, NEW first, NEW second, StrictWeak(first, Q), StrictWeak(second, Q)
  PROVE  StrictWeak(Then(first, second, Q), Q)
  <1> DEFINE order == Then(first, second, Q)
  <1>1. \A u, v \in Q : <<u, v>> \in order <=>
          \/ <<u, v>> \in first
          \/ <<v, u>> \notin first /\ <<u, v>> \in second
    BY DEF Then
  <1>2. order \subseteq Q \X Q
    BY DEF Then
  <1> HIDE DEF order
  <1>3. \A u \in Q : <<u, u>> \notin order
    BY <1>1 DEF StrictWeak
  <1>4. ASSUME NEW u \in Q, NEW v \in Q, NEW w \in Q, <<u, v>> \in order, <<v, w>> \in order
        PROVE  <<u, w>> \in order
    BY <1>1, <1>4 DEF StrictWeak
  <1>5. ASSUME NEW u \in Q, NEW v \in Q, NEW w \in Q, <<u, w>> \in order
        PROVE  <<u, v>> \in order \/ <<v, w>> \in order
    BY <1>1, <1>5 DEF StrictWeak
  <1> QED
    BY <1>2, <1>3, <1>4, <1>5 DEF StrictWeak, order

(* Fractions over positive numbers, compared crosswise. *)
LEMMA ScaleUp ==
  ASSUME NEW x \in Int, NEW y \in Int, NEW k \in Nat \ {0}
  PROVE  x < y <=> x * k < y * k
  OBVIOUS

LEMMA CrossTransitive ==
  ASSUME NEW a \in Int, NEW b \in Nat \ {0}, NEW c \in Int, NEW d \in Nat \ {0},
         NEW e \in Int, NEW f \in Nat \ {0}
  PROVE  /\ a * d < c * b /\ c * f < e * d => a * f < e * b
         /\ a * f < e * b => a * d < c * b \/ c * f < e * d
  <1>1. /\ a * d < c * b <=> (a * d) * f < (c * b) * f
        /\ c * f < e * d <=> (c * f) * b < (e * d) * b
        /\ a * f < e * b <=> (a * f) * d < (e * b) * d
    BY ScaleUp
  <1>2. (a * d) * f = (a * f) * d /\ (c * b) * f = (c * f) * b /\ (e * d) * b = (e * b) * d
    OBVIOUS
  <1>3. /\ (a * d) * f \in Int /\ (c * b) * f \in Int /\ (e * d) * b \in Int
    OBVIOUS
  <1> QED
    BY <1>1, <1>2, <1>3

LEMMA RatioOrder ==
  ASSUME NEW Q, NEW f \in [Q -> Int], NEW n \in [Q -> Nat \ {0}]
  PROVE  StrictWeak(ByRatio(f, n, Q), Q)
  <1> DEFINE order == ByRatio(f, n, Q)
  <1>1. \A u, v \in Q : <<u, v>> \in order <=> f[u] * n[v] < f[v] * n[u]
    BY DEF ByRatio
  <1>2. order \subseteq Q \X Q
    BY DEF ByRatio
  <1> HIDE DEF order
  <1>3. \A u \in Q : <<u, u>> \notin order
    BY <1>1
  <1>4. ASSUME NEW u \in Q, NEW v \in Q, NEW w \in Q
        PROVE  /\ <<u, v>> \in order /\ <<v, w>> \in order => <<u, w>> \in order
               /\ <<u, w>> \in order => <<u, v>> \in order \/ <<v, w>> \in order
    <2>1. /\ f[u] \in Int /\ f[v] \in Int /\ f[w] \in Int
          /\ n[u] \in Nat \ {0} /\ n[v] \in Nat \ {0} /\ n[w] \in Nat \ {0}
      OBVIOUS
    <2> QED
      BY <1>1, <2>1, CrossTransitive
  <1> QED
    BY <1>2, <1>3, <1>4 DEF StrictWeak, order

-----------------------------------------------------------------------------
(* Sums *)

(* A nonempty set of subsets of a finite set has a least one.              *)
LEMMA LeastSubset ==
  ASSUME NEW S, IsFiniteSet(S), NEW B, B \subseteq SUBSET S, B # {}
  PROVE  \E s \in B : \A t \in B : t \subseteq s => t = s
  <1>1. IsWellFoundedOn(StrictSubsetOrdering(S), SUBSET S)
    BY FS_StrictSubsetOrderingWellFounded, FS_FiniteSubsetsOfFinite
  <1>2. PICK s \in B : \A t \in B : ~(<<t, s>> \in StrictSubsetOrdering(S))
    BY <1>1, WFMin
  <1> QED
    BY <1>2 DEF StrictSubsetOrdering

(* The table from which a sum is read: one element at a time. *)
Pick(s) == CHOOSE x \in s : TRUE

SumTable(f, S, g) ==
  g = [s \in SUBSET S |-> IF s = {} THEN 0 ELSE f[Pick(s)] + g[s \ {Pick(s)}]]

LEMMA Picked == ASSUME NEW s, s # {} PROVE Pick(s) \in s
  BY DEF Pick

LEMMA SumEntry ==
  ASSUME NEW S, NEW f, NEW g, SumTable(f, S, g), NEW s, s \subseteq S
  PROVE  /\ g[{}] = 0
         /\ s # {} => g[s] = f[Pick(s)] + g[s \ {Pick(s)}]
  <1>1. s \in SUBSET S
    OBVIOUS
  <1> HIDE DEF Pick
  <1> QED
    BY <1>1 DEF SumTable

LEMMA SumUnique ==
  ASSUME NEW S, IsFiniteSet(S), NEW T, NEW f, NEW g, NEW h,
         SumTable(f, S, g), SumTable(f, T, h), NEW s, s \subseteq S, s \subseteq T
  PROVE  g[s] = h[s]
  <1> DEFINE B == {t \in SUBSET s : g[t] # h[t]}
  <1> SUFFICES ASSUME B # {} PROVE FALSE
    OBVIOUS
  <1>1. B \subseteq SUBSET S
    OBVIOUS
  <1> HIDE DEF B
  <1>2. PICK t \in B : \A r \in B : r \subseteq t => r = t
    BY <1>1, LeastSubset
  <1> USE DEF B
  <1>3. t \subseteq S /\ t \subseteq T /\ t \subseteq s /\ g[t] # h[t]
    OBVIOUS
  <1>4. t # {}
    <2>1. g[{}] = 0 /\ h[{}] = 0
      BY <1>3, SumEntry
    <2> QED
      BY <1>3, <2>1
  <1>5. Pick(t) \in t
    BY <1>4, Picked
  <1>6. g[t \ {Pick(t)}] = h[t \ {Pick(t)}]
    BY <1>2, <1>3, <1>5
  <1>7. g[t] = h[t]
    BY <1>3, <1>4, <1>6, SumEntry
  <1> QED
    BY <1>7

LEMMA SumExists ==
  ASSUME NEW S, IsFiniteSet(S), NEW f
  PROVE  \E g : SumTable(f, S, g)
  <1> DEFINE tab(s) == CHOOSE g : SumTable(f, s, g)
             B == {s \in SUBSET S : ~ \E g : SumTable(f, s, g)}
  <1> SUFFICES ASSUME B # {} PROVE FALSE
    OBVIOUS
  <1>1. B \subseteq SUBSET S
    OBVIOUS
  <1> HIDE DEF B
  <1>2. PICK s \in B : \A r \in B : r \subseteq s => r = s
    BY <1>1, LeastSubset
  <1> USE DEF B
  <1>3. \A r \in SUBSET s : r # s => SumTable(f, r, tab(r)) /\ IsFiniteSet(r)
    BY <1>2, FS_Subset
  <1> DEFINE val(r) == tab(r)[r]
             g == [t \in SUBSET s |-> IF t = {} THEN 0 ELSE f[Pick(t)] + val(t \ {Pick(t)})]
  <1> HIDE DEF tab
  <1>4. ASSUME NEW t \in SUBSET s, t # s PROVE g[t] = val(t)
    <2>1. SumTable(f, t, tab(t)) /\ IsFiniteSet(t)
      BY <1>3, <1>4
    <2>2. CASE t = {}
      BY <2>1, <2>2, SumEntry
    <2>3. CASE t # {}
      <3> DEFINE r == t \ {Pick(t)}
      <3>1. r \in SUBSET s /\ r # s /\ r \subseteq t
        BY <1>4
      <3>2. SumTable(f, r, tab(r))
        BY <1>3, <3>1
      <3>3. tab(t)[r] = tab(r)[r]
        BY <2>1, <3>1, <3>2, SumUnique
      <3>4. tab(t)[t] = f[Pick(t)] + tab(t)[r]
        BY <2>1, <2>3, SumEntry
      <3> QED
        BY <2>3, <3>3, <3>4
    <2> QED
      BY <2>2, <2>3
  <1>5. ASSUME NEW t \in SUBSET s, t # {}
        PROVE  g[t] = f[Pick(t)] + g[t \ {Pick(t)}]
    <2>1. Pick(t) \in t
      BY <1>5, Picked
    <2>2. t \ {Pick(t)} \in SUBSET s /\ t \ {Pick(t)} # s
      BY <2>1
    <2>3. g[t \ {Pick(t)}] = val(t \ {Pick(t)})
      BY <1>4, <2>2
    <2> QED
      BY <1>5, <2>3
  <1>6. g = [t \in SUBSET s |-> IF t = {} THEN 0 ELSE f[Pick(t)] + g[t \ {Pick(t)}]]
    BY <1>5
  <1>7. SumTable(f, s, g)
    BY <1>6 DEF SumTable
  <1> QED
    BY <1>2, <1>7

(* SumFunction reads it: a sum of integers is an integer. *)
LEMMA SumType ==
  ASSUME NEW S, IsFiniteSet(S), NEW f \in [S -> Int]
  PROVE  SumFunction(f) \in Int
  <1> DEFINE g == CHOOSE h : SumTable(f, S, h)
  <1>1. DOMAIN f = S
    OBVIOUS
  <1>2. SumFunction(f) = g[S]
    BY <1>1 DEF SumFunction, SumFunctionOnSet, FoldFunctionOnSet, MapThenFoldSet, SumTable, Pick
  <1>3. SumTable(f, S, g)
    BY SumExists
  <1> HIDE DEF g
  <1> DEFINE B == {s \in SUBSET S : g[s] \notin Int}
  <1> SUFFICES ASSUME B # {} PROVE FALSE
    BY <1>2
  <1>0. B \subseteq SUBSET S
    OBVIOUS
  <1> HIDE DEF B
  <1>4. PICK t \in B : \A r \in B : r \subseteq t => r = t
    BY <1>0, LeastSubset
  <1> USE DEF B
  <1>5. t # {}
    <2>1. g[{}] = 0
      BY <1>3, SumEntry
    <2>2. g[{}] \in Int
      BY <2>1
    <2>3. g[t] \notin Int
      OBVIOUS
    <2> QED
      BY <2>2, <2>3
  <1>6. Pick(t) \in t
    BY <1>5, Picked
  <1>7. g[t \ {Pick(t)}] \in Int /\ f[Pick(t)] \in Int
    BY <1>4, <1>6
  <1>8. g[t] = f[Pick(t)] + g[t \ {Pick(t)}]
    <2>1. t \subseteq S
      OBVIOUS
    <2> HIDE DEF B
    <2> QED
      BY <1>3, <1>5, <2>1, SumEntry
  <1> QED
    BY <1>7, <1>8

(* The least of a nonempty set of numbers. *)
LEMMA LeastNumber ==
  ASSUME NEW S, S \subseteq Nat, S # {}
  PROVE  Min(S) \in S /\ \A n \in S : Min(S) <= n
  <1>1. PICK m \in S : \A n \in S : ~(<<n, m>> \in OpToRel(<, Nat))
    BY NatLessThanWellFounded, WFMin
  <1>2. \A n \in S : n \in Nat /\ m \in Nat /\ ~(n < m)
    BY <1>1 DEF OpToRel
  <1>3. \A n \in S : m =< n
    BY <1>2
  <1> QED
    BY <1>3 DEF Min

-----------------------------------------------------------------------------
(* The boards of a day *)

(* There is one puzzle on a day, and who solved it has a result.           *)
LEMMA SolvedGame ==
  ASSUME TableInv, NEW d, NEW u \in SolvedOn(d)
  PROVE  \E p \in PuzzlesOn(d) :
           /\ games[p][u].status = "COMPLETED" /\ GameOn(d, u) = games[p][u]
           /\ games[p][u] \in GameRow /\ games[p][u].completedAt \in Time
           /\ PuzzlesOn(d) = {p}
  <1>1. PICK p \in PuzzlesOn(d) : games[p][u].status = "COMPLETED"
    BY DEF SolvedOn
  <1>2. p \in Puzzles /\ u \in Users /\ IsRow(dailyPuzzles[p]) /\ dailyPuzzles[p].date = d
    BY DEF PuzzlesOn, SolvedOn
  <1>3. \A q \in PuzzlesOn(d) : q = p
    BY <1>2 DEF PuzzlesOn, TableInv, ScheduleInv, SoundSchedule
  <1>4. GameOn(d, u) = games[p][u]
    BY <1>1, <1>3 DEF GameOn
  <1>5. games[p][u] \in GameRow /\ guesses[p][u] \in SUBSET GuessRow
    BY <1>2 DEF TableInv, TablesType
  <1>6. PICK g \in guesses[p][u] : g.at = games[p][u].completedAt
    BY <1>1, <1>2 DEF TableInv, GameInv, PlayedWithinTheDay
  <1>7. games[p][u].completedAt \in Time
    BY <1>5, <1>6 DEF GuessRow
  <1> QED
    BY <1>1, <1>3, <1>4, <1>5, <1>7

(* ORDER BY completion_time_ms, guess_count, completed_at is one. *)
LEMMA DayOrdered == ASSUME TableInv, NEW d PROVE StrictWeak(DayOrder(d), SolvedOn(d))
  <1> DEFINE Q == SolvedOn(d)
             time == [u \in Q |-> GameOn(d, u).completionTime]
             count == [u \in Q |-> GameOn(d, u).guessCount]
             at == [u \in Q |-> GameOn(d, u).completedAt]
             order == Then(ByValue(time, Q), Then(ByValue(count, Q), ByValue(at, Q), Q), Q)
  <1>1. ASSUME NEW u \in Q
        PROVE  /\ GameOn(d, u).completionTime \in Int /\ GameOn(d, u).completionTime # None
               /\ GameOn(d, u).guessCount \in Int
               /\ GameOn(d, u).completedAt \in Int /\ GameOn(d, u).completedAt # None
    <2>1. \A t \in Time : t \in Int /\ t # None
      BY NamesAssumption, BoundsAssumption DEF Time
    <2>2. \A n \in 0..MaxGuesses : n \in Int
      BY BoundsAssumption
    <2> QED
      BY <2>1, <2>2, SolvedGame DEF GameRow
  <1>2. time \in [Q -> Int] /\ count \in [Q -> Int] /\ at \in [Q -> Int]
    BY <1>1
  <1>3. DayOrder(d) = order
    <2>1. \A u, v \in Q : DayAhead(d, u, v) <=>
            \/ time[u] < time[v]
            \/ ~(time[v] < time[u]) /\ \/ count[u] < count[v]
                                       \/ ~(count[v] < count[u]) /\ at[u] < at[v]
      BY <1>1 DEF DayAhead, Before
    <2> HIDE DEF Q, time, count, at
    <2> QED
      BY <2>1 DEF DayOrder, ByValue, Then, Q
  <1> HIDE DEF Q, time, count, at
  <1>4. /\ StrictWeak(ByValue(time, Q), Q) /\ StrictWeak(ByValue(count, Q), Q)
        /\ StrictWeak(ByValue(at, Q), Q)
    BY <1>2, ValueOrder
  <1>5. StrictWeak(order, Q)
    BY <1>4, ThenOrder
  <1> QED
    BY <1>3, <1>5 DEF Q

LEMMA DayRanksDense ==
  ASSUME TableInv, NEW d, NEW rank, rank = [u \in SolvedOn(d) |-> DayRank(d, u)]
  PROVE  /\ {rank[u] : u \in SolvedOn(d)} = 1..Cardinality({rank[u] : u \in SolvedOn(d)})
         /\ \A u, v \in SolvedOn(d) : rank[u] < rank[v] <=> <<u, v>> \in DayOrder(d)
  <1>1. SolvedOn(d) \in SUBSET Users /\ IsFiniteSet(SolvedOn(d))
    BY FiniteAssumption, FS_Subset DEF SolvedOn
  <1>2. rank = [u \in SolvedOn(d) |-> DenseRank(u, DayOrder(d))]
    BY DEF DayRank
  <1> QED
    BY <1>1, <1>2, DayOrdered, DenseRanks

-----------------------------------------------------------------------------
(* A day's board from one state to the next *)

DaysOrdered == \A d : StrictWeak(DayOrder(d), SolvedOn(d))

OneResult(d, u) ==
  \E p \in PuzzlesOn(d) :
    /\ games[p][u].status = "COMPLETED" /\ GameOn(d, u) = games[p][u] /\ PuzzlesOn(d) = {p}

OneResultEach == \A d : \A u \in SolvedOn(d) : OneResult(d, u)

LEMMA DaysSound == TableInv => DaysOrdered /\ OneResultEach
  BY DayOrdered, SolvedGame DEF DaysOrdered, OneResultEach, OneResult

LEMMA DaysSoundNext == TableInv' => DaysOrdered' /\ OneResultEach'
  BY DaysSound, PTL

(* A result stays, and stays the same. *)
LEMMA ResultKept ==
  ASSUME TableInv, TableInv', [Next]_vars, NEW d, NEW u \in SolvedOn(d)
  PROVE  u \in SolvedOn(d)' /\ GameOn(d, u)' = GameOn(d, u)
  <1>1. PICK p \in PuzzlesOn(d) : games[p][u].status = "COMPLETED" /\ GameOn(d, u) = games[p][u]
    BY SolvedGame
  <1>2. u \in Users /\ p \in Puzzles /\ dailyPuzzles[p].date = d
    BY DEF SolvedOn, PuzzlesOn
  <1>3. games'[p][u] = games[p][u] /\ games'[p][u].status = "COMPLETED"
    BY <1>1, <1>2, GameGrows
  <1>4. dailyPuzzles[p].lockedAt # None
    BY <1>1, <1>2 DEF TableInv, ScheduleInv, PlayedPuzzleKept
  <1>5. dailyPuzzles'[p].date = d
    BY <1>2, <1>4, LockedRowFixed
  <1>6. IsRow(dailyPuzzles'[p])
    BY <1>2, <1>3 DEF TableInv, ScheduleInv, PlayedPuzzleKept, IsRow
  <1>7. p \in PuzzlesOn(d)' /\ u \in SolvedOn(d)'
    BY <1>2, <1>3, <1>5, <1>6 DEF PuzzlesOn, SolvedOn
  <1>8. PICK q \in PuzzlesOn(d)' : GameOn(d, u)' = games'[q][u] /\ PuzzlesOn(d)' = {q}
    BY <1>7, DaysSoundNext DEF OneResultEach, OneResult
  <1> QED
    BY <1>1, <1>3, <1>7, <1>8

(* More results do not make a rank better. *)
LEMMA RankWorsens ==
  ASSUME NEW Q \in SUBSET Users, NEW R \in SUBSET Users, IsFiniteSet(R), Q \subseteq R,
         NEW order, StrictWeak(order, Q), NEW later, StrictWeak(later, R),
         \A u, v \in Q : <<u, v>> \in order <=> <<u, v>> \in later,
         NEW u \in Q
  PROVE  DenseRank(u, order) <= DenseRank(u, later)
  <1> DEFINE A == LevelsAhead(u, Q, order)
             B == LevelsAhead(u, R, later)
             one(level) == CHOOSE v \in Q : <<v, u>> \in order /\ LevelOf(v, Q, order) = level
             f == [level \in A |-> LevelOf(one(level), R, later)]
  <1>1. \A level \in A : /\ one(level) \in Q /\ <<one(level), u>> \in order
                         /\ LevelOf(one(level), Q, order) = level
    BY DEF LevelsAhead
  <1> HIDE DEF one
  <1>2. ASSUME NEW v \in Q, NEW w \in Q, LevelOf(v, R, later) = LevelOf(w, R, later)
        PROVE  LevelOf(v, Q, order) = LevelOf(w, Q, order)
    <2>1. v \in LevelOf(v, R, later)
      BY DEF LevelOf, StrictWeak
    <2>2. <<w, v>> \notin order /\ <<v, w>> \notin order
      BY <1>2, <2>1 DEF LevelOf
    <2> QED
      BY <2>2, LevelsGrow
  <1>3. \A level \in A : f[level] \in B
    <2>1. \A v \in Q : <<v, u>> \in order => LevelOf(v, R, later) \in B
      BY DEF LevelsAhead
    <2> QED
      BY <1>1, <2>1
  <1>4. f \in Injection(A, B)
    <2>1. f \in [A -> B]
      BY <1>3
    <2>2. \A k, l \in A : f[k] = f[l] => k = l
      BY <1>1, <1>2
    <2> QED
      BY <2>1, <2>2 DEF Injection, IsInjective
  <1>5. IsFiniteSet(B) /\ Cardinality(B) \in Nat
    BY LevelsFinite
  <1>6. Cardinality(A) <= Cardinality(B) /\ IsFiniteSet(A)
    BY <1>4, <1>5, FS_Injection
  <1>7. Cardinality(A) \in Nat
    BY <1>6, FS_CardinalityType
  <1>8. DenseRank(u, order) = 1 + Cardinality(A) /\ DenseRank(u, later) = 1 + Cardinality(B)
    BY RankByLevels
  <1> QED
    BY <1>5, <1>6, <1>7, <1>8

LEMMA DayRankStep ==
  ASSUME TableInv, TableInv', [Next]_vars, NEW d, NEW u \in SolvedOn(d)
  PROVE  u \in SolvedOn(d)' /\ DayRank(d, u) <= DayRank(d, u)'
  <1>1. SolvedOn(d) \subseteq SolvedOn(d)'
    BY ResultKept
  <1>2. \A v \in SolvedOn(d) : GameOn(d, v)' = GameOn(d, v)
    BY ResultKept
  <1>3. \A v, w \in SolvedOn(d) : <<v, w>> \in DayOrder(d) <=> <<v, w>> \in DayOrder(d)'
    BY <1>1, <1>2 DEF DayOrder, DayAhead, Before
  <1>4. SolvedOn(d) \in SUBSET Users /\ SolvedOn(d)' \in SUBSET Users /\ IsFiniteSet(SolvedOn(d)')
    BY FiniteAssumption, FS_Subset DEF SolvedOn
  <1>5. StrictWeak(DayOrder(d), SolvedOn(d)) /\ StrictWeak(DayOrder(d)', SolvedOn(d)')
    BY DaysSound, DaysSoundNext DEF DaysOrdered
  <1>6. DenseRank(u, DayOrder(d)) <= DenseRank(u, DayOrder(d)')
    BY <1>1, <1>3, <1>4, <1>5, RankWorsens
  <1> QED
    BY <1>1, <1>6 DEF DayRank

-----------------------------------------------------------------------------
(* When a game was completed *)

(* A game has a completion time only when it was completed. *)
TimedWhenCompleted ==
  \A p \in Puzzles, u \in Users :
    games[p][u].status # "COMPLETED" => games[p][u].completedAt = None

LEMMA TimedStep ==
  ASSUME TablesType, LockedIsOpened, TimedWhenCompleted,
         NEW p \in Puzzles, NEW ts \in Time, Step(p, ts)
  PROVE  TimedWhenCompleted'
  <1>1. ASSUME NEW u \in Users, Start(u, p, ts)
        PROVE  TimedWhenCompleted'
    <2>1. games'[p][u].status # "COMPLETED" => games'[p][u].completedAt = None
      <3>1. games'[p][u] = StartedGame(games[p][u], ts)
        BY <1>1, StartWrites
      <3>2. games[p][u].status # "COMPLETED" => games[p][u].completedAt = None
        BY DEF TimedWhenCompleted
      <3> QED
        BY <3>1, <3>2 DEF StartedGame, NewGame
    <2>2. ASSUME NEW q \in Puzzles, NEW v \in Users, ~(q = p /\ v = u)
          PROVE  games'[q][v] = games[q][v]
      BY <1>1, <2>2, StartWrites
    <2> QED
      BY <2>1, <2>2 DEF TimedWhenCompleted
  <1>2. ASSUME NEW u \in Users, NEW word \in Words, Guess(u, p, word, ts)
        PROVE  TimedWhenCompleted'
    <2> DEFINE n == games[p][u].guessCount + 1
               solved == word = dailyPuzzles[p].answer
    <2>1. games[p][u] \in GameRow /\ games[p][u].completedAt = None
      BY <1>2 DEF TablesType, Guess, TimedWhenCompleted
    <2>2. games'[p][u] = GuessedGame(games[p][u], n, solved, ts)
      BY <1>2, GuessWrites
    <2> HIDE DEF n, solved
    <2>3. games'[p][u].status # "COMPLETED" => games'[p][u].completedAt = None
      BY <2>1, <2>2 DEF GuessedGame, GameRow
    <2> QED
      BY <1>2, <2>3, GuessWrites DEF TimedWhenCompleted
  <1>3. CASE Settle(p, ts)
    <2>1. \A u \in Users : games[p][u] \in GameRow
      BY DEF TablesType
    <2>2. \A game \in GameRow : /\ Forfeited(game).status # "COMPLETED"
                                /\ Forfeited(game).completedAt = game.completedAt
      BY DEF Forfeited, GameRow
    <2> QED
      BY <1>3, <2>1, <2>2, SettleWrites DEF TimedWhenCompleted
  <1>4. CASE Activate(p, ts)
    BY <1>4 DEF Activate, TimedWhenCompleted
  <1>5. CASE AdminStep(p, ts)
    BY <1>5, AdminWrites DEF TimedWhenCompleted
  <1> QED
    BY <1>1, <1>2, <1>3, <1>4, <1>5 DEF Step, AdminStep

LEMMA BoardCorrect == Spec => [](TableInv /\ TimedWhenCompleted)
  <1>1. Init => TimedWhenCompleted
    BY DEF Init, InitialGames, NoGame, TimedWhenCompleted
  <1>2. TableInv /\ TimedWhenCompleted /\ [Next]_vars => TimedWhenCompleted'
    BY TimedStep DEF TableInv, ScheduleInv, TimedWhenCompleted, Next, Tick, vars
  <1> QED
    BY <1>1, <1>2, TablesCorrect, PTL DEF Spec

-----------------------------------------------------------------------------
(* Who qualifies *)

(* The days of the frame that are a user's. *)
ScoredDays(d, u) == {p \in Frame(d) : DayTime(p, u) # None}

LEMMA ScoredFields ==
  ASSUME NEW d, NEW u
  PROVE  /\ scored(d, u).days = Cardinality(ScoredDays(d, u))
         /\ scored(d, u).completed = Cardinality(CompletedDays(d, u))
  BY DEF scored, ScoredDays

(* A day completed is one of them. *)
LEMMA CompletedIsScored ==
  ASSUME TableInv, NEW d, NEW u \in Users
  PROVE  /\ CompletedDays(d, u) \subseteq ScoredDays(d, u)
         /\ IsFiniteSet(CompletedDays(d, u)) /\ IsFiniteSet(ScoredDays(d, u))
         /\ Cardinality(CompletedDays(d, u)) \in Nat /\ Cardinality(ScoredDays(d, u)) \in Nat
         /\ CompletedDays(d, u) # {} => Cardinality(ScoredDays(d, u)) > 0
  <1>1. CompletedDays(d, u) \subseteq ScoredDays(d, u)
    <2> SUFFICES ASSUME NEW p \in CompletedDays(d, u) PROVE DayTime(p, u) # None
      BY DEF CompletedDays, ScoredDays
    <2>1. p \in Puzzles /\ Counted(games[p][u])
      BY DEF CompletedDays, Frame
    <2>2. games[p][u].completionTime \in Int
      BY <2>1, TimeType DEF TableInv, TablesType
    <2> QED
      BY <2>1, <2>2, NamesAssumption DEF DayTime
  <1>2. /\ ScoredDays(d, u) \in SUBSET Puzzles /\ IsFiniteSet(Puzzles)
        /\ CompletedDays(d, u) \in SUBSET Puzzles
    BY FiniteAssumption DEF ScoredDays, CompletedDays, Frame
  <1>3. IsFiniteSet(CompletedDays(d, u)) /\ IsFiniteSet(ScoredDays(d, u))
    BY <1>2, FS_Subset
  <1>4. Cardinality(CompletedDays(d, u)) \in Nat /\ Cardinality(ScoredDays(d, u)) \in Nat
    BY <1>3, FS_CardinalityType
  <1>5. Cardinality(ScoredDays(d, u)) = 0 => ScoredDays(d, u) = {}
    BY <1>3, FS_EmptySet
  <1> QED
    BY <1>1, <1>3, <1>4, <1>5

LEMMA QualifiedBy ==
  ASSUME TableInv, NEW d, NEW u \in Users
  PROVE  u \in Qualified(d) <=> Cardinality(CompletedDays(d, u)) >= Threshold
  <1>1. Cardinality(CompletedDays(d, u)) >= Threshold => CompletedDays(d, u) # {}
    BY FS_EmptySet, BoardAssumption
  <1> QED
    BY <1>1, ScoredFields, CompletedIsScored DEF Qualified, Qualifies

(* Days finalized are over, and days over stay finalized. *)
LEMMA FinalizedBeforeToday ==
  ASSUME TableInv, NEW p \in Puzzles, IsFinalized(p)
  PROVE  dailyPuzzles[p].date < today
  <1>1. /\ dailyPuzzles[p].expiresAt <= now /\ now \in Nat
        /\ dailyPuzzles[p].expiresAt = ExpiresAt(dailyPuzzles[p].date)
    <2>1. /\ dailyPuzzles[p].expiresAt <= dailyPuzzles[p].finalizedAt
          /\ dailyPuzzles[p].finalizedAt <= now /\ dailyPuzzles[p].finalizedAt \in Time
      BY DEF IsFinalized, TableInv, FinalInv, FinalizedIsOver, FinalizedDated
    <2>2. IsRow(dailyPuzzles[p]) /\ dailyPuzzles[p].expiresAt \in Nat /\ now \in Time
      BY DEF IsFinalized, IsRow, TableInv, TablesType, PuzzleRow
    <2>3. dailyPuzzles[p].expiresAt = ExpiresAt(dailyPuzzles[p].date)
      BY <2>2 DEF TableInv, ScheduleInv, SoundSchedule
    <2> QED
      BY <2>1, <2>2, <2>3, BoundsAssumption DEF Time
  <1>2. dailyPuzzles[p].date \in Nat
    BY BoundsAssumption DEF TableInv, TablesType, PuzzleRow, Dates
  <1>3. \A k \in Nat \ {0}, n \in Nat, e \in Nat : (e + 1) * k <= n => e < n \div k
    OBVIOUS
  <1> QED
    BY <1>1, <1>2, <1>3, BoundsAssumption DEF ExpiresAt, today, ManilaDate

LEMMA CompletedDaysKept ==
  ASSUME TableInv, TableInv', [Next]_vars, FrameStart(today)' = FrameStart(today), NEW u \in Users
  PROVE  CompletedDays(today, u) \subseteq CompletedDays(today, u)'
  <1> SUFFICES ASSUME NEW p \in CompletedDays(today, u)
               PROVE  p \in CompletedDays(today, u)'
    OBVIOUS
  <1>1. /\ p \in Puzzles /\ IsFinalized(p) /\ Counted(games[p][u])
        /\ FrameStart(today) <= dailyPuzzles[p].date
    BY DEF CompletedDays, Frame
  <1>2. dailyPuzzles'[p] = dailyPuzzles[p] /\ frozen'[p] = frozen[p] /\ games'[p] = games[p]
    BY <1>1, FinalizedUntouched
    DEF IsFinalized, TableInv, ScheduleInv, Next, Tick, vars
  <1>3. dailyPuzzles[p].date < today /\ today <= today'
    <2>1. now \in Time /\ now' \in Time /\ now <= now'
      <3>1. now \in Time /\ now' \in Time
        BY DEF TableInv, TablesType
      <3>2. now' = now \/ now' = now + 1
        BY DEF Next, Tick, Step, Start, Guess, Settle, Activate, Schedule, Update, ReplaceToday,
               Put, Delete, vars
      <3> QED
        BY <3>1, <3>2, BoundsAssumption DEF Time
    <2> QED
      BY <1>1, <2>1, FinalizedBeforeToday, DatesGrow DEF today
  <1>4. dailyPuzzles[p].date \in Nat /\ today \in Nat /\ today' \in Nat
    <2>1. \A t \in Time : ManilaDate(t) \in Nat
      BY BoundsAssumption DEF ManilaDate, Time
    <2>2. now \in Time /\ now' \in Time /\ dailyPuzzles[p].date \in Dates
      BY <1>1 DEF TableInv, TablesType, PuzzleRow
    <2> QED
      BY <2>1, <2>2, BoundsAssumption DEF Dates, today
  <1>5. frozen[p].average # None
    BY <1>3, <1>4 DEF CompletedDays, Frame
  <1>6. IsRow(dailyPuzzles'[p])
    BY <1>1, <1>2 DEF IsFinalized, IsRow
  <1>7. IsFinalized(p)' /\ Counted(games'[p][u])
    BY <1>1, <1>2 DEF IsFinalized
  <1>8. FrameStart(today)' <= dailyPuzzles'[p].date /\ dailyPuzzles'[p].date <= today'
    BY <1>1, <1>2, <1>3, <1>4
  <1> QED
    BY <1>1, <1>2, <1>5, <1>6, <1>7, <1>8 DEF CompletedDays, Frame

QualifiedWhen == \A d : \A u \in Users :
  u \in Qualified(d) <=> Cardinality(CompletedDays(d, u)) >= Threshold

CompletedFinite == \A d : \A u \in Users :
  IsFiniteSet(CompletedDays(d, u)) /\ Cardinality(CompletedDays(d, u)) \in Nat

LEMMA QualifyingSound == TableInv => QualifiedWhen /\ CompletedFinite
  BY QualifiedBy, CompletedIsScored DEF QualifiedWhen, CompletedFinite

LEMMA QualifyingSoundNext == TableInv' => QualifiedWhen' /\ CompletedFinite'
  BY QualifyingSound, PTL

LEMMA QualificationStep ==
  ASSUME TableInv, TableInv', [Next]_vars, FrameStart(today)' = FrameStart(today)
  PROVE  Qualified(today) \subseteq Qualified(today)'
  <1> SUFFICES ASSUME NEW u \in Qualified(today) PROVE u \in Qualified(today)'
    OBVIOUS
  <1>1. u \in Users
    BY DEF Qualified
  <1>2. Cardinality(CompletedDays(today, u)) >= Threshold
    BY <1>1, QualifyingSound DEF QualifiedWhen
  <1>3. CompletedDays(today, u) \subseteq CompletedDays(today, u)'
    BY <1>1, CompletedDaysKept
  <1>4. /\ IsFiniteSet(CompletedDays(today, u)')
        /\ Cardinality(CompletedDays(today, u)') \in Nat
        /\ Cardinality(CompletedDays(today, u)) \in Nat
    BY <1>1, QualifyingSound, QualifyingSoundNext DEF CompletedFinite
  <1>5. Cardinality(CompletedDays(today, u)) <= Cardinality(CompletedDays(today, u)')
    BY <1>3, <1>4, FS_Subset
  <1>6. Cardinality(CompletedDays(today, u)') >= Threshold
    BY <1>2, <1>4, <1>5, BoardAssumption
  <1> QED
    BY <1>1, <1>6, QualifyingSoundNext DEF QualifiedWhen

-----------------------------------------------------------------------------
(* The scores of a period *)

(* What finalization froze is a number, on a day somebody completed. *)
LEMMA FrozenType ==
  ASSUME TableInv, NEW p \in Puzzles, IsFinalized(p)
  PROVE  IF \E v \in Users : games[p][v].status = "COMPLETED"
           THEN frozen[p].average \in Int /\ frozen[p].penalty \in Int
           ELSE frozen[p].average = None /\ frozen[p].penalty = None
  <1> DEFINE times == CompletionTimes(games[p])
             S == {v \in Users : Counted(games[p][v])}
  <1>1. frozen[p] = FrozenOf(times)
    BY DEF IsFinalized, TableInv, FinalInv, FrozenMatchesGames
  <1>2. times \in [S -> Int] /\ DOMAIN times = S
    BY TimeType DEF CompletionTimes, TableInv, TablesType
  <1>3. S \in SUBSET Users /\ IsFiniteSet(S)
    BY FiniteAssumption, FS_Subset
  <1> HIDE DEF times
  <1>4. SumFunction(times) \in Int
    BY <1>2, <1>3, SumType
  <1>5. Cardinality(S) \in Nat /\ (S # {} => Cardinality(S) # 0)
    BY <1>3, FS_CardinalityType, FS_EmptySet
  <1>6. S # {} => RoundedAverage(times) \in Int
    <2>1. \A a \in Int, n \in Nat \ {0} : (2 * a + n) \div (2 * n) \in Int
      OBVIOUS
    <2> QED
      BY <1>2, <1>4, <1>5, <2>1 DEF RoundedAverage
  <1>7. S = {} <=> ~ \E v \in Users : games[p][v].status = "COMPLETED"
    BY DEF Counted
  <1> HIDE DEF S
  <1>8. CASE S = {}
    BY <1>1, <1>2, <1>7, <1>8 DEF FrozenOf
  <1>9. CASE S # {}
    BY <1>1, <1>2, <1>6, <1>7, <1>9, BoundsAssumption DEF FrozenOf
  <1> QED
    BY <1>8, <1>9

(* A day that is a user's adds a number to their time and their guesses. *)
LEMMA DayScoreType ==
  ASSUME TableInv, NEW p \in Puzzles, NEW u \in Users
  PROVE  /\ DayTime(p, u) # None => DayTime(p, u) \in Int
         /\ DayGuesses(p, u) \in Int
  <1>1. /\ Counted(games[p][u]) => games[p][u].completionTime \in Int
        /\ games[p][u].guessCount \in Int
    BY TimeType, BoundsAssumption DEF TableInv, TablesType, GameRow
  <1> QED
    BY <1>1, FrozenType, BoundsAssumption DEF DayTime, DayGuesses

(* The completions of a frame. *)
Completions(d, u) == NotNull({games[p][u].completedAt : p \in Frame(d)})

(* A qualified score is made of numbers, and is not of zero days. *)
LEMMA ScoreType ==
  ASSUME TableInv, NEW d, NEW u \in Qualified(d)
  PROVE  /\ scored(d, u).days \in Nat \ {0}
         /\ scored(d, u).time \in Int /\ scored(d, u).guesses \in Int
         /\ Completions(d, u) \subseteq Nat /\ Completions(d, u) # {}
         /\ scored(d, u).earliest = Min(Completions(d, u))
         /\ scored(d, u).earliest \in Int /\ scored(d, u).earliest # None
  <1> DEFINE days == ScoredDays(d, u)
  <1>0. u \in Users
    BY DEF Qualified
  <1>1. IsFiniteSet(days) /\ Cardinality(days) \in Nat /\ Cardinality(days) > 0
    BY <1>0, CompletedIsScored, ScoredFields DEF Qualified, Qualifies
  <1>2. days # {}
    BY <1>1, FS_EmptySet
  <1>3. /\ [p \in days |-> DayTime(p, u)] \in [days -> Int]
        /\ [p \in days |-> DayGuesses(p, u)] \in [days -> Int]
    BY <1>0, DayScoreType DEF ScoredDays, Frame
  <1>4. /\ SumFunction([p \in days |-> DayTime(p, u)]) \in Int
        /\ SumFunction([p \in days |-> DayGuesses(p, u)]) \in Int
    BY <1>1, <1>3, SumType
  <1>5. /\ scored(d, u).time = SumFunction([p \in days |-> DayTime(p, u)])
        /\ scored(d, u).guesses = SumFunction([p \in days |-> DayGuesses(p, u)])
    BY <1>2 DEF scored, ScoredDays
  <1>6. Completions(d, u) \subseteq Nat
    BY <1>0, BoundsAssumption
    DEF Completions, NotNull, Frame, TableInv, TablesType, GameRow, Time
  <1>7. Completions(d, u) # {}
    <2>1. PICK p \in CompletedDays(d, u) : TRUE
      BY <1>0, QualifiedBy, FS_EmptySet, BoardAssumption
    <2>2. p \in Frame(d) /\ p \in Puzzles /\ games[p][u].status = "COMPLETED"
      BY DEF CompletedDays, Frame, Counted
    <2>3. \E g \in guesses[p][u] : g.at = games[p][u].completedAt
      BY <1>0, <2>2 DEF TableInv, GameInv, PlayedWithinTheDay
    <2>4. games[p][u].completedAt \in Time
      BY <1>0, <2>2, <2>3 DEF TableInv, TablesType, GuessRow
    <2>5. games[p][u].completedAt # None
      BY <2>4, NamesAssumption, BoundsAssumption DEF Time
    <2> QED
      BY <2>2, <2>5 DEF Completions, NotNull
  <1>8. scored(d, u).earliest = Min(Completions(d, u))
    BY <1>7 DEF scored, Completions
  <1>9. Min(Completions(d, u)) \in Nat
    BY <1>6, <1>7, LeastNumber
  <1>10. Min(Completions(d, u)) # None
    BY <1>9, NamesAssumption
  <1>11. scored(d, u).days \in Nat \ {0}
    BY <1>1, ScoredFields
  <1> QED
    BY <1>4, <1>5, <1>6, <1>7, <1>8, <1>9, <1>10, <1>11

(* ORDER BY time / days, guesses / days, earliest NULLS LAST is one too. *)
LEMMA PeriodOrdered == ASSUME TableInv, NEW d PROVE StrictWeak(PeriodOrder(d), Qualified(d))
  <1> DEFINE Q == Qualified(d)
             n == [u \in Q |-> scored(d, u).days]
             time == [u \in Q |-> scored(d, u).time]
             count == [u \in Q |-> scored(d, u).guesses]
             at == [u \in Q |-> scored(d, u).earliest]
             order == Then(ByRatio(time, n, Q), Then(ByRatio(count, n, Q), ByValue(at, Q), Q), Q)
  <1>1. /\ n \in [Q -> Nat \ {0}]
        /\ time \in [Q -> Int] /\ count \in [Q -> Int] /\ at \in [Q -> Int]
        /\ \A u \in Q : at[u] # None
    BY ScoreType
  <1>2. \A u, v \in Q : <<u, v>> \in PeriodOrder(d) <=>
          \/ time[u] * n[v] < time[v] * n[u]
          \/ /\ time[u] * n[v] = time[v] * n[u]
             /\ \/ count[u] * n[v] < count[v] * n[u]
                \/ /\ count[u] * n[v] = count[v] * n[u]
                   /\ at[u] < at[v]
    <2>1. Q \subseteq Users
      BY DEF Qualified
    <2>2. \A u \in Q : /\ scores(d)[u].days = n[u] /\ scores(d)[u].time = time[u]
                       /\ scores(d)[u].guesses = count[u] /\ scores(d)[u].earliest = at[u]
      BY <2>1 DEF scores
    <2> HIDE DEF Q, n, time, count, at
    <2>3. \A u, v \in Q : <<u, v>> \in PeriodOrder(d) <=> PeriodAhead(scores(d)[u], scores(d)[v])
      BY DEF PeriodOrder, Q
    <2>4. ASSUME NEW u \in Q, NEW v \in Q
          PROVE  PeriodAhead(scores(d)[u], scores(d)[v]) <=>
                   \/ time[u] * n[v] < time[v] * n[u]
                   \/ /\ time[u] * n[v] = time[v] * n[u]
                      /\ \/ count[u] * n[v] < count[v] * n[u]
                         \/ /\ count[u] * n[v] = count[v] * n[u]
                            /\ at[u] # None /\ (at[v] # None => at[u] < at[v])
      BY <2>2 DEF PeriodAhead, Before
    <2> QED
      BY <1>1, <2>3, <2>4
  <1>3. PeriodOrder(d) \subseteq Q \X Q
    BY DEF PeriodOrder
  <1> HIDE DEF Q, n, time, count, at
  <1>4. /\ StrictWeak(ByRatio(time, n, Q), Q) /\ StrictWeak(ByRatio(count, n, Q), Q)
        /\ StrictWeak(ByValue(at, Q), Q)
    BY <1>1, ValueOrder, RatioOrder
  <1>5. StrictWeak(order, Q)
    BY <1>4, ThenOrder
  <1>6. \A u, v \in Q : <<u, v>> \in order <=> <<u, v>> \in PeriodOrder(d)
    <2>1. ASSUME NEW u \in Q, NEW v \in Q
          PROVE  /\ time[u] * n[v] \in Int /\ time[v] * n[u] \in Int
                 /\ count[u] * n[v] \in Int /\ count[v] * n[u] \in Int
      <3>1. /\ time[u] \in Int /\ time[v] \in Int /\ count[u] \in Int /\ count[v] \in Int
            /\ n[u] \in Int /\ n[v] \in Int
        BY <1>1
      <3> QED
        BY <3>1
    <2>2. \A u, v \in Q : <<u, v>> \in order <=>
            \/ time[u] * n[v] < time[v] * n[u]
            \/ /\ ~(time[v] * n[u] < time[u] * n[v])
               /\ \/ count[u] * n[v] < count[v] * n[u]
                  \/ /\ ~(count[v] * n[u] < count[u] * n[v])
                     /\ at[u] < at[v]
      BY DEF Then, ByRatio, ByValue
    <2>3. \A a, b, c, e \in Int :
            /\ ~(b < a) <=> a < b \/ a = b
            /\ ~(e < c) <=> c < e \/ c = e
      OBVIOUS
    <2>4. ASSUME NEW u \in Q, NEW v \in Q
          PROVE  <<u, v>> \in order <=> <<u, v>> \in PeriodOrder(d)
      <3> DEFINE a == time[u] * n[v]  b == time[v] * n[u]
                 c == count[u] * n[v] e == count[v] * n[u]
      <3>1. a \in Int /\ b \in Int /\ c \in Int /\ e \in Int
        BY <2>1
      <3>2. <<u, v>> \in order <=>
              a < b \/ (~(b < a) /\ (c < e \/ (~(e < c) /\ at[u] < at[v])))
        BY <2>2
      <3>3. <<u, v>> \in PeriodOrder(d) <=>
              a < b \/ (a = b /\ (c < e \/ (c = e /\ at[u] < at[v])))
        BY <1>2
      <3> HIDE DEF a, b, c, e, order
      <3> QED
        BY <2>3, <3>1, <3>2, <3>3
    <2> QED
      BY <2>4
  <1>7. order = PeriodOrder(d)
    BY <1>3, <1>6 DEF Then
  <1> QED
    BY <1>5, <1>7 DEF Q

LEMMA PeriodRanksDense ==
  ASSUME TableInv, NEW d, NEW rank, rank = [u \in Qualified(d) |-> PeriodRank(d, u)]
  PROVE  /\ {rank[u] : u \in Qualified(d)} = 1..Cardinality({rank[u] : u \in Qualified(d)})
         /\ \A u, v \in Qualified(d) : rank[u] < rank[v] <=> <<u, v>> \in PeriodOrder(d)
  <1>1. Qualified(d) \in SUBSET Users /\ IsFiniteSet(Qualified(d))
    BY FiniteAssumption, FS_Subset DEF Qualified
  <1>2. rank = [u \in Qualified(d) |-> DenseRank(u, PeriodOrder(d))]
    BY DEF PeriodRank
  <1> QED
    BY <1>1, <1>2, PeriodOrdered, DenseRanks

-----------------------------------------------------------------------------
(* Scores, from the games alone *)

(* The period's first day is the last one its length divides. *)
LEMMA Multiple ==
  ASSUME NEW k \in Nat \ {0}, NEW d \in Nat, NEW q \in Nat, q * k <= d, d < q * k + k
  PROVE  d \div k = q /\ d % k = d - q * k
  <1> DEFINE r == d \div k
             e == d % k
  <1>0. \A a \in Int, b \in Int : b > 0 => a % b = a - b * (a \div b)
    BY Z3
  <1>1. /\ r \in Int /\ e \in Int /\ 0 <= e /\ e < k
        /\ e = d - k * r
    BY <1>0
  <1>2. ASSUME NEW a \in Int, NEW b \in Int, a < b PROVE a * k + k <= b * k
    <2>1. \A c \in Nat : 0 <= c * k
      OBVIOUS
    <2>2. b - a - 1 \in Nat /\ (b - a - 1) * k = b * k - a * k - k
      BY <1>2
    <2>3. 0 <= b * k - a * k - k /\ a * k \in Int /\ b * k \in Int
      BY <2>1, <2>2
    <2> QED
      BY <2>3
  <1> HIDE DEF r, e
  <1>3. r \in Int /\ q \in Int /\ r * k \in Int /\ q * k \in Int /\ k \in Int
    BY <1>1
  <1>4. e = d - r * k
    BY <1>1
  <1>5. r * k <= d /\ d < r * k + k
    BY <1>1, <1>3, <1>4
  <1>6. ~(r < q)
    BY <1>2, <1>3, <1>5
  <1>7. ~(q < r)
    BY <1>2, <1>3, <1>5
  <1>8. r = q
    BY <1>3, <1>6, <1>7
  <1> QED
    BY <1>4, <1>8 DEF r, e

LEMMA PeriodFrom ==
  ASSUME NEW date \in Nat, NEW t \in Nat, date <= t
  PROVE  FrameStart(t) <= date <=> \A d \in (date + 1)..t : d % PeriodDays # 0
  <1> DEFINE k == PeriodDays
             q == t \div k
             m == q * k
  <1>0. k \in Nat \ {0}
    BY BoardAssumption
  <1> HIDE DEF k
  <1>1. q \in Nat /\ m \in Nat /\ m <= t /\ t < m + k
    BY <1>0
  <1>2. FrameStart(t) = m
    BY DEF FrameStart, k
  <1> HIDE DEF q
  <1>3. m % k = 0
    <2>1. m <= m /\ m < m + k
      BY <1>0, <1>1
    <2>2. m % k = m - m
      BY <1>0, <1>1, <2>1, Multiple
    <2> QED
      BY <1>1, <2>2
  <1>4. ASSUME NEW d \in (m + 1)..t PROVE d % k # 0
    <2>1. d \in Nat /\ m <= d /\ d < m + k /\ m < d
      BY <1>0, <1>1
    <2>2. d % k = d - m
      BY <1>0, <1>1, <2>1, Multiple
    <2> QED
      BY <1>1, <2>1, <2>2
  <1> HIDE DEF m
  <1>5. CASE m <= date
    <2>1. \A d \in (date + 1)..t : d \in (m + 1)..t
      BY <1>1, <1>5
    <2> QED
      BY <1>2, <1>4, <1>5, <2>1 DEF k
  <1>6. CASE ~(m <= date)
    <2>1. m \in (date + 1)..t
      BY <1>1, <1>6
    <2> QED
      BY <1>2, <1>3, <1>6, <2>1 DEF k
  <1> QED
    BY <1>5, <1>6

(* The terms of ScoresByDefinition. *)
Solvers(p) == {v \in Users : games[p][v].status = "COMPLETED"}

InPeriod(date) == date <= today /\ \A d \in (date + 1)..today : d % PeriodDays # 0

eligible ==
  {p \in Puzzles : IsFinalized(p) /\ InPeriod(dailyPuzzles[p].date) /\ Solvers(p) # {}}

dailyScore(p, u) ==
  IF u \in Solvers(p) THEN games[p][u].completionTime
  ELSE FrozenOf(CompletionTimes(games[p])).penalty

mine(u) == eligible \cup {p \in PuzzlesOn(today) : u \in Solvers(p)}

LEMMA DateType ==
  ASSUME TableInv, NEW p \in Puzzles
  PROVE  dailyPuzzles[p].date \in Nat /\ today \in Nat
  <1>1. now \in Time /\ dailyPuzzles[p].date \in Dates
    BY DEF TableInv, TablesType, PuzzleRow
  <1>2. \A t \in Time : ManilaDate(t) \in Nat
    BY BoundsAssumption DEF ManilaDate, Time
  <1> QED
    BY <1>1, <1>2, BoundsAssumption DEF Dates, today

(* The finalized days of the frame are the eligible ones. *)
LEMMA FrameIsEligible ==
  ASSUME TableInv, NEW p \in Puzzles, IsFinalized(p)
  PROVE  /\ p \in Frame(today) <=> p \in eligible
         /\ dailyPuzzles[p].date # today
  <1>1. dailyPuzzles[p].date \in Nat /\ today \in Nat /\ dailyPuzzles[p].date < today
    BY DateType, FinalizedBeforeToday
  <1>2. FrameStart(today) <= dailyPuzzles[p].date <=> InPeriod(dailyPuzzles[p].date)
    BY <1>1, PeriodFrom DEF InPeriod
  <1>3. frozen[p].average # None <=> Solvers(p) # {}
    BY FrozenType, NamesAssumption DEF Solvers
  <1>4. IsRow(dailyPuzzles[p])
    BY DEF IsFinalized, IsRow
  <1> QED
    BY <1>1, <1>2, <1>3, <1>4 DEF Frame, eligible

LEMMA ScoredDaysAreMine ==
  ASSUME TableInv, NEW u \in Users
  PROVE  ScoredDays(today, u) = mine(u)
  <1>1. ASSUME NEW p \in Puzzles, IsFinalized(p)
        PROVE  p \in ScoredDays(today, u) <=> p \in mine(u)
    <2>1. p \in Frame(today) <=> p \in eligible
      BY <1>1, FrameIsEligible
    <2>2. p \notin PuzzlesOn(today)
      BY <1>1, FrameIsEligible DEF PuzzlesOn
    <2>3. p \in eligible => frozen[p].penalty \in Int
      BY <1>1, FrozenType DEF eligible, Solvers
    <2>4. Counted(games[p][u]) => games[p][u].completionTime \in Int
      BY TimeType DEF TableInv, TablesType
    <2>5. p \in eligible => DayTime(p, u) # None
      BY <1>1, <2>3, <2>4, NamesAssumption DEF DayTime
    <2> QED
      BY <2>1, <2>2, <2>5 DEF ScoredDays, mine
  <1>2. ASSUME NEW p \in Puzzles, ~IsFinalized(p)
        PROVE  p \in ScoredDays(today, u) <=> p \in mine(u)
    <2>1. dailyPuzzles[p].date \in Nat /\ today \in Nat
      BY DateType
    <2>2. FrameStart(today) <= today
      BY <2>1, PeriodFrom
    <2>3. p \in Frame(today) <=> p \in PuzzlesOn(today)
      BY <1>2, <2>1, <2>2 DEF Frame, PuzzlesOn
    <2>4. p \notin eligible
      BY <1>2 DEF eligible
    <2>5. Counted(games[p][u]) => games[p][u].completionTime \in Int
      BY TimeType DEF TableInv, TablesType
    <2>6. DayTime(p, u) # None <=> u \in Solvers(p)
      BY <1>2, <2>5, NamesAssumption DEF DayTime, Counted, Solvers
    <2> QED
      BY <2>3, <2>4, <2>6 DEF ScoredDays, mine
  <1>3. ScoredDays(today, u) \subseteq Puzzles /\ mine(u) \subseteq Puzzles
    BY DEF ScoredDays, Frame, mine, eligible, PuzzlesOn
  <1> QED
    BY <1>1, <1>2, <1>3

(* What a day adds is the time of the game, or the frozen penalty, which   *)
(* is that of the games of the day.                                        *)
LEMMA DayScores ==
  ASSUME TableInv, NEW u \in Users, NEW p \in mine(u)
  PROVE  /\ DayTime(p, u) = dailyScore(p, u)
         /\ DayGuesses(p, u) = IF u \in Solvers(p) THEN games[p][u].guessCount ELSE MaxGuesses
  <1>1. p \in Puzzles /\ (u \in Solvers(p) <=> Counted(games[p][u]))
    BY DEF mine, eligible, PuzzlesOn, Solvers, Counted
  <1>2. u \notin Solvers(p) => IsFinalized(p)
    BY DEF mine, eligible
  <1>3. IsFinalized(p) => frozen[p] = FrozenOf(CompletionTimes(games[p]))
    BY <1>1 DEF IsFinalized, TableInv, FinalInv, FrozenMatchesGames
  <1> QED
    BY <1>1, <1>2, <1>3 DEF DayTime, DayGuesses, dailyScore

(* A completion lies within the day of its puzzle. *)
LEMMA CompletedOnItsDay ==
  ASSUME TableInv, NEW p \in Puzzles, NEW u \in Users, games[p][u].status = "COMPLETED"
  PROVE  /\ games[p][u].completedAt \in Nat
         /\ dailyPuzzles[p].date * DayTicks <= games[p][u].completedAt
         /\ games[p][u].completedAt < (dailyPuzzles[p].date + 1) * DayTicks
  <1>1. PICK g \in guesses[p][u] : g.at = games[p][u].completedAt
    BY DEF TableInv, GameInv, PlayedWithinTheDay
  <1>2. /\ games[p][u].startedAt <= g.at /\ g.at < dailyPuzzles[p].expiresAt
        /\ ManilaDate(games[p][u].startedAt) = dailyPuzzles[p].date
    BY DEF TableInv, GameInv, PlayedWithinTheDay
  <1>3. g.at \in Time /\ games[p][u].startedAt \in Time /\ dailyPuzzles[p].date \in Dates
    BY DEF TableInv, TablesType, GuessRow, GameRow, PuzzleRow
  <1>4. dailyPuzzles[p].expiresAt = ExpiresAt(dailyPuzzles[p].date)
    BY DEF TableInv, ScheduleInv, PlayedPuzzleKept, SoundSchedule, IsRow
  <1>5. \A t \in Nat, k \in Nat \ {0} : (t \div k) * k <= t
    OBVIOUS
  <1>6. dailyPuzzles[p].date * DayTicks <= games[p][u].startedAt
    BY <1>2, <1>3, <1>5, BoundsAssumption DEF ManilaDate, Time
  <1>7. /\ g.at \in Nat /\ games[p][u].startedAt \in Nat
        /\ dailyPuzzles[p].date * DayTicks \in Nat
    BY <1>3, BoundsAssumption DEF Time, Dates
  <1> QED
    BY <1>1, <1>2, <1>4, <1>6, <1>7 DEF ExpiresAt

(* The first completion of a qualified user is on a finalized day: theirs  *)
(* of today comes after all of those.                                      *)
LEMMA FirstCompletion ==
  ASSUME TableInv, TimedWhenCompleted, NEW u \in Qualified(today)
  PROVE  \E p \in eligible :
           u \in Solvers(p) /\ games[p][u].completedAt = scored(today, u).earliest
  <1>0. u \in Users
    BY DEF Qualified
  <1>1. /\ Completions(today, u) \subseteq Nat /\ Completions(today, u) # {}
        /\ scored(today, u).earliest = Min(Completions(today, u))
    BY ScoreType
  <1>2. /\ Min(Completions(today, u)) \in Completions(today, u)
        /\ \A t \in Completions(today, u) : Min(Completions(today, u)) <= t
    BY <1>1, LeastNumber
  <1>3. PICK p \in Frame(today) :
          /\ games[p][u].completedAt = Min(Completions(today, u))
          /\ games[p][u].completedAt # None
    BY <1>2 DEF Completions, NotNull
  <1>4. p \in Puzzles /\ games[p][u].status = "COMPLETED"
    BY <1>0, <1>3 DEF Frame, TimedWhenCompleted
  <1>5. IsFinalized(p)
    <2> SUFFICES ASSUME ~IsFinalized(p) PROVE FALSE
      OBVIOUS
    <2>1. dailyPuzzles[p].date = today
      BY DEF Frame
    <2>2. PICK q \in CompletedDays(today, u) : TRUE
      BY <1>0, QualifiedBy, FS_EmptySet, BoardAssumption
    <2>3. q \in Puzzles /\ q \in Frame(today) /\ IsFinalized(q) /\ games[q][u].status = "COMPLETED"
      BY DEF CompletedDays, Frame, Counted
    <2>4. dailyPuzzles[q].date < today /\ dailyPuzzles[q].date \in Nat /\ today \in Nat
      BY <2>3, FinalizedBeforeToday, DateType
    <2>5. /\ games[q][u].completedAt \in Nat /\ games[p][u].completedAt \in Nat
          /\ games[q][u].completedAt < (dailyPuzzles[q].date + 1) * DayTicks
          /\ today * DayTicks <= games[p][u].completedAt
      BY <1>0, <1>4, <2>1, <2>3, CompletedOnItsDay
    <2>6. (dailyPuzzles[q].date + 1) * DayTicks <= today * DayTicks
      <3>1. \A a \in Nat, b \in Nat, k \in Nat : a < b => (a + 1) * k <= b * k
        <4> TAKE a \in Nat, b \in Nat, k \in Nat
        <4> HAVE a < b
        <4>1. b - a - 1 \in Nat
          OBVIOUS
        <4>2. 0 <= (b - a - 1) * k
          BY <4>1
        <4>3. (b - a - 1) * k = b * k - (a + 1) * k
          OBVIOUS
        <4>4. b * k \in Int /\ (a + 1) * k \in Int
          OBVIOUS
        <4> QED
          BY <4>2, <4>3, <4>4
      <3> QED
        BY <2>4, <3>1, BoundsAssumption
    <2>7. games[q][u].completedAt \in Completions(today, u)
      BY <2>3, <2>5, NamesAssumption DEF Completions, NotNull
    <2>8. games[p][u].completedAt <= games[q][u].completedAt
      BY <1>2, <1>3, <2>7
    <2>9. /\ (dailyPuzzles[q].date + 1) * DayTicks \in Int
          /\ today * DayTicks \in Int
      BY <2>4, BoundsAssumption
    <2> QED
      BY <2>5, <2>6, <2>8, <2>9
  <1>6. p \in eligible
    BY <1>3, <1>4, <1>5, FrameIsEligible
  <1> QED
    BY <1>0, <1>1, <1>3, <1>4, <1>6 DEF Solvers

(* The fields of a score are what the games give. *)
LEMMA ScoreFields ==
  ASSUME TableInv, NEW u \in Users
  PROVE  /\ scored(today, u).days = Cardinality(mine(u))
         /\ mine(u) # {} =>
              scored(today, u).time = SumFunction([p \in mine(u) |-> dailyScore(p, u)])
         /\ scored(today, u).guesses = SumFunction(
              [p \in mine(u) |-> IF u \in Solvers(p) THEN games[p][u].guessCount ELSE MaxGuesses])
  <1>1. ScoredDays(today, u) = mine(u)
    BY ScoredDaysAreMine
  <1>2. [p \in mine(u) |-> DayTime(p, u)] = [p \in mine(u) |-> dailyScore(p, u)]
    BY DayScores
  <1>3. [p \in mine(u) |-> DayGuesses(p, u)]
          = [p \in mine(u) |-> IF u \in Solvers(p) THEN games[p][u].guessCount ELSE MaxGuesses]
    BY DayScores
  <1>4. /\ mine(u) # {} =>
             scored(today, u).time = SumFunction([p \in mine(u) |-> DayTime(p, u)])
        /\ scored(today, u).guesses = SumFunction([p \in mine(u) |-> DayGuesses(p, u)])
    BY <1>1 DEF scored, ScoredDays
  <1> QED
    BY <1>1, <1>2, <1>3, <1>4, ScoredFields

-----------------------------------------------------------------------------
(* Theorems *)

(* The week and month boards score what dailyScore says: finalized days    *)
(* somebody completed and today's completed game, with the game's time or  *)
(* the average of the day's completions plus the penalty.                  *)
THEOREM ScoresAreDefined == Spec => []ScoresByDefinition
  <1>1. ASSUME TableInv, TimedWhenCompleted PROVE ScoresByDefinition
    <2>1. \A u \in Users : scores(today)[u] = scored(today, u)
      BY DEF scores
    <2>2. \A u \in Users :
            /\ scores(today)[u].days = Cardinality(mine(u))
            /\ mine(u) # {} =>
                 scores(today)[u].time = SumFunction([p \in mine(u) |-> dailyScore(p, u)])
            /\ scores(today)[u].guesses = SumFunction(
                 [p \in mine(u) |-> IF u \in Solvers(p) THEN games[p][u].guessCount ELSE MaxGuesses])
      BY <1>1, <2>1, ScoreFields
    <2>3. \A u \in Users : u \in Qualified(today) =>
            \E p \in eligible :
              u \in Solvers(p) /\ games[p][u].completedAt = scores(today)[u].earliest
      BY <1>1, <2>1, FirstCompletion
    <2> QED
      BY <2>2, <2>3
      DEF ScoresByDefinition, Solvers, InPeriod, eligible, dailyScore, mine
  <1> QED
    BY <1>1, BoardCorrect, PTL

(* Ranks are 1..n without gaps, and better exactly for better results, on  *)
(* the boards of a day and of a period.                                    *)
THEOREM DenseBoards == Spec => []RanksAreDense
  <1>1. ASSUME TableInv PROVE RanksAreDense
    <2> DEFINE Dense(Q, rank, order) ==
          /\ {rank[u] : u \in Q} = 1..Cardinality({rank[u] : u \in Q})
          /\ \A u, v \in Q : rank[u] < rank[v] <=> <<u, v>> \in order
    <2>1. ASSUME NEW d
          PROVE  Dense(SolvedOn(d), [u \in SolvedOn(d) |-> DayRank(d, u)], DayOrder(d))
      <3> DEFINE rank == [u \in SolvedOn(d) |-> DayRank(d, u)]
      <3> HIDE DEF rank
      <3>1. Dense(SolvedOn(d), rank, DayOrder(d))
        BY <1>1, DayRanksDense DEF rank
      <3> QED
        BY <3>1 DEF rank
    <2>2. Dense(Qualified(today), [u \in Qualified(today) |-> PeriodRank(today, u)],
                PeriodOrder(today))
      <3> DEFINE rank == [u \in Qualified(today) |-> PeriodRank(today, u)]
      <3> HIDE DEF rank
      <3>1. Dense(Qualified(today), rank, PeriodOrder(today))
        BY <1>1, PeriodRanksDense DEF rank
      <3> QED
        BY <3>1 DEF rank
    <2> HIDE DEF Dense
    <2>3. /\ \A d \in {today, today - 1} :
               Dense(SolvedOn(d), [u \in SolvedOn(d) |-> DayRank(d, u)], DayOrder(d))
          /\ Dense(Qualified(today), [u \in Qualified(today) |-> PeriodRank(today, u)],
                   PeriodOrder(today))
      BY <2>1, <2>2
    <2> QED
      BY <2>3 DEF RanksAreDense, Dense
  <1> QED
    BY <1>1, TablesCorrect, PTL

(* Whoever is on a day's board stays on it, and their rank only gets       *)
(* worse, whatever is played, settled or administered.                     *)
THEOREM RankOnlyWorsens == Spec => DayRankOnlyWorsens
  <1>1. ASSUME TableInv, TableInv', [Next]_vars
        PROVE  \A d \in Dates : \A u \in SolvedOn(d) :
                 u \in SolvedOn(d)' /\ DayRank(d, u) <= DayRank(d, u)'
    BY <1>1, DayRankStep
  <1> QED
    BY <1>1, TablesCorrect, PTL DEF Spec, DayRankOnlyWorsens

(* Who qualifies for a week or month stays qualified until it is over.     *)
THEOREM OnceQualified == Spec => QualificationKept
  <1>1. ASSUME TableInv, TableInv', [Next]_vars
        PROVE  FrameStart(today)' = FrameStart(today) =>
                 Qualified(today) \subseteq Qualified(today)'
    BY <1>1, QualificationStep
  <1> QED
    BY <1>1, TablesCorrect, PTL DEF Spec, QualificationKept

-----------------------------------------------------------------------------
(* The boards a browser has cached *)

(* What a query holds, and what it has asked for, is of its own period or  *)
(* of a fetch that was paused while the browser was offline.               *)
Own(k, asked, paused) == asked = k \/ paused = TRUE

Asks == Cache!Periods \cup {"tab", Nothing}
Queries ==
  [data: [period: Asks, paused: BOOLEAN] \cup {Nothing}, fresh: BOOLEAN, failed: BOOLEAN,
   pc: {"none", "paused", "sent", "waiting"}, tries: {0, 1, 2}, asks: Asks, paused: BOOLEAN,
   reads: Asks]

QuerySound(k, q) ==
  /\ q \in Queries
  /\ q.data # Nothing => Own(k, q.data.period, q.data.paused)
  /\ q.pc = "paused" => q.paused = TRUE
  /\ q.pc \in {"sent", "waiting"} => Own(k, q.asks, q.paused)

(* The query a page observes has the queryFn of the page, which asks for   *)
(* the period of the query while the page observes it.                     *)
ReadsOf(p) == IF p = "play" THEN "today" ELSE "tab"

CacheInv ==
  /\ cachePage \in {"play", "board"} /\ cacheTab \in Cache!Periods /\ cacheOnline \in BOOLEAN
  /\ cacheQuery = [k \in Cache!Periods |-> cacheQuery[k]]
  /\ \A k \in Cache!Periods : QuerySound(k, cacheQuery[k])
  /\ cacheQuery[Cache!Observed(cachePage, cacheTab)].reads = ReadsOf(cachePage)

LEMMA QueryFresh ==
  ASSUME NEW k, NEW r \in Asks
  PROVE  QuerySound(k, [Cache!NoQuery EXCEPT !.reads = r])
  BY DEF QuerySound, Queries, Asks, Cache!NoQuery

(* Of a query that changes, the queryFn is the one given, or stays.        *)
LEMMA ReadsAre ==
  ASSUME NEW q \in Queries
  PROVE  /\ \A r \in Asks : [q EXCEPT !.reads = r].reads = r
         /\ [q EXCEPT !.pc = "waiting"].reads = q.reads
         /\ [q EXCEPT !.fresh = FALSE].reads = q.reads
         /\ \A a : [q EXCEPT !.pc = "sent", !.asks = a].reads = q.reads
         /\ \A a : [q EXCEPT !.pc = "sent", !.tries = 2, !.asks = a].reads = q.reads
  BY DEF Queries

(* A queryFn given anew, and what happens to a fetch under way, leave a    *)
(* query sound.                                                            *)
LEMMA QueryMoves ==
  ASSUME NEW k, NEW q, QuerySound(k, q), cacheTab \in Cache!Periods
  PROVE  /\ \A r \in Asks : QuerySound(k, [q EXCEPT !.reads = r])
         /\ QuerySound(k, Cache!Unobserved(q))
         /\ q.pc = "sent" => QuerySound(k, Cache!Answered(q))
         /\ q.pc = "sent" => QuerySound(k, [q EXCEPT !.pc = "waiting"])
         /\ QuerySound(k, Cache!Failed(q))
         /\ QuerySound(k, [q EXCEPT !.fresh = FALSE])
         /\ q.pc = "paused" =>
              QuerySound(k, [q EXCEPT !.pc = "sent", !.asks = Cache!Asked(q, cacheTab)])
  <1> USE DEF QuerySound, Queries
  <1>1. \A r \in Asks : QuerySound(k, [q EXCEPT !.reads = r])
    OBVIOUS
  <1>2. QuerySound(k, Cache!Unobserved(q))
    BY DEF Cache!Unobserved
  <1>3. q.pc = "sent" => QuerySound(k, Cache!Answered(q))
    BY DEF Cache!Answered, Cache!NoQuery, Asks
  <1>4. q.pc = "sent" => QuerySound(k, [q EXCEPT !.pc = "waiting"])
    OBVIOUS
  <1>5. QuerySound(k, Cache!Failed(q))
    BY DEF Cache!Failed, Cache!NoQuery, Asks
  <1>6. QuerySound(k, [q EXCEPT !.fresh = FALSE])
    OBVIOUS
  <1>7. q.pc = "paused" =>
          QuerySound(k, [q EXCEPT !.pc = "sent", !.asks = Cache!Asked(q, cacheTab)])
    BY DEF Cache!Asked, Asks, Own
  <1> QED
    BY <1>1, <1>2, <1>3, <1>4, <1>5, <1>6, <1>7

(* A fetch made for the page that observes a query asks for its period,    *)
(* unless it is paused.                                                    *)
LEMMA QueryFetches ==
  ASSUME NEW p \in {"play", "board"}, NEW t \in Cache!Periods, cacheOnline \in BOOLEAN,
         NEW q, QuerySound(Cache!Observed(p, t), q), q.reads = ReadsOf(p)
  PROVE  /\ Cache!Asked(q, t) = Cache!Observed(p, t)
         /\ QuerySound(Cache!Observed(p, t), Cache!Fetch(q, t))
         /\ QuerySound(Cache!Observed(p, t), Cache!Looked(q, t))
         /\ QuerySound(Cache!Observed(p, t),
                       [q EXCEPT !.pc = "sent", !.tries = 2, !.asks = Cache!Asked(q, t)])
  <1> DEFINE k == Cache!Observed(p, t)
  <1>0. k \in Cache!Periods
    BY DEF Cache!Observed, Cache!Periods
  <1>1. Cache!Asked(q, t) = k
    BY DEF Cache!Asked, Cache!Observed, ReadsOf
  <1> HIDE DEF k
  <1>2. QuerySound(k, Cache!Fetch(q, t))
    BY <1>0, <1>1 DEF k, Cache!Fetch, QuerySound, Queries, Asks, Own
  <1>3. QuerySound(k, Cache!Looked(q, t))
    BY <1>2 DEF k, Cache!Looked
  <1>4. QuerySound(k, [q EXCEPT !.pc = "sent", !.tries = 2, !.asks = Cache!Asked(q, t)])
    BY <1>0, <1>1 DEF k, QuerySound, Queries, Asks, Own
  <1> QED
    BY <1>1, <1>2, <1>3, <1>4 DEF k

(* A change of page, tab or game changes the queryFns first, so that a     *)
(* fetch it begins asks for the period of its query.                       *)
LEMMA LookStep ==
  ASSUME CacheInv, cacheOnline' = cacheOnline,
         NEW p \in {"play", "board"}, NEW t \in Cache!Periods, NEW g, Cache!Look(p, t, g)
  PROVE  CacheInv'
  <1> DEFINE seen == Cache!Observed(p, t)
             read(k) == [cacheQuery[k] EXCEPT !.reads = Cache!Reads(k, p, seen)]
  <1>1. seen \in Cache!Periods /\ Cache!Reads(seen, p, seen) = ReadsOf(p)
    BY DEF Cache!Observed, Cache!Periods, Cache!Reads, ReadsOf
  <1>2. ASSUME NEW k \in Cache!Periods PROVE Cache!Reads(k, p, seen) \in Asks
    BY DEF CacheInv, QuerySound, Queries, Asks, Cache!Reads, Cache!Periods
  <1>3. ASSUME NEW k \in Cache!Periods
        PROVE  QuerySound(k, read(k)) /\ read(k).reads = Cache!Reads(k, p, seen)
    BY <1>2, QueryMoves, ReadsAre DEF CacheInv, QuerySound
  <1>4. ASSUME NEW k \in Cache!Periods PROVE QuerySound(k, Cache!Unobserved(read(k)))
    BY <1>3, QueryMoves DEF CacheInv
  <1>5. QuerySound(seen, Cache!Looked(read(seen), t)) /\ Cache!Looked(read(seen), t).reads = ReadsOf(p)
    <2>1. QuerySound(seen, Cache!Looked(read(seen), t))
      BY <1>1, <1>3, QueryFetches DEF CacheInv
    <2>2. read(seen) \in Queries
      BY <1>1, <1>3 DEF QuerySound
    <2> QED
      BY <1>1, <1>3, <2>1, <2>2 DEF Cache!Looked, Cache!Fetch, Queries
  <1>6. /\ cachePage' = p /\ cacheTab' = t
        /\ \E begins \in BOOLEAN :
             cacheQuery' = [k \in Cache!Periods |->
               CASE k = seen /\ begins -> Cache!Looked(read(k), t)
                 [] k # seen /\ k = Cache!Observed(cachePage, cacheTab) -> Cache!Unobserved(read(k))
                 [] OTHER -> read(k)]
    BY Zenon DEF Cache!Look
  <1> HIDE DEF seen, read
  <1>7. /\ cacheQuery' = [k \in Cache!Periods |-> cacheQuery'[k]]
        /\ \A k \in Cache!Periods : QuerySound(k, cacheQuery'[k])
        /\ cacheQuery'[seen].reads = ReadsOf(p)
    BY <1>1, <1>3, <1>4, <1>5, <1>6
  <1> QED
    BY <1>6, <1>7 DEF CacheInv, seen, Cache!Observed

LEMMA CacheStep == CacheInv /\ [Cache!Next]_(Cache!vars) => CacheInv'
  <1> SUFFICES ASSUME CacheInv, [Cache!Next]_(Cache!vars) PROVE CacheInv'
    OBVIOUS
  <1>0. /\ cachePage \in {"play", "board"} /\ cacheTab \in Cache!Periods /\ cacheOnline \in BOOLEAN
        /\ cacheQuery = [k \in Cache!Periods |-> cacheQuery[k]]
        /\ \A k \in Cache!Periods : QuerySound(k, cacheQuery[k])
        /\ cacheQuery[Cache!Observed(cachePage, cacheTab)].reads = ReadsOf(cachePage)
    BY DEF CacheInv
  <1>1. ASSUME NEW k \in Cache!Periods, NEW q, QuerySound(k, q),
               k = Cache!Observed(cachePage, cacheTab) => q.reads = cacheQuery[k].reads,
               cacheQuery' = [cacheQuery EXCEPT ![k] = q],
               cachePage' = cachePage, cacheTab' = cacheTab, cacheOnline' = cacheOnline
        PROVE  CacheInv'
    <2>1. Cache!Observed(cachePage', cacheTab') = Cache!Observed(cachePage, cacheTab)
      BY <1>1
    <2> QED
      BY <1>0, <1>1, <2>1 DEF CacheInv, Cache!Observed, Cache!Periods
  <1>2. CASE Cache!GameArrives \/ Cache!Solve \/ Cache!GoToBoard \/ Cache!GoToPlay
    BY <1>0, <1>2, LookStep
    DEF Cache!GameArrives, Cache!Solve, Cache!GoToBoard, Cache!GoToPlay, Cache!Periods
  <1>3. ASSUME NEW t \in Cache!Periods, Cache!SelectTab(t) PROVE CacheInv'
    BY <1>0, <1>3, LookStep DEF Cache!SelectTab
  <1>4. ASSUME NEW k \in Cache!Periods, Cache!Refetch(k) PROVE CacheInv'
    <2>1. k = Cache!Observed(cachePage, cacheTab)
      BY <1>4, PagesAssumption DEF Cache!Refetch, Cache!Wants, Cache!CacheAssumption
    <2>2. QuerySound(k, Cache!Fetch(cacheQuery[k], cacheTab))
      BY <1>0, <2>1, QueryFetches
    <2>3. Cache!Fetch(cacheQuery[k], cacheTab).reads = cacheQuery[k].reads
      BY <1>0 DEF Cache!Fetch, QuerySound, Queries
    <2> QED
      BY <1>1, <1>4, <2>2, <2>3 DEF Cache!Refetch, Cache!Elsewhere
  <1>5. CASE Cache!GoOffline
    BY <1>0, <1>5 DEF Cache!GoOffline, CacheInv, Cache!Observed
  <1>6. CASE Cache!GoOnline
    <2> DEFINE sent(k) == [cacheQuery[k] EXCEPT !.pc = "sent",
                                         !.asks = Cache!Asked(cacheQuery[k], cacheTab)]
    <2>1. ASSUME NEW k \in Cache!Periods, cacheQuery[k].pc = "paused"
          PROVE  QuerySound(k, sent(k)) /\ sent(k).reads = cacheQuery[k].reads
      BY <1>0, <2>1, QueryMoves, ReadsAre DEF QuerySound
    <2>2. /\ cachePage' = cachePage /\ cacheTab' = cacheTab /\ cacheOnline' = TRUE
          /\ cacheQuery' = [k \in Cache!Periods |->
               IF cacheQuery[k].pc = "paused" THEN sent(k) ELSE cacheQuery[k]]
      BY <1>6 DEF Cache!GoOnline
    <2> HIDE DEF sent
    <2>3. Cache!Observed(cachePage, cacheTab) \in Cache!Periods
      BY <1>0 DEF Cache!Observed, Cache!Periods
    <2> QED
      BY <1>0, <2>1, <2>2, <2>3 DEF CacheInv, Cache!Observed
  <1>7. ASSUME NEW k \in Cache!Periods, Cache!Arrive(k) PROVE CacheInv'
    <2>1. QuerySound(k, Cache!Answered(cacheQuery[k]))
      BY <1>0, <1>7, QueryMoves DEF Cache!Arrive
    <2>2. Cache!Answered(cacheQuery[k]).reads = cacheQuery[k].reads
      BY DEF Cache!Answered, Cache!NoQuery
    <2> QED
      BY <1>1, <1>7, <2>1, <2>2 DEF Cache!Arrive, Cache!Elsewhere
  <1>8. ASSUME NEW k \in Cache!Periods
        PROVE  /\ QuerySound(k, Cache!Failed(cacheQuery[k]))
               /\ Cache!Failed(cacheQuery[k]).reads = cacheQuery[k].reads
    BY <1>0, QueryMoves DEF Cache!Failed, Cache!NoQuery
  <1>9. ASSUME NEW k \in Cache!Periods, Cache!AttemptFails(k) PROVE CacheInv'
    <2> DEFINE waiting == [cacheQuery[k] EXCEPT !.pc = "waiting"]
    <2>1. QuerySound(k, waiting) /\ waiting.reads = cacheQuery[k].reads
      BY <1>0, <1>9, QueryMoves, ReadsAre DEF Cache!AttemptFails, QuerySound
    <2>2. /\ \E q \in {waiting, Cache!Failed(cacheQuery[k])} :
               cacheQuery' = [cacheQuery EXCEPT ![k] = q]
          /\ cachePage' = cachePage /\ cacheTab' = cacheTab /\ cacheOnline' = cacheOnline
      BY <1>9 DEF Cache!AttemptFails, Cache!Elsewhere
    <2> HIDE DEF waiting
    <2> QED
      BY <1>1, <1>8, <2>1, <2>2
  <1>10. ASSUME NEW k \in Cache!Periods, Cache!Retry(k) PROVE CacheInv'
    <2> DEFINE again == [cacheQuery[k] EXCEPT !.pc = "sent", !.tries = 2,
                                       !.asks = Cache!Asked(cacheQuery[k], cacheTab)]
    <2>1. ASSUME Cache!Retried(k)
          PROVE  QuerySound(k, again) /\ again.reads = cacheQuery[k].reads
      <3>1. k = Cache!Observed(cachePage, cacheTab)
        BY <2>1, PagesAssumption DEF Cache!Retried, Cache!Wants, Cache!CacheAssumption
      <3>2. cacheQuery[k] \in Queries
        BY <1>0 DEF QuerySound
      <3> QED
        BY <1>0, <3>1, <3>2, QueryFetches DEF Queries
    <2>2. /\ \/ Cache!Retried(k) /\ cacheQuery' = [cacheQuery EXCEPT ![k] = again]
             \/ cacheQuery' = [cacheQuery EXCEPT ![k] = Cache!Failed(cacheQuery[k])]
          /\ cachePage' = cachePage /\ cacheTab' = cacheTab /\ cacheOnline' = cacheOnline
      BY <1>0, <1>10 DEF Cache!Retry, Cache!Elsewhere
    <2> HIDE DEF again
    <2> QED
      BY <1>1, <1>8, <2>1, <2>2
  <1>11. ASSUME NEW k \in Cache!Periods, Cache!Stale(k) PROVE CacheInv'
    <2> DEFINE stale == [cacheQuery[k] EXCEPT !.fresh = FALSE]
    <2>1. QuerySound(k, stale) /\ stale.reads = cacheQuery[k].reads
      BY <1>0, QueryMoves, ReadsAre DEF QuerySound
    <2>2. /\ cacheQuery' = [cacheQuery EXCEPT ![k] = stale]
          /\ cachePage' = cachePage /\ cacheTab' = cacheTab /\ cacheOnline' = cacheOnline
      BY <1>0, <1>11 DEF Cache!Stale, Cache!Elsewhere
    <2> HIDE DEF stale
    <2> QED
      BY <1>1, <2>1, <2>2
  <1>12. ASSUME NEW k \in Cache!Periods, Cache!Collect(k) PROVE CacheInv'
    <2>1. QuerySound(k, Cache!NoQuery)
      BY DEF QuerySound, Queries, Asks, Cache!NoQuery
    <2> QED
      BY <1>1, <1>12, <2>1 DEF Cache!Collect, Cache!Elsewhere
  <1>13. CASE UNCHANGED Cache!vars
    BY <1>0, <1>13 DEF Cache!vars, CacheInv, Cache!Observed
  <1> QED
    BY <1>2, <1>3, <1>4, <1>5, <1>6, <1>7, <1>9, <1>10, <1>11, <1>12, <1>13 DEF Cache!Next

(* A tab of the leaderboard page, and the result block of the play page,   *)
(* show a board of their own period, in spite of queryFns that read the    *)
(* tab when they run: whatever page fetches or retries has that tab        *)
(* selected, unless the fetch was paused while the browser was offline.    *)
THEOREM TabsKeepApart == Cache!Spec => []BoardIsOfItsTab
  <1>1. Cache!Init => CacheInv
    <2> SUFFICES ASSUME Cache!Init PROVE CacheInv
      OBVIOUS
    <2>1. ASSUME NEW k \in Cache!Periods
          PROVE  /\ QuerySound(k, cacheQuery[k])
                 /\ cacheQuery["today"].reads = "today"
      BY QueryFresh DEF Cache!Init, Cache!Periods, Asks, Cache!NoQuery
    <2> QED
      BY <2>1 DEF Cache!Init, CacheInv, Cache!Periods, Cache!Observed, ReadsOf
  <1>2. CacheInv => BoardIsOfItsTab
    BY DEF BoardIsOfItsTab, CacheInv, QuerySound, Own, Cache!BoardIsOfItsTab, Cache!Shown,
           Cache!Observed, Cache!Periods
  <1> QED
    BY <1>1, <1>2, CacheStep, PTL DEF Cache!Spec
=============================================================================
