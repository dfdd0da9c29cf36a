------------------------- MODULE WalkForwardProofs -------------------------
(* The walk-forward backtest, proved for every universe, portfolio size,     *)
(* calendar and price history: no decision reads the future, the buffer is   *)
(* honoured and leaves the portfolio full, and the NAV replayed from the     *)
(* trade log is what the loop's own positions and cash are worth.            *)
EXTENDS WalkForward, SumsAndSeries

-----------------------------------------------------------------------------
(* Prices.                                                                   *)

\* A price, where there is one, is a natural number.
LEMMA PriceType ==
  ASSUME NEW h \in Histories, NEW t, NEW d
  PROVE  PriceOnOrBefore(h, t, d) \in Nat \cup {None}
<1> DEFINE known == {e \in DOMAIN h.close : /\ Start - LoadDays <= e /\ e <= End
                                            /\ e <= t /\ e <= d
                                            /\ h.close[e] # None}
<1>1. known \subseteq Nat /\ known \in SUBSET Int /\ End \in Int /\ \A e \in known : e <= End
  BY HistoriesAssumption, CalendarAssumption
<1>2. PriceOnOrBefore(h, t, d) = IF known = {} THEN None ELSE h.close[Max(known)]
  BY DEF PriceOnOrBefore
<1>3. CASE known # {}
  <2>1. Max(known) \in known
    <3> HIDE DEF known
    <3>. QED  BY <1>1, <1>3, BoundedSetHasMax
  <2>2. Max(known) \in DOMAIN h.close
    BY <2>1
  <2> HIDE DEF known
  <2>. QED  BY <1>2, <1>3, <2>2, HistoriesAssumption
<1>. QED  BY <1>2, <1>3

\* A price as of a day depends on no later close.
LEMMA PriceIgnoresTheFuture ==
  ASSUME NEW g \in Histories, NEW h \in Histories, NEW t, NEW d,
         \A e \in DOMAIN h.close : e <= d => h.close[e] = g.close[e]
  PROVE  PriceOnOrBefore(h, t, d) = PriceOnOrBefore(g, t, d)
<1> DEFINE known(f) == {e \in DOMAIN f.close : /\ Start - LoadDays <= e /\ e <= End
                                               /\ e <= t /\ e <= d
                                               /\ f.close[e] # None}
<1>1. known(h) \in SUBSET Int /\ End \in Int /\ \A e \in known(h) : e <= End
  BY HistoriesAssumption, CalendarAssumption
<1>2. known(h) = known(g)
  BY HistoriesAssumption
<1>3. \A f : PriceOnOrBefore(f, t, d)
               = IF known(f) = {} THEN None ELSE f.close[Max(known(f))]
  BY DEF PriceOnOrBefore
<1>4. CASE known(h) # {}
  <2>1. Max(known(h)) \in known(h)
    <3> HIDE DEF known
    <3>. QED  BY <1>1, <1>4, BoundedSetHasMax
  <2>2. h.close[Max(known(h))] = g.close[Max(known(h))]
    BY <2>1
  <2> HIDE DEF known
  <2>. QED  BY <1>2, <1>3, <1>4, <2>2
<1> HIDE DEF known
<1>. QED  BY <1>2, <1>3, <1>4

-----------------------------------------------------------------------------
(* No look-ahead.                                                            *)

\* Two databases whose rows agree up to the decision date, and keep the same
\* securities listed on it, give the same signals.
LEMMA SignalsOfSamePast ==
  ASSUME NEW f \in [Securities -> Histories], NEW g \in [Securities -> Histories],
         NEW d,
         \A s \in Securities :
           /\ f[s].listed = g[s].listed
           /\ (f[s].delisted = None \/ d <= f[s].delisted)
                <=> (g[s].delisted = None \/ d <= g[s].delisted)
           /\ \A e \in DOMAIN f[s].close : e <= d => f[s].close[e] = g[s].close[e]
  PROVE  Signals(f, d) = Signals(g, d)
<1>1. \A s \in Securities : \A t : PriceOnOrBefore(f[s], t, d) = PriceOnOrBefore(g[s], t, d)
  BY PriceIgnoresTheFuture
<1>2. FactsAsOf(f, d) = FactsAsOf(g, d)
  BY DEF FactsAsOf
<1>3. Eligible(f, d) = Eligible(g, d) /\ Eligible(f, d) \subseteq Securities
  BY <1>2 DEF Eligible, IsEligible, FactsAsOf
<1>4. \A s \in Securities : PricesFor(f[s], d) = PricesFor(g[s], d)
  BY <1>1 DEF PricesFor, Price
<1>5. Scored(f, d) = Scored(g, d) /\ Scored(f, d) \subseteq Securities
  BY <1>3, <1>4 DEF Scored
<1>6. \A s \in Scored(f, d) : \A k \in Lookbacks : Return(f[s], d, k) = Return(g[s], d, k)
  BY <1>1, <1>5 DEF Return, Price
<1>. QED  BY <1>5, <1>6 DEF Signals

\* DecisionsIgnoreTheFuture needs no more of a state than its history's type.
LEMMA NoLookAhead ==
  ASSUME history \in [Securities -> Histories]
  PROVE  DecisionsIgnoreTheFuture
<1> SUFFICES ASSUME NEW s \in Securities, NEW h \in Histories, NEW d,
                    d = last.decision,
                    h.listed = history[s].listed,
                    \A e \in DOMAIN h.close : e <= d => h.close[e] = history[s].close[e],
                    \A e \in {h.delisted, history[s].delisted} : e # None => d <= e
             PROVE  Signals([history EXCEPT ![s] = h], d) = Signals(history, d)
  BY DEF DecisionsIgnoreTheFuture
<1> DEFINE other == [history EXCEPT ![s] = h]
<1>1. other \in [Securities -> Histories]
  OBVIOUS
<1>2. ASSUME NEW r \in Securities
      PROVE  /\ other[r].listed = history[r].listed
             /\ (other[r].delisted = None \/ d <= other[r].delisted)
                  <=> (history[r].delisted = None \/ d <= history[r].delisted)
             /\ \A e \in DOMAIN other[r].close :
                  e <= d => other[r].close[e] = history[r].close[e]
  <2>1. CASE r = s
    <3>1. other[r] = h
      BY <2>1
    <3>. QED  BY <2>1, <3>1
  <2>2. CASE r # s
    <3>1. other[r] = history[r]
      BY <2>2
    <3>. QED  BY <3>1
  <2>. QED  BY <2>1, <2>2
<1> HIDE DEF other
<1>3. Signals(other, d) = Signals(history, d)
  BY <1>1, <1>2, SignalsOfSamePast
<1>. QED  BY <1>3 DEF other

-----------------------------------------------------------------------------
(* Selection.                                                                *)

Better(rank, C, s) == {t \in C : rank[t] < rank[s]}

Ranked(rank, C) ==
  /\ IsFiniteSet(C)
  /\ \A s \in C : rank[s] \in Nat
  /\ \A s, t \in C : rank[s] = rank[t] => s = t

\* The members of C with fewer than m members ahead are the m best of it, or
\* all when it has no more.
LEMMA BestOfRanked ==
  ASSUME NEW rank, NEW C, Ranked(rank, C), NEW m \in Nat
  PROVE  LET best == {s \in C : Cardinality(Better(rank, C, s)) < m}
         IN  /\ IsFiniteSet(best)
             /\ Cardinality(best) = IF Cardinality(C) < m THEN Cardinality(C) ELSE m
<1> DEFINE Best(n) == {s \in C : Cardinality(Better(rank, C, s)) < n}
           Size(n) == IF Cardinality(C) < n THEN Cardinality(C) ELSE n
           T == {n \in Nat : Cardinality(Best(n)) = Size(n)}
<1>1. /\ Cardinality(C) \in Nat
      /\ \A U \in SUBSET C :
           /\ IsFiniteSet(U) /\ Cardinality(U) \in Nat
           /\ Cardinality(U) <= Cardinality(C)
           /\ Cardinality(U) = Cardinality(C) => U = C
  BY FS_Subset, FS_CardinalityType DEF Ranked
<1>2. \A s \in C : Better(rank, C, s) \in SUBSET C
  BY DEF Better
<1>3. 0 \in T
  <2>1. Best(0) = {}
    BY <1>1, <1>2
  <2>. QED  BY <1>1, <2>1, FS_EmptySet
<1>4. ASSUME NEW n \in Nat, n \in T PROVE n + 1 \in T
  <2>1. /\ Best(n) \in SUBSET C /\ Best(n + 1) \in SUBSET C
        /\ Cardinality(Best(n)) = Size(n)
        /\ Best(n) \subseteq Best(n + 1)
    BY <1>1, <1>2, <1>4
  <2>2. CASE Best(n) = C
    <3>1. Best(n + 1) = C
      BY <2>1, <2>2
    <3>2. Cardinality(C) <= n
      BY <1>1, <2>1, <2>2
    <3>3. Cardinality(C) < n + 1 /\ Cardinality(Best(n + 1)) = Cardinality(C)
      BY <1>1, <3>1, <3>2
    <3> HIDE DEF Best
    <3>. QED  BY <3>3
  <2>3. CASE Best(n) # C
    <3> DEFINE rest == {rank[s] : s \in C \ Best(n)}
    <3>1. Size(n) = n
      BY <1>1, <2>1, <2>3
    <3>2. PICK u \in C \ Best(n) : \A s \in C \ Best(n) : rank[u] <= rank[s]
      <4>1. rest \in SUBSET Nat /\ rest # {}
        BY <2>1, <2>3 DEF Ranked
      <4> HIDE DEF rest
      <4>2. Min(rest) \in rest /\ \A r \in rest : Min(rest) <= r
        BY <4>1, NatSetHasMin
      <4>. QED  BY <4>2 DEF rest
    <3>3. ASSUME NEW s \in C, NEW t \in C, rank[s] < rank[t]
          PROVE  /\ Better(rank, C, s) \subseteq Better(rank, C, t)
                 /\ Cardinality(Better(rank, C, s)) <= Cardinality(Better(rank, C, t))
      <4>1. Better(rank, C, s) \subseteq Better(rank, C, t)
        BY <3>3 DEF Better, Ranked
      <4>2. IsFiniteSet(Better(rank, C, t)) /\ Better(rank, C, s) \in SUBSET Better(rank, C, t)
        BY <1>1, <1>2, <4>1
      <4>. QED  BY <4>1, <4>2, FS_Subset
    <3>4. Better(rank, C, u) = Best(n)
      <4>1. ASSUME NEW t \in Best(n) PROVE rank[t] < rank[u]
        <5>1. rank[t] # rank[u] /\ rank[t] \in Nat /\ rank[u] \in Nat
          BY <3>2 DEF Ranked
        <5>2. ~(rank[u] < rank[t])
          BY <1>1, <1>2, <3>2, <3>3
        <5>. QED  BY <5>1, <5>2
      <4>2. ASSUME NEW t \in C \ Best(n) PROVE ~(rank[t] < rank[u])
        BY <3>2 DEF Ranked
      <4>. QED  BY <4>1, <4>2 DEF Better
    <3>5. u \in Best(n + 1)
      BY <2>1, <3>1, <3>2, <3>4
    <3>6. ASSUME NEW s \in C \ Best(n), s # u PROVE s \notin Best(n + 1)
      <4>1. rank[u] < rank[s]
        BY <3>2, <3>6 DEF Ranked
      <4>2. Best(n) \cup {u} \subseteq Better(rank, C, s)
        BY <3>2, <3>3, <3>4, <4>1 DEF Better
      <4>3. Cardinality(Best(n) \cup {u}) = n + 1
        BY <1>1, <2>1, <3>1, <3>2, FS_AddElement
      <4>4. n + 1 <= Cardinality(Better(rank, C, s))
        <5>1. IsFiniteSet(Better(rank, C, s))
          BY <1>1, <1>2
        <5>. QED  BY <4>2, <4>3, <5>1, FS_Subset
      <4>. QED  BY <1>1, <1>2, <4>4
    <3>7. Best(n + 1) = Best(n) \cup {u}
      BY <2>1, <3>5, <3>6
    <3>8. Cardinality(Best(n + 1)) = n + 1
      <4>1. IsFiniteSet(Best(n)) /\ u \notin Best(n) /\ Cardinality(Best(n)) = n
        BY <1>1, <2>1, <3>1, <3>2
      <4> HIDE DEF Best
      <4>. QED  BY <3>7, <4>1, FS_AddElement
    <3>9. n + 1 <= Cardinality(C)
      BY <1>1, <2>1, <3>8
    <3>. QED  BY <1>1, <3>8, <3>9
  <2>. QED  BY <2>2, <2>3
<1> HIDE DEF T
<1>5. m \in T
  BY <1>3, <1>4, NatSetInduction
<1>6. Best(m) \in SUBSET C
  OBVIOUS
<1>. QED  BY <1>1, <1>5, <1>6 DEF T

\* A ranking: the places from first to last, one for each security ranked.
IsRanking(rank) ==
  /\ IsFiniteSet(DOMAIN rank)
  /\ rank \in [DOMAIN rank -> 1..Cardinality(DOMAIN rank)]
  /\ IsInjective(rank)

Top(rank) == {s \in DOMAIN rank : rank[s] <= PortfolioSize}

Smaller(m, n) == IF m < n THEN m ELSE n

\* No place is empty: the top of a ranking has as many members as places.
LEMMA TopIsFull ==
  ASSUME NEW rank, IsRanking(rank)
  PROVE  /\ Cardinality(Top(rank)) = Smaller(Cardinality(DOMAIN rank), PortfolioSize)
         /\ IsFiniteSet(Top(rank))
<1> DEFINE D == DOMAIN rank
           n == Cardinality(D)
           m == Smaller(n, PortfolioSize)
           top == [s \in Top(rank) |-> rank[s]]
<1>1. n \in Nat /\ m \in Nat /\ PortfolioSize \in Nat /\ IsFiniteSet(D)
  BY FS_CardinalityType, SizeAssumption DEF IsRanking, Smaller
<1>2. rank \in Surjection(D, 1..n)
  <2>1. rank \in Injection(D, 1..n)
    BY DEF IsRanking, Injection
  <2>2. IsFiniteSet(1..n) /\ Cardinality(1..n) = n
    BY <1>1, FS_Interval
  <2> HIDE DEF D
  <2>. QED  BY <2>1, <2>2, FS_Injection
<1>3. top \in [Top(rank) -> 1..m]
  BY <1>1 DEF Top, Smaller, IsRanking
<1>4. \A i \in 1..m : \E s \in Top(rank) : top[s] = i
  <2> SUFFICES ASSUME NEW i \in 1..m PROVE \E s \in Top(rank) : rank[s] = i
    OBVIOUS
  <2>1. i \in 1..n /\ i <= PortfolioSize
    BY <1>1 DEF Smaller
  <2>2. PICK s \in D : rank[s] = i
    BY <1>2, <2>1 DEF Surjection
  <2>. QED  BY <2>1, <2>2 DEF Top
<1>5. \A s, t \in Top(rank) : top[s] = top[t] => s = t
  BY DEF Top, IsRanking, IsInjective
<1>6. top \in Bijection(Top(rank), 1..m)
  <2> HIDE DEF m
  <2>. QED  BY <1>3, <1>4, <1>5 DEF Bijection, Injection, Surjection, IsInjective
<1>7. IsFiniteSet(Top(rank))
  BY <1>1, FS_Subset DEF Top
<1>8. Cardinality(1..m) = Cardinality(Top(rank))
  <2> HIDE DEF top, m
  <2>. QED  BY <1>6, <1>7, FS_Bijection DEF ExistsBijection
<1>9. Cardinality(1..m) = m
  <2> HIDE DEF m
  <2>. QED  BY <1>1, FS_Interval
<1>. QED  BY <1>7, <1>8, <1>9

\* Whatever was held, the selection takes ranked securities only, and as many
\* as there are, up to the size of the portfolio.
LEMMA SelectionIsFull ==
  ASSUME NEW rank, IsRanking(rank),
         NEW held, IsFiniteSet(held), Cardinality(held) <= PortfolioSize
  PROVE  /\ SelectPortfolio(rank, held) \subseteq DOMAIN rank
         /\ IsFiniteSet(SelectPortfolio(rank, held))
         /\ Cardinality(SelectPortfolio(rank, held))
              = Smaller(Cardinality(DOMAIN rank), PortfolioSize)
<1> DEFINE D == DOMAIN rank
           K == Kept(rank, held)
           C == Top(rank) \ K
           free == PortfolioSize - Cardinality(K)
           best == {s \in C : Cardinality(Better(rank, C, s)) < free}
<1>1. SelectPortfolio(rank, held) = K \cup best
  BY DEF SelectPortfolio, Better, Top
<1>2. K \subseteq D /\ C \subseteq D /\ best \subseteq C /\ K \cap C = {} /\ K \subseteq held
  BY DEF Kept, Top
<1>3. /\ IsFiniteSet(D) /\ Cardinality(D) \in Nat
      /\ \A U \in SUBSET D : /\ IsFiniteSet(U) /\ Cardinality(U) \in Nat
                             /\ Cardinality(U) <= Cardinality(D)
  BY FS_CardinalityType, FS_Subset DEF IsRanking
<1>4. Cardinality(K) <= Cardinality(held) /\ Cardinality(held) \in Nat
  BY <1>2, FS_Subset, FS_CardinalityType
<1>5. free \in Nat /\ PortfolioSize \in Nat
  BY <1>2, <1>3, <1>4, SizeAssumption
<1>6. Ranked(rank, C)
  BY <1>2, <1>3 DEF Ranked, IsRanking, IsInjective
<1>7. IsFiniteSet(best) /\ Cardinality(best) = Smaller(Cardinality(C), free)
  <2> HIDE DEF C, free
  <2>. QED  BY <1>5, <1>6, BestOfRanked DEF Smaller
<1>8. /\ IsFiniteSet(K) /\ IsFiniteSet(C)
      /\ Cardinality(K) \in Nat /\ Cardinality(C) \in Nat /\ Cardinality(K \cup C) \in Nat
      /\ Cardinality(K \cup C) <= Cardinality(D)
  BY <1>2, <1>3
<1>9. /\ Cardinality(K \cup best) = Cardinality(K) + Cardinality(best)
      /\ Cardinality(K \cup C) = Cardinality(K) + Cardinality(C)
      /\ IsFiniteSet(K \cup best)
  <2>1. K \cap best = {} /\ K \cap C = {}
    BY <1>2
  <2> HIDE DEF K, C, best
  <2>. QED  BY <1>7, <1>8, <2>1, DisjointUnion
<1>10. Smaller(Cardinality(D), PortfolioSize) <= Cardinality(K \cup C)
  <2>1. Top(rank) \subseteq K \cup C /\ IsFiniteSet(K \cup C)
    BY <1>2, <1>3
  <2>2. Cardinality(Top(rank)) <= Cardinality(K \cup C)
    BY <2>1, FS_Subset
  <2>. QED  BY <2>2, TopIsFull
<1>11. Cardinality(K \cup best) = Smaller(Cardinality(D), PortfolioSize)
  <2> DEFINE k == Cardinality(K)  c == Cardinality(C)  d == Cardinality(D)
  <2>1. k \in Nat /\ c \in Nat /\ d \in Nat /\ PortfolioSize \in Nat /\ k <= PortfolioSize
    BY <1>3, <1>5, <1>8, <1>4
  <2>2. /\ Cardinality(K \cup best) = k + Smaller(c, PortfolioSize - k)
        /\ k + c <= d /\ Smaller(d, PortfolioSize) <= k + c
    BY <1>7, <1>8, <1>9, <1>10
  <2>3. k + Smaller(c, PortfolioSize - k) = Smaller(d, PortfolioSize)
    <3> HIDE DEF k, c, d
    <3>. QED  BY <2>1, <2>2 DEF Smaller
  <2>. QED  BY <2>2, <2>3
<1>. QED  BY <1>1, <1>2, <1>9, <1>11

-----------------------------------------------------------------------------
(* Division. Selling b units out of a value of a at a price of p leaves as   *)
(* many whole units as a buys, less b: no remainder is lost on the way.      *)

LEMMA QuotientOfShift ==
  ASSUME NEW a \in Int, NEW b \in Int, NEW p \in Nat \ {0}
  PROVE  (a - b * p) \div p = (a \div p) - b
<1> DEFINE q == a \div p
           r == (a - b * p) \div p
<1>1. q \in Int /\ q * p <= a /\ a < q * p + p
  BY QuotientBounds
<1>2. b * p \in Int /\ a - b * p \in Int
  OBVIOUS
<1>3. r \in Int /\ r * p <= a - b * p /\ a - b * p < r * p + p
  BY <1>2, QuotientBounds
<1> HIDE DEF q, r
<1>4. (r + b) * p = r * p + b * p
  BY <1>3
<1>5. q <= r + b
  BY <1>1, <1>2, <1>3, <1>4, QuotientsOrdered
<1>6. r + b <= q
  BY <1>1, <1>2, <1>3, <1>4, QuotientsOrdered
<1>7. r = q - b
  BY <1>1, <1>3, <1>5, <1>6
<1>. QED  BY <1>7 DEF q, r

-----------------------------------------------------------------------------
(* The trade log.                                                            *)

IsTrade(t) ==
  t.security \in Securities /\ t.quantity \in Int /\ t.notional \in Int /\ t.cost \in Int

IsLog(log) == IsFiniteSet(log) /\ \A t \in log : IsTrade(t)

AddUp(A, B) ==
  /\ IsLog(A \cup B)
  /\ Spent(A) \in Int /\ Spent(B) \in Int
  /\ Spent(A \cup B) = Spent(A) + Spent(B)
  /\ \A s : /\ Bought(A, s) \in Int /\ Bought(B, s) \in Int
            /\ Bought(A \cup B, s) = Bought(A, s) + Bought(B, s)

\* What a log adds to another that shares no trade with it.
LEMMA LogsAdd ==
  ASSUME NEW A, NEW B, IsLog(A), IsLog(B), A \cap B = {}
  PROVE  AddUp(A, B)
<1> DEFINE paid == [t \in A \cup B |-> t.notional + t.cost]
           units == [t \in A \cup B |-> t.quantity]
           of(log, s) == {u \in log : u.security = s}
<1>1. IsLog(A \cup B)
  BY FS_Union DEF IsLog
<1>2. Summable(paid, A \cup B) /\ Summable(units, A \cup B)
  BY <1>1 DEF IsLog, IsTrade, Summable
<1>3. \A U \in SUBSET (A \cup B) :
        /\ Summable(paid, U) /\ Summable(units, U)
        /\ Sum(paid, U) \in Int /\ Sum(units, U) \in Int
  BY <1>2, SumOfPart
<1>4. ASSUME NEW U \in SUBSET (A \cup B) PROVE Spent(U) = Sum(paid, U)
  <2> DEFINE f == [t \in U |-> t.notional + t.cost]
  <2>1. \A t \in U : paid[t] = f[t]
    OBVIOUS
  <2>2. Spent(U) = Sum(f, U)
    BY SumFunctionIsSum DEF Spent
  <2> HIDE DEF f, paid
  <2>. QED  BY <1>3, <2>1, <2>2, SumCongruent
<1>5. ASSUME NEW U \in SUBSET (A \cup B), NEW s PROVE Bought(U, s) = Sum(units, of(U, s))
  <2> DEFINE f == [t \in of(U, s) |-> t.quantity]
  <2>1. of(U, s) \in SUBSET (A \cup B) /\ \A t \in of(U, s) : units[t] = f[t]
    OBVIOUS
  <2>2. Bought(U, s) = Sum(f, of(U, s))
    BY SumFunctionIsSum DEF Bought
  <2> HIDE DEF f, units, of
  <2>. QED  BY <1>3, <2>1, <2>2, SumCongruent
<1>6. A \in SUBSET (A \cup B) /\ B \in SUBSET (A \cup B) /\ A \cup B \in SUBSET (A \cup B)
  OBVIOUS
<1>7. Spent(A \cup B) = Spent(A) + Spent(B) /\ Spent(A) \in Int /\ Spent(B) \in Int
  <2> HIDE DEF paid
  <2>1. Sum(paid, A \cup B) = Sum(paid, A) + Sum(paid, B)
    BY <1>2, SumUnion
  <2>2. /\ Spent(A) = Sum(paid, A) /\ Spent(B) = Sum(paid, B)
        /\ Spent(A \cup B) = Sum(paid, A \cup B)
    BY <1>4, <1>6
  <2>. QED  BY <1>3, <1>6, <2>1, <2>2
<1>8. ASSUME NEW s
      PROVE  /\ Bought(A, s) \in Int /\ Bought(B, s) \in Int
             /\ Bought(A \cup B, s) = Bought(A, s) + Bought(B, s)
  <2>1. /\ of(A \cup B, s) = of(A, s) \cup of(B, s)
        /\ of(A, s) \cap of(B, s) = {}
        /\ of(A, s) \in SUBSET (A \cup B) /\ of(B, s) \in SUBSET (A \cup B)
        /\ of(A \cup B, s) \in SUBSET (A \cup B)
    OBVIOUS
  <2> HIDE DEF units, of
  <2>2. Summable(units, of(A, s) \cup of(B, s))
    BY <1>3, <2>1
  <2>3. Sum(units, of(A, s) \cup of(B, s)) = Sum(units, of(A, s)) + Sum(units, of(B, s))
    BY <2>1, <2>2, SumUnion
  <2>4. /\ Bought(A, s) = Sum(units, of(A, s)) /\ Bought(B, s) = Sum(units, of(B, s))
        /\ Bought(A \cup B, s) = Sum(units, of(A \cup B, s))
    BY <1>5, <1>6
  <2>. QED  BY <1>3, <2>1, <2>3, <2>4
<1>. QED  BY <1>1, <1>7, <1>8 DEF AddUp

-----------------------------------------------------------------------------
(* One rebalance.                                                            *)

Holdings ==
  /\ history \in [Securities -> Histories]
  /\ DOMAIN positions \subseteq Securities
  /\ positions \in [DOMAIN positions -> Int]

LEMMA FillPrice ==
  ASSUME history \in [Securities -> Histories], NEW s \in Securities, NEW d
  PROVE  /\ Price(history[s], d) \in Nat \cup {None}
         /\ Fillable(s, d) => Price(history[s], d) \in Nat \ {0} /\ Price(history[s], d) # None
BY PriceType DEF Price, Fillable

LEMMA MarkFacts ==
  ASSUME Holdings, NEW d
  PROVE  /\ DOMAIN MarkToMarket(d) = DOMAIN positions
         /\ Summable(MarkToMarket(d), DOMAIN positions)
         /\ \A s \in DOMAIN positions :
              Fillable(s, d) => MarkToMarket(d)[s] = positions[s] * Price(history[s], d)
<1>1. DOMAIN MarkToMarket(d) = DOMAIN positions
  BY DEF MarkToMarket
<1>2. IsFiniteSet(DOMAIN positions)
  BY SecuritiesAssumption, FS_Subset DEF Holdings
<1>3. ASSUME NEW s \in DOMAIN positions
      PROVE  /\ MarkToMarket(d)[s] \in Int
             /\ Fillable(s, d) => MarkToMarket(d)[s] = positions[s] * Price(history[s], d)
  <2>1. /\ Price(history[s], d) \in Nat \cup {None} /\ positions[s] \in Int
        /\ Fillable(s, d) => Price(history[s], d) # None
    BY FillPrice DEF Holdings
  <2>2. MarkToMarket(d)[s] = IF Price(history[s], d) = None THEN 0
                             ELSE positions[s] * Price(history[s], d)
    BY DEF MarkToMarket
  <2>. QED  BY <2>1, <2>2
<1>. QED  BY <1>1, <1>2, <1>3 DEF Summable

Share(target, nav, s) == IF s \in target THEN TargetValue(target, nav) ELSE 0

Marked(mark, s) == IF s \in DOMAIN mark THEN mark[s] ELSE 0

Invested(target, nav) ==
  IF target = {} THEN 0 ELSE Cardinality(target) * TargetValue(target, nav)

LEMMA TargetValueType ==
  ASSUME NEW target, IsFiniteSet(target), NEW nav \in Int
  PROVE  /\ \A s : Share(target, nav, s) \in Int
         /\ Invested(target, nav) \in Int
         /\ target # {} => TargetValue(target, nav) \in Int
<1>1. CASE target = {}
  BY <1>1 DEF Share, Invested
<1>2. CASE target # {}
  <2>1. Cardinality(target) \in Nat \ {0}
    BY <1>2, FS_CardinalityType, FS_EmptySet
  <2>2. TargetValue(target, nav) \in Int
    BY <2>1, QuotientBounds DEF TargetValue
  <2>. QED  BY <2>1, <2>2 DEF Share, Invested
<1>. QED  BY <1>1, <1>2

\* The trades planned move each security from its mark to its share, and
\* together the value marked to the value invested.
LEMMA PlanFacts ==
  ASSUME NEW target, IsFiniteSet(target), NEW nav \in Int,
         NEW mark, Summable(mark, DOMAIN mark),
         NEW plan, plan = PlanEqualWeight(target, mark, nav)
  PROVE  /\ DOMAIN plan \subseteq target \cup DOMAIN mark
         /\ Summable(plan, DOMAIN plan)
         /\ \A s \in target \cup DOMAIN mark :
              LET delta == Share(target, nav, s) - Marked(mark, s)
              IN  /\ s \in DOMAIN plan <=> delta # 0
                  /\ s \in DOMAIN plan => plan[s] = delta
         /\ Sum(plan, DOMAIN plan) = Invested(target, nav) - Sum(mark, DOMAIN mark)
<1> DEFINE all == target \cup DOMAIN mark
           share == [s \in all |-> Share(target, nav, s)]
           owned == [s \in all |-> Marked(mark, s)]
           delta == [s \in all |-> share[s] - owned[s]]
<1>1. /\ DOMAIN plan = {s \in all : delta[s] # 0}
      /\ \A s \in DOMAIN plan : plan[s] = delta[s]
  BY DEF PlanEqualWeight, Share, Marked
<1>2. IsFiniteSet(all)
  BY FS_Union DEF Summable
<1>3. Summable(share, all) /\ Summable(owned, all)
  BY <1>2, TargetValueType DEF Summable, Marked
<1>4. Sum(share, all) = Invested(target, nav)
  <2>1. target \in SUBSET all /\ \A s \in all \ target : share[s] = 0
    BY DEF Share
  <2>2. \A s \in target : share[s] = TargetValue(target, nav)
    BY DEF Share
  <2> HIDE DEF share, all
  <2>3. Sum(share, all) = Sum(share, target) /\ Sum(share, {}) = 0
    BY <1>3, <2>1, SumOfSupport, SumOfPart
  <2>4. ASSUME target # {}
        PROVE  Sum(share, target) = Cardinality(target) * TargetValue(target, nav)
    <3>1. TargetValue(target, nav) \in Int
      BY <2>4, TargetValueType
    <3>. QED  BY <2>2, <3>1, SumOfConstant
  <2>. QED  BY <2>3, <2>4 DEF Invested
<1>5. Sum(owned, all) = Sum(mark, DOMAIN mark)
  <2>1. DOMAIN mark \in SUBSET all /\ \A s \in all \ DOMAIN mark : owned[s] = 0
    BY DEF Marked
  <2>2. \A s \in DOMAIN mark : mark[s] = owned[s]
    BY DEF Marked
  <2> HIDE DEF owned, all
  <2>3. Sum(owned, all) = Sum(owned, DOMAIN mark)
    BY <1>3, <2>1, SumOfSupport
  <2>4. Sum(mark, DOMAIN mark) = Sum(owned, DOMAIN mark)
    BY <2>2, SumCongruent
  <2>. QED  BY <2>3, <2>4
<1>6. Summable(delta, all) /\ Sum(delta, all) = Sum(share, all) - Sum(owned, all)
  <2>1. \A s \in all : delta[s] = share[s] - owned[s]
    OBVIOUS
  <2> HIDE DEF delta, share, owned, all
  <2>. QED  BY <1>3, <2>1, SumOfDifference
<1>7. /\ DOMAIN plan \in SUBSET all
      /\ Summable(delta, DOMAIN plan)
      /\ Sum(delta, all) = Sum(delta, DOMAIN plan)
  <2>1. DOMAIN plan \in SUBSET all /\ \A s \in all \ DOMAIN plan : delta[s] = 0
    BY <1>1
  <2> HIDE DEF delta, all
  <2>. QED  BY <1>6, <2>1, SumOfSupport, SumOfPart
<1>8. Sum(delta, DOMAIN plan) = Sum(plan, DOMAIN plan) /\ Summable(plan, DOMAIN plan)
  <2> HIDE DEF delta, all
  <2>1. Sum(delta, DOMAIN plan) = Sum(plan, DOMAIN plan)
    BY <1>1, <1>7, SumCongruent
  <2>. QED  BY <1>1, <1>7, <2>1 DEF Summable
<1>9. \A s \in all : /\ s \in DOMAIN plan <=> Share(target, nav, s) - Marked(mark, s) # 0
                     /\ s \in DOMAIN plan =>
                          plan[s] = Share(target, nav, s) - Marked(mark, s)
  BY <1>1
<1>10. Sum(plan, DOMAIN plan) = Invested(target, nav) - Sum(mark, DOMAIN mark)
  BY <1>4, <1>5, <1>6, <1>7, <1>8
<1>. QED  BY <1>7, <1>8, <1>9, <1>10

LEMMA CostType ==
  ASSUME NEW n \in Int
  PROVE  Cost(n) \in Int
<1>1. Abs(n) \in Int
  BY DEF Abs
<1>. QED  BY <1>1, QuotientBounds, MoneyAssumption DEF Cost

Trade(plan, d, s) ==
  [security |-> s, quantity |-> plan[s] \div Price(history[s], d),
   notional |-> plan[s], fill |-> d, cost |-> Cost(plan[s])]

LEMMA ApplyIsLog ==
  ASSUME Holdings, NEW plan, DOMAIN plan \subseteq Securities,
         Summable(plan, DOMAIN plan), NEW d
  PROVE  /\ IsLog(Apply(plan, d))
         /\ \A t \in Apply(plan, d) : t.fill = d
<1> DEFINE S == {s \in DOMAIN plan : Fillable(s, d)}
           at == [s \in S |-> Trade(plan, d, s)]
<1>1. Apply(plan, d) = {at[s] : s \in S}
  BY DEF Apply, Trade
<1>2. at \in Surjection(S, Apply(plan, d))
  BY <1>1 DEF Surjection
<1>3. IsFiniteSet(S)
  BY FS_Subset DEF Summable
<1>4. IsFiniteSet(Apply(plan, d))
  <2> HIDE DEF at, S
  <2>. QED  BY <1>2, <1>3, FS_Surjection
<1>5. ASSUME NEW s \in S
      PROVE  IsTrade(Trade(plan, d, s)) /\ Trade(plan, d, s).fill = d
  <2>1. plan[s] \in Int /\ Cost(plan[s]) \in Int
    BY CostType DEF Summable
  <2>2. plan[s] \div Price(history[s], d) \in Int
    BY <2>1, FillPrice, QuotientBounds DEF Holdings
  <2>. QED  BY <2>1, <2>2 DEF Trade, IsTrade
<1>. QED  BY <1>1, <1>4, <1>5 DEF IsLog

\* When every planned trade is filled, the log takes the whole plan: its cash,
\* its costs and its quantities.
LEMMA ApplyTakesThePlan ==
  ASSUME Holdings, NEW plan, DOMAIN plan \subseteq Securities,
         Summable(plan, DOMAIN plan), NEW d,
         \A s \in DOMAIN plan : Fillable(s, d)
  PROVE  /\ TotalCost(plan) \in Int
         /\ Spent(Apply(plan, d)) = Sum(plan, DOMAIN plan) + TotalCost(plan)
         /\ \A s : Bought(Apply(plan, d), s)
                     = IF s \in DOMAIN plan THEN plan[s] \div Price(history[s], d) ELSE 0
<1> DEFINE at == [s \in DOMAIN plan |-> Trade(plan, d, s)]
           log == Apply(plan, d)
           paid == [t \in log |-> t.notional + t.cost]
           costs == [s \in DOMAIN plan |-> Cost(plan[s])]
           both == [s \in DOMAIN plan |-> plan[s] + Cost(plan[s])]
<1>1. /\ log = {at[s] : s \in DOMAIN plan}
      /\ \A s, r \in DOMAIN plan : at[s] = at[r] => s = r
      /\ \A s \in DOMAIN plan : at[s] = Trade(plan, d, s)
  BY DEF Apply, Trade
<1>2. \A s \in DOMAIN plan : plan[s] \in Int /\ Cost(plan[s]) \in Int
  BY CostType DEF Summable
<1>3. Summable(costs, DOMAIN plan) /\ Summable(both, DOMAIN plan)
  BY <1>2 DEF Summable
<1>4. TotalCost(plan) = Sum(costs, DOMAIN plan)
  BY SumFunctionIsSum DEF TotalCost
<1>5. Sum(plan, DOMAIN plan) = Sum(both, DOMAIN plan) - Sum(costs, DOMAIN plan)
  <2>1. \A s \in DOMAIN plan : plan[s] = both[s] - costs[s]
    BY <1>2
  <2> HIDE DEF both, costs
  <2>. QED  BY <1>3, <2>1, SumOfDifference
<1>6. Sum(costs, DOMAIN plan) \in Int /\ Sum(both, DOMAIN plan) \in Int
  BY <1>3, SumUnfolds
<1>7. Spent(log) = Sum(both, DOMAIN plan)
  <2>1. \A s \in DOMAIN plan : paid[at[s]] = both[s]
    BY <1>1 DEF Trade
  <2>2. Spent(log) = Sum(paid, log)
    BY SumFunctionIsSum DEF Spent
  <2> HIDE DEF at, log, paid, both
  <2>3. Sum(paid, {at[s] : s \in DOMAIN plan}) = Sum(both, DOMAIN plan)
    BY <1>1, <1>3, <2>1, SumOfImage
  <2>. QED  BY <1>1, <2>2, <2>3
<1>8. ASSUME NEW s
      PROVE  Bought(log, s)
               = IF s \in DOMAIN plan THEN plan[s] \div Price(history[s], d) ELSE 0
  <2> DEFINE mine == {u \in log : u.security = s}
             units == [t \in mine |-> t.quantity]
  <2>1. Bought(log, s) = Sum(units, mine)
    BY SumFunctionIsSum DEF Bought
  <2>2. \A r \in DOMAIN plan : at[r].security = r
    BY <1>1 DEF Trade
  <2>3. CASE s \notin DOMAIN plan
    <3>1. mine = {}
      BY <1>1, <2>2, <2>3
    <3>2. Summable(units, {})
      BY FS_EmptySet DEF Summable
    <3> HIDE DEF units, mine
    <3>3. Sum(units, {}) = 0
      BY <3>2, SumUnfolds
    <3>. QED  BY <2>1, <2>3, <3>1, <3>3
  <2>4. CASE s \in DOMAIN plan
    <3>1. mine = {at[s]}
      BY <1>1, <2>2, <2>4
    <3>2. units[at[s]] = plan[s] \div Price(history[s], d)
      BY <1>1, <2>4, <3>1 DEF Trade
    <3>3. plan[s] \div Price(history[s], d) \in Int
      <4>1. Price(history[s], d) \in Nat \ {0}
        BY <2>4, FillPrice DEF Holdings
      <4>. QED  BY <1>2, <2>4, <4>1, QuotientBounds
    <3> HIDE DEF units, mine, at
    <3>4. Summable(units, {at[s]}) /\ Summable(units, {})
      BY <3>2, <3>3, FS_Singleton, FS_EmptySet DEF Summable
    <3>5. Sum(units, {at[s]}) = units[at[s]] + Sum(units, {at[s]} \ {at[s]})
      BY <3>4, SumRemove
    <3>6. Sum(units, {at[s]} \ {at[s]}) = 0
      <4>1. {at[s]} \ {at[s]} = {}
        OBVIOUS
      <4>. QED  BY <3>4, <4>1, SumUnfolds
    <3>. QED  BY <2>1, <2>4, <3>1, <3>2, <3>3, <3>5, <3>6
  <2>. QED  BY <2>3, <2>4
<1>. QED  BY <1>4, <1>5, <1>6, <1>7, <1>8

Settled(after, target, nav, cost, d) ==
  /\ DOMAIN after.positions \subseteq target
  /\ \A s \in target : s \in DOMAIN after.positions <=> Fillable(s, d)
  /\ \A s \in DOMAIN after.positions :
       /\ after.positions[s] = TargetValue(target, nav) \div Price(history[s], d)
       /\ after.positions[s] \in Int
  /\ after.positions \in [DOMAIN after.positions -> Int]
  /\ after.cash \in Int
  /\ (\A s \in target : Fillable(s, d)) \/ TargetValue(target, nav) = 0
       => after.cash = nav - cost - Invested(target, nav)

\* What a rebalance leaves: equal shares of the securities with a price.
LEMMA SettleFacts ==
  ASSUME Holdings, NEW target, target \subseteq Securities, NEW nav \in Int,
         NEW cost \in Int, NEW d
  PROVE  Settled(Settle(target, nav, cost, d), target, nav, cost, d)
<1> DEFINE after == Settle(target, nav, cost, d)
           filled == {s \in target : Fillable(s, d)}
           value == TargetValue(target, nav)
<1>1. /\ after.positions = [s \in filled |-> value \div Price(history[s], d)]
      /\ after.cash = nav - cost - (IF target = {} THEN 0 ELSE Cardinality(filled) * value)
  BY DEF Settle
<1>2. IsFiniteSet(target) /\ IsFiniteSet(filled) /\ Cardinality(filled) \in Nat
  BY SecuritiesAssumption, FS_Subset, FS_CardinalityType
<1>3. target # {} => value \in Int
  BY <1>2, TargetValueType
<1>4. ASSUME NEW s \in filled PROVE value \div Price(history[s], d) \in Int
  <2>1. Price(history[s], d) \in Nat \ {0}
    BY FillPrice DEF Holdings
  <2> HIDE DEF value
  <2>. QED  BY <1>3, <2>1, QuotientBounds
<1>5. after.cash \in Int
  <2> HIDE DEF value, filled
  <2>. QED  BY <1>1, <1>2, <1>3
<1>6. ASSUME (\A s \in target : Fillable(s, d)) \/ value = 0
      PROVE  after.cash = nav - cost - Invested(target, nav)
  <2>1. CASE \A s \in target : Fillable(s, d)
    <3>1. filled = target
      BY <2>1
    <3>. QED  BY <1>1, <3>1 DEF Invested
  <2>2. CASE value = 0
    <3>1. Cardinality(target) \in Nat
      BY <1>2, FS_CardinalityType
    <3>2. \A n \in Nat : n * value = 0
      BY <2>2
    <3>. QED  BY <1>1, <1>2, <3>1, <3>2 DEF Invested
  <2>. QED  BY <1>6, <2>1, <2>2
<1> HIDE DEF value, after
<1>7. Settled(after, target, nav, cost, d)
  BY <1>1, <1>4, <1>5, <1>6 DEF value, Settled
<1>. QED  BY <1>7 DEF after

-----------------------------------------------------------------------------
(* The inductive invariant.                                                  *)

Held(s) == IF s \in DOMAIN positions THEN positions[s] ELSE 0

\* The trade log is a log, and what is in it was filled on a day already done:
\* a new trade is never one of those it holds.
LogOfThePast == IsLog(trades) /\ \A t \in trades : t.fill \notin todo

\* While every holding and trade found a price, the log tells what is held and
\* what is left of the capital.
LedgerAgrees ==
  ~skipped =>
    /\ cash = Capital - Spent(trades)
    /\ \A s \in Securities : Bought(trades, s) = Held(s)

Reported == status = "done" => finalNav = Replayed(trades, End)

IInv ==
  /\ TypeOK
  /\ Holdings
  /\ Cardinality(DOMAIN positions) <= PortfolioSize
  /\ LogOfThePast
  /\ LedgerAgrees
  /\ Reported
  /\ PortfolioIsFull

LEMMA EmptyLog ==
  /\ IsLog({}) /\ Spent({}) = 0
  /\ \A s : Bought({}, s) = 0
<1>1. ASSUME NEW f PROVE Sum(f, {}) = 0
  <2>1. Summable(f, {})
    BY FS_EmptySet DEF Summable
  <2>. QED  BY <2>1, SumUnfolds
<1>2. IsLog({})
  BY FS_EmptySet DEF IsLog
<1>3. Spent({}) = Sum([t \in {} |-> t.notional + t.cost], {})
  BY SumFunctionIsSum DEF Spent
<1>4. ASSUME NEW s PROVE Bought({}, s) = 0
  <2> DEFINE f == [t \in {u \in {} : u.security = s} |-> t.quantity]
  <2>1. DOMAIN f = {}
    OBVIOUS
  <2>2. Bought({}, s) = Sum(f, DOMAIN f)
    BY SumFunctionIsSum DEF Bought
  <2> HIDE DEF f
  <2>. QED  BY <1>1, <2>1, <2>2
<1>. QED  BY <1>1, <1>2, <1>3, <1>4

LEMMA InitIInv ==
  ASSUME Init
  PROVE  IInv
<1>1. DOMAIN positions = {} /\ positions \in [DOMAIN positions -> Int]
  BY DEF Init
<1>2. TypeOK
  BY <1>1, MoneyAssumption DEF Init, TypeOK, FirstSessionOfEachMonth
<1>3. Holdings
  BY <1>1 DEF Init, Holdings
<1>4. Cardinality(DOMAIN positions) <= PortfolioSize
  BY <1>1, FS_EmptySet, SizeAssumption
<1>5. LogOfThePast /\ LedgerAgrees
  BY <1>1, EmptyLog, MoneyAssumption DEF Init, LogOfThePast, LedgerAgrees, Held
<1>6. Reported /\ PortfolioIsFull
  BY DEF Init, Reported, PortfolioIsFull
<1>. QED  BY <1>2, <1>3, <1>4, <1>5, <1>6 DEF IInv

LEMMA NextFillIsDue ==
  ASSUME todo \subseteq Nat, todo # {}
  PROVE  NextFill \in todo
BY NatSetHasMin DEF NextFill

\* A member of RankSignals is a ranking of the securities scored.
LEMMA RankSignalsRank ==
  ASSUME NEW d, NEW rank \in RankSignals(Signals(history, d))
  PROVE  IsRanking(rank) /\ DOMAIN rank \subseteq Securities
<1>1. DOMAIN rank = Scored(history, d)
  BY DEF RankSignals, Signals
<1>2. Scored(history, d) \subseteq Securities
  BY DEF Scored, Eligible, FactsAsOf
<1>3. IsFiniteSet(DOMAIN rank)
  BY <1>1, <1>2, SecuritiesAssumption, FS_Subset
<1>. QED  BY <1>1, <1>2, <1>3 DEF RankSignals, Signals, IsRanking

\* The rebalance, with names for what it computes on the way.
RebalanceWith(rank, target, mark, nav, plan, after) ==
  /\ rank \in RankSignals(Signals(history, PriorSession(NextFill)))
  /\ target = SelectPortfolio(rank, DOMAIN positions)
  /\ mark = MarkToMarket(NextFill)
  /\ nav = NavOf(cash, mark)
  /\ plan = PlanEqualWeight(target, mark, nav)
  /\ after = Settle(target, nav, TotalCost(plan), NextFill)
  /\ positions' = after.positions
  /\ cash' = after.cash
  /\ trades' = trades \cup Apply(plan, NextFill)
  /\ skipped' = (skipped \/ \E s \in DOMAIN plan \cup DOMAIN positions : ~Fillable(s, NextFill))
  /\ last'.rank = rank /\ last'.target = target

LEMMA RebalanceNamed ==
  ASSUME Rebalance
  PROVE  /\ status = "running" /\ todo # {} /\ todo' = todo \ {NextFill}
         /\ UNCHANGED <<history, status, finalNav>>
         /\ \E rank, target, mark, nav, plan, after :
              RebalanceWith(rank, target, mark, nav, plan, after)
<1>1. /\ status = "running" /\ todo # {} /\ todo' = todo \ {NextFill}
      /\ UNCHANGED <<history, status, finalNav>>
  BY DEF Rebalance
<1> DEFINE mark == MarkToMarket(NextFill)
           nav == NavOf(cash, mark)
           target(rank) == SelectPortfolio(rank, DOMAIN positions)
           plan(rank) == PlanEqualWeight(target(rank), mark, nav)
           after(rank) == Settle(target(rank), nav, TotalCost(plan(rank)), NextFill)
<1>2. PICK rank \in RankSignals(Signals(history, PriorSession(NextFill))) :
        /\ positions' = after(rank).positions
        /\ cash' = after(rank).cash
        /\ trades' = trades \cup Apply(plan(rank), NextFill)
        /\ skipped' = (skipped \/ \E s \in DOMAIN plan(rank) \cup DOMAIN positions :
                                    ~Fillable(s, NextFill))
        /\ last' = [decision |-> PriorSession(NextFill), fill |-> NextFill,
                    rank |-> rank, target |-> target(rank), nav |-> nav,
                    cost |-> TotalCost(plan(rank))]
  BY DEF Rebalance
<1>3. last'.rank = rank /\ last'.target = target(rank)
  BY <1>2
<1>4. RebalanceWith(rank, target(rank), mark, nav, plan(rank), after(rank))
  BY <1>2, <1>3 DEF RebalanceWith
<1> HIDE DEF mark, nav, target, plan, after
<1>. QED  BY <1>1, <1>4

\* The types of those names, from the invariant.
LEMMA RebalanceTypes ==
  ASSUME IInv, todo # {}, NEW rank, NEW target, NEW mark, NEW nav, NEW plan, NEW after,
         RebalanceWith(rank, target, mark, nav, plan, after)
  PROVE  /\ NextFill \in todo
         /\ IsRanking(rank) /\ DOMAIN rank \subseteq Securities
         /\ target \subseteq DOMAIN rank /\ IsFiniteSet(target)
         /\ Cardinality(target) = Smaller(Cardinality(DOMAIN rank), PortfolioSize)
         /\ DOMAIN mark = DOMAIN positions /\ Summable(mark, DOMAIN mark)
         /\ nav = cash + Sum(mark, DOMAIN mark) /\ nav \in Int
         /\ DOMAIN plan \subseteq Securities /\ Summable(plan, DOMAIN plan)
         /\ TotalCost(plan) \in Int
<1>1. NextFill \in todo
  BY NextFillIsDue, CalendarAssumption DEF IInv, TypeOK
<1>2. IsRanking(rank) /\ DOMAIN rank \subseteq Securities
  BY RankSignalsRank DEF RebalanceWith
<1>3. IsFiniteSet(DOMAIN positions) /\ Holdings
  BY SecuritiesAssumption, FS_Subset DEF IInv, Holdings
<1>4. /\ target \subseteq DOMAIN rank /\ IsFiniteSet(target)
      /\ Cardinality(target) = Smaller(Cardinality(DOMAIN rank), PortfolioSize)
  BY <1>2, <1>3, SelectionIsFull DEF RebalanceWith, IInv
<1>5. DOMAIN mark = DOMAIN positions /\ Summable(mark, DOMAIN mark)
  BY <1>3, MarkFacts DEF RebalanceWith
<1>6. nav = cash + Sum(mark, DOMAIN mark) /\ nav \in Int
  <2>1. Sum(mark, DOMAIN mark) \in Int /\ cash \in Int
    BY <1>5, SumUnfolds DEF IInv, TypeOK
  <2>. QED  BY <2>1, SumFunctionIsSum DEF RebalanceWith, NavOf
<1>7. DOMAIN plan \subseteq Securities /\ Summable(plan, DOMAIN plan)
  <2>1. plan = PlanEqualWeight(target, mark, nav)
    BY DEF RebalanceWith
  <2>2. DOMAIN plan \subseteq target \cup DOMAIN mark /\ Summable(plan, DOMAIN plan)
    BY <1>4, <1>5, <1>6, <2>1, PlanFacts
  <2>. QED  BY <1>2, <1>3, <1>4, <1>5, <2>2 DEF Holdings
<1>8. TotalCost(plan) \in Int
  <2> DEFINE costs == [s \in DOMAIN plan |-> Cost(plan[s])]
  <2>1. Summable(costs, DOMAIN plan)
    BY <1>7, CostType DEF Summable
  <2>2. TotalCost(plan) = Sum(costs, DOMAIN plan)
    BY SumFunctionIsSum DEF TotalCost
  <2> HIDE DEF costs
  <2>. QED  BY <2>1, <2>2, SumUnfolds
<1>. QED  BY <1>1, <1>2, <1>4, <1>5, <1>6, <1>7, <1>8

\* One security across a fully filled rebalance: what is held plus what is
\* bought is what is held afterwards.
LEMMA QuantityMoves ==
  ASSUME NEW q \in Int, NEW share \in Int, NEW p \in Nat \ {0}
  PROVE  q + ((share - q * p) \div p) = share \div p
<1>1. share \div p \in Int
  BY QuotientBounds
<1>2. (share - q * p) \div p = (share \div p) - q
  BY QuotientOfShift
<1>. QED  BY <1>1, <1>2

\* The rebalance keeps the two books together while everything has a price.
LEMMA RebalanceLedger ==
  ASSUME IInv, todo # {}, NEW rank, NEW target, NEW mark, NEW nav, NEW plan, NEW after,
         RebalanceWith(rank, target, mark, nav, plan, after),
         UNCHANGED history, IsLog(Apply(plan, NextFill)),
         trades \cap Apply(plan, NextFill) = {}
  PROVE  LedgerAgrees'
<1> DEFINE d == NextFill
           log == Apply(plan, d)
<1> SUFFICES ASSUME ~skipped'
             PROVE  /\ cash' = Capital - Spent(trades)'
                    /\ \A s \in Securities : Bought(trades, s)' = Held(s)'
  BY DEF LedgerAgrees
<1>1. /\ ~skipped
      /\ \A s \in DOMAIN plan \cup DOMAIN positions : Fillable(s, d)
  BY DEF RebalanceWith
<1>2. /\ target \subseteq Securities /\ IsFiniteSet(target)
      /\ DOMAIN mark = DOMAIN positions /\ Summable(mark, DOMAIN mark)
      /\ nav = cash + Sum(mark, DOMAIN mark) /\ nav \in Int
      /\ DOMAIN plan \subseteq Securities /\ Summable(plan, DOMAIN plan)
      /\ TotalCost(plan) \in Int
  BY RebalanceTypes
<1>3. Holdings /\ cash \in Int /\ IsLog(trades)
  BY DEF IInv, TypeOK, LogOfThePast
<1>4. /\ cash = Capital - Spent(trades)
      /\ \A s \in Securities : Bought(trades, s) = Held(s)
  BY <1>1 DEF IInv, LedgerAgrees
<1>5. trades' = trades \cup log
  BY DEF RebalanceWith
<1>6. /\ Spent(trades) \in Int /\ Spent(log) \in Int
      /\ Spent(trades \cup log) = Spent(trades) + Spent(log)
      /\ \A s : Bought(trades \cup log, s) = Bought(trades, s) + Bought(log, s)
  <2> HIDE DEF log
  <2>1. IsLog(log) /\ trades \cap log = {}
    BY DEF log
  <2>2. AddUp(trades, log)
    BY <1>3, <2>1, LogsAdd
  <2>. QED  BY <2>2 DEF AddUp
<1>7. /\ Spent(log) = Sum(plan, DOMAIN plan) + TotalCost(plan)
      /\ \A s : Bought(log, s)
                  = IF s \in DOMAIN plan THEN plan[s] \div Price(history[s], d) ELSE 0
  BY <1>1, <1>2, <1>3, ApplyTakesThePlan
<1>8. /\ \A s \in target \cup DOMAIN mark :
           LET delta == Share(target, nav, s) - Marked(mark, s)
           IN  /\ s \in DOMAIN plan <=> delta # 0
               /\ s \in DOMAIN plan => plan[s] = delta
      /\ DOMAIN plan \subseteq target \cup DOMAIN mark
      /\ Sum(plan, DOMAIN plan) = Invested(target, nav) - Sum(mark, DOMAIN mark)
  <2>1. plan = PlanEqualWeight(target, mark, nav)
    BY DEF RebalanceWith
  <2>. QED  BY <1>2, <2>1, PlanFacts
<1>9. \A s : Share(target, nav, s) \in Int
  BY <1>2, TargetValueType
<1>10. \A s \in DOMAIN positions :
         /\ Fillable(s, d) /\ Price(history[s], d) \in Nat \ {0}
         /\ Marked(mark, s) = positions[s] * Price(history[s], d)
         /\ positions[s] \in Int
  <2>1. mark = MarkToMarket(d)
    BY DEF RebalanceWith
  <2>. QED  BY <1>1, <1>2, <1>3, <2>1, MarkFacts, FillPrice DEF Holdings, Marked
<1>11. /\ \A s \in target : s \in DOMAIN after.positions <=> Fillable(s, d)
       /\ DOMAIN after.positions \subseteq target
       /\ \A s \in DOMAIN after.positions :
            after.positions[s] = TargetValue(target, nav) \div Price(history[s], d)
       /\ (\A s \in target : Fillable(s, d)) \/ TargetValue(target, nav) = 0
            => after.cash = nav - TotalCost(plan) - Invested(target, nav)
  <2>1. after = Settle(target, nav, TotalCost(plan), d)
    BY DEF RebalanceWith
  <2>2. Settled(after, target, nav, TotalCost(plan), d)
    BY <1>2, <1>3, <2>1, SettleFacts
  <2>. QED  BY <2>2 DEF Settled
<1>12. ASSUME NEW s \in target, s \notin DOMAIN positions, TargetValue(target, nav) # 0
       PROVE  s \in DOMAIN plan /\ Fillable(s, d)
  <2>1. Share(target, nav, s) # 0 /\ Marked(mark, s) = 0
    BY <1>2, <1>12 DEF Share, Marked
  <2>2. Share(target, nav, s) - Marked(mark, s) # 0
    BY <1>9, <2>1
  <2>. QED  BY <1>1, <1>8, <2>2
<1>13. cash' = Capital - Spent(trades)'
  <2>1. after.cash = nav - TotalCost(plan) - Invested(target, nav)
    BY <1>10, <1>11, <1>12
  <2>2. cash' = after.cash
    BY DEF RebalanceWith
  <2>3. Invested(target, nav) \in Int /\ Sum(mark, DOMAIN mark) \in Int /\ Capital \in Int
    BY <1>2, TargetValueType, SumUnfolds, MoneyAssumption
  <2>4. Spent(trades)' = Spent(trades \cup log)
    BY <1>5 DEF Spent
  <2>. QED  BY <1>2, <1>4, <1>6, <1>7, <1>8, <2>1, <2>2, <2>3, <2>4
<1>14. ASSUME NEW s \in Securities
       PROVE  Bought(trades, s)' = Held(s)'
  <2> DEFINE p == Price(history[s], d)
             share == Share(target, nav, s)
  <2>1. Bought(trades, s)' = Held(s) + Bought(log, s)
    <3>1. Bought(trades, s)' = Bought(trades \cup log, s)
      BY <1>5 DEF Bought
    <3>. QED  BY <1>4, <1>6, <3>1
  <2>2. Held(s)' = IF s \in DOMAIN after.positions THEN after.positions[s] ELSE 0
    BY DEF Held, RebalanceWith
  <2>3. CASE s \in DOMAIN positions
    <3>1. /\ p \in Nat \ {0} /\ positions[s] \in Int /\ share \in Int
          /\ Marked(mark, s) = positions[s] * p /\ Held(s) = positions[s]
      BY <1>9, <1>10, <2>3 DEF Held
    <3>2. Bought(log, s) = (share - positions[s] * p) \div p
      <4>1. CASE s \in DOMAIN plan
        BY <1>2, <1>7, <1>8, <2>3, <3>1, <4>1
      <4>2. CASE s \notin DOMAIN plan
        <5>1. share - positions[s] * p = 0
          BY <1>2, <1>8, <2>3, <3>1, <4>2
        <5>2. 0 \div p = 0
          BY <3>1
        <5>. QED  BY <1>7, <4>2, <5>1, <5>2
      <4>. QED  BY <4>1, <4>2
    <3>3. Held(s) + Bought(log, s) = share \div p
      <4> HIDE DEF p, share
      <4>1. \A q \in Int : q + ((share - q * p) \div p) = share \div p
        BY <3>1, QuantityMoves
      <4>. QED  BY <3>1, <3>2, <4>1
    <3>4. Held(s)' = share \div p
      <4>1. CASE s \in target
        BY <1>10, <1>11, <2>2, <2>3, <4>1 DEF Share
      <4>2. CASE s \notin target
        <5>1. 0 \div p = 0
          BY <3>1
        <5>. QED  BY <1>11, <2>2, <4>2, <5>1 DEF Share
      <4>. QED  BY <4>1, <4>2
    <3>. QED  BY <2>1, <3>3, <3>4
  <2>4. CASE s \notin DOMAIN positions /\ s \in target /\ TargetValue(target, nav) # 0
    <3>1. s \in DOMAIN plan /\ Fillable(s, d)
      BY <1>12, <2>4
    <3>2. plan[s] = TargetValue(target, nav)
      <4>1. Share(target, nav, s) = TargetValue(target, nav) /\ Marked(mark, s) = 0
        BY <1>2, <2>4 DEF Share, Marked
      <4>2. Share(target, nav, s) \in Int
        BY <1>9
      <4>3. plan[s] = Share(target, nav, s) - Marked(mark, s)
        BY <1>8, <2>4, <3>1
      <4>. QED  BY <4>1, <4>2, <4>3
    <3>3. Held(s) = 0 /\ Held(s)' = TargetValue(target, nav) \div p
      BY <1>11, <2>2, <2>4, <3>1 DEF Held
    <3>4. TargetValue(target, nav) \div p \in Int
      <4>1. p \in Nat \ {0} /\ TargetValue(target, nav) \in Int
        BY <1>2, <1>3, <2>4, <3>1, FillPrice, TargetValueType DEF Holdings
      <4> HIDE DEF p
      <4>. QED  BY <4>1, QuotientBounds
    <3>5. Bought(log, s) = TargetValue(target, nav) \div p
      BY <1>7, <3>1, <3>2
    <3>. QED  BY <2>1, <3>3, <3>4, <3>5
  <2>5. CASE s \notin DOMAIN positions /\ ~(s \in target /\ TargetValue(target, nav) # 0)
    <3>1. share = 0 /\ Marked(mark, s) = 0 /\ Held(s) = 0
      BY <1>2, <2>5 DEF Share, Marked, Held
    <3>2. s \notin DOMAIN plan
      BY <1>8, <3>1
    <3>3. Held(s)' = 0
      <4>1. CASE s \in DOMAIN after.positions
        <5>1. p \in Nat \ {0} /\ after.positions[s] = TargetValue(target, nav) \div p
          BY <1>3, <1>11, <4>1, FillPrice DEF Holdings
        <5>2. TargetValue(target, nav) = 0
          BY <1>11, <2>5, <4>1
        <5>3. 0 \div p = 0
          BY <5>1
        <5>. QED  BY <2>2, <4>1, <5>1, <5>2, <5>3
      <4>2. CASE s \notin DOMAIN after.positions
        BY <2>2, <4>2
      <4>. QED  BY <4>1, <4>2
    <3>. QED  BY <1>7, <2>1, <3>1, <3>2, <3>3
  <2>. QED  BY <2>3, <2>4, <2>5
<1>. QED  BY <1>13, <1>14

\* A rebalance keeps the invariant.
LEMMA RebalanceIInv ==
  ASSUME IInv, Rebalance
  PROVE  IInv'
<1>1. /\ status = "running" /\ todo # {} /\ todo' = todo \ {NextFill}
      /\ history' = history /\ status' = status /\ finalNav' = finalNav
  BY RebalanceNamed
<1>2. PICK rank, target, mark, nav, plan, after :
        RebalanceWith(rank, target, mark, nav, plan, after)
  BY RebalanceNamed
<1> DEFINE log == Apply(plan, NextFill)
<1>3. /\ NextFill \in todo
      /\ IsRanking(rank) /\ DOMAIN rank \subseteq Securities
      /\ target \subseteq DOMAIN rank /\ IsFiniteSet(target)
      /\ Cardinality(target) = Smaller(Cardinality(DOMAIN rank), PortfolioSize)
      /\ DOMAIN plan \subseteq Securities /\ Summable(plan, DOMAIN plan)
      /\ nav \in Int /\ TotalCost(plan) \in Int
  BY <1>1, <1>2, RebalanceTypes
<1>4. TypeOK /\ Holdings /\ LogOfThePast
  BY DEF IInv
<1>5. /\ positions' = after.positions /\ cash' = after.cash
      /\ trades' = trades \cup log
      /\ last'.rank = rank /\ last'.target = target
  BY <1>2 DEF RebalanceWith
<1>6. Settled(after, target, nav, TotalCost(plan), NextFill)
  <2>1. after = Settle(target, nav, TotalCost(plan), NextFill) /\ target \subseteq Securities
    BY <1>2, <1>3 DEF RebalanceWith
  <2>. QED  BY <1>3, <1>4, <2>1, SettleFacts
<1>7. TypeOK' /\ Holdings'
  BY <1>1, <1>3, <1>4, <1>5, <1>6 DEF TypeOK, Holdings, Settled
<1>8. Cardinality(DOMAIN positions)' <= PortfolioSize
  <2>1. DOMAIN after.positions \in SUBSET target
    BY <1>6 DEF Settled
  <2>2. /\ Cardinality(DOMAIN after.positions) \in Nat /\ Cardinality(target) \in Nat
        /\ Cardinality(DOMAIN after.positions) <= Cardinality(target)
    BY <1>3, <2>1, FS_Subset, FS_CardinalityType
  <2>3. Cardinality(target) <= PortfolioSize
    BY <1>3, <2>2, FS_CardinalityType, SizeAssumption DEF Smaller, IsRanking
  <2>. QED  BY <1>5, <2>2, <2>3, SizeAssumption
<1>9. IsLog(log) /\ \A t \in log : t.fill = NextFill
  BY <1>3, <1>4, ApplyIsLog
<1>10. trades \cap log = {}
  BY <1>3, <1>4, <1>9 DEF LogOfThePast
<1>11. LogOfThePast'
  <2>1. AddUp(trades, log)
    <3> HIDE DEF log
    <3>. QED  BY <1>4, <1>9, <1>10, LogsAdd DEF LogOfThePast
  <2>2. IsLog(trades \cup log)
    BY <2>1 DEF AddUp
  <2>3. \A t \in trades \cup log : t.fill \notin todo \ {NextFill}
    BY <1>4, <1>9 DEF LogOfThePast
  <2>. QED  BY <1>1, <1>5, <2>2, <2>3 DEF LogOfThePast
<1>12. LedgerAgrees'
  BY <1>1, <1>2, <1>9, <1>10, RebalanceLedger
<1>13. Reported'
  BY <1>1 DEF Reported
<1>14. PortfolioIsFull'
  BY <1>3, <1>5 DEF PortfolioIsFull, Smaller
<1>. QED  BY <1>7, <1>8, <1>11, <1>12, <1>13, <1>14 DEF IInv

\* So do the other steps, which leave the books alone: the last one writes the
\* replayed value down.
LEMMA BooksUntouched ==
  ASSUME IInv, UNCHANGED <<history, todo, positions, cash, trades, last, skipped>>,
         status' \in {"running", "done", "failed"},
         status' = "done" => finalNav' = Replayed(trades, End)
  PROVE  IInv'
<1>1. TypeOK' /\ Holdings'
  BY DEF IInv, TypeOK, Holdings
<1>2. Cardinality(DOMAIN positions)' <= PortfolioSize
  BY DEF IInv
<1>3. LogOfThePast'
  BY DEF IInv, LogOfThePast
<1>4. LedgerAgrees'
  BY DEF IInv, LedgerAgrees, Held, Spent, Bought
<1>5. Reported'
  BY DEF Reported, Replayed, Price, PriceOnOrBefore, Bought, Spent
<1>6. PortfolioIsFull'
  BY DEF IInv, PortfolioIsFull
<1>. QED  BY <1>1, <1>2, <1>3, <1>4, <1>5, <1>6 DEF IInv

LEMMA NextIInv ==
  ASSUME IInv, [Next]_vars
  PROVE  IInv'
<1>1. CASE Rebalance
  BY <1>1, RebalanceIInv
<1>2. CASE Fail
  BY <1>2, BooksUntouched DEF Fail
<1>3. CASE Finish
  BY <1>3, BooksUntouched DEF Finish
<1>4. CASE UNCHANGED vars
  BY <1>4, BooksUntouched DEF vars, IInv, TypeOK, Reported
<1>. QED  BY <1>1, <1>2, <1>3, <1>4 DEF Next

LEMMA BacktestInvariant == Spec => []IInv
<1>1. Init => IInv
  BY InitIInv
<1>2. IInv /\ [Next]_vars => IInv'
  BY NextIInv
<1>. QED  BY <1>1, <1>2, PTL DEF Spec

\* Every state of a backtest has its type.
THEOREM BacktestTypes == Spec => []TypeOK
<1>1. IInv => TypeOK
  BY DEF IInv
<1>. QED  BY <1>1, BacktestInvariant, PTL

-----------------------------------------------------------------------------
(* What the backtest promises.                                               *)

\* No look-ahead: of two databases that agree on the rows up to the decision
\* date, a rebalance makes the same signals, whatever either says of the days
\* after it.
THEOREM NoDecisionReadsTheFuture == Spec => []DecisionsIgnoreTheFuture
<1>1. IInv => DecisionsIgnoreTheFuture
  BY NoLookAhead DEF IInv, TypeOK
<1>. QED  BY <1>1, BacktestInvariant, PTL

\* Whatever was held, a rebalance targets as many securities as it ranked, up
\* to the size of the portfolio: the buffer neither leaves a slot empty nor
\* fills one too many.
THEOREM BufferFillsThePortfolio == Spec => []PortfolioIsFull
<1>1. IInv => PortfolioIsFull
  BY DEF IInv
<1>. QED  BY <1>1, BacktestInvariant, PTL

\* A log that agrees with the loop's books is worth on a day what they are.
LEMMA LogIsWorthTheBooks ==
  ASSUME Holdings, IsLog(trades), cash = Capital - Spent(trades), NEW d,
         \A s \in Securities : Bought(trades, s) = Held(s)
  PROVE  Replayed(trades, d) = NavOf(cash, MarkToMarket(d))
<1> DEFINE mark == MarkToMarket(d)
           Value(s) == LET p == Price(history[s], d)
                       IN  IF p = None THEN 0 ELSE Bought(trades, s) * p
           held == {s \in Securities : Bought(trades, s) # 0}
           worth == [s \in held |-> Value(s)]
           D == DOMAIN positions
<1>1. DOMAIN mark = D /\ Summable(mark, D)
  BY MarkFacts
<1>2. /\ held \in SUBSET D
      /\ \A s \in held : worth[s] = mark[s]
      /\ \A s \in D \ held : mark[s] = 0
  <2>1. \A s \in Securities : /\ s \in held <=> Held(s) # 0
                              /\ Bought(trades, s) = Held(s)
    OBVIOUS
  <2>2. ASSUME NEW s \in held PROVE s \in D /\ worth[s] = mark[s]
    <3>1. s \in D /\ Held(s) = positions[s]
      BY <2>1, <2>2 DEF Held
    <3>. QED  BY <2>1, <3>1 DEF MarkToMarket
  <2>3. ASSUME NEW s \in D \ held PROVE mark[s] = 0
    <3>1. positions[s] = 0
      BY <2>1 DEF Held, Holdings
    <3>2. s \in Securities /\ Price(history[s], d) \in Nat \cup {None}
      BY FillPrice DEF Holdings
    <3>. QED  BY <3>1, <3>2 DEF MarkToMarket
  <2>. QED  BY <2>2, <2>3
<1>3. Sum(mark, D) = Sum(mark, held)
  <2> HIDE DEF mark, held, D
  <2>. QED  BY <1>1, <1>2, SumOfSupport
<1>4. Sum(worth, held) = Sum(mark, held)
  <2>1. Summable(mark, held)
    <3> HIDE DEF mark, held, D
    <3>. QED  BY <1>1, <1>2, SumOfPart
  <2> HIDE DEF mark, held, worth, D
  <2>. QED  BY <1>2, <2>1, SumCongruent
<1>5. DOMAIN worth = held
  OBVIOUS
<1>6. Replayed(trades, d) = Capital - Spent(trades) + Sum(worth, held)
  BY <1>5, SumFunctionIsSum DEF Replayed
<1>7. NavOf(cash, mark) = cash + Sum(mark, D)
  BY <1>1, SumFunctionIsSum DEF NavOf
<1>. QED  BY <1>3, <1>4, <1>6, <1>7

\* The two bookkeepings agree: the value replayed from the trade log is what
\* the loop's own positions and cash are worth at the end, unless a holding or
\* a planned trade had no price to be filled at.
THEOREM ReplayIsTheLoop == Spec => []ReplayAgreesWithLoop
<1>1. IInv => ReplayAgreesWithLoop
  BY LogIsWorthTheBooks
     DEF IInv, ReplayAgreesWithLoop, LogOfThePast, LedgerAgrees, Reported
<1>. QED  BY <1>1, BacktestInvariant, PTL

\* Between two rebalances a security is sold only if it fell past the buffer or
\* off the ranking, and bought only from the top of the ranking, with nothing
\* ranked better left out.
LEMMA SelectionHonoursTheBuffer ==
  ASSUME NEW rank, IsRanking(rank), NEW held, IsFiniteSet(held),
         Cardinality(held) <= PortfolioSize
  PROVE  LET target == SelectPortfolio(rank, held)
         IN  /\ \A s \in held \ target : s \in DOMAIN rank => rank[s] > BufferRank
             /\ \A s \in target \ held :
                  /\ rank[s] <= PortfolioSize
                  /\ \A t \in DOMAIN rank : rank[t] < rank[s] => t \in target
<1> DEFINE target == SelectPortfolio(rank, held)
           K == Kept(rank, held)
           C == Top(rank) \ K
           free == PortfolioSize - Cardinality(K)
<1>1. target = K \cup {s \in C : Cardinality(Better(rank, C, s)) < free}
  BY DEF SelectPortfolio, Better, Top
<1>2. \A s \in DOMAIN rank : rank[s] \in Nat
  BY DEF IsRanking
<1>3. PortfolioSize \in Nat /\ BufferRank \in Int
  BY SizeAssumption DEF BufferRank
<1>4. IsFiniteSet(DOMAIN rank) /\ IsFiniteSet(K) /\ Cardinality(K) \in Nat
  <2>1. K \in SUBSET held
    BY DEF Kept
  <2>. QED  BY <2>1, FS_Subset, FS_CardinalityType DEF IsRanking
<1>5. ASSUME NEW s \in held \ target, s \in DOMAIN rank PROVE rank[s] > BufferRank
  <2>1. s \notin K
    BY <1>1, <1>5
  <2>. QED  BY <1>2, <1>3, <1>5, <2>1 DEF Kept
<1>6. ASSUME NEW s \in target \ held
      PROVE  s \in C /\ rank[s] <= PortfolioSize /\ Cardinality(Better(rank, C, s)) < free
  BY <1>1 DEF Kept, Top
<1>7. ASSUME NEW s \in target \ held, NEW t \in DOMAIN rank, rank[t] < rank[s]
      PROVE  t \in target
  <2>1. s \in DOMAIN rank /\ t \in Top(rank)
    <3>1. s \in C /\ rank[s] <= PortfolioSize
      BY <1>6
    <3>2. s \in DOMAIN rank
      BY <3>1 DEF Top
    <3>3. rank[s] \in Nat /\ rank[t] \in Nat
      BY <1>2, <3>2
    <3>4. rank[t] <= PortfolioSize
      BY <1>3, <1>7, <3>1, <3>3
    <3>. QED  BY <3>2, <3>4 DEF Top
  <2>2. CASE t \in K
    BY <1>1, <2>2
  <2>3. CASE t \notin K
    <3>1. Better(rank, C, t) \in SUBSET Better(rank, C, s) /\ Better(rank, C, s) \in SUBSET DOMAIN rank
      BY <1>2, <1>7, <2>1 DEF Better, Top
    <3>2. IsFiniteSet(Better(rank, C, s))
      BY <1>4, <3>1, FS_Subset
    <3>3. /\ Cardinality(Better(rank, C, t)) <= Cardinality(Better(rank, C, s))
          /\ Cardinality(Better(rank, C, t)) \in Nat /\ Cardinality(Better(rank, C, s)) \in Nat
      <4> HIDE DEF C
      <4>. QED  BY <3>1, <3>2, FS_Subset, FS_CardinalityType
    <3>4. Cardinality(Better(rank, C, t)) < free
      BY <1>3, <1>4, <1>6, <3>3
    <3>. QED  BY <1>1, <2>1, <2>3, <3>4
  <2>. QED  BY <2>2, <2>3
<1>. QED  BY <1>5, <1>6, <1>7

\* Every step of a backtest honours the buffer.
THEOREM BufferIsAlwaysHonoured == Spec => BufferIsHonoured
<1> DEFINE Honoured ==
      last' # last =>
        LET rank == last'.rank
            held == DOMAIN positions
            bought == last'.target \ held
        IN  /\ \A s \in held \ last'.target : s \in DOMAIN rank => rank[s] > BufferRank
            /\ \A s \in bought :
                 /\ rank[s] <= PortfolioSize
                 /\ \A t \in DOMAIN rank : rank[t] < rank[s] => t \in last'.target
<1>1. ASSUME IInv, [Next]_vars PROVE [Honoured]_vars
  <2>1. CASE Rebalance
    <3>1. PICK rank, target, mark, nav, plan, after :
            RebalanceWith(rank, target, mark, nav, plan, after)
      BY <2>1, RebalanceNamed
    <3>2. /\ last'.rank = rank /\ last'.target = target
          /\ target = SelectPortfolio(rank, DOMAIN positions)
      BY <3>1 DEF RebalanceWith
    <3>3. IsRanking(rank)
      BY <3>1, RankSignalsRank DEF RebalanceWith
    <3>4. IsFiniteSet(DOMAIN positions) /\ Cardinality(DOMAIN positions) <= PortfolioSize
      BY <1>1, SecuritiesAssumption, FS_Subset DEF IInv, Holdings
    <3>. QED  BY <3>2, <3>3, <3>4, SelectionHonoursTheBuffer
  <2>2. CASE Fail \/ Finish \/ UNCHANGED vars
    BY <2>2 DEF Fail, Finish, vars
  <2>. QED  BY <1>1, <2>1, <2>2 DEF Next
<1>2. IInv /\ [Next]_vars => [Honoured]_vars
  BY <1>1
<1>. QED  BY <1>2, BacktestInvariant, PTL DEF Spec, BufferIsHonoured
=============================================================================
