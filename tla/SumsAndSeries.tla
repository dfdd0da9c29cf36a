---------------------------- MODULE SumsAndSeries ----------------------------
(* Induction over the natural numbers and over the subsets of a finite set,  *)
(* stated with sets instead of predicates so that a proof can cite them; what *)
(* a sum over a finite set of integers is; quotients; the parts of a series of *)
(* bars; and the places of what is ordered: the facts that the proofs about   *)
(* ledgers, rankings and histories rest on.                                   *)
EXTENDS Series, FiniteSetsExt, Functions, FiniteSetTheorems, FunctionTheorems,
        SequenceTheorems, WellFoundedInduction, TLAPS

-----------------------------------------------------------------------------
(* Induction.                                                                *)

\* A set of numbers with 0 and the successor of every member has them all.
LEMMA NatSetInduction ==
  ASSUME NEW T, 0 \in T, \A n \in Nat : n \in T => n + 1 \in T
  PROVE  Nat \subseteq T
<1> DEFINE Rest == {n \in Nat : n \notin T}
           Less == OpToRel(<, Nat)
<1>1. \A x, y \in Nat : x < y => <<x, y>> \in Less
  BY DEF OpToRel
<1>2. IsWellFoundedOn(Less, Nat)
  BY NatLessThanWellFounded
<1>3. Rest \subseteq Nat
  OBVIOUS
<1> HIDE DEF Rest, Less
<1>4. ASSUME Rest # {} PROVE FALSE
  <2>1. PICK m \in Rest : \A k \in Rest : <<k, m>> \notin Less
    BY <1>2, <1>3, <1>4, WFMin
  <2>2. m # 0 /\ m - 1 \in Nat /\ m - 1 < m
    BY <2>1 DEF Rest
  <2>3. m - 1 \notin Rest
    BY <1>1, <1>3, <2>1, <2>2
  <2>. QED  BY <2>1, <2>2, <2>3 DEF Rest
<1>. QED  BY <1>4 DEF Rest

\* A nonempty set of natural numbers has a least member.
LEMMA NatSetHasMin ==
  ASSUME NEW S \in SUBSET Nat, S # {}
  PROVE  Min(S) \in S /\ \A n \in S : Min(S) <= n
<1> DEFINE Less == OpToRel(<, Nat)
<1>1. \A x, y \in Nat : x < y => <<x, y>> \in Less
  BY DEF OpToRel
<1>2. IsWellFoundedOn(Less, Nat)
  BY NatLessThanWellFounded
<1> HIDE DEF Less
<1>3. PICK m \in S : \A k \in S : <<k, m>> \notin Less
  BY <1>2, WFMin
<1>4. \A k \in S : m <= k
  <2> SUFFICES ASSUME NEW k \in S PROVE m <= k
    OBVIOUS
  <2>1. m \in Nat /\ k \in Nat /\ ~(k < m)
    BY <1>1, <1>3
  <2>. QED  BY <2>1
<1>. QED  BY <1>3, <1>4 DEF Min

\* A nonempty set of integers between two bounds has a greatest member.
LEMMA BoundedSetHasMax ==
  ASSUME NEW S \in SUBSET Int, S # {}, NEW top \in Int, \A n \in S : n <= top
  PROVE  Max(S) \in S /\ \A n \in S : n <= Max(S)
<1> DEFINE Gaps == {g \in Nat : top - g \in S}
<1>1. Gaps \subseteq Nat /\ Gaps # {}
  <2>1. PICK n \in S : TRUE
    OBVIOUS
  <2>2. top - n \in Nat /\ top - (top - n) = n
    BY <2>1
  <2>. QED  BY <2>1, <2>2
<1>2. Min(Gaps) \in Gaps /\ \A g \in Gaps : Min(Gaps) <= g
  BY <1>1, NatSetHasMin
<1>3. \A n \in S : top - n \in Gaps
  <2>1. \A n \in S : top - n \in Nat /\ top - (top - n) = n
    OBVIOUS
  <2>. QED  BY <2>1
<1>4. \A n \in S : n <= top - Min(Gaps)
  <2> SUFFICES ASSUME NEW n \in S PROVE n <= top - Min(Gaps)
    OBVIOUS
  <2>1. Min(Gaps) <= top - n /\ Min(Gaps) \in Int /\ n \in Int
    BY <1>1, <1>2, <1>3
  <2>. QED  BY <2>1
<1>5. top - Min(Gaps) \in S
  BY <1>2
<1>. QED  BY <1>4, <1>5 DEF Max

\* A family with the empty set, and with every member one element larger,
\* has the finite set itself.
LEMMA FiniteSetInduction ==
  ASSUME NEW S, IsFiniteSet(S), NEW T, {} \in T,
         \A U \in SUBSET S : \A x \in S \ U : U \in T => U \cup {x} \in T
  PROVE  S \in T
<1> DEFINE Rest == {U \in SUBSET S : U \notin T}
<1>1. IsWellFoundedOn(StrictSubsetOrdering(S), SUBSET S)
  BY FS_StrictSubsetOrderingWellFounded, FS_FiniteSubsetsOfFinite
<1>2. ASSUME Rest # {} PROVE FALSE
  <2>1. Rest \subseteq SUBSET S
    OBVIOUS
  <2>2. PICK U \in Rest : \A V \in Rest : <<V, U>> \notin StrictSubsetOrdering(S)
    BY <1>1, <1>2, <2>1, WFMin
  <2>3. PICK x \in U : TRUE
    BY <2>2
  <2>4. <<U \ {x}, U>> \in StrictSubsetOrdering(S)
    BY <2>2, <2>3 DEF StrictSubsetOrdering
  <2>5. U \ {x} \in T
    BY <2>2, <2>3, <2>4
  <2>6. U = (U \ {x}) \cup {x} /\ x \in S \ (U \ {x})
    BY <2>2, <2>3
  <2>. QED  BY <2>2, <2>5, <2>6
<1>. QED  BY <1>2

\* The values of a function on a finite set are finitely many.
LEMMA FiniteImage ==
  ASSUME NEW S, IsFiniteSet(S), NEW f
  PROVE  IsFiniteSet({f[x] : x \in S})
<1> DEFINE T == {U \in SUBSET S : IsFiniteSet({f[x] : x \in U})}
<1>1. {} \in T
  <2>1. {f[x] : x \in {}} = {}
    OBVIOUS
  <2>. QED  BY <2>1, FS_EmptySet
<1>2. ASSUME NEW U \in SUBSET S, NEW y \in S \ U, U \in T PROVE U \cup {y} \in T
  <2>1. {f[x] : x \in U \cup {y}} = {f[x] : x \in U} \cup {f[y]}
    OBVIOUS
  <2>2. IsFiniteSet({f[x] : x \in U})
    BY <1>2
  <2>3. IsFiniteSet({f[x] : x \in U} \cup {f[y]})
    BY <2>2, FS_AddElement
  <2>4. IsFiniteSet({f[x] : x \in U \cup {y}}) /\ U \cup {y} \in SUBSET S
    BY <2>1, <2>3
  <2>. QED  BY <2>4
<1> HIDE DEF T
<1>3. S \in T
  BY <1>1, <1>2, FiniteSetInduction
<1>. QED  BY <1>3 DEF T

\* A finite set of integers has a least and a greatest member.
LEMMA FiniteSetHasBounds ==
  ASSUME NEW S \in SUBSET Int, IsFiniteSet(S), S # {}
  PROVE  /\ Min(S) \in S /\ \A n \in S : Min(S) <= n
         /\ Max(S) \in S /\ \A n \in S : n <= Max(S)
<1> DEFINE Bounded(U) == U = {} \/ ((\E a \in U : \A n \in U : a <= n) /\ (\E b \in U : \A n \in U : n <= b))
           T == {U \in SUBSET S : Bounded(U)}
<1>1. {} \in T
  OBVIOUS
<1>2. ASSUME NEW U \in SUBSET S, NEW x \in S \ U, U \in T PROVE U \cup {x} \in T
  <2>1. CASE U = {}
    <3>1. U \cup {x} = {x} /\ x <= x
      BY <2>1
    <3>. QED  BY <3>1
  <2>2. CASE U # {}
    <3>1. PICK a \in U : \A n \in U : a <= n
      BY <1>2, <2>2
    <3>2. PICK b \in U : \A n \in U : n <= b
      BY <1>2, <2>2
    <3>3. \E m \in U \cup {x} : \A n \in U \cup {x} : m <= n
      <4>1. CASE x <= a
        BY <3>1, <4>1
      <4>2. CASE ~(x <= a)
        BY <3>1, <4>2
      <4>. QED  BY <4>1, <4>2
    <3>4. \E m \in U \cup {x} : \A n \in U \cup {x} : n <= m
      <4>1. CASE b <= x
        BY <3>2, <4>1
      <4>2. CASE ~(b <= x)
        BY <3>2, <4>2
      <4>. QED  BY <4>1, <4>2
    <3>. QED  BY <3>3, <3>4
  <2>. QED  BY <2>1, <2>2
<1>3. S \in T
  <2> HIDE DEF T
  <2>. QED  BY <1>1, <1>2, FiniteSetInduction
<1>4. \E a \in S : \A n \in S : a <= n
  BY <1>3
<1>5. \E b \in S : \A n \in S : b >= n
  BY <1>3
<1>. QED  BY <1>4, <1>5 DEF Min, Max

LEMMA DisjointUnion ==
  ASSUME NEW A, NEW B, IsFiniteSet(A), IsFiniteSet(B), A \cap B = {}
  PROVE  /\ IsFiniteSet(A \cup B)
         /\ Cardinality(A \cup B) = Cardinality(A) + Cardinality(B)
<1>1. Cardinality(A) \in Nat /\ Cardinality(B) \in Nat /\ Cardinality({}) = 0
  BY FS_CardinalityType, FS_EmptySet
<1>2. Cardinality(A \cup B) = Cardinality(A) + Cardinality(B) - Cardinality(A \cap B)
  BY FS_Union
<1>3. Cardinality(A \cup B) = Cardinality(A) + Cardinality(B)
  <2>1. Cardinality(A \cap B) = 0
    BY <1>1
  <2>2. \A m, n \in Nat : m + n - 0 = m + n
    OBVIOUS
  <2>. QED  BY <1>1, <1>2, <2>1, <2>2
<1>. QED  BY <1>3, FS_Union

-----------------------------------------------------------------------------
(* Recursion over the subsets of a finite set: what a fold computes for a    *)
(* set is a step from what it computes for the set less the element picked.  *)

Picks(pick, S) == \A U \in SUBSET S : U # {} => pick[U] \in U

Follows(g, S, base, pick, step) ==
  \A U \in SUBSET S :
    g[U] = IF U = {} THEN base ELSE step[<<U, g[U \ {pick[U]}]>>]

\* There is a function that follows the recursion: defined for the subsets of
\* one size after the other.
LEMMA SetRecursionExists ==
  ASSUME NEW S, IsFiniteSet(S), NEW V, NEW base \in V,
         NEW pick, Picks(pick, S),
         NEW step \in [(SUBSET S) \X V -> V]
  PROVE  \E g \in [SUBSET S -> V] : Follows(g, S, base, pick, step)
<1> DEFINE Small(k) == {U \in SUBSET S : Cardinality(U) <= k}
           Body(g, U) == IF U = {} THEN base ELSE step[<<U, g[U \ {pick[U]}]>>]
           Good(g, k) == \A U \in Small(k) : g[U] = Body(g, U)
           T == {k \in Nat : \E g \in [SUBSET S -> V] : Good(g, k)}
<1>1. \A U \in SUBSET S :
        /\ IsFiniteSet(U) /\ Cardinality(U) \in Nat /\ Cardinality(U) <= Cardinality(S)
        /\ Cardinality(U) = 0 <=> U = {}
  BY FS_Subset, FS_CardinalityType, FS_EmptySet
<1>2. \A U \in SUBSET S : U # {} =>
        /\ U \ {pick[U]} \in SUBSET S
        /\ Cardinality(U \ {pick[U]}) = Cardinality(U) - 1
  BY <1>1, FS_RemoveElement DEF Picks
<1>3. 0 \in T
  <2> DEFINE g == [U \in SUBSET S |-> base]
  <2>1. g \in [SUBSET S -> V]
    OBVIOUS
  <2>2. Good(g, 0)
    BY <1>1
  <2>. QED  BY <2>1, <2>2
<1>4. ASSUME NEW k \in Nat, k \in T PROVE k + 1 \in T
  <2>4. PICK g \in [SUBSET S -> V] : Good(g, k)
    BY <1>4
  <2> DEFINE h == [U \in SUBSET S |-> IF Cardinality(U) <= k THEN g[U] ELSE Body(g, U)]
  <2>1. \A U \in SUBSET S : Body(g, U) \in V
    BY <1>2
  <2>2. h \in [SUBSET S -> V]
    BY <2>1
  <2>3. ASSUME NEW U \in Small(k + 1) PROVE h[U] = Body(h, U)
    <3>1. U \in SUBSET S /\ Cardinality(U) <= k + 1 /\ Cardinality(U) \in Nat
      BY <1>1
    <3>2. h[U] = Body(g, U)
      BY <2>4, <3>1
    <3>3. CASE U = {}
      BY <3>2, <3>3
    <3>4. CASE U # {}
      <4>1. h[U \ {pick[U]}] = g[U \ {pick[U]}]
        BY <1>2, <3>1, <3>4
      <4>. QED  BY <3>2, <3>4, <4>1
    <3>. QED  BY <3>3, <3>4
  <2> HIDE DEF h
  <2>5. Good(h, k + 1)
    BY <2>3
  <2> HIDE DEF Good
  <2>. QED  BY <2>2, <2>5
<1> HIDE DEF T
<1>5. Cardinality(S) \in T
  BY <1>1, <1>3, <1>4, NatSetInduction
<1> USE DEF T
<1>6. PICK g \in [SUBSET S -> V] : Good(g, Cardinality(S))
  BY <1>5
<1>. QED  BY <1>1, <1>6 DEF Follows

AgreeStepwise(g, h, S, pick) ==
  /\ g[{}] = h[{}]
  /\ \A U \in SUBSET S :
       U # {} /\ g[U \ {pick[U]}] = h[U \ {pick[U]}] => g[U] = h[U]

\* And only one: two functions that agree on a set whenever they agree on the
\* set less the element picked agree on all subsets.
LEMMA SetRecursionUnique ==
  ASSUME NEW S, IsFiniteSet(S),
         NEW pick, Picks(pick, S),
         NEW g, NEW h, AgreeStepwise(g, h, S, pick)
  PROVE  \A U \in SUBSET S : g[U] = h[U]
<1> DEFINE T == {k \in Nat : \A U \in SUBSET S : Cardinality(U) <= k => g[U] = h[U]}
<1>1. \A U \in SUBSET S :
        /\ IsFiniteSet(U) /\ Cardinality(U) \in Nat /\ Cardinality(U) <= Cardinality(S)
        /\ Cardinality(U) = 0 <=> U = {}
  BY FS_Subset, FS_CardinalityType, FS_EmptySet
<1>2. \A U \in SUBSET S : U # {} =>
        /\ U \ {pick[U]} \in SUBSET S
        /\ Cardinality(U \ {pick[U]}) = Cardinality(U) - 1
  BY <1>1, FS_RemoveElement DEF Picks
<1>3. 0 \in T
  <2> SUFFICES ASSUME NEW U \in SUBSET S, Cardinality(U) <= 0 PROVE g[U] = h[U]
    OBVIOUS
  <2>1. U = {}
    BY <1>1
  <2>. QED  BY <2>1 DEF AgreeStepwise
<1>4. ASSUME NEW k \in Nat, k \in T PROVE k + 1 \in T
  <2> SUFFICES ASSUME NEW U \in SUBSET S, Cardinality(U) <= k + 1
               PROVE  g[U] = h[U]
    OBVIOUS
  <2>1. CASE U # {}
    <3>1. g[U \ {pick[U]}] = h[U \ {pick[U]}]
      BY <1>1, <1>2, <1>4, <2>1
    <3>. QED  BY <2>1, <3>1 DEF AgreeStepwise
  <2>. QED  BY <2>1 DEF AgreeStepwise
<1> HIDE DEF T
<1>5. Cardinality(S) \in T
  BY <1>1, <1>3, <1>4, NatSetInduction
<1>. QED  BY <1>1, <1>5 DEF T

-----------------------------------------------------------------------------
(* Sums of integers.                                                         *)

Summable(fun, S) == IsFiniteSet(S) /\ \A x \in S : fun[x] \in Int

Sum(fun, S) == SumFunctionOnSet(fun, S)

AnyOf(S) == [U \in SUBSET S |-> CHOOSE x \in U : TRUE]

AddTo(fun, S) ==
  [p \in (SUBSET S) \X Int |-> IF p[1] = {} THEN 0 ELSE fun[AnyOf(S)[p[1]]] + p[2]]

LEMMA AnyOfPicks ==
  ASSUME NEW S, NEW U \in SUBSET S, U # {}
  PROVE  AnyOf(S)[U] \in U /\ AnyOf(S)[U] = CHOOSE x \in U : TRUE
BY DEF AnyOf

LEMMA AddToAdds ==
  ASSUME NEW S, NEW fun, NEW U \in SUBSET S, U # {}, NEW v \in Int
  PROVE  AddTo(fun, S)[<<U, v>>] = fun[AnyOf(S)[U]] + v
BY DEF AddTo

Computes(g, fun, R, S) ==
  /\ g \in [SUBSET R -> Int]
  /\ Follows(g, R, 0, AnyOf(S), AddTo(fun, S))
  /\ Sum(fun, R) = g[R]

\* The fold behind a sum is the function that follows the recursion.
LEMMA SumFollows ==
  ASSUME NEW S, NEW fun, Summable(fun, S), NEW R \in SUBSET S
  PROVE  \E g : Computes(g, fun, R, S)
<1>1. IsFiniteSet(R)
  BY FS_Subset DEF Summable
<1> DEFINE step == [p \in (SUBSET R) \X Int |-> AddTo(fun, S)[p]]
           Body(h, U) == IF U = {} THEN 0
                         ELSE fun[CHOOSE x \in U : TRUE] + h[U \ {CHOOSE x \in U : TRUE}]
           It == CHOOSE h : h = [U \in SUBSET R |-> Body(h, U)]
<1>2. step \in [(SUBSET R) \X Int -> Int]
  <2>1. SUFFICES ASSUME NEW U \in SUBSET R, NEW v \in Int
                 PROVE  AddTo(fun, S)[<<U, v>>] \in Int
    OBVIOUS
  <2>2. CASE U = {}
    BY <2>2 DEF AddTo
  <2>3. CASE U # {}
    <3>1. U \in SUBSET S /\ AnyOf(S)[U] \in S
      BY <2>3, AnyOfPicks
    <3>2. AddTo(fun, S)[<<U, v>>] = fun[AnyOf(S)[U]] + v
      BY <2>3, <3>1, AddToAdds
    <3>. QED  BY <3>1, <3>2 DEF Summable
  <2>. QED  BY <2>2, <2>3
<1>3. \A U \in SUBSET R, v \in Int : step[<<U, v>>] = AddTo(fun, S)[<<U, v>>]
  OBVIOUS
<1> HIDE DEF step, Body
<1>4. PICK g \in [SUBSET R -> Int] : Follows(g, R, 0, AnyOf(S), step)
  <2>1. Picks(AnyOf(S), R)
    BY AnyOfPicks DEF Picks
  <2>2. 0 \in Int
    OBVIOUS
  <2>. QED  BY <1>1, <1>2, <2>1, <2>2, SetRecursionExists
<1>5. \A U \in SUBSET R :
        /\ g[U] = Body(g, U)
        /\ g[U] = IF U = {} THEN 0 ELSE AddTo(fun, S)[<<U, g[U \ {AnyOf(S)[U]}]>>]
  <2> SUFFICES ASSUME NEW U \in SUBSET R
               PROVE  /\ g[U] = Body(g, U)
                      /\ g[U] = IF U = {} THEN 0
                                ELSE AddTo(fun, S)[<<U, g[U \ {AnyOf(S)[U]}]>>]
    OBVIOUS
  <2>1. CASE U = {}
    BY <1>4, <2>1 DEF Follows, Body
  <2>2. CASE U # {}
    <3>1. g[U \ {AnyOf(S)[U]}] \in Int
      OBVIOUS
    <3>2. g[U] = AddTo(fun, S)[<<U, g[U \ {AnyOf(S)[U]}]>>]
      BY <1>3, <1>4, <2>2, <3>1 DEF Follows
    <3>3. g[U] = fun[AnyOf(S)[U]] + g[U \ {AnyOf(S)[U]}]
      <4>1. U \in SUBSET S
        OBVIOUS
      <4>2. \A v \in Int : AddTo(fun, S)[<<U, v>>] = fun[AnyOf(S)[U]] + v
        BY <2>2, <4>1, AddToAdds
      <4>. QED  BY <3>1, <3>2, <4>2
    <3>4. AnyOf(S)[U] = CHOOSE x \in U : TRUE
      BY <2>2, AnyOfPicks
    <3>. QED  BY <2>2, <3>2, <3>3, <3>4 DEF Body
  <2>. QED  BY <2>1, <2>2
<1>6. g = [U \in SUBSET R |-> Body(g, U)]
  BY <1>5
<1>7. It = [U \in SUBSET R |-> Body(It, U)]
  BY <1>6
<1>8. Sum(fun, R) = It[R]
  BY DEF Body, Sum, SumFunctionOnSet, FoldFunctionOnSet, MapThenFoldSet
<1>9. \A U \in SUBSET R : It[U] = g[U]
  <2>1. It[{}] = g[{}]
    BY <1>5, <1>7 DEF Body
  <2>2. ASSUME NEW U \in SUBSET R, U # {},
               It[U \ {AnyOf(S)[U]}] = g[U \ {AnyOf(S)[U]}]
        PROVE  It[U] = g[U]
    <3>1. AnyOf(S)[U] = CHOOSE x \in U : TRUE
      BY <2>2, AnyOfPicks
    <3>2. It[U] = Body(It, U) /\ g[U] = Body(g, U)
      BY <1>5, <1>7
    <3>. QED  BY <2>2, <3>1, <3>2 DEF Body
  <2>3. Picks(AnyOf(S), R)
    BY AnyOfPicks DEF Picks
  <2>4. AgreeStepwise(It, g, R, AnyOf(S))
    BY <2>1, <2>2 DEF AgreeStepwise
  <2> HIDE DEF It
  <2>. QED  BY <1>1, <2>3, <2>4, SetRecursionUnique
<1>10. Follows(g, R, 0, AnyOf(S), AddTo(fun, S)) /\ Sum(fun, R) = g[R]
  BY <1>5, <1>8, <1>9 DEF Follows
<1>. QED  BY <1>10 DEF Computes

\* What one step of the fold adds to the sum of the rest.
LEMMA SumUnfolds ==
  ASSUME NEW S, NEW fun, Summable(fun, S)
  PROVE  /\ Sum(fun, S) \in Int
         /\ S = {} => Sum(fun, S) = 0
         /\ S # {} => \E x \in S : Sum(fun, S) = fun[x] + Sum(fun, S \ {x})
<1>0. S \in SUBSET S
  OBVIOUS
<1>1. PICK g : Computes(g, fun, S, S)
  BY <1>0, SumFollows
<1>2. CASE S = {}
  <2>1. Sum(fun, S) = 0
    BY <1>0, <1>1, <1>2 DEF Computes, Follows
  <2>. QED  BY <1>2, <2>1
<1>3. CASE S # {}
  <2> DEFINE x == AnyOf(S)[S]
             R == S \ {x}
  <2>1. x \in S /\ R \in SUBSET S
    BY <1>3, AnyOfPicks
  <2> HIDE DEF x
  <2>2. PICK h : Computes(h, fun, R, S)
    BY <2>1, SumFollows
  <2>3. AgreeStepwise(g, h, R, AnyOf(S))
    <3>1. g[{}] = h[{}]
      BY <1>1, <2>2 DEF Computes, Follows
    <3>2. ASSUME NEW U \in SUBSET R, U # {},
                 g[U \ {AnyOf(S)[U]}] = h[U \ {AnyOf(S)[U]}]
          PROVE  g[U] = h[U]
      BY <1>1, <2>2, <3>2 DEF Computes, Follows
    <3>. QED  BY <3>1, <3>2 DEF AgreeStepwise
  <2>4. Picks(AnyOf(S), R) /\ IsFiniteSet(R)
    BY AnyOfPicks, FS_Subset DEF Picks, Summable
  <2>5. g[R] = h[R]
    BY <2>3, <2>4, SetRecursionUnique
  <2>6. g[S] = AddTo(fun, S)[<<S, g[R]>>]
    BY <1>0, <1>1, <1>3 DEF Computes, Follows, x
  <2>7. \A v \in Int : AddTo(fun, S)[<<S, v>>] = fun[x] + v
    BY <1>0, <1>3, AddToAdds DEF x
  <2>8. g[R] \in Int /\ g[S] \in Int
    BY <1>0, <1>1, <2>1 DEF Computes
  <2>9. Sum(fun, S) = fun[x] + Sum(fun, R) /\ Sum(fun, S) \in Int
    BY <1>1, <2>2, <2>5, <2>6, <2>7, <2>8 DEF Computes
  <2>. QED  BY <1>3, <2>1, <2>9
<1>. QED  BY <1>2, <1>3

\* The order does not matter: any element may be taken out of the sum.
LEMMA SumRemove ==
  ASSUME NEW S, NEW fun, Summable(fun, S), NEW x \in S
  PROVE  Sum(fun, S) = fun[x] + Sum(fun, S \ {x})
<1> DEFINE T == {k \in Nat : \A U \in SUBSET S : Cardinality(U) <= k =>
                   \A y \in U : Sum(fun, U) = fun[y] + Sum(fun, U \ {y})}
<1>1. \A U \in SUBSET S :
        /\ IsFiniteSet(U) /\ Cardinality(U) \in Nat
        /\ Cardinality(U) = 0 <=> U = {}
  BY FS_Subset, FS_CardinalityType, FS_EmptySet DEF Summable
<1>2. \A U \in SUBSET S : \A y \in U : Cardinality(U \ {y}) = Cardinality(U) - 1
  BY <1>1, FS_RemoveElement
<1>3. \A U \in SUBSET S : Summable(fun, U) /\ Sum(fun, U) \in Int
  BY <1>1, SumUnfolds DEF Summable
<1>4. 0 \in T
  BY <1>1
<1>5. ASSUME NEW k \in Nat, k \in T PROVE k + 1 \in T
  <2> SUFFICES ASSUME NEW U \in SUBSET S, Cardinality(U) <= k + 1, NEW y \in U
               PROVE  Sum(fun, U) = fun[y] + Sum(fun, U \ {y})
    OBVIOUS
  <2>1. PICK p \in U : Sum(fun, U) = fun[p] + Sum(fun, U \ {p})
    BY <1>3, SumUnfolds
  <2>2. CASE p = y
    BY <2>1, <2>2
  <2>3. CASE p # y
    <3>1. Cardinality(U \ {p}) <= k /\ Cardinality(U \ {y}) <= k
      BY <1>1, <1>2
    <3>2. /\ Sum(fun, U \ {p}) = fun[y] + Sum(fun, (U \ {p}) \ {y})
          /\ Sum(fun, U \ {y}) = fun[p] + Sum(fun, (U \ {y}) \ {p})
      BY <1>5, <2>3, <3>1
    <3>3. (U \ {p}) \ {y} = (U \ {y}) \ {p}
      OBVIOUS
    <3>4. /\ fun[y] \in Int /\ fun[p] \in Int
          /\ Sum(fun, (U \ {y}) \ {p}) \in Int
      BY <1>3 DEF Summable
    <3>5. Sum(fun, U) = fun[p] + (fun[y] + Sum(fun, (U \ {y}) \ {p}))
      BY <2>1, <3>2, <3>3
    <3>. QED  BY <3>2, <3>4, <3>5
  <2>. QED  BY <2>2, <2>3
<1> HIDE DEF T
<1>6. Cardinality(S) \in T
  BY <1>1, <1>4, <1>5, NatSetInduction
<1>. QED  BY <1>1, <1>6 DEF T

LEMMA SumAdd ==
  ASSUME NEW S, NEW fun, Summable(fun, S), NEW x, x \notin S, fun[x] \in Int
  PROVE  /\ Summable(fun, S \cup {x})
         /\ Sum(fun, S \cup {x}) = fun[x] + Sum(fun, S)
<1>1. Summable(fun, S \cup {x})
  BY FS_AddElement DEF Summable
<1>2. (S \cup {x}) \ {x} = S
  OBVIOUS
<1>. QED  BY <1>1, <1>2, SumRemove

\* The sum over a part of a summable set, with one element more.
LEMMA SumOfPart ==
  ASSUME NEW S, NEW fun, Summable(fun, S)
  PROVE  /\ Sum(fun, {}) = 0
         /\ \A U \in SUBSET S : Summable(fun, U) /\ Sum(fun, U) \in Int
         /\ \A U \in SUBSET S : \A x \in S \ U :
              Sum(fun, U \cup {x}) = fun[x] + Sum(fun, U)
<1>1. \A U \in SUBSET S : Summable(fun, U)
  BY FS_Subset DEF Summable
<1>2. Summable(fun, {})
  BY <1>1
<1>. QED  BY <1>1, <1>2, SumUnfolds, SumAdd DEF Summable

LEMMA SumCongruent ==
  ASSUME NEW S, NEW f, NEW g, Summable(f, S), \A x \in S : f[x] = g[x]
  PROVE  Sum(f, S) = Sum(g, S)
<1> DEFINE T == {U \in SUBSET S : Sum(f, U) = Sum(g, U)}
<1>1. Summable(g, S)
  BY DEF Summable
<1>2. {} \in T
  BY <1>1, SumOfPart
<1>3. ASSUME NEW U \in SUBSET S, NEW x \in S \ U, U \in T PROVE U \cup {x} \in T
  <2>1. /\ Sum(f, U \cup {x}) = f[x] + Sum(f, U)
        /\ Sum(g, U \cup {x}) = g[x] + Sum(g, U)
    BY <1>1, SumOfPart
  <2>. QED  BY <1>3, <2>1
<1> HIDE DEF T
<1>4. IsFiniteSet(S)
  BY DEF Summable
<1>5. S \in T
  BY <1>2, <1>3, <1>4, FiniteSetInduction
<1>. QED  BY <1>5 DEF T

\* Elements that count zero may be left out.
LEMMA SumOfSupport ==
  ASSUME NEW S, NEW f, Summable(f, S), NEW R \in SUBSET S,
         \A x \in S \ R : f[x] = 0
  PROVE  Sum(f, S) = Sum(f, R)
<1> DEFINE T == {U \in SUBSET S : Sum(f, U) = Sum(f, U \cap R)}
<1>1. {} \in T
  OBVIOUS
<1>2. ASSUME NEW U \in SUBSET S, NEW x \in S \ U, U \in T PROVE U \cup {x} \in T
  <2>1. Sum(f, U \cup {x}) = f[x] + Sum(f, U) /\ Sum(f, U) \in Int
    BY SumOfPart
  <2>2. Sum(f, U) = Sum(f, U \cap R)
    BY <1>2
  <2>3. Sum(f, U \cup {x}) = Sum(f, (U \cup {x}) \cap R)
    <3>1. CASE x \in R
      <4>1. PICK W \in SUBSET S : W = U \cap R
        OBVIOUS
      <4>2. (U \cup {x}) \cap R = W \cup {x} /\ x \in S \ W
        BY <3>1, <4>1
      <4>3. Sum(f, W \cup {x}) = f[x] + Sum(f, W)
        BY <4>2, SumOfPart
      <4>. QED  BY <2>1, <2>2, <4>1, <4>2, <4>3
    <3>2. CASE x \notin R
      <4>1. (U \cup {x}) \cap R = U \cap R /\ f[x] = 0
        BY <3>2
      <4>2. Sum(f, U \cup {x}) = Sum(f, U)
        BY <2>1, <4>1
      <4>. QED  BY <2>2, <4>1, <4>2
    <3>. QED  BY <3>1, <3>2
  <2>. QED  BY <2>3
<1> HIDE DEF T
<1>3. IsFiniteSet(S)
  BY DEF Summable
<1>4. S \in T
  BY <1>1, <1>2, <1>3, FiniteSetInduction
<1>5. S \cap R = R
  OBVIOUS
<1>. QED  BY <1>4, <1>5 DEF T

LEMMA SumUnion ==
  ASSUME NEW A, NEW B, NEW f, A \cap B = {}, Summable(f, A \cup B)
  PROVE  Sum(f, A \cup B) = Sum(f, A) + Sum(f, B)
<1> DEFINE T == {U \in SUBSET B : Sum(f, A \cup U) = Sum(f, A) + Sum(f, U)}
<1>1. /\ Sum(f, {}) = 0
      /\ \A U \in SUBSET (A \cup B) : Sum(f, U) \in Int
      /\ \A U \in SUBSET (A \cup B) : \A x \in (A \cup B) \ U :
           Sum(f, U \cup {x}) = f[x] + Sum(f, U)
      /\ \A x \in A \cup B : f[x] \in Int
  BY SumOfPart DEF Summable
<1>2. {} \in T
  BY <1>1
<1>3. ASSUME NEW U \in SUBSET B, NEW x \in B \ U, U \in T PROVE U \cup {x} \in T
  <2>1. (A \cup U) \cup {x} = A \cup (U \cup {x}) /\ x \notin A \cup U
    OBVIOUS
  <2>2. Sum(f, (A \cup U) \cup {x}) = f[x] + Sum(f, A \cup U)
    BY <1>1, <2>1
  <2>3. Sum(f, U \cup {x}) = f[x] + Sum(f, U)
    BY <1>1
  <2>4. Sum(f, A) \in Int /\ Sum(f, U) \in Int /\ f[x] \in Int
    BY <1>1
  <2>5. Sum(f, A \cup (U \cup {x})) = f[x] + (Sum(f, A) + Sum(f, U))
    BY <1>3, <2>1, <2>2
  <2>. QED  BY <2>3, <2>4, <2>5
<1> HIDE DEF T
<1>4. IsFiniteSet(B)
  BY FS_Subset DEF Summable
<1>5. B \in T
  BY <1>2, <1>3, <1>4, FiniteSetInduction
<1>. QED  BY <1>5 DEF T

LEMMA SumOfDifference ==
  ASSUME NEW S, NEW f, NEW g, NEW h, Summable(f, S), Summable(g, S),
         \A x \in S : h[x] = f[x] - g[x]
  PROVE  Summable(h, S) /\ Sum(h, S) = Sum(f, S) - Sum(g, S)
<1> DEFINE T == {U \in SUBSET S : Sum(h, U) = Sum(f, U) - Sum(g, U)}
<1>1. Summable(h, S)
  BY DEF Summable
<1>2. {} \in T
  BY <1>1, SumOfPart
<1>3. ASSUME NEW U \in SUBSET S, NEW x \in S \ U, U \in T PROVE U \cup {x} \in T
  <2>1. /\ Sum(f, U \cup {x}) = f[x] + Sum(f, U)
        /\ Sum(g, U \cup {x}) = g[x] + Sum(g, U)
        /\ Sum(h, U \cup {x}) = h[x] + Sum(h, U)
        /\ Sum(f, U) \in Int /\ Sum(g, U) \in Int
    BY <1>1, SumOfPart
  <2>2. f[x] \in Int /\ g[x] \in Int /\ h[x] = f[x] - g[x]
    BY DEF Summable
  <2>3. Sum(h, U) = Sum(f, U) - Sum(g, U)
    BY <1>3
  <2>4. Sum(h, U \cup {x}) = Sum(f, U \cup {x}) - Sum(g, U \cup {x})
    BY <2>1, <2>2, <2>3
  <2>. QED  BY <2>4
<1> HIDE DEF T
<1>4. IsFiniteSet(S)
  BY DEF Summable
<1>5. S \in T
  BY <1>2, <1>3, <1>4, FiniteSetInduction
<1>. QED  BY <1>1, <1>5 DEF T

LEMMA SumOfConstant ==
  ASSUME NEW S, IsFiniteSet(S), NEW f, NEW c \in Int, \A x \in S : f[x] = c
  PROVE  Summable(f, S) /\ Sum(f, S) = Cardinality(S) * c
<1> DEFINE T == {U \in SUBSET S : Sum(f, U) = Cardinality(U) * c}
<1>1. Summable(f, S)
  BY DEF Summable
<1>2. {} \in T
  <2>1. 0 * c = 0
    OBVIOUS
  <2>. QED  BY <1>1, <2>1, SumOfPart, FS_EmptySet
<1>3. ASSUME NEW U \in SUBSET S, NEW x \in S \ U, U \in T PROVE U \cup {x} \in T
  <2>1. Sum(f, U \cup {x}) = c + Cardinality(U) * c
    BY <1>1, <1>3, SumOfPart
  <2>2. IsFiniteSet(U) /\ Cardinality(U) \in Nat
    BY FS_Subset, FS_CardinalityType
  <2>3. Cardinality(U \cup {x}) = Cardinality(U) + 1
    BY <2>2, FS_AddElement
  <2>4. \A n \in Nat : (n + 1) * c = c + n * c
    OBVIOUS
  <2>5. Sum(f, U \cup {x}) = Cardinality(U \cup {x}) * c
    BY <2>1, <2>2, <2>3, <2>4
  <2>. QED  BY <2>5
<1> HIDE DEF T
<1>4. S \in T
  BY <1>2, <1>3, FiniteSetInduction
<1>. QED  BY <1>1, <1>4 DEF T

LEMMA SumOfNaturals ==
  ASSUME NEW S, IsFiniteSet(S), NEW f, \A x \in S : f[x] \in Nat
  PROVE  Summable(f, S) /\ Sum(f, S) \in Nat
<1> DEFINE T == {U \in SUBSET S : Sum(f, U) \in Nat}
<1>1. Summable(f, S)
  BY DEF Summable
<1>2. {} \in T
  BY <1>1, SumOfPart
<1>3. ASSUME NEW U \in SUBSET S, NEW x \in S \ U, U \in T PROVE U \cup {x} \in T
  <2>1. Sum(f, U \cup {x}) = f[x] + Sum(f, U)
    BY <1>1, SumOfPart
  <2>2. f[x] \in Nat /\ Sum(f, U) \in Nat
    BY <1>3
  <2>3. Sum(f, U \cup {x}) \in Nat
    BY <2>1, <2>2
  <2>. QED  BY <2>3
<1> HIDE DEF T
<1>4. S \in T
  BY <1>2, <1>3, FiniteSetInduction
<1>. QED  BY <1>1, <1>4 DEF T

\* A sum over the values of an injective function, counted over its arguments.
LEMMA SumOfImage ==
  ASSUME NEW S, NEW g, Summable(g, S), NEW f, NEW at,
         \A x, y \in S : at[x] = at[y] => x = y,
         \A x \in S : f[at[x]] = g[x]
  PROVE  /\ Summable(f, {at[x] : x \in S})
         /\ Sum(f, {at[x] : x \in S}) = Sum(g, S)
<1> DEFINE Image(U) == {at[x] : x \in U}
           T == {U \in SUBSET S : Sum(f, Image(U)) = Sum(g, U)}
<1>1. IsFiniteSet(S) /\ \A x \in S : g[x] \in Int
  BY DEF Summable
<1>2. Summable(f, Image(S))
  <2>1. IsFiniteSet(Image(S))
    <3>1. [x \in S |-> at[x]] \in Surjection(S, Image(S))
      BY DEF Surjection
    <3>. QED  BY <1>1, <3>1, FS_Surjection
  <2>. QED  BY <1>1, <2>1 DEF Summable
<1>3. {} \in T
  <2>1. Image({}) = {}
    OBVIOUS
  <2>2. Sum(f, {}) = 0 /\ Sum(g, {}) = 0
    BY <1>2, SumOfPart
  <2>. QED  BY <2>1, <2>2
<1>4. ASSUME NEW U \in SUBSET S, NEW x \in S \ U, U \in T PROVE U \cup {x} \in T
  <2>1. /\ Image(U \cup {x}) = Image(U) \cup {at[x]}
        /\ Image(U) \in SUBSET Image(S)
        /\ at[x] \in Image(S) \ Image(U)
    OBVIOUS
  <2> HIDE DEF Image
  <2>2. Sum(f, Image(U) \cup {at[x]}) = f[at[x]] + Sum(f, Image(U))
    BY <1>2, <2>1, SumOfPart
  <2>3. Sum(g, U \cup {x}) = g[x] + Sum(g, U)
    BY SumOfPart
  <2>4. Sum(f, Image(U \cup {x})) = Sum(g, U \cup {x})
    BY <1>4, <2>1, <2>2, <2>3
  <2>. QED  BY <2>4
<1> HIDE DEF T
<1>5. S \in T
  BY <1>1, <1>3, <1>4, FiniteSetInduction
<1>. QED  BY <1>2, <1>5 DEF T

\* A function is summed over its domain.
LEMMA SumFunctionIsSum ==
  ASSUME NEW f
  PROVE  SumFunction(f) = Sum(f, DOMAIN f)
BY DEF SumFunction, Sum

LEMMA SumOrdered ==
  ASSUME NEW S, NEW f, NEW g, Summable(f, S), Summable(g, S), \A x \in S : f[x] <= g[x]
  PROVE  Sum(f, S) <= Sum(g, S)
<1> DEFINE h == [x \in S |-> g[x] - f[x]]
<1>1. \A x \in S : h[x] = g[x] - f[x] /\ h[x] \in Nat
  BY DEF Summable
<1> HIDE DEF h
<1>2. Sum(h, S) = Sum(g, S) - Sum(f, S)
  BY <1>1, SumOfDifference
<1>3. Sum(h, S) \in Nat
  <2>1. IsFiniteSet(S)
    BY DEF Summable
  <2>. QED  BY <1>1, <2>1, SumOfNaturals
<1>4. Sum(f, S) \in Int /\ Sum(g, S) \in Int
  BY SumUnfolds
<1>. QED  BY <1>2, <1>3, <1>4

-----------------------------------------------------------------------------
(* Division rounds down.                                                     *)

LEMMA QuotientBounds ==
  ASSUME NEW a \in Int, NEW p \in Nat \ {0}
  PROVE  a \div p \in Int /\ (a \div p) * p <= a /\ a < (a \div p) * p + p
OBVIOUS

LEMMA QuotientsOrdered ==
  ASSUME NEW q \in Int, NEW r \in Int, NEW p \in Nat \ {0}, q * p < r * p + p
  PROVE  q <= r
<1>1. ASSUME q >= r + 1 PROVE FALSE
  <2>1. PICK k \in Nat : q = r + 1 + k
    <3>1. q - r - 1 \in Nat /\ q = r + 1 + (q - r - 1)
      BY <1>1
    <3>. QED  BY <3>1
  <2>2. q * p = r * p + p + k * p
    BY <2>1
  <2>3. k * p >= 0
    OBVIOUS
  <2>. QED  BY <2>2, <2>3
<1>. QED  BY <1>1

\* The larger number has the larger quotient.
LEMMA QuotientsFollow ==
  ASSUME NEW a \in Int, NEW b \in Int, NEW p \in Nat \ {0}, a <= b
  PROVE  a \div p <= b \div p
<1>1. /\ a \div p \in Int /\ (a \div p) * p <= a
      /\ b \div p \in Int /\ b < (b \div p) * p + p
  BY QuotientBounds
<1> DEFINE q == a \div p
           r == b \div p
<1> HIDE DEF q, r
<1>2. q \in Int /\ r \in Int /\ q * p \in Int /\ r * p \in Int /\ q * p < r * p + p
  BY <1>1 DEF q, r
<1>3. q <= r
  BY <1>2, QuotientsOrdered
<1>. QED  BY <1>3 DEF q, r

LEMMA QuotientIsNat ==
  ASSUME NEW a \in Nat, NEW p \in Nat \ {0}
  PROVE  a \div p \in Nat
<1>1. a \div p \in Int /\ 0 \div p <= a \div p
  BY QuotientsFollow
<1>2. 0 \div p = 0
  OBVIOUS
<1>. QED  BY <1>1, <1>2

LEMMA QuotientIsInt ==
  ASSUME NEW a \in Int, NEW p \in Nat \ {0}
  PROVE  a \div p \in Int
BY QuotientBounds

\* A quotient of doubles.
LEMMA QuotientOfDoubles ==
  ASSUME NEW a \in Int, NEW p \in Nat \ {0}
  PROVE  (2 * a) \div (2 * p) = a \div p
<1>1. PICK q \in Int : q = a \div p /\ q * p <= a /\ a < q * p + p
  BY QuotientBounds
<1>2. 2 * a \in Int /\ 2 * p \in Nat \ {0}
  OBVIOUS
<1>3. PICK r \in Int : r = (2 * a) \div (2 * p) /\ r * (2 * p) <= 2 * a /\ 2 * a < r * (2 * p) + 2 * p
  BY <1>2, QuotientBounds
<1>4. r * (2 * p) = 2 * (r * p) /\ r * p \in Int /\ q * p \in Int
  OBVIOUS
<1>5. r * p <= a /\ a < r * p + p
  BY <1>3, <1>4
<1>6. ~(r <= q - 1) /\ ~(q <= r - 1)
  <2>1. \A x, y \in Int : x <= y - 1 => x * p + p <= y * p
    <3>1. ASSUME NEW x \in Int, NEW y \in Int, x <= y - 1 PROVE x * p + p <= y * p
      <4>1. PICK d \in Nat : y = x + 1 + d
        <5>1. y - x - 1 \in Nat /\ y = x + 1 + (y - x - 1)
          BY <3>1
        <5>. QED  BY <5>1
      <4>2. y * p = x * p + p + d * p /\ d * p \in Nat /\ x * p \in Int
        BY <4>1
      <4>. QED  BY <4>2
    <3>. QED  BY <3>1
  <2>. QED  BY <1>1, <1>4, <1>5, <2>1
<1>. QED  BY <1>1, <1>3, <1>6

LEMMA ProductOrdered ==
  ASSUME NEW k \in Nat, NEW x \in Nat, NEW y \in Nat, x <= y
  PROVE  k * x \in Nat /\ k * y \in Nat /\ k * x <= k * y
OBVIOUS

LEMMA ProductDivides ==
  ASSUME NEW c \in Int, NEW w \in Nat \ {0}
  PROVE  (w * c) \div w = c
<1> DEFINE p == w * c
<1>1. p \in Int /\ p = c * w
  OBVIOUS
<1> HIDE DEF p
<1>2. p \div w \in Int /\ (p \div w) * w <= p /\ p < (p \div w) * w + w
  BY <1>1, QuotientBounds
<1>3. p \div w <= c
  <2>1. (p \div w) * w < c * w + w
    BY <1>1, <1>2
  <2>. QED  BY <1>2, <2>1, QuotientsOrdered
<1>4. c <= p \div w
  <2>1. c * w < (p \div w) * w + w
    BY <1>1, <1>2
  <2>. QED  BY <1>2, <2>1, QuotientsOrdered
<1>. QED  BY <1>2, <1>3, <1>4 DEF p

LEMMA LeastOfTwo ==
  ASSUME NEW a \in Int, NEW b \in Int
  PROVE  Min({a, b}) \in {a, b} /\ Min({a, b}) <= a /\ Min({a, b}) <= b
<1>1. IsFiniteSet({a, b})
  <2>1. {a, b} = {a} \cup {b}
    OBVIOUS
  <2>2. IsFiniteSet({a})
    BY FS_Singleton
  <2>. QED  BY <2>1, <2>2, FS_AddElement
<1>2. {a, b} \in SUBSET Int /\ {a, b} # {}
  OBVIOUS
<1>. QED  BY <1>1, <1>2, FiniteSetHasBounds

LEMMA BoundsOfPair ==
  ASSUME NEW a \in Int, NEW b \in Int
  PROVE  Max({a, b}) = (IF a < b THEN b ELSE a) /\ Min({a, b}) = (IF a < b THEN a ELSE b)
<1>1. {a, b} = {a} \cup {b} /\ {a, b} # {} /\ {a, b} \in SUBSET Int
  OBVIOUS
<1>2. IsFiniteSet({a}) /\ IsFiniteSet({b})
  BY FS_Singleton
<1>3. IsFiniteSet({a, b})
  BY <1>1, <1>2, FS_Union
<1>4. Min({a, b}) \in {a, b} /\ \A x \in {a, b} : Min({a, b}) <= x
  BY <1>1, <1>3, FiniteSetHasBounds
<1>5. Max({a, b}) \in {a, b} /\ \A x \in {a, b} : x <= Max({a, b})
  BY <1>1, <1>3, FiniteSetHasBounds
<1>. QED  BY <1>4, <1>5

LEMMA MaxOfThree ==
  ASSUME NEW a \in Int, NEW b \in Int, NEW c \in Int
  PROVE  Max({a, b, c}) \in Int /\ a <= Max({a, b, c}) /\ b <= Max({a, b, c}) /\ c <= Max({a, b, c})
<1> DEFINE S == {a, b, c}
<1>1. S \in SUBSET Int /\ S # {}
  OBVIOUS
<1>2. IsFiniteSet(S)
  <2>1. IsFiniteSet({a}) /\ IsFiniteSet({b}) /\ IsFiniteSet({c})
    BY FS_Singleton
  <2>2. IsFiniteSet({a} \cup {b})
    BY <2>1, FS_Union
  <2>3. IsFiniteSet(({a} \cup {b}) \cup {c})
    BY <2>1, <2>2, FS_Union
  <2>4. S = ({a} \cup {b}) \cup {c}
    OBVIOUS
  <2>. QED  BY <2>3, <2>4
<1>3. a \in S /\ b \in S /\ c \in S
  OBVIOUS
<1> HIDE DEF S
<1>4. Max(S) \in S /\ \A x \in S : x <= Max(S)
  BY <1>1, <1>2, FiniteSetHasBounds
<1>. QED  BY <1>1, <1>3, <1>4 DEF S

-----------------------------------------------------------------------------
(* Series in the order of their dates, and the parts before and after one.   *)

Begins(x, y) == Len(x) <= Len(y) /\ \A i \in 1..Len(x) : x[i] = y[i]

\* A sequence is one of its own items.
LEMMA OfItsItems ==
  ASSUME NEW S, NEW x \in Seq(S)
  PROVE  x \in Seq({x[i] : i \in DOMAIN x})
<1>1. x = [i \in 1..Len(x) |-> x[i]] /\ Len(x) \in Nat
  OBVIOUS
<1>2. x \in [1..Len(x) -> {x[i] : i \in DOMAIN x}]
  BY <1>1
<1>. QED  BY <1>1, <1>2

\* The bars up to a date come first.
LEMMA CountSplits ==
  ASSUME NEW x, Dated(x), NEW date \in Int
  PROVE  /\ CountThrough(x, date) \in 0..Len(x)
         /\ \A i \in 1..Len(x) : x[i].date <= date <=> i <= CountThrough(x, date)
<1> DEFINE I == {i \in DOMAIN x : x[i].date <= date}
<1>1. Len(x) \in Nat /\ DOMAIN x = 1..Len(x)
  BY DEF Dated
<1>2. CASE I = {}
  <2>1. CountThrough(x, date) = 0
    BY <1>2, FS_EmptySet DEF CountThrough
  <2>. QED  BY <1>1, <1>2, <2>1
<1>3. CASE I # {}
  <2>0. PICK top \in Nat : top = Len(x)
    BY <1>1
  <2>1. I \in SUBSET Int /\ top \in Int /\ \A i \in I : i <= top
    BY <1>1, <2>0
  <2>2. PICK m : m \in I /\ \A i \in I : i <= m
    <3> HIDE DEF I
    <3>1. Max(I) \in I /\ \A i \in I : i <= Max(I)
      BY <1>3, <2>1, BoundedSetHasMax
    <3>. QED  BY <3>1
  <2>3. m \in 1..Len(x) /\ m \in Nat /\ x[m].date <= date
    BY <1>1, <2>2
  <2>4. ASSUME NEW i \in 1..Len(x) PROVE x[i].date <= date <=> i <= m
    <3>1. x[i].date <= date => i <= m
      BY <1>1, <2>2
    <3>2. ASSUME i < m PROVE x[i].date <= date
      <4>1. x[i].date < x[m].date /\ x[i].date \in Nat /\ x[m].date \in Nat
        BY <2>3, <3>2 DEF Dated
      <4>. QED  BY <2>3, <4>1
    <3>3. ASSUME i = m PROVE x[i].date <= date
      BY <2>3, <3>3
    <3>. QED  BY <1>1, <2>3, <3>1, <3>2, <3>3
  <2>5. I = 1..m
    BY <1>1, <2>3, <2>4
  <2>6. CountThrough(x, date) = m
    <3>1. Cardinality(1..m) = m
      BY <2>3, FS_Interval
    <3>. QED  BY <2>5, <3>1 DEF CountThrough
  <2>. QED  BY <1>1, <2>3, <2>4, <2>6
<1>. QED  BY <1>2, <1>3

\* The two parts of a series.
LEMMA Parts ==
  ASSUME NEW x, Dated(x), NEW date \in Int
  PROVE  LET c == CountThrough(x, date)
         IN  /\ Dated(Through(x, date)) /\ Dated(Since(x, date))
             /\ Len(Through(x, date)) = c /\ Len(Since(x, date)) = Len(x) - c
             /\ \A i \in 1..c : Through(x, date)[i] = x[i]
             /\ \A i \in 1..(Len(x) - c) : Since(x, date)[i] = x[c + i]
<1> DEFINE c == CountThrough(x, date)
           S == {x[i] : i \in 1..Len(x)}
<1>1. Len(x) \in Nat /\ c \in 0..Len(x) /\ c \in Nat
  <2>1. Len(x) \in Nat
    BY DEF Dated
  <2>2. c \in 0..Len(x)
    BY CountSplits
  <2>. QED  BY <2>1, <2>2
<1> HIDE DEF c
<1>2. /\ Through(x, date) \in Seq(S) /\ Len(Through(x, date)) = c
      /\ \A i \in 1..c : Through(x, date)[i] = x[i]
  <2>1. \A i \in 1..c : x[i] \in S
    BY <1>1
  <2>2. /\ SubSeq(x, 1, c) \in Seq(S) /\ Len(SubSeq(x, 1, c)) = IF 1 <= c THEN c - 1 + 1 ELSE 0
        /\ \A i \in 1..(c - 1 + 1) : SubSeq(x, 1, c)[i] = x[1 + i - 1]
    <3> HIDE DEF S
    <3>. QED  BY <1>1, <2>1, SubSeqProperties
  <2>. QED  BY <1>1, <2>2 DEF Through, c
<1>3. /\ Since(x, date) \in Seq(S) /\ Len(Since(x, date)) = Len(x) - c
      /\ \A i \in 1..(Len(x) - c) : Since(x, date)[i] = x[c + i]
  <2>1. \A i \in (c + 1)..Len(x) : x[i] \in S
    BY <1>1
  <2>2. PICK n \in Nat : n = Len(x)
    BY <1>1
  <2>3. /\ SubSeq(x, c + 1, n) \in Seq(S)
        /\ Len(SubSeq(x, c + 1, n)) = IF c + 1 <= n THEN n - (c + 1) + 1 ELSE 0
        /\ \A i \in 1..(n - (c + 1) + 1) : SubSeq(x, c + 1, n)[i] = x[(c + 1) + i - 1]
    <3>1. c + 1 \in Int /\ n \in Int /\ \A i \in (c + 1)..n : x[i] \in S
      BY <1>1, <2>1, <2>2
    <3> HIDE DEF S
    <3>. QED  BY <3>1, SubSeqProperties
  <2>4. Since(x, date) = SubSeq(x, c + 1, n)
    BY <2>2 DEF Since, c
  <2>5. c <= n /\ n - (c + 1) + 1 = n - c
    BY <1>1, <2>2
  <2>6. Len(SubSeq(x, c + 1, n)) = n - c
    BY <1>1, <2>3, <2>5
  <2>7. \A i \in 1..(n - c) : (c + 1) + i - 1 = c + i
    BY <1>1
  <2>. QED  BY <2>2, <2>3, <2>4, <2>5, <2>6, <2>7
<1>4. Dated(Through(x, date))
  <2>1. \A i \in 1..c : i \in 1..Len(x)
    BY <1>1
  <2>2. Through(x, date) \in Seq({Through(x, date)[i] : i \in DOMAIN Through(x, date)})
    BY <1>2, OfItsItems
  <2>. QED  BY <1>1, <1>2, <2>1, <2>2 DEF Dated
<1>5. Dated(Since(x, date))
  <2>1. \A i \in 1..(Len(x) - c) : c + i \in 1..Len(x)
    BY <1>1
  <2>2. \A i, j \in 1..(Len(x) - c) : i < j => c + i < c + j
    BY <1>1
  <2>3. Since(x, date) \in Seq({Since(x, date)[i] : i \in DOMAIN Since(x, date)})
    BY <1>3, OfItsItems
  <2>. QED  BY <1>1, <1>3, <2>1, <2>2, <2>3 DEF Dated
<1>. QED  BY <1>2, <1>3, <1>4, <1>5 DEF c

\* Of two series of which one begins the other, so do the parts.
LEMMA PartsBegin ==
  ASSUME NEW x, NEW y, Dated(x), Dated(y), Begins(x, y), NEW date \in Int
  PROVE  Begins(Through(x, date), Through(y, date)) /\ Begins(Since(x, date), Since(y, date))
<1> DEFINE c == CountThrough(x, date)
           d == CountThrough(y, date)
<1>1. /\ c \in 0..Len(x) /\ d \in 0..Len(y) /\ Len(x) \in Nat /\ Len(y) \in Nat
      /\ Len(x) <= Len(y) /\ \A i \in 1..Len(x) : x[i] = y[i]
  <2>1. c \in 0..Len(x) /\ d \in 0..Len(y)
    BY CountSplits
  <2>2. Len(x) \in Nat /\ Len(y) \in Nat
    BY DEF Dated
  <2>. QED  BY <2>1, <2>2 DEF Begins
<1>2. /\ \A i \in 1..Len(x) : x[i].date <= date <=> i <= c
      /\ \A i \in 1..Len(y) : y[i].date <= date <=> i <= d
  BY CountSplits
<1>3. /\ Len(Through(x, date)) = c /\ Len(Since(x, date)) = Len(x) - c
      /\ \A i \in 1..c : Through(x, date)[i] = x[i]
      /\ \A i \in 1..(Len(x) - c) : Since(x, date)[i] = x[c + i]
      /\ Len(Through(y, date)) = d /\ Len(Since(y, date)) = Len(y) - d
      /\ \A i \in 1..d : Through(y, date)[i] = y[i]
      /\ \A i \in 1..(Len(y) - d) : Since(y, date)[i] = y[d + i]
  BY Parts
<1> HIDE DEF c, d
<1>4. \A i \in 1..Len(x) : i \in 1..Len(y) /\ (i <= c <=> i <= d)
  BY <1>1, <1>2
<1>5. c <= d /\ (c < Len(x) => c = d)
  <2>1. c <= d
    <3>1. CASE c = 0
      BY <1>1, <3>1
    <3>2. CASE c # 0
      <4>1. c \in 1..Len(x)
        BY <1>1, <3>2
      <4>. QED  BY <1>1, <1>4, <4>1
    <3>. QED  BY <3>1, <3>2
  <2>2. ASSUME c < Len(x) PROVE c = d
    <3>1. c + 1 \in 1..Len(x) /\ ~(c + 1 <= c)
      BY <1>1, <2>2
    <3>2. ~(c + 1 <= d)
      BY <1>4, <3>1
    <3>. QED  BY <1>1, <2>1, <3>2
  <2>. QED  BY <2>1, <2>2
<1>6. Begins(Through(x, date), Through(y, date))
  <2>1. \A i \in 1..c : i \in 1..d /\ i \in 1..Len(x)
    BY <1>1, <1>5
  <2>. QED  BY <1>1, <1>3, <1>5, <2>1 DEF Begins
<1>7. Begins(Since(x, date), Since(y, date))
  <2>1. CASE c = Len(x)
    <3>1. Len(Since(x, date)) = 0 /\ Len(Since(y, date)) \in Nat
      BY <1>1, <1>3, <2>1
    <3>. QED  BY <3>1 DEF Begins
  <2>2. CASE c # Len(x)
    <3>1. c = d
      BY <1>1, <1>5, <2>2
    <3>2. \A i \in 1..(Len(x) - c) : c + i \in 1..Len(x) /\ i \in 1..(Len(y) - c)
      BY <1>1
    <3>3. Len(x) - c <= Len(y) - c
      BY <1>1
    <3>. QED  BY <1>1, <1>3, <3>1, <3>2, <3>3 DEF Begins
  <2>. QED  BY <2>1, <2>2
<1>. QED  BY <1>6, <1>7

\* Where what is added is later than a date, the part up to it is the same.
LEMMA ThroughStays ==
  ASSUME NEW x, NEW y, Dated(x), Dated(y), Begins(x, y), NEW date \in Int,
         \A i \in 1..Len(y) : y[i].date <= date => i <= Len(x)
  PROVE  Through(x, date) = Through(y, date)
<1> DEFINE c == CountThrough(x, date)
           d == CountThrough(y, date)
<1>1. /\ c \in 0..Len(x) /\ d \in 0..Len(y) /\ Len(x) \in Nat /\ Len(y) \in Nat
      /\ Len(x) <= Len(y) /\ \A i \in 1..Len(x) : x[i] = y[i]
  <2>1. c \in 0..Len(x) /\ d \in 0..Len(y)
    BY CountSplits
  <2>2. Len(x) \in Nat /\ Len(y) \in Nat
    BY DEF Dated
  <2>. QED  BY <2>1, <2>2 DEF Begins
<1>2. /\ \A i \in 1..Len(x) : x[i].date <= date <=> i <= c
      /\ \A i \in 1..Len(y) : y[i].date <= date <=> i <= d
  BY CountSplits
<1> HIDE DEF c, d
<1>3. c = d
  <2>1. \A i \in 1..Len(y) : i <= d => i <= Len(x) /\ i <= c
    BY <1>1, <1>2
  <2>2. \A i \in 1..Len(x) : i <= c => i <= d
    BY <1>1, <1>2
  <2>3. CASE c = 0
    BY <1>1, <2>1, <2>3
  <2>4. CASE c # 0
    <3>1. c \in 1..Len(x)
      BY <1>1, <2>4
    <3>2. c <= d
      BY <1>1, <2>2, <3>1
    <3>3. d \in 1..Len(y)
      BY <1>1, <2>4, <3>2
    <3>. QED  BY <1>1, <2>1, <3>2, <3>3
  <2>. QED  BY <2>3, <2>4
<1>4. /\ Len(Through(x, date)) = c /\ Len(Through(y, date)) = c
      /\ \A i \in 1..c : Through(x, date)[i] = Through(y, date)[i]
  <2>1. /\ Len(Through(x, date)) = c /\ \A i \in 1..c : Through(x, date)[i] = x[i]
        /\ Len(Through(y, date)) = d /\ \A i \in 1..d : Through(y, date)[i] = y[i]
    BY Parts DEF c, d
  <2>2. \A i \in 1..c : i \in 1..Len(x)
    BY <1>1
  <2>. QED  BY <1>1, <1>3, <2>1, <2>2
<1>5. (\E S : Through(x, date) \in Seq(S)) /\ \E S : Through(y, date) \in Seq(S)
  BY Parts DEF Dated
<1>. QED  BY <1>4, <1>5

\* A part of a series depends on the places it covers.
LEMMA SubSeqAgree ==
  ASSUME NEW x, NEW y, NEW m \in Int, NEW n \in Int, \A j \in m..n : x[j] = y[j]
  PROVE  SubSeq(x, m, n) = SubSeq(y, m, n)
<1> DEFINE S == {x[j] : j \in m..n}
<1>1. \A j \in m..n : x[j] \in S /\ y[j] \in S
  OBVIOUS
<1> HIDE DEF S
<1>2. /\ SubSeq(x, m, n) \in Seq(S) /\ Len(SubSeq(x, m, n)) = IF m <= n THEN n - m + 1 ELSE 0
      /\ \A i \in 1..(n - m + 1) : SubSeq(x, m, n)[i] = x[m + i - 1]
  BY <1>1, SubSeqProperties
<1>3. /\ SubSeq(y, m, n) \in Seq(S) /\ Len(SubSeq(y, m, n)) = IF m <= n THEN n - m + 1 ELSE 0
      /\ \A i \in 1..(n - m + 1) : SubSeq(y, m, n)[i] = y[m + i - 1]
  BY <1>1, SubSeqProperties
<1>4. ASSUME NEW i \in 1..Len(SubSeq(x, m, n)) PROVE SubSeq(x, m, n)[i] = SubSeq(y, m, n)[i]
  <2>1. i \in 1..(n - m + 1) /\ m + i - 1 \in m..n
    BY <1>2
  <2>. QED  BY <1>2, <1>3, <2>1
<1>5. Len(SubSeq(x, m, n)) = Len(SubSeq(y, m, n))
  BY <1>2, <1>3
<1>. QED  BY <1>2, <1>3, <1>4, <1>5, SeqEqual

LEMMA ListOf ==
  ASSUME NEW S, NEW n \in Nat, NEW f \in [1..n -> S]
  PROVE  f \in Seq(S) /\ Len(f) = n /\ DOMAIN f = 1..n
OBVIOUS

\* The same items, c places further on.
Shifted(x, y, c, m, n) == \A j \in m..n : x[j] = y[c + j]

LEMMA SubSeqShift ==
  ASSUME NEW x, NEW y, NEW c \in Nat, NEW m \in Int, NEW n \in Int, Shifted(x, y, c, m, n)
  PROVE  SubSeq(x, m, n) = SubSeq(y, c + m, c + n)
<1> DEFINE S == {x[j] : j \in m..n}
           k == c + m
           l == c + n
<1>1. k \in Int /\ l \in Int /\ l - k = n - m /\ (k <= l <=> m <= n)
  OBVIOUS
<1>2. /\ \A j \in m..n : x[j] \in S
      /\ \A j \in k..l : y[j] \in S
  <2> SUFFICES ASSUME NEW j \in k..l PROVE y[j] \in S
    OBVIOUS
  <2>1. j - c \in m..n /\ c + (j - c) = j
    BY <1>1
  <2>. QED  BY <2>1 DEF Shifted
<1> HIDE DEF S, k, l
<1>3. /\ SubSeq(x, m, n) \in Seq(S) /\ Len(SubSeq(x, m, n)) = IF m <= n THEN n - m + 1 ELSE 0
      /\ \A i \in 1..(n - m + 1) : SubSeq(x, m, n)[i] = x[m + i - 1]
  BY <1>2, SubSeqProperties
<1>4. /\ SubSeq(y, k, l) \in Seq(S) /\ Len(SubSeq(y, k, l)) = IF k <= l THEN l - k + 1 ELSE 0
      /\ \A i \in 1..(l - k + 1) : SubSeq(y, k, l)[i] = y[k + i - 1]
  BY <1>1, <1>2, SubSeqProperties
<1>5. ASSUME NEW i \in 1..Len(SubSeq(x, m, n)) PROVE SubSeq(x, m, n)[i] = SubSeq(y, k, l)[i]
  <2>1. i \in 1..(n - m + 1) /\ m + i - 1 \in m..n /\ i \in 1..(l - k + 1)
    BY <1>1, <1>3
  <2>2. c + (m + i - 1) = k + i - 1
    BY <2>1 DEF k
  <2>3. x[m + i - 1] = y[c + (m + i - 1)]
    BY <2>1 DEF Shifted
  <2>. QED  BY <1>3, <1>4, <2>1, <2>2, <2>3
<1>6. Len(SubSeq(x, m, n)) = Len(SubSeq(y, k, l))
  BY <1>1, <1>3, <1>4
<1>7. SubSeq(x, m, n) = SubSeq(y, k, l)
  BY <1>3, <1>4, <1>5, <1>6, SeqEqual
<1>. QED  BY <1>7 DEF k, l

-----------------------------------------------------------------------------
(* Places.                                                                   *)

\* Of n that are ordered, the numbers of those before are 0 to n - 1.
LEMMA PlacesAreDense ==
  ASSUME NEW S, IsFiniteSet(S), NEW before, \A x \in S : before[x] \subseteq S \ {x},
         \A x, y \in S : x # y => x \in before[y] \/ y \in before[x],
         \A x, y \in S : x \in before[y] => before[x] \subseteq before[y]
  PROVE  {1 + Cardinality(before[x]) : x \in S} = 1..Cardinality(S)
<1> DEFINE place == [x \in S |-> 1 + Cardinality(before[x])]
           places == {place[x] : x \in S}
<1>1. Cardinality(S) \in Nat
  BY FS_CardinalityType
<1>2. \A x \in S : IsFiniteSet(before[x]) /\ Cardinality(before[x]) \in Nat /\ Cardinality(before[x]) < Cardinality(S)
  <2> SUFFICES ASSUME NEW x \in S
               PROVE  IsFiniteSet(before[x]) /\ Cardinality(before[x]) \in Nat /\ Cardinality(before[x]) < Cardinality(S)
    OBVIOUS
  <2>1. before[x] \subseteq S /\ before[x] # S
    OBVIOUS
  <2>. QED  BY <2>1, FS_Subset, FS_CardinalityType
<1>3. \A x, y \in S : x \in before[y] => Cardinality(before[x]) < Cardinality(before[y])
  <2> SUFFICES ASSUME NEW x \in S, NEW y \in S, x \in before[y]
               PROVE  Cardinality(before[x]) < Cardinality(before[y])
    OBVIOUS
  <2>1. before[x] \subseteq before[y] /\ x \notin before[x]
    OBVIOUS
  <2>2. before[x] # before[y]
    BY <2>1
  <2>. QED  BY <1>2, <2>1, <2>2, FS_Subset
<1>4. \A x, y \in S : place[x] = place[y] => x = y
  <2> SUFFICES ASSUME NEW x \in S, NEW y \in S, place[x] = place[y], x # y PROVE FALSE
    OBVIOUS
  <2>1. Cardinality(before[x]) = Cardinality(before[y])
    BY <1>2
  <2>. QED  BY <1>2, <1>3, <2>1
<1>5. places \subseteq 1..Cardinality(S)
  BY <1>1, <1>2
<1>6. IsFiniteSet(1..Cardinality(S)) /\ Cardinality(1..Cardinality(S)) = Cardinality(S)
  BY <1>1, FS_Interval
<1>7. Cardinality(places) = Cardinality(S)
  <2>1. place \in [S -> places] /\ \A p \in places : \E x \in S : place[x] = p
    OBVIOUS
  <2> HIDE DEF place, places
  <2>2. place \in Bijection(S, places)
    BY <1>4, <2>1, Fun_IsBij
  <2>. QED  BY <2>2, FS_Bijection DEF ExistsBijection
<1>8. places = 1..Cardinality(S)
  <2> HIDE DEF places
  <2>. QED  BY <1>5, <1>6, <1>7, FS_Subset
<1>9. {1 + Cardinality(before[x]) : x \in S} = places
  OBVIOUS
<1>. QED  BY <1>8, <1>9

\* The places of a set in their order.
Enumerates(e, at, c) ==
  /\ e \in [1..c -> at]
  /\ \A j, k \in 1..c : j < k => e[j] < e[k]
  /\ \A i \in at : \E k \in 1..c : e[k] = i

PlacesBefore(at, i) == {j \in at : j < i}
PlacesTo(at, i) == {j \in at : j <= i}

\* Counting from the least, each place of a set has a number of its own.
LEMMA PlacesAreNumbered ==
  ASSUME NEW at, IsFiniteSet(at), \A i \in at : i \in Int
  PROVE  /\ {Cardinality(PlacesTo(at, i)) : i \in at} = 1..Cardinality(at)
         /\ \A i, j \in at : i < j => Cardinality(PlacesTo(at, i)) < Cardinality(PlacesTo(at, j))
         /\ \A i \in at : Cardinality(PlacesTo(at, i)) \in Nat
<1> DEFINE before == [i \in at |-> PlacesBefore(at, i)]
<1>1. \A i \in at : /\ PlacesBefore(at, i) \subseteq at /\ PlacesTo(at, i) \subseteq at
                    /\ i \notin PlacesBefore(at, i)
                    /\ PlacesTo(at, i) = PlacesBefore(at, i) \cup {i}
  BY DEF PlacesBefore, PlacesTo
<1>2. \A i \in at : /\ IsFiniteSet(PlacesBefore(at, i)) /\ IsFiniteSet(PlacesTo(at, i))
                    /\ Cardinality(PlacesBefore(at, i)) \in Nat /\ Cardinality(PlacesTo(at, i)) \in Nat
  BY <1>1, FS_Subset, FS_CardinalityType
<1>3. \A i \in at : Cardinality(PlacesTo(at, i)) = 1 + Cardinality(PlacesBefore(at, i))
  <2> SUFFICES ASSUME NEW i \in at
               PROVE  Cardinality(PlacesTo(at, i)) = 1 + Cardinality(PlacesBefore(at, i))
    OBVIOUS
  <2>1. Cardinality(PlacesBefore(at, i) \cup {i}) = Cardinality(PlacesBefore(at, i)) + 1
    BY <1>1, <1>2, FS_AddElement
  <2>. QED  BY <1>1, <1>2, <2>1
<1>4. /\ \A i \in at : before[i] \subseteq at \ {i}
      /\ \A i, j \in at : i # j => i \in before[j] \/ j \in before[i]
      /\ \A i, j \in at : i \in before[j] => before[i] \subseteq before[j]
  BY DEF PlacesBefore
<1>5. {1 + Cardinality(before[i]) : i \in at} = 1..Cardinality(at)
  <2> HIDE DEF before
  <2>. QED  BY <1>4, PlacesAreDense
<1>6. {Cardinality(PlacesTo(at, i)) : i \in at} = 1..Cardinality(at)
  <2>1. \A i \in at : Cardinality(PlacesTo(at, i)) = 1 + Cardinality(before[i])
    BY <1>3
  <2> HIDE DEF before
  <2>. QED  BY <1>5, <2>1
<1>7. ASSUME NEW i \in at, NEW j \in at, i < j
      PROVE  Cardinality(PlacesTo(at, i)) < Cardinality(PlacesTo(at, j))
  <2>1. PlacesTo(at, i) \subseteq PlacesBefore(at, j)
    BY <1>7 DEF PlacesTo, PlacesBefore
  <2>2. Cardinality(PlacesTo(at, i)) <= Cardinality(PlacesBefore(at, j))
    BY <1>2, <2>1, FS_Subset
  <2>. QED  BY <1>2, <1>3, <2>2
<1>. QED  BY <1>2, <1>6, <1>7

\* As many are counted along an enumeration as in the set.
Along(A, B, e, at, c, n) ==
  /\ n \in Nat /\ c \in Nat /\ at \in SUBSET (1..n) /\ Enumerates(e, at, c)
  /\ A \in SUBSET (1..c) /\ B \in SUBSET at /\ \A k \in 1..c : k \in A <=> e[k] \in B

LEMMA CountsAlong ==
  ASSUME NEW n, NEW c, NEW at, NEW e, NEW A, NEW B, Along(A, B, e, at, c, n)
  PROVE  IsFiniteSet(A) /\ IsFiniteSet(B) /\ Cardinality(A) \in Nat /\ Cardinality(A) = Cardinality(B)
<1> DEFINE f == [k \in A |-> e[k]]
<1>0. /\ n \in Nat /\ c \in Nat /\ at \in SUBSET (1..n) /\ Enumerates(e, at, c)
      /\ A \in SUBSET (1..c) /\ B \in SUBSET at /\ \A k \in 1..c : k \in A <=> e[k] \in B
      /\ \A i \in at : i \in Int
  BY DEF Along
<1>1. IsFiniteSet(1..c)
  BY <1>0, FS_Interval
<1>2. IsFiniteSet(A)
  BY <1>0, <1>1, FS_Subset
<1>3. f \in [A -> B]
  BY <1>0 DEF Enumerates
<1>4. \A j, k \in A : f[j] = f[k] => j = k
  <2> SUFFICES ASSUME NEW j \in A, NEW k \in A, e[j] = e[k] PROVE j = k
    OBVIOUS
  <2>1. j \in 1..c /\ k \in 1..c /\ j \in Int /\ k \in Int
    BY <1>0
  <2>2. e[j] \in at
    BY <1>0, <2>1 DEF Enumerates
  <2>3. e[j] \in Int
    BY <1>0, <2>2
  <2>4. ~(j < k) /\ ~(k < j)
    BY <1>0, <2>1, <2>3 DEF Enumerates
  <2>. QED  BY <2>1, <2>4
<1>5. \A b \in B : \E k \in A : f[k] = b
  BY <1>0 DEF Enumerates
<1>6. f \in Bijection(A, B)
  <2> HIDE DEF f
  <2>. QED  BY <1>3, <1>4, <1>5, Fun_IsBij
<1>. QED  BY <1>2, <1>6, FS_Bijection, FS_CardinalityType DEF ExistsBijection
=============================================================================
