----------------------- MODULE HistoricalReplayProofs -----------------------
(* The backfill of the archive beside its readers, proved for every archive, *)
(* master, range and number of crashes: what a completed range holds is what *)
(* an undisturbed pass over it would have stored, and whatever the readers   *)
(* have seen of a growing archive is what they would see of all of it.       *)
EXTENDS HistoricalReplay, SumsAndSeries

-----------------------------------------------------------------------------
(* The three tables, and the day of an entry of each.                        *)

Kinds == {"bars", "inferred", "gaps"}

DayOf(t, p) == IF t = "gaps" THEN p[3] ELSE p[2]

Stored == [bars |-> bars, inferred |-> inferred, gaps |-> gaps]

LEMMA OverValues ==
  ASSUME NEW f, NEW g, NEW p
  PROVE  /\ p \in DOMAIN f => Over(f, g)[p] = f[p]
         /\ p \in DOMAIN g /\ p \notin DOMAIN f => Over(f, g)[p] = g[p]
BY DEF Over

\* What a session adds to the tables is of its day.
LEMMA SessionDay ==
  ASSUME NEW memory, NEW rows, NEW d, NEW t \in Kinds,
         NEW p \in DOMAIN Session(memory, rows, d)[t]
  PROVE  DayOf(t, p) = d
<1> DEFINE S == Session(memory, rows, d)
<1>1. CASE t = "bars"
  <2>1. \E ids : DOMAIN S.bars = ids \X {d}
    BY DEF Session
  <2>. QED  BY <1>1, <2>1 DEF DayOf
<1>2. CASE t = "inferred"
  <2>1. \E ids : DOMAIN S.inferred = ids \X {d}
    BY DEF Session
  <2>. QED  BY <1>2, <2>1 DEF DayOf
<1>3. CASE t = "gaps"
  <2>1. \E ids : DOMAIN S.gaps = {<<r.id, memory.seen[r.id].date, d>> : r \in ids}
    BY DEF Session
  <2>. QED  BY <1>3, <2>1 DEF DayOf
<1>. QED  BY <1>1, <1>2, <1>3 DEF Kinds

\* A pass is extended day by day.
LEMMA PassUnfolds ==
  ASSUME NEW days, NEW first \in Nat \ {0}, NEW d \in Nat, first - 1 <= d
  PROVE  /\ Pass(days, first, first - 1) = Nothing
         /\ Pass(days, first, d + 1) = Extend(Pass(days, first, d), days[d + 1], d + 1)
<1> DEFINE Body(g, e) == IF e < first THEN Nothing ELSE Extend(g[e - 1], days[e], e)
           Upto(last) == (first - 1)..last
           Is(g, last) == g = [e \in Upto(last) |-> Body(g, e)]
           It(last) == CHOOSE g : Is(g, last)
           T == {n \in Nat : \E g : Is(g, first - 1 + n)}
<1>1. 0 \in T
  <2> DEFINE g == [e \in Upto(first - 1) |-> Nothing]
  <2>1. g = [e \in Upto(first - 1) |-> Body(g, e)]
    OBVIOUS
  <2>. QED  BY <2>1
<1>2. ASSUME NEW n \in Nat, n \in T PROVE n + 1 \in T
  <2> DEFINE last == first - 1 + n
  <2>1. PICK g : Is(g, last)
    BY <1>2
  <2> DEFINE h == [e \in Upto(last + 1) |->
                     IF e = last + 1 THEN Extend(g[last], days[e], e) ELSE g[e]]
  <2>2. last \in Nat /\ first <= last + 1 /\ last + 1 = first - 1 + (n + 1)
    OBVIOUS
  <2> HIDE DEF last
  <2>3. ASSUME NEW e \in Upto(last + 1) PROVE h[e] = Body(h, e)
    <3>1. CASE e = last + 1
      <4>1. h[e - 1] = g[last]
        BY <2>2, <3>1
      <4>. QED  BY <2>2, <3>1, <4>1
    <3>2. CASE e # last + 1
      <4>1. e \in Upto(last) /\ h[e] = g[e] /\ g[e] = Body(g, e)
        BY <2>1, <2>2, <3>2
      <4>2. CASE e < first
        BY <4>1, <4>2
      <4>3. CASE ~(e < first)
        <5>1. e - 1 \in Upto(last + 1) /\ e - 1 # last + 1
          BY <2>2, <4>1, <4>3
        <5>2. h[e - 1] = g[e - 1]
          BY <5>1
        <5>. QED  BY <4>1, <4>3, <5>2
      <4>. QED  BY <4>2, <4>3
    <3>. QED  BY <3>1, <3>2
  <2>4. h = [e \in Upto(last + 1) |-> h[e]]
    OBVIOUS
  <2> HIDE DEF h
  <2>5. Is(h, last + 1)
    BY <2>3, <2>4
  <2>6. \E f : Is(f, first - 1 + (n + 1))
    <3> HIDE DEF Is
    <3>. QED  BY <2>2, <2>5
  <2> HIDE DEF Is
  <2>. QED  BY <2>6
<1>3. \A n \in Nat : n \in T
  <2> HIDE DEF T
  <2>. QED  BY <1>1, <1>2, NatSetInduction
<1>4. ASSUME NEW last \in Nat, first - 1 <= last PROVE Is(It(last), last)
  <2>1. last - (first - 1) \in Nat /\ first - 1 + (last - (first - 1)) = last
    BY <1>4
  <2>2. \E g : Is(g, last)
    BY <1>3, <2>1
  <2> HIDE DEF Is
  <2>. QED  BY <2>2
<1>5. \A last : Pass(days, first, last) = It(last)[last]
  BY DEF Pass
<1>6. ASSUME NEW last \in Nat, first - 1 <= last, NEW e \in Upto(last)
      PROVE  It(last)[e] = Body(It(last), e)
  <2> HIDE DEF It
  <2>. QED  BY <1>4, <1>6
\* Two passes agree as far as both go.
<1>7. ASSUME NEW last \in Nat, first - 1 <= last
      PROVE  \A e \in Upto(last) : It(last)[e] = It(last + 1)[e]
  <2> DEFINE E == {n \in Nat : first - 1 + n <= last =>
                                 It(last)[first - 1 + n] = It(last + 1)[first - 1 + n]}
  <2>1. \A e \in Upto(last) : /\ It(last)[e] = Body(It(last), e)
                              /\ It(last + 1)[e] = Body(It(last + 1), e)
    BY <1>6, <1>7
  <2> HIDE DEF It
  <2>2. 0 \in E
    <3>1. first - 1 \in Upto(last)
      BY <1>7
    <3>. QED  BY <2>1, <3>1
  <2>3. ASSUME NEW n \in Nat, n \in E PROVE n + 1 \in E
    <3> SUFFICES ASSUME first - 1 + (n + 1) <= last
                 PROVE  It(last)[first + n] = It(last + 1)[first + n]
      OBVIOUS
    <3>1. first + n \in Upto(last) /\ first + n - 1 = first - 1 + n /\ ~(first + n < first)
      OBVIOUS
    <3>2. It(last)[first - 1 + n] = It(last + 1)[first - 1 + n]
      BY <2>3
    <3>. QED  BY <2>1, <3>1, <3>2
  <2>4. \A n \in Nat : n \in E
    <3> HIDE DEF E
    <3>. QED  BY <2>2, <2>3, NatSetInduction
  <2> SUFFICES ASSUME NEW e \in Upto(last) PROVE It(last)[e] = It(last + 1)[e]
    OBVIOUS
  <2>5. e - (first - 1) \in Nat /\ first - 1 + (e - (first - 1)) = e
    OBVIOUS
  <2>. QED  BY <2>4, <2>5
<1>8. Pass(days, first, first - 1) = Nothing
  <2>1. /\ first - 1 \in Nat /\ first - 1 <= first - 1
        /\ first - 1 \in Upto(first - 1) /\ first - 1 < first
    OBVIOUS
  <2>2. It(first - 1)[first - 1] = Body(It(first - 1), first - 1)
    <3> HIDE DEF It, Upto, Body
    <3>. QED  BY <1>6, <2>1
  <2>. QED  BY <1>5, <2>1, <2>2
<1>9. Pass(days, first, d + 1) = Extend(Pass(days, first, d), days[d + 1], d + 1)
  <2>1. d + 1 \in Upto(d + 1) /\ ~(d + 1 < first) /\ d + 1 - 1 = d /\ d \in Upto(d)
    OBVIOUS
  <2>2. It(d + 1)[d + 1] = Extend(It(d + 1)[d], days[d + 1], d + 1)
    BY <1>6, <2>1
  <2>3. It(d)[d] = It(d + 1)[d]
    BY <1>7, <2>1
  <2>. QED  BY <1>5, <2>2, <2>3
<1>. QED  BY <1>8, <1>9

\* What the later of two passes from one day keeps of table t.
Keeps(before, after, t, first, last) ==
  /\ DOMAIN before[t] \subseteq DOMAIN after[t]
  /\ \A p \in DOMAIN before[t] : after[t][p] = before[t][p]
  /\ \A p \in DOMAIN after[t] : DayOf(t, p) \in first..last
  /\ DOMAIN after = Kinds \cup {"memory"}

\* The first days of a pass keep their entries to its end, and what the others
\* add is of their days.
LEMMA PassKeeps ==
  ASSUME NEW days, NEW first \in Nat \ {0}, NEW mid \in Nat, first - 1 <= mid,
         NEW n \in Nat, NEW t \in Kinds
  PROVE  Keeps(Pass(days, first, mid), Pass(days, first, mid + n), t, first, mid + n)
<1> DEFINE P(d) == Pass(days, first, d)
           Within(d) == /\ \A p \in DOMAIN P(d)[t] : DayOf(t, p) \in first..d
                        /\ DOMAIN P(d) = Kinds \cup {"memory"}
           Grows(d) == /\ DOMAIN P(d)[t] \subseteq DOMAIN P(d + 1)[t]
                       /\ \A p \in DOMAIN P(d)[t] : P(d + 1)[t][p] = P(d)[t][p]
<1>1. Within(first - 1)
  <2>1. P(first - 1) = Nothing
    BY PassUnfolds
  <2>2. DOMAIN Nothing[t] = {} /\ DOMAIN Nothing = Kinds \cup {"memory"}
    BY DEF Nothing, Kinds
  <2>. QED  BY <2>1, <2>2
<1>2. ASSUME NEW d \in Nat, first - 1 <= d, Within(d)
      PROVE  Within(d + 1) /\ Grows(d)
  <2> DEFINE S == Session(P(d).memory, days[d + 1], d + 1)
  <2>1. P(d + 1) = Extend(P(d), days[d + 1], d + 1)
    BY <1>2, PassUnfolds
  <2>2. CASE days[d + 1] = {}
    <3>1. P(d + 1) = [P(d) EXCEPT !.memory = Holiday(P(d).memory)]
      BY <2>1, <2>2 DEF Extend
    <3>2. P(d + 1)[t] = P(d)[t] /\ DOMAIN P(d + 1) = DOMAIN P(d)
      <4> HIDE DEF P
      <4>. QED  BY <1>2, <3>1 DEF Kinds
    <3>. QED  BY <1>2, <3>2
  <2>3. CASE days[d + 1] # {}
    <3>1. P(d + 1)[t] = Over(S[t], P(d)[t]) /\ DOMAIN P(d + 1) = Kinds \cup {"memory"}
      BY <2>1, <2>3 DEF Extend, Kinds
    <3>2. \A p \in DOMAIN S[t] : DayOf(t, p) = d + 1
      BY SessionDay
    <3> HIDE DEF P, S
    <3>3. DOMAIN P(d + 1)[t] = DOMAIN S[t] \cup DOMAIN P(d)[t]
      BY <3>1 DEF Over
    <3>4. \A p \in DOMAIN P(d)[t] : p \notin DOMAIN S[t]
      BY <1>2, <3>2
    <3>5. Grows(d)
      BY <3>1, <3>3, <3>4 DEF Over
    <3>. QED  BY <1>2, <3>1, <3>2, <3>3, <3>5
  <2>. QED  BY <2>2, <2>3
<1> HIDE DEF P, Within, Grows
<1>3. \A k \in Nat : Within(first - 1 + k)
  <2> DEFINE T == {k \in Nat : Within(first - 1 + k)}
  <2>1. 0 \in T
    BY <1>1
  <2>2. ASSUME NEW k \in Nat, k \in T PROVE k + 1 \in T
    <3>1. first - 1 + k \in Nat /\ first - 1 + k + 1 = first - 1 + (k + 1)
      OBVIOUS
    <3>2. first - 1 <= first - 1 + k /\ Within(first - 1 + k)
      BY <2>2
    <3>3. Within(first - 1 + k + 1)
      BY <1>2, <3>1, <3>2
    <3>. QED  BY <3>1, <3>3
  <2> HIDE DEF T
  <2>3. \A k \in Nat : k \in T
    BY <2>1, <2>2, NatSetInduction
  <2>. QED  BY <2>3 DEF T
<1>4. \A d \in Nat : first - 1 <= d => Within(d) /\ Grows(d)
  <2> SUFFICES ASSUME NEW d \in Nat, first - 1 <= d PROVE Within(d) /\ Grows(d)
    OBVIOUS
  <2>1. d - (first - 1) \in Nat /\ first - 1 + (d - (first - 1)) = d
    OBVIOUS
  <2>2. Within(d)
    BY <1>3, <2>1
  <2>. QED  BY <1>2, <2>2
<1> DEFINE T == {k \in Nat : /\ DOMAIN P(mid)[t] \subseteq DOMAIN P(mid + k)[t]
                             /\ \A p \in DOMAIN P(mid)[t] : P(mid + k)[t][p] = P(mid)[t][p]}
<1>5. 0 \in T
  OBVIOUS
<1>6. ASSUME NEW k \in Nat, k \in T PROVE k + 1 \in T
  <2>1. mid + k \in Nat /\ mid + k + 1 = mid + (k + 1) /\ first - 1 <= mid + k
    OBVIOUS
  <2>2. Grows(mid + k)
    BY <1>4, <2>1
  <2>. QED  BY <1>6, <2>1, <2>2 DEF Grows
<1>7. n \in T
  <2> HIDE DEF T
  <2>. QED  BY <1>5, <1>6, NatSetInduction
<1>8. Within(mid + n)
  <2>1. mid + n \in Nat /\ first - 1 <= mid + n
    OBVIOUS
  <2>. QED  BY <1>4, <2>1
<1>. QED  BY <1>7, <1>8 DEF P, Within, Keeps

\* The totals of the chunks add up chunk by chunk.
LEMMA TotalsUnfold ==
  ASSUME NEW pass, NEW n \in Nat
  PROVE  /\ Totals(pass, 0) = NoCounts
         /\ Totals(pass, n + 1) = Plus(Totals(pass, n), pass[n + 1].memory.counts)
<1> DEFINE Body(g, i) == IF i = 0 THEN NoCounts ELSE Plus(g[i - 1], pass[i].memory.counts)
           Is(g, m) == g = [i \in 0..m |-> Body(g, i)]
           It(m) == CHOOSE g : Is(g, m)
           T == {m \in Nat : \E g : Is(g, m)}
<1>1. 0 \in T
  <2> DEFINE g == [i \in 0..0 |-> NoCounts]
  <2>1. g = [i \in 0..0 |-> Body(g, i)]
    OBVIOUS
  <2>. QED  BY <2>1
<1>2. ASSUME NEW m \in Nat, m \in T PROVE m + 1 \in T
  <2>1. PICK g : Is(g, m)
    BY <1>2
  <2> DEFINE h == [i \in 0..(m + 1) |->
                     IF i = m + 1 THEN Plus(g[m], pass[i].memory.counts) ELSE g[i]]
  <2>2. ASSUME NEW i \in 0..(m + 1) PROVE h[i] = Body(h, i)
    <3>1. CASE i = m + 1
      <4>1. h[i - 1] = g[m]
        BY <3>1
      <4>. QED  BY <3>1, <4>1
    <3>2. CASE i # m + 1
      <4>1. i \in 0..m /\ h[i] = g[i] /\ g[i] = Body(g, i)
        BY <2>1, <3>2
      <4>2. CASE i = 0
        BY <4>1, <4>2
      <4>3. CASE i # 0
        <5>1. i - 1 \in 0..(m + 1) /\ i - 1 # m + 1
          BY <4>1, <4>3
        <5>2. h[i - 1] = g[i - 1]
          BY <5>1
        <5>. QED  BY <4>1, <4>3, <5>2
      <4>. QED  BY <4>2, <4>3
    <3>. QED  BY <3>1, <3>2
  <2>3. h = [i \in 0..(m + 1) |-> h[i]]
    OBVIOUS
  <2> HIDE DEF h
  <2>4. Is(h, m + 1)
    BY <2>2, <2>3
  <2>. QED  BY <2>4
<1>3. \A m \in Nat : m \in T
  <2> HIDE DEF T
  <2>. QED  BY <1>1, <1>2, NatSetInduction
<1>4. ASSUME NEW m \in Nat PROVE Is(It(m), m)
  <2>1. \E g : Is(g, m)
    BY <1>3
  <2> HIDE DEF Is
  <2>. QED  BY <2>1
<1>5. \A m : Totals(pass, m) = It(m)[m]
  BY DEF Totals
<1>6. ASSUME NEW m \in Nat, NEW i \in 0..m PROVE It(m)[i] = Body(It(m), i)
  <2> HIDE DEF It
  <2>. QED  BY <1>4
<1> HIDE DEF It
<1>7. \A i \in 0..n : It(n)[i] = It(n + 1)[i]
  <2> DEFINE E == {k \in Nat : k <= n => It(n)[k] = It(n + 1)[k]}
  <2>1. 0 \in E
    BY <1>6
  <2>2. ASSUME NEW k \in Nat, k \in E PROVE k + 1 \in E
    <3> SUFFICES ASSUME k + 1 <= n PROVE It(n)[k + 1] = It(n + 1)[k + 1]
      OBVIOUS
    <3>1. k + 1 \in 0..n /\ k + 1 \in 0..(n + 1) /\ k + 1 # 0 /\ k + 1 - 1 = k
      OBVIOUS
    <3>2. It(n)[k] = It(n + 1)[k]
      BY <2>2
    <3>3. /\ It(n)[k + 1] = Plus(It(n)[k], pass[k + 1].memory.counts)
          /\ It(n + 1)[k + 1] = Plus(It(n + 1)[k], pass[k + 1].memory.counts)
      BY <1>6, <3>1
    <3>. QED  BY <3>2, <3>3
  <2>3. \A k \in Nat : k \in E
    <3> HIDE DEF E
    <3>. QED  BY <2>1, <2>2, NatSetInduction
  <2>. QED  BY <2>3
<1>8. Totals(pass, 0) = NoCounts
  <2>1. It(0)[0] = Body(It(0), 0)
    BY <1>6
  <2>. QED  BY <1>5, <2>1
<1>9. Totals(pass, n + 1) = Plus(Totals(pass, n), pass[n + 1].memory.counts)
  <2>1. n + 1 \in 0..(n + 1) /\ n + 1 # 0 /\ n + 1 - 1 = n /\ n \in 0..n
    OBVIOUS
  <2>2. It(n + 1)[n + 1] = Plus(It(n + 1)[n], pass[n + 1].memory.counts)
    BY <1>6, <2>1
  <2>3. It(n)[n] = It(n + 1)[n]
    BY <1>7, <2>1
  <2>. QED  BY <1>5, <2>2, <2>3
<1>. QED  BY <1>8, <1>9

-----------------------------------------------------------------------------
(* Chunks.                                                                   *)

LEMMA ChunkDays ==
  ASSUME NEW i \in DOMAIN Chunks
  PROVE  /\ FirstDay(i) \in Nat \ {0} /\ LastDay(i) \in Nat /\ FirstDay(i) <= LastDay(i)
         /\ i + 1 \in DOMAIN Chunks => FirstDay(i + 1) = LastDay(i) + 1
         /\ i \in Nat \ {0}
<1>1. /\ Len(Chunks) \in Nat /\ DOMAIN Chunks = 1..Len(Chunks)
      /\ \A k \in DOMAIN Chunks : /\ Chunks[k] \in Nat \X Nat
                                  /\ Chunks[k][1] \in Nat /\ Chunks[k][2] \in Nat
  BY ChunksAssumption
<1>2. FirstDay(i) # 0
  <2>1. CASE i = 1
    BY <2>1, ChunksAssumption DEF FirstDay
  <2>2. CASE i # 1
    <3>1. i - 1 \in DOMAIN Chunks /\ Chunks[i][1] = Chunks[i - 1][2] + 1
      BY <1>1, <2>2, ChunksAssumption
    <3>2. Chunks[i - 1][2] \in Nat
      BY <1>1, <3>1
    <3>. QED  BY <3>1, <3>2 DEF FirstDay
  <2>. QED  BY <2>1, <2>2
<1>3. i + 1 \in DOMAIN Chunks => FirstDay(i + 1) = LastDay(i) + 1
  <2> SUFFICES ASSUME i + 1 \in DOMAIN Chunks PROVE FirstDay(i + 1) = LastDay(i) + 1
    OBVIOUS
  <2>1. i \in Nat \ {0} /\ i + 1 # 1 /\ (i + 1) - 1 = i
    BY <1>1
  <2>2. Chunks[i + 1][1] = Chunks[(i + 1) - 1][2] + 1
    BY <2>1, ChunksAssumption
  <2>. QED  BY <2>1, <2>2 DEF FirstDay, LastDay
<1>. QED  BY <1>1, <1>2, <1>3, ChunksAssumption DEF FirstDay, LastDay

LEMMA ChunksAscend ==
  ASSUME NEW i \in DOMAIN Chunks, NEW k \in DOMAIN Chunks, i < k
  PROVE  LastDay(i) < FirstDay(k)
<1> DEFINE T == {n \in Nat : i + 1 + n \in DOMAIN Chunks => LastDay(i) < FirstDay(i + 1 + n)}
<1>1. DOMAIN Chunks = 1..Len(Chunks) /\ Len(Chunks) \in Nat /\ i \in Nat /\ k \in Nat
  BY ChunksAssumption
<1>2. 0 \in T
  <2>1. i + 1 \in DOMAIN Chunks => FirstDay(i + 1) = LastDay(i) + 1 /\ LastDay(i) \in Nat
    BY ChunkDays
  <2>. QED  BY <1>1, <2>1
<1>3. ASSUME NEW n \in Nat, n \in T PROVE n + 1 \in T
  <2> SUFFICES ASSUME i + 1 + (n + 1) \in DOMAIN Chunks
               PROVE  LastDay(i) < FirstDay(i + 1 + (n + 1))
    OBVIOUS
  <2> DEFINE m == i + 1 + n
  <2>1. m \in DOMAIN Chunks /\ m + 1 = i + 1 + (n + 1)
    BY <1>1
  <2>2. LastDay(i) < FirstDay(m)
    BY <1>3, <2>1
  <2> HIDE DEF m
  <2>3. /\ FirstDay(m) \in Nat /\ LastDay(m) \in Nat /\ LastDay(i) \in Nat
        /\ FirstDay(m) <= LastDay(m)
        /\ m + 1 \in DOMAIN Chunks => FirstDay(m + 1) = LastDay(m) + 1
    BY <2>1, ChunkDays
  <2>. QED  BY <2>1, <2>2, <2>3
<1>4. \A n \in Nat : n \in T
  <2> HIDE DEF T
  <2>. QED  BY <1>2, <1>3, NatSetInduction
<1>5. k - (i + 1) \in Nat /\ i + 1 + (k - (i + 1)) = k
  BY <1>1
<1>. QED  BY <1>4, <1>5

\* The checkpoint after n chunks.
Reach(n) == IF n = 0 THEN 0 ELSE LastDay(n)

LEMMA CompletedUpTo ==
  ASSUME NEW n \in 0..Len(Chunks)
  PROVE  Completed(Reach(n)) = 1..n /\ Reach(n) \in Nat
<1>1. DOMAIN Chunks = 1..Len(Chunks) /\ Len(Chunks) \in Nat
  BY ChunksAssumption
<1>2. CASE n = 0
  <2>1. \A i \in DOMAIN Chunks : LastDay(i) > 0
    BY ChunkDays
  <2>. QED  BY <1>2, <2>1, ChunkDays DEF Completed, Reach
<1>3. CASE n # 0
  <2>1. n \in DOMAIN Chunks /\ Reach(n) = LastDay(n) /\ LastDay(n) \in Nat
    BY <1>1, <1>3, ChunkDays DEF Reach
  <2>2. ASSUME NEW i \in DOMAIN Chunks PROVE LastDay(i) <= LastDay(n) <=> i <= n
    <3>1. /\ LastDay(i) \in Nat /\ FirstDay(i) \in Nat /\ FirstDay(i) <= LastDay(i)
          /\ FirstDay(n) \in Nat /\ FirstDay(n) <= LastDay(n)
      BY <2>1, ChunkDays
    <3>2. CASE i < n
      BY <2>1, <3>1, <3>2, ChunksAscend
    <3>3. CASE n < i
      <4>1. LastDay(n) < FirstDay(i)
        BY <2>1, <3>3, ChunksAscend
      <4>. QED  BY <1>1, <2>1, <3>1, <3>3, <4>1
    <3>. QED  BY <1>1, <2>1, <3>2, <3>3
  <2>. QED  BY <1>1, <2>1, <2>2 DEF Completed
<1>. QED  BY <1>2, <1>3

\* The next chunk is the one after the last completed, whether the script
\* starts now or started with an older checkpoint.
LEMMA OpensTheNext ==
  ASSUME NEW n \in 0..Len(Chunks), NEW i \in 0..n, NEW m \in 0..n, i = n \/ m = n
  PROVE  OpenChunk(i, Reach(m))
           = IF n = Len(Chunks) THEN Idle
             ELSE [chunk |-> n + 1, day |-> FirstDay(n + 1), memory |-> Fresh, from |-> Reach(m)]
<1> DEFINE left == {k \in DOMAIN Chunks : k > i /\ k \notin Completed(Reach(m))}
<1>1. DOMAIN Chunks = 1..Len(Chunks) /\ Len(Chunks) \in Nat /\ m \in 0..Len(Chunks)
  BY ChunksAssumption
<1>2. left = (n + 1)..Len(Chunks)
  BY <1>1, CompletedUpTo
<1>3. OpenChunk(i, Reach(m))
        = IF left = {} THEN Idle
          ELSE [chunk |-> Min(left), day |-> FirstDay(Min(left)), memory |-> Fresh, from |-> Reach(m)]
  BY DEF OpenChunk
<1> HIDE DEF left
<1>4. CASE n = Len(Chunks)
  BY <1>1, <1>2, <1>3, <1>4
<1>5. CASE n # Len(Chunks)
  <2> DEFINE after == (n + 1)..Len(Chunks)
  <2>0. after \in SUBSET Nat /\ n + 1 \in after /\ \A k \in after : n + 1 <= k
    <3>1. n \in Nat /\ n + 1 <= Len(Chunks) /\ n + 1 \in Nat
      <4>1. PICK top \in Nat : top = Len(Chunks)
        BY <1>1
      <4>2. n \in 0..top /\ n # top
        BY <1>5, <4>1
      <4>3. n \in Nat /\ n + 1 <= top
        BY <4>2
      <4>. QED  BY <4>1, <4>3
    <3>. QED  BY <1>1, <3>1
  <2> HIDE DEF after
  <2>1. left \in SUBSET Nat /\ left # {} /\ n + 1 \in left /\ \A k \in left : n + 1 <= k
    <3>1. left = after
      BY <1>2 DEF after
    <3>. QED  BY <2>0, <3>1
  <2>2. Min(left) = n + 1
    <3>1. Min(left) \in left /\ \A k \in left : Min(left) <= k
      BY <2>1, NatSetHasMin
    <3>2. Min(left) \in Nat /\ Min(left) <= n + 1 /\ n + 1 <= Min(left)
      BY <2>1, <3>1
    <3>. QED  BY <3>2
  <2>. QED  BY <1>3, <1>5, <2>1, <2>2
<1>. QED  BY <1>4, <1>5
-----------------------------------------------------------------------------
(* The invariant. The checkpoint stands at the end of a chunk and the script  *)
(* is idle or in the next one. As long as the archive served everything, what *)
(* is stored is what undisturbed passes store: an entry left behind by a run  *)
(* that died is one the next run would write. The memory of the script is     *)
(* that of a pass up to yesterday.                                            *)

ChunkPass(days, k) == Pass(days, FirstDay(k), LastDay(k))

Faithful(days, tables) ==
  \A t \in Kinds : \A p \in DOMAIN tables[t] :
    \E k \in DOMAIN Chunks : p \in DOMAIN ChunkPass(days, k)[t] /\ tables[t][p] = ChunkPass(days, k)[t][p]

Holds(tables, pass) == \A t \in Kinds : DOMAIN pass[t] \subseteq DOMAIN tables[t]

InChunk(k) ==
  /\ k \in DOMAIN Chunks
  /\ job = [chunk |-> k, day |-> job.day, memory |-> job.memory, from |-> job.from]
  /\ job.day \in FirstDay(k)..(LastDay(k) + 1)
  /\ \E m \in 0..(k - 1) : job.from = Reach(m)

AtChunk(n) == checkpoint.last = Reach(n) /\ (job = Idle \/ InChunk(n + 1))

Sofar(n) == Pass(archive, FirstDay(n + 1), job.day - 1)

Kept(n) ==
  /\ Faithful(archive, Stored)
  /\ \A k \in 1..n : Holds(Stored, ChunkPass(archive, k))
  /\ checkpoint.totals = Totals(Undisturbed[archive], n)
  /\ job # Idle => job.memory = Sofar(n).memory /\ Holds(Stored, Sofar(n))

BackfillInv ==
  /\ archive \in Archives
  /\ skips \in Nat
  /\ \E n \in 0..Len(Chunks) : AtChunk(n) /\ (skips = 0 => Kept(n))

\* An entry of a chunk's pass is of one of its days.
LEMMA ChunkPassDays ==
  ASSUME NEW days, NEW k \in DOMAIN Chunks, NEW t \in Kinds, NEW p \in DOMAIN ChunkPass(days, k)[t]
  PROVE  DayOf(t, p) \in FirstDay(k)..LastDay(k)
<1> DEFINE first == FirstDay(k)
           n == LastDay(k) - (first - 1)
<1>1. /\ first \in Nat \ {0} /\ first - 1 \in Nat /\ n \in Nat
      /\ first - 1 <= first - 1 /\ first - 1 + n = LastDay(k)
  BY ChunkDays
<1> HIDE DEF first, n
<1>2. Keeps(Pass(days, first, first - 1), Pass(days, first, first - 1 + n), t, first, first - 1 + n)
  BY <1>1, PassKeeps
<1>. QED  BY <1>1, <1>2 DEF ChunkPass, Keeps, first

\* What a pass holds on some day of a chunk the pass of the chunk holds too.
LEMMA DaysOfTheChunk ==
  ASSUME NEW days, NEW k \in DOMAIN Chunks, NEW d \in FirstDay(k)..LastDay(k), NEW t \in Kinds,
         NEW p \in DOMAIN Pass(days, FirstDay(k), d)[t]
  PROVE  /\ p \in DOMAIN ChunkPass(days, k)[t]
         /\ ChunkPass(days, k)[t][p] = Pass(days, FirstDay(k), d)[t][p]
<1> DEFINE first == FirstDay(k)
           n == LastDay(k) - d
<1>1. first \in Nat \ {0} /\ d \in Nat /\ n \in Nat /\ first - 1 <= d /\ d + n = LastDay(k)
  BY ChunkDays
<1> HIDE DEF first, n
<1>2. Keeps(Pass(days, first, d), Pass(days, first, d + n), t, first, d + n)
  BY <1>1, PassKeeps
<1>. QED  BY <1>1, <1>2 DEF ChunkPass, Keeps, first

\* Storing a day, in whichever order the statements resolve a conflict, keeps
\* the tables faithful and adds what the pass adds.
LEMMA DayIsKept ==
  ASSUME NEW days, NEW k \in DOMAIN Chunks, NEW d \in FirstDay(k)..LastDay(k), days[d] # {},
         NEW before, NEW after,
         LET S == Session(Pass(days, FirstDay(k), d - 1).memory, days[d], d)
         IN  \A t \in Kinds : after[t] = Over(S[t], before[t]) \/ after[t] = Over(before[t], S[t]),
         Faithful(days, before),
         Holds(before, Pass(days, FirstDay(k), d - 1))
  PROVE  /\ Faithful(days, after)
         /\ Holds(after, Pass(days, FirstDay(k), d))
         /\ \A t \in Kinds : DOMAIN before[t] \subseteq DOMAIN after[t]
<1> DEFINE first == FirstDay(k)
           yesterday == Pass(days, first, d - 1)
           today == Pass(days, first, d)
           S == Session(yesterday.memory, days[d], d)
<1>1. /\ first \in Nat \ {0} /\ d \in Nat /\ d - 1 \in Nat /\ first - 1 <= d - 1
      /\ (d - 1) + 1 = d
  BY ChunkDays
<1>2. today = Extend(yesterday, days[d], d)
  <2>1. Pass(days, first, (d - 1) + 1) = Extend(Pass(days, first, d - 1), days[(d - 1) + 1], (d - 1) + 1)
    <3> HIDE DEF first
    <3>. QED  BY <1>1, PassUnfolds
  <2>. QED  BY <1>1, <2>1
<1>3. ASSUME NEW t \in Kinds PROVE today[t] = Over(S[t], yesterday[t])
  BY <1>2, <1>3 DEF Extend, Kinds
<1>4. ASSUME NEW t \in Kinds
      PROVE  /\ after[t] = Over(S[t], before[t]) \/ after[t] = Over(before[t], S[t])
             /\ DOMAIN after[t] = DOMAIN S[t] \cup DOMAIN before[t]
             /\ DOMAIN before[t] \subseteq DOMAIN after[t]
  <2>1. after[t] = Over(S[t], before[t]) \/ after[t] = Over(before[t], S[t])
    BY <1>4
  <2> HIDE DEF S
  <2>. QED  BY <2>1 DEF Over
<1>5. ASSUME NEW t \in Kinds, NEW p \in DOMAIN S[t]
      PROVE  /\ p \in DOMAIN ChunkPass(days, k)[t]
             /\ ChunkPass(days, k)[t][p] = S[t][p]
  <2>1. p \in DOMAIN today[t] /\ today[t][p] = S[t][p]
    <3> HIDE DEF S, today, yesterday
    <3>. QED  BY <1>3, <1>5 DEF Over
  <2>. QED  BY <1>5, <2>1, DaysOfTheChunk
\* An entry of this day that is there already is one of this chunk.
<1>6. ASSUME NEW t \in Kinds, NEW p \in DOMAIN S[t], p \in DOMAIN before[t]
      PROVE  before[t][p] = S[t][p]
  <2>1. PICK i \in DOMAIN Chunks : /\ p \in DOMAIN ChunkPass(days, i)[t]
                                   /\ before[t][p] = ChunkPass(days, i)[t][p]
    BY <1>6 DEF Faithful
  <2>2. DayOf(t, p) = d
    BY <1>6, SessionDay
  <2>3. d \in FirstDay(i)..LastDay(i)
    BY <1>6, <2>1, <2>2, ChunkPassDays
  <2>4. i = k
    <3>1. /\ LastDay(i) \in Nat /\ LastDay(k) \in Nat /\ FirstDay(i) \in Nat /\ FirstDay(k) \in Nat
          /\ i \in Nat /\ k \in Nat
      BY ChunkDays
    <3>2. ~(i < k)
      <4>1. i < k => LastDay(i) < FirstDay(k)
        BY ChunksAscend
      <4>. QED  BY <2>3, <3>1, <4>1
    <3>3. ~(k < i)
      <4>1. k < i => LastDay(k) < FirstDay(i)
        BY ChunksAscend
      <4>. QED  BY <2>3, <3>1, <4>1
    <3>. QED  BY <3>1, <3>2, <3>3
  <2>. QED  BY <1>5, <1>6, <2>1, <2>4
<1>7. Faithful(days, after)
  <2> SUFFICES ASSUME NEW t \in Kinds, NEW p \in DOMAIN after[t]
               PROVE  \E i \in DOMAIN Chunks : /\ p \in DOMAIN ChunkPass(days, i)[t]
                                               /\ after[t][p] = ChunkPass(days, i)[t][p]
    BY DEF Faithful
  <2> HIDE DEF S
  <2>1. CASE p \in DOMAIN S[t]
    <3>1. after[t][p] = S[t][p]
      <4>1. p \in DOMAIN before[t] => before[t][p] = S[t][p]
        BY <1>6, <2>1
      <4>2. CASE after[t] = Over(S[t], before[t])
        <5>1. Over(S[t], before[t])[p] = S[t][p]
          BY <2>1, OverValues
        <5>. QED  BY <4>2, <5>1
      <4>3. CASE after[t] = Over(before[t], S[t])
        <5>1. p \in DOMAIN before[t] => Over(before[t], S[t])[p] = before[t][p]
          BY OverValues
        <5>2. p \notin DOMAIN before[t] => Over(before[t], S[t])[p] = S[t][p]
          BY <2>1, OverValues
        <5>. QED  BY <4>1, <4>3, <5>1, <5>2
      <4>. QED  BY <1>4, <4>2, <4>3
    <3>2. p \in DOMAIN ChunkPass(days, k)[t] /\ ChunkPass(days, k)[t][p] = S[t][p]
      BY <1>5, <2>1
    <3>. QED  BY <3>1, <3>2
  <2>2. CASE p \notin DOMAIN S[t]
    <3>1. p \in DOMAIN before[t] /\ after[t][p] = before[t][p]
      <4>1. p \in DOMAIN before[t]
        BY <1>4, <2>2
      <4>2. Over(S[t], before[t])[p] = before[t][p] /\ Over(before[t], S[t])[p] = before[t][p]
        BY <2>2, <4>1, OverValues
      <4>. QED  BY <1>4, <4>1, <4>2
    <3>. QED  BY <3>1 DEF Faithful
  <2>. QED  BY <2>1, <2>2
<1>8. Holds(after, today)
  <2> SUFFICES ASSUME NEW t \in Kinds PROVE DOMAIN today[t] \subseteq DOMAIN after[t]
    BY DEF Holds
  <2>1. DOMAIN yesterday[t] \subseteq DOMAIN before[t]
    BY DEF Holds
  <2>2. DOMAIN today[t] = DOMAIN S[t] \cup DOMAIN yesterday[t]
    <3>1. today[t] = Over(S[t], yesterday[t])
      BY <1>3
    <3> HIDE DEF S, today, yesterday
    <3>. QED  BY <3>1 DEF Over
  <2> HIDE DEF S, today, yesterday
  <2>. QED  BY <1>4, <2>1, <2>2
<1>. QED  BY <1>4, <1>7, <1>8

-----------------------------------------------------------------------------
(* Every step keeps it.                                                      *)

LEMMA OpenedChunk ==
  ASSUME NEW n \in 0..Len(Chunks), NEW i \in 0..n, NEW m \in 0..n, i = n \/ m = n,
         job' = OpenChunk(i, Reach(m)), archive' = archive
  PROVE  /\ job' = Idle \/ InChunk(n + 1)'
         /\ job' # Idle => job'.memory = Sofar(n)'.memory /\ Holds(Stored', Sofar(n)')
<1>1. CASE n = Len(Chunks)
  BY <1>1, OpensTheNext
<1>2. CASE n # Len(Chunks)
  <2>1. job' = [chunk |-> n + 1, day |-> FirstDay(n + 1), memory |-> Fresh, from |-> Reach(m)]
    BY <1>2, OpensTheNext
  <2>2. n + 1 \in DOMAIN Chunks
    <3>1. DOMAIN Chunks = 1..Len(Chunks) /\ Len(Chunks) \in Nat
      BY ChunksAssumption
    <3>2. PICK top \in Nat : top = Len(Chunks)
      BY <3>1
    <3>3. n \in 0..top /\ n # top
      BY <1>2, <3>2
    <3>4. n + 1 \in 1..top
      BY <3>3
    <3>. QED  BY <3>1, <3>2, <3>4
  <2>3. /\ FirstDay(n + 1) \in Nat \ {0} /\ LastDay(n + 1) \in Nat
        /\ FirstDay(n + 1) <= LastDay(n + 1)
    BY <2>2, ChunkDays
  <2>4. FirstDay(n + 1) \in FirstDay(n + 1)..(LastDay(n + 1) + 1)
    BY <2>3
  <2>5. n \in Nat /\ m \in 0..((n + 1) - 1)
    OBVIOUS
  <2>6. InChunk(n + 1)'
    BY <2>1, <2>2, <2>4, <2>5 DEF InChunk, Reach, FirstDay, LastDay
  <2>7. Sofar(n)' = Nothing
    <3>1. Pass(archive, FirstDay(n + 1), FirstDay(n + 1) - 1) = Nothing
      <4> DEFINE first == FirstDay(n + 1)
      <4>1. first \in Nat \ {0} /\ first - 1 <= first /\ first \in Nat
        BY <2>3
      <4> HIDE DEF first
      <4>2. Pass(archive, first, first - 1) = Nothing
        BY <4>1, PassUnfolds
      <4>. QED  BY <4>2 DEF first
    <3>2. Sofar(n)' = Pass(archive', FirstDay(n + 1), job'.day - 1)
      BY DEF Sofar, FirstDay
    <3>. QED  BY <2>1, <3>1, <3>2
  <2>8. job'.memory = Nothing.memory
    BY <2>1 DEF Nothing
  <2>9. Holds(Stored', Nothing)
    <3>1. \A t \in Kinds : DOMAIN Nothing[t] = {}
      BY DEF Nothing, Kinds
    <3>. QED  BY <3>1 DEF Holds
  <2>. QED  BY <2>6, <2>7, <2>8, <2>9
<1>. QED  BY <1>1, <1>2

\* The day that is worked on, and the pass up to yesterday.
LEMMA AtWork ==
  ASSUME NEW n \in 0..Len(Chunks), AtChunk(n), Working
  PROVE  /\ InChunk(n + 1) /\ n + 1 \in DOMAIN Chunks
         /\ job.day \in FirstDay(n + 1)..LastDay(n + 1)
<1>1. job # Idle /\ job.day <= LastDay(job.chunk)
  BY DEF Working, Busy
<1>2. InChunk(n + 1)
  BY <1>1 DEF AtChunk
<1>3. /\ n + 1 \in DOMAIN Chunks /\ job.chunk = n + 1
      /\ job.day \in FirstDay(n + 1)..(LastDay(n + 1) + 1)
  <2>1. job = [chunk |-> n + 1, day |-> job.day, memory |-> job.memory, from |-> job.from]
    BY <1>2 DEF InChunk
  <2>. QED  BY <1>2, <2>1 DEF InChunk
<1>4. FirstDay(n + 1) \in Nat /\ LastDay(n + 1) \in Nat
  BY <1>3, ChunkDays
<1>. QED  BY <1>1, <1>2, <1>3, <1>4

LEMMA DayPasses ==
  ASSUME NEW n \in 0..Len(Chunks), AtChunk(n), Working, NEW memory,
         job' = [job EXCEPT !.day = @ + 1, !.memory = memory],
         UNCHANGED <<archive, checkpoint>>
  PROVE  /\ AtChunk(n)'
         /\ job'.memory = memory
         /\ Sofar(n)' = Extend(Sofar(n), archive[job.day], job.day)
<1>1. /\ InChunk(n + 1) /\ n + 1 \in DOMAIN Chunks
      /\ job.day \in FirstDay(n + 1)..LastDay(n + 1)
  BY AtWork
<1>2. FirstDay(n + 1) \in Nat \ {0} /\ LastDay(n + 1) \in Nat /\ job.day \in Nat /\ job.day - 1 \in Nat
  BY <1>1, ChunkDays
<1>3. job' = [chunk |-> n + 1, day |-> job.day + 1, memory |-> memory, from |-> job.from]
  <2>1. PICK day, old, from : job = [chunk |-> n + 1, day |-> day, memory |-> old, from |-> from]
    BY <1>1 DEF InChunk
  <2>2. job' = [chunk |-> n + 1, day |-> day + 1, memory |-> memory, from |-> from]
    BY <2>1
  <2>. QED  BY <2>1, <2>2
<1>4. AtChunk(n)'
  <2>1. job.day + 1 \in FirstDay(n + 1)..(LastDay(n + 1) + 1)
    BY <1>1, <1>2
  <2>2. \E m \in 0..((n + 1) - 1) : job.from = Reach(m)
    BY <1>1 DEF InChunk
  <2>3. InChunk(n + 1)'
    BY <1>1, <1>3, <2>1, <2>2 DEF InChunk, Reach, FirstDay, LastDay
  <2>4. checkpoint'.last = Reach(n)
    BY DEF AtChunk
  <2>. QED  BY <2>3, <2>4 DEF AtChunk, Reach, LastDay
<1>5. Sofar(n)' = Pass(archive, FirstDay(n + 1), job.day)
  <2>1. Sofar(n)' = Pass(archive', FirstDay(n + 1), job'.day - 1)
    BY DEF Sofar, FirstDay
  <2>2. job'.day - 1 = job.day
    BY <1>2, <1>3
  <2>. QED  BY <2>1, <2>2
<1>6. Pass(archive, FirstDay(n + 1), job.day) = Extend(Sofar(n), archive[job.day], job.day)
  <2> DEFINE first == FirstDay(n + 1)
             d == job.day - 1
  <2>1. first \in Nat \ {0} /\ d \in Nat /\ first - 1 <= d /\ d + 1 = job.day
    BY <1>1, <1>2
  <2> HIDE DEF first, d
  <2>2. Pass(archive, first, d + 1) = Extend(Pass(archive, first, d), archive[d + 1], d + 1)
    BY <2>1, PassUnfolds
  <2>. QED  BY <2>1, <2>2 DEF Sofar, first, d
<1>. QED  BY <1>3, <1>4, <1>5, <1>6

\* A holiday adds nothing but to the memory.
LEMMA HolidayPasses ==
  ASSUME NEW n \in 0..Len(Chunks), AtChunk(n), Working, archive[job.day] = {}
  PROVE  LET after == Extend(Sofar(n), archive[job.day], job.day)
         IN  /\ after.memory = Holiday(Sofar(n).memory)
             /\ \A t \in Kinds : after[t] = Sofar(n)[t]
<1>1. n + 1 \in DOMAIN Chunks /\ job.day \in FirstDay(n + 1)..LastDay(n + 1)
  BY AtWork
<1> DEFINE first == FirstDay(n + 1)
           k == (job.day - 1) - (first - 1)
<1>2. /\ first \in Nat \ {0} /\ first - 1 \in Nat /\ k \in Nat /\ first - 1 + k = job.day - 1
      /\ first - 1 <= first - 1
  BY <1>1, ChunkDays
<1>3. DOMAIN Sofar(n) = Kinds \cup {"memory"}
  <2> HIDE DEF first, k
  <2>1. "bars" \in Kinds
    BY DEF Kinds
  <2>2. Keeps(Pass(archive, first, first - 1), Pass(archive, first, first - 1 + k), "bars", first, first - 1 + k)
    BY <1>2, <2>1, PassKeeps
  <2>. QED  BY <1>2, <2>2 DEF Keeps, Sofar, first
<1>4. Extend(Sofar(n), archive[job.day], job.day)
        = [Sofar(n) EXCEPT !.memory = Holiday(Sofar(n).memory)]
  BY DEF Extend
<1>5. \A t \in Kinds : t # "memory"
  BY DEF Kinds
<1>. QED  BY <1>3, <1>4, <1>5

\* The invariant for one n.
Stands(n) == AtChunk(n) /\ (skips = 0 => Kept(n))

\* Steps that leave the tables, the checkpoint and the archive alone.
LEMMA StillKept ==
  ASSUME NEW n \in 0..Len(Chunks), Kept(n), UNCHANGED <<archive, bars, inferred, gaps, checkpoint>>,
         job' # Idle => job'.memory = Sofar(n)'.memory /\ Holds(Stored', Sofar(n)')
  PROVE  Kept(n)'
<1>1. Stored' = Stored
  BY DEF Stored
<1>2. Faithful(archive, Stored)'
  BY <1>1 DEF Kept, Faithful, ChunkPass, FirstDay, LastDay
<1>3. (\A k \in 1..n : Holds(Stored, ChunkPass(archive, k)))'
  BY <1>1 DEF Kept, ChunkPass, FirstDay, LastDay
<1>4. (checkpoint.totals = Totals(Undisturbed[archive], n))'
  BY DEF Kept
<1>. QED  BY <1>2, <1>3, <1>4 DEF Kept

LEMMA StartStands ==
  ASSUME NEW n \in 0..Len(Chunks), Stands(n), Start
  PROVE  Stands(n)'
<1>1. job' = OpenChunk(0, Reach(n)) /\ UNCHANGED <<archive, bars, inferred, gaps, checkpoint, skips>>
  BY DEF Start, Stands, AtChunk
<1>2. 0 \in 0..n /\ n \in 0..n
  OBVIOUS
<1>3. /\ job' = Idle \/ InChunk(n + 1)'
      /\ job' # Idle => job'.memory = Sofar(n)'.memory /\ Holds(Stored', Sofar(n)')
  BY <1>1, <1>2, OpenedChunk
<1>4. AtChunk(n)'
  BY <1>1, <1>3 DEF Stands, AtChunk, Reach, LastDay
<1>5. skips = 0 => Kept(n)'
  BY <1>1, <1>3, StillKept DEF Stands
<1>. QED  BY <1>1, <1>4, <1>5 DEF Stands

\* A run that dies, of whatever.
LEMMA DeathStands ==
  ASSUME NEW n \in 0..Len(Chunks), Stands(n), job' = Idle,
         UNCHANGED <<archive, bars, inferred, gaps, checkpoint, skips>>
  PROVE  Stands(n)'
<1>1. AtChunk(n)'
  BY DEF Stands, AtChunk, Reach, LastDay
<1>2. skips = 0 => Kept(n)'
  BY StillKept DEF Stands
<1>. QED  BY <1>1, <1>2 DEF Stands

LEMMA PersistDayStands ==
  ASSUME NEW n \in 0..Len(Chunks), Stands(n), PersistDay
  PROVE  Stands(n)'
<1> DEFINE day == Session(job.memory, archive[job.day], job.day)
           after == Extend(Sofar(n), archive[job.day], job.day)
<1>1. /\ Working /\ archive[job.day] # {}
      /\ bars' = Over(day.bars, bars)
      /\ inferred' = Over(inferred, day.inferred)
      /\ gaps' = Over(gaps, day.gaps)
      /\ job' = [job EXCEPT !.day = job.day + 1, !.memory = day.memory]
      /\ UNCHANGED <<archive, checkpoint, skips>>
  BY DEF PersistDay
<1>2. AtChunk(n)' /\ job'.memory = day.memory /\ Sofar(n)' = after
  <2> HIDE DEF day
  <2>. QED  BY <1>1, DayPasses DEF Stands
<1>3. ASSUME skips = 0 PROVE Kept(n)'
  <2>1. /\ n + 1 \in DOMAIN Chunks /\ job.day \in FirstDay(n + 1)..LastDay(n + 1)
        /\ job # Idle
    BY <1>1, AtWork DEF Stands, Working, Busy
  <2>2. Kept(n) /\ job.memory = Sofar(n).memory /\ Holds(Stored, Sofar(n))
    BY <1>3, <2>1 DEF Stands, Kept
  <2>3. after.memory = day.memory
    BY <1>1, <2>2 DEF Extend
  <2> DEFINE S == Session(Pass(archive, FirstDay(n + 1), job.day - 1).memory, archive[job.day], job.day)
  <2>4. day = S
    BY <2>2 DEF Sofar
  <2>5. \A t \in Kinds : Stored'[t] = Over(S[t], Stored[t]) \/ Stored'[t] = Over(Stored[t], S[t])
    <3> HIDE DEF day, S
    <3>1. ASSUME NEW t \in Kinds
          PROVE  Stored'[t] = Over(day[t], Stored[t]) \/ Stored'[t] = Over(Stored[t], day[t])
      <4>1. CASE t = "bars"
        BY <1>1, <4>1 DEF Stored
      <4>2. CASE t = "inferred"
        BY <1>1, <4>2 DEF Stored
      <4>3. CASE t = "gaps"
        BY <1>1, <4>3 DEF Stored
      <4>. QED  BY <3>1, <4>1, <4>2, <4>3 DEF Kinds
    <3>. QED  BY <2>4, <3>1
  <2>6. /\ Faithful(archive, Stored')
        /\ Holds(Stored', Pass(archive, FirstDay(n + 1), job.day))
        /\ \A t \in Kinds : DOMAIN Stored[t] \subseteq DOMAIN Stored'[t]
    <3>1. PICK old, new : old = Stored /\ new = Stored'
      OBVIOUS
    <3>2. Faithful(archive, old) /\ Holds(old, Pass(archive, FirstDay(n + 1), job.day - 1))
      BY <2>2, <3>1 DEF Kept, Sofar
    <3>3. \A t \in Kinds : new[t] = Over(S[t], old[t]) \/ new[t] = Over(old[t], S[t])
      BY <2>5, <3>1
    <3>4. /\ Faithful(archive, new)
          /\ Holds(new, Pass(archive, FirstDay(n + 1), job.day))
          /\ \A t \in Kinds : DOMAIN old[t] \subseteq DOMAIN new[t]
      BY <1>1, <2>1, <3>2, <3>3, DayIsKept
    <3>. QED  BY <3>1, <3>4
  <2>7. Holds(Stored', Sofar(n)')
    <3>1. n + 1 \in DOMAIN Chunks /\ job.day \in Nat /\ FirstDay(n + 1) \in Nat
      BY <2>1, ChunkDays
    <3>2. job'.day = job.day + 1
      BY <1>1, <2>1, AtWork DEF Stands, InChunk
    <3>3. job'.day - 1 = job.day
      BY <3>1, <3>2
    <3>4. Sofar(n)' = Pass(archive', FirstDay(n + 1), job'.day - 1)
      BY DEF Sofar, FirstDay
    <3>. QED  BY <1>1, <2>6, <3>3, <3>4
  <2>8. Faithful(archive, Stored)'
    <3>1. Faithful(archive, Stored)' <=> Faithful(archive, Stored')
      BY <1>1 DEF Faithful, ChunkPass, FirstDay, LastDay
    <3>. QED  BY <2>6, <3>1
  <2>9. (\A k \in 1..n : Holds(Stored, ChunkPass(archive, k)))'
    <3> SUFFICES ASSUME NEW k \in 1..n PROVE Holds(Stored', ChunkPass(archive, k))
      BY <1>1 DEF ChunkPass, FirstDay, LastDay
    <3>1. Holds(Stored, ChunkPass(archive, k))
      BY <2>2 DEF Kept
    <3>. QED  BY <2>6, <3>1 DEF Holds
  <2>10. (checkpoint.totals = Totals(Undisturbed[archive], n))'
    BY <1>1, <2>2 DEF Kept
  <2>11. (job # Idle => job.memory = Sofar(n).memory /\ Holds(Stored, Sofar(n)))'
    <3> HIDE DEF day, after
    <3>. QED  BY <1>2, <2>3, <2>7
  <2>. QED  BY <2>8, <2>9, <2>10, <2>11 DEF Kept
<1>. QED  BY <1>1, <1>2, <1>3 DEF Stands

LEMMA PassHolidayStands ==
  ASSUME NEW n \in 0..Len(Chunks), Stands(n), PassHoliday
  PROVE  Stands(n)'
<1> DEFINE after == Extend(Sofar(n), archive[job.day], job.day)
<1>1. /\ Working /\ archive[job.day] = {}
      /\ job' = [job EXCEPT !.day = job.day + 1, !.memory = Holiday(job.memory)]
      /\ UNCHANGED <<archive, bars, inferred, gaps, checkpoint, skips>>
  BY DEF PassHoliday
<1>2. AtChunk(n)' /\ job'.memory = Holiday(job.memory) /\ Sofar(n)' = after
  BY <1>1, DayPasses DEF Stands
<1>3. ASSUME skips = 0 PROVE Kept(n)'
  <2>1. Kept(n) /\ job.memory = Sofar(n).memory /\ Holds(Stored, Sofar(n))
    BY <1>1, <1>3 DEF Stands, Kept, Working, Busy
  <2>2. after.memory = Holiday(Sofar(n).memory) /\ \A t \in Kinds : after[t] = Sofar(n)[t]
    BY <1>1, HolidayPasses DEF Stands
  <2> HIDE DEF after
  <2>3. Holds(Stored', Sofar(n)')
    <3>1. Holds(Stored, after)
      BY <2>1, <2>2 DEF Holds
    <3>2. Stored' = Stored
      BY <1>1 DEF Stored
    <3>. QED  BY <1>2, <3>1, <3>2
  <2>4. job'.memory = Sofar(n)'.memory
    BY <1>2, <2>1, <2>2
  <2>. QED  BY <1>1, <2>1, <2>3, <2>4, StillKept
<1>. QED  BY <1>1, <1>2, <1>3 DEF Stands

LEMMA SkipSessionStands ==
  ASSUME NEW n \in 0..Len(Chunks), Stands(n), skips \in Nat, SkipSession
  PROVE  Stands(n)' /\ skips' \in Nat
<1>1. /\ Working /\ skips' = skips + 1
      /\ job' = [job EXCEPT !.day = job.day + 1, !.memory = Holiday(job.memory)]
      /\ UNCHANGED <<archive, bars, inferred, gaps, checkpoint>>
  BY DEF SkipSession
<1>2. AtChunk(n)'
  BY <1>1, DayPasses DEF Stands
<1>3. skips' # 0 /\ skips' \in Nat
  BY <1>1
<1>. QED  BY <1>2, <1>3 DEF Stands

LEMMA SaveCheckpointStands ==
  ASSUME NEW n \in 0..Len(Chunks), Stands(n), archive \in Archives, SaveCheckpoint
  PROVE  n + 1 \in 0..Len(Chunks) /\ Stands(n + 1)'
<1>1. /\ job # Idle /\ job.day > LastDay(job.chunk)
      /\ checkpoint' = [last |-> LastDay(job.chunk),
                        totals |-> Plus(checkpoint.totals, job.memory.counts)]
      /\ job' = OpenChunk(job.chunk, job.from)
      /\ UNCHANGED <<archive, bars, inferred, gaps, skips>>
  BY DEF SaveCheckpoint, Busy
<1>2. InChunk(n + 1)
  BY <1>1 DEF Stands, AtChunk
<1>3. PICK m \in 0..((n + 1) - 1) : job.from = Reach(m)
  BY <1>2 DEF InChunk
<1>4. /\ n + 1 \in DOMAIN Chunks /\ job.chunk = n + 1
      /\ job.day \in FirstDay(n + 1)..(LastDay(n + 1) + 1)
  <2>1. job = [chunk |-> n + 1, day |-> job.day, memory |-> job.memory, from |-> job.from]
    BY <1>2 DEF InChunk
  <2>. QED  BY <1>2, <2>1 DEF InChunk
<1>5. n + 1 \in 0..Len(Chunks) /\ n + 1 \in 0..(n + 1) /\ m \in 0..(n + 1) /\ n \in Nat
  <2>1. Len(Chunks) \in Nat /\ DOMAIN Chunks = 1..Len(Chunks)
    BY ChunksAssumption
  <2>2. n \in Nat
    OBVIOUS
  <2>. QED  BY <1>4, <2>1, <2>2
<1>6. FirstDay(n + 1) \in Nat \ {0} /\ LastDay(n + 1) \in Nat
  BY <1>4, ChunkDays
<1>7. job.day - 1 = LastDay(n + 1)
  BY <1>1, <1>4, <1>6
<1>8. /\ job' = Idle \/ InChunk(n + 2)'
      /\ job' # Idle => job'.memory = Sofar(n + 1)'.memory /\ Holds(Stored', Sofar(n + 1)')
  <2>1. job' = OpenChunk(n + 1, Reach(m)) /\ archive' = archive
    BY <1>1, <1>3, <1>4
  <2>2. PICK k \in 0..Len(Chunks) : k = n + 1 /\ k + 1 = n + 2
    BY <1>5
  <2>3. /\ job' = Idle \/ InChunk(k + 1)'
        /\ job' # Idle => job'.memory = Sofar(k)'.memory /\ Holds(Stored', Sofar(k)')
    <3>1. job' = OpenChunk(k, Reach(m)) /\ k \in 0..k /\ m \in 0..k
      BY <1>5, <2>1, <2>2
    <3>. QED  BY <2>1, <3>1, OpenedChunk
  <2>. QED  BY <2>2, <2>3
<1>9. checkpoint'.last = Reach(n + 1)
  BY <1>1, <1>4, <1>5 DEF Reach
<1>10. AtChunk(n + 1)'
  <2>1. (n + 1) + 1 = n + 2
    BY <1>5
  <2>. QED  BY <1>8, <1>9, <2>1 DEF AtChunk, Reach, LastDay
<1>11. ASSUME skips = 0 PROVE Kept(n + 1)'
  <2>1. Kept(n) /\ job.memory = Sofar(n).memory /\ Holds(Stored, Sofar(n))
    BY <1>1, <1>11 DEF Stands, Kept
  <2>2. Sofar(n) = ChunkPass(archive, n + 1)
    BY <1>7 DEF Sofar, ChunkPass
  <2>3. Stored' = Stored
    BY <1>1 DEF Stored
  <2>4. Faithful(archive, Stored)'
    BY <1>1, <2>1, <2>3 DEF Kept, Faithful, ChunkPass, FirstDay, LastDay
  <2>5. (\A k \in 1..(n + 1) : Holds(Stored, ChunkPass(archive, k)))'
    <3> SUFFICES ASSUME NEW k \in 1..(n + 1) PROVE Holds(Stored, ChunkPass(archive, k))
      BY <1>1, <2>3 DEF ChunkPass, FirstDay, LastDay
    <3>1. CASE k = n + 1
      BY <2>1, <2>2, <3>1
    <3>2. CASE k # n + 1
      <4>1. k \in 1..n
        BY <1>5, <3>2
      <4>. QED  BY <2>1, <4>1 DEF Kept
    <3>. QED  BY <3>1, <3>2
  <2>6. (checkpoint.totals = Totals(Undisturbed[archive], n + 1))'
    <3> DEFINE pass == Undisturbed[archive]
    <3>1. Totals(pass, n + 1) = Plus(Totals(pass, n), pass[n + 1].memory.counts)
      <4> HIDE DEF pass
      <4>. QED  BY <1>5, TotalsUnfold
    <3>2. pass[n + 1] = ChunkPass(archive, n + 1)
      BY <1>4 DEF Undisturbed, ChunkPass
    <3>3. checkpoint'.totals = Plus(checkpoint.totals, job.memory.counts)
      BY <1>1
    <3>4. checkpoint.totals = Totals(pass, n)
      BY <2>1 DEF Kept
    <3>5. checkpoint'.totals = Totals(pass, n + 1)
      <4> HIDE DEF pass
      <4>. QED  BY <2>1, <2>2, <3>1, <3>2, <3>3, <3>4
    <3>. QED  BY <1>1, <3>5
  <2>. QED  BY <1>8, <2>4, <2>5, <2>6 DEF Kept
<1>. QED  BY <1>1, <1>5, <1>10, <1>11 DEF Stands

LEMMA BackfillInvariant == Spec => []BackfillInv
<1>1. Init => BackfillInv
  <2> SUFFICES ASSUME Init PROVE BackfillInv
    OBVIOUS
  <2>1. /\ archive \in Archives /\ skips = 0 /\ job = Idle
        /\ bars = <<>> /\ inferred = <<>> /\ gaps = <<>>
        /\ checkpoint = [last |-> 0, totals |-> NoCounts]
    BY DEF Init, BackfillInit
  <2>2. 0 \in 0..Len(Chunks)
    BY ChunksAssumption
  <2>3. AtChunk(0)
    BY <2>1 DEF AtChunk, Reach
  <2>4. \A t \in Kinds : DOMAIN Stored[t] = {}
    BY <2>1 DEF Stored, Kinds
  <2>5. Faithful(archive, Stored)
    BY <2>4 DEF Faithful
  <2>6. \A k \in 1..0 : FALSE
    OBVIOUS
  <2>7. checkpoint.totals = Totals(Undisturbed[archive], 0)
    BY <2>1, TotalsUnfold
  <2>8. Kept(0)
    BY <2>1, <2>5, <2>6, <2>7 DEF Kept
  <2>. QED  BY <2>1, <2>2, <2>3, <2>8 DEF BackfillInv
<1>2. BackfillInv /\ [Next]_vars => BackfillInv'
  <2> SUFFICES ASSUME BackfillInv, [Next]_vars PROVE BackfillInv'
    OBVIOUS
  <2>1. PICK n \in 0..Len(Chunks) : Stands(n)
    BY DEF BackfillInv, Stands
  <2>2. archive \in Archives /\ skips \in Nat
    BY DEF BackfillInv
  <2>3. ASSUME NEW k \in 0..Len(Chunks), Stands(k)', UNCHANGED <<archive>>, skips' \in Nat
        PROVE  BackfillInv'
    BY <2>2, <2>3 DEF BackfillInv, Stands
  <2>4. CASE Start
    <3>1. UNCHANGED <<archive, skips>>
      BY <2>4 DEF Start
    <3>. QED  BY <2>1, <2>2, <2>3, <2>4, <3>1, StartStands
  <2>5. CASE PersistDay
    <3>1. UNCHANGED <<archive, skips>>
      BY <2>5 DEF PersistDay
    <3>. QED  BY <2>1, <2>2, <2>3, <2>5, <3>1, PersistDayStands
  <2>6. CASE PassHoliday
    <3>1. UNCHANGED <<archive, skips>>
      BY <2>6 DEF PassHoliday
    <3>. QED  BY <2>1, <2>2, <2>3, <2>6, <3>1, PassHolidayStands
  <2>7. CASE DayFails
    <3>1. job' = Idle /\ UNCHANGED <<archive, bars, inferred, gaps, checkpoint, skips>>
      BY <2>7 DEF DayFails
    <3>. QED  BY <2>1, <2>2, <2>3, <3>1, DeathStands
  <2>8. CASE SaveCheckpoint
    <3>1. UNCHANGED <<archive, skips>>
      BY <2>8 DEF SaveCheckpoint
    <3>2. n + 1 \in 0..Len(Chunks) /\ Stands(n + 1)'
      BY <2>1, <2>2, <2>8, SaveCheckpointStands
    <3>3. PICK k \in 0..Len(Chunks) : k = n + 1
      BY <3>2
    <3>4. Stands(k)'
      BY <3>2, <3>3
    <3>. QED  BY <2>2, <2>3, <3>1, <3>4
  <2>9. CASE SkipSession
    <3>1. UNCHANGED <<archive>>
      BY <2>9 DEF SkipSession
    <3>. QED  BY <2>1, <2>2, <2>3, <2>9, <3>1, SkipSessionStands
  <2>10. CASE Crash
    <3>1. job' = Idle /\ UNCHANGED <<archive, bars, inferred, gaps, checkpoint, skips>>
      BY <2>10 DEF Crash
    <3>. QED  BY <2>1, <2>2, <2>3, <3>1, DeathStands
\* The readers, and a step that changes nothing, leave all of this alone.
  <2>11. CASE ReplayNext \/ UNCHANGED vars
    <3>1. UNCHANGED <<archive, bars, inferred, gaps, checkpoint, job, skips>>
      BY <2>11 DEF ReplayNext, StartReconstruction, ReconstructSecurity, CrashReconstruction,
           StartReplay, ReconstructDate, ScreenDate, ScreenFails, TagRun, BackfillForward,
           CrashReplay, backfillVars, vars
    <3>2. Stored' = Stored
      BY <3>1 DEF Stored
    <3>3. AtChunk(n)'
      BY <2>1, <3>1 DEF Stands, AtChunk, InChunk, Reach, FirstDay, LastDay
    <3>4. Sofar(n)' = Sofar(n)
      BY <3>1 DEF Sofar, FirstDay
    <3>5. skips = 0 => Kept(n)'
      <4> SUFFICES ASSUME skips = 0 PROVE Kept(n)'
        OBVIOUS
      <4>1. Kept(n)
        BY <2>1 DEF Stands
      <4>2. job' # Idle => job'.memory = Sofar(n)'.memory /\ Holds(Stored', Sofar(n)')
        BY <3>1, <3>2, <3>4, <4>1 DEF Kept
      <4>. QED  BY <3>1, <4>1, <4>2, StillKept
    <3>. QED  BY <2>2, <2>3, <3>1, <3>3, <3>5 DEF Stands
  <2>. QED
    BY <2>4, <2>5, <2>6, <2>7, <2>8, <2>9, <2>10, <2>11 DEF Next, BackfillNext, BackfillStep
<1>. QED  BY <1>1, <1>2, PTL DEF Spec

-----------------------------------------------------------------------------
(* What it is for.                                                           *)

\* Two chunks have no day in common.
LEMMA OneChunkADay ==
  ASSUME NEW i \in DOMAIN Chunks, NEW k \in DOMAIN Chunks,
         NEW d, d \in FirstDay(i)..LastDay(i), d \in FirstDay(k)..LastDay(k)
  PROVE  i = k
<1>1. /\ LastDay(i) \in Nat /\ LastDay(k) \in Nat /\ FirstDay(i) \in Nat /\ FirstDay(k) \in Nat
      /\ i \in Nat /\ k \in Nat
  BY ChunkDays
<1>2. ~(i < k)
  <2>1. i < k => LastDay(i) < FirstDay(k)
    BY ChunksAscend
  <2>. QED  BY <1>1, <2>1
<1>3. ~(k < i)
  <2>1. k < i => LastDay(k) < FirstDay(i)
    BY ChunksAscend
  <2>. QED  BY <1>1, <2>1
<1>. QED  BY <1>1, <1>2, <1>3

\* A day of a chunk is completed when the chunk is.
LEMMA CompletedDay ==
  ASSUME NEW n \in 0..Len(Chunks), NEW k \in DOMAIN Chunks, NEW d \in FirstDay(k)..LastDay(k)
  PROVE  d <= Reach(n) <=> k \in 1..n
<1>1. DOMAIN Chunks = 1..Len(Chunks) /\ Len(Chunks) \in Nat
  BY ChunksAssumption
<1>2. FirstDay(k) \in Nat \ {0} /\ LastDay(k) \in Nat /\ k \in Nat \ {0}
  BY ChunkDays
<1>3. CASE n = 0
  BY <1>2, <1>3 DEF Reach
<1>4. CASE n # 0
  <2>1. n \in DOMAIN Chunks /\ n \in Nat /\ Reach(n) = LastDay(n)
    BY <1>1, <1>4 DEF Reach
  <2>2. LastDay(n) \in Nat /\ FirstDay(n) \in Nat /\ FirstDay(n) <= LastDay(n)
    BY <2>1, ChunkDays
  <2>3. CASE k < n
    <3>1. LastDay(k) < FirstDay(n)
      BY <2>1, <2>3, ChunksAscend
    <3>. QED  BY <1>2, <2>1, <2>2, <2>3, <3>1
  <2>4. CASE n < k
    <3>1. LastDay(n) < FirstDay(k)
      BY <2>1, <2>4, ChunksAscend
    <3>. QED  BY <1>2, <2>1, <2>2, <2>4, <3>1
  <2>5. CASE n = k
    BY <1>2, <2>1, <2>2, <2>5
  <2>. QED  BY <1>2, <2>1, <2>3, <2>4, <2>5
<1>. QED  BY <1>3, <1>4

\* Of each table: up to the checkpoint it holds what the passes of the completed
\* chunks hold, and the values are theirs.
LEMMA CompletedTables ==
  ASSUME NEW n \in 0..Len(Chunks), Kept(n), NEW t \in Kinds
  PROVE  /\ {p \in DOMAIN Stored[t] : DayOf(t, p) <= Reach(n)}
              = UNION {DOMAIN ChunkPass(archive, i)[t] : i \in 1..n}
         /\ \A i \in 1..n : \A p \in DOMAIN ChunkPass(archive, i)[t] :
              Stored[t][p] = ChunkPass(archive, i)[t][p]
<1>1. DOMAIN Chunks = 1..Len(Chunks) /\ Len(Chunks) \in Nat /\ 1..n \subseteq DOMAIN Chunks
  BY ChunksAssumption
<1>2. ASSUME NEW p \in DOMAIN Stored[t]
      PROVE  \E k \in DOMAIN Chunks : p \in DOMAIN ChunkPass(archive, k)[t] /\ Stored[t][p] = ChunkPass(archive, k)[t][p]
  BY <1>2 DEF Kept, Faithful
<1>3. ASSUME NEW i \in 1..n, NEW p \in DOMAIN ChunkPass(archive, i)[t]
      PROVE  p \in DOMAIN Stored[t] /\ DayOf(t, p) \in FirstDay(i)..LastDay(i)
  <2>1. i \in DOMAIN Chunks
    BY <1>1
  <2>. QED  BY <2>1, <1>3, ChunkPassDays DEF Kept, Holds
<1>4. ASSUME NEW p \in DOMAIN Stored[t], DayOf(t, p) <= Reach(n)
      PROVE  \E i \in 1..n : p \in DOMAIN ChunkPass(archive, i)[t]
  <2>1. PICK k \in DOMAIN Chunks : p \in DOMAIN ChunkPass(archive, k)[t]
    BY <1>2
  <2>2. DayOf(t, p) \in FirstDay(k)..LastDay(k)
    BY <2>1, ChunkPassDays
  <2>3. k \in 1..n
    BY <1>4, <2>2, CompletedDay
  <2>. QED  BY <2>1, <2>3
<1>5. ASSUME NEW i \in 1..n, NEW p \in DOMAIN ChunkPass(archive, i)[t]
      PROVE  DayOf(t, p) <= Reach(n) /\ Stored[t][p] = ChunkPass(archive, i)[t][p]
  <2>1. i \in DOMAIN Chunks /\ p \in DOMAIN Stored[t] /\ DayOf(t, p) \in FirstDay(i)..LastDay(i)
    BY <1>1, <1>3, <1>5
  <2>2. PICK k \in DOMAIN Chunks : p \in DOMAIN ChunkPass(archive, k)[t] /\ Stored[t][p] = ChunkPass(archive, k)[t][p]
    BY <1>2, <2>1
  <2>3. DayOf(t, p) \in FirstDay(k)..LastDay(k)
    BY <2>2, ChunkPassDays
  <2>4. i = k
    BY <2>1, <2>3, OneChunkADay
  <2>5. DayOf(t, p) <= Reach(n)
    BY <2>1, CompletedDay
  <2>. QED  BY <2>2, <2>4, <2>5
<1>. QED  BY <1>3, <1>4, <1>5

\* However often the script died, and whoever read meanwhile, what it has
\* completed of an archive that answered is what it would have stored, logged
\* and counted undisturbed.
THEOREM BackfillResumes == Spec => []ResumesAsUndisturbed
<1>1. BackfillInv => ResumesAsUndisturbed
  <2> SUFFICES ASSUME BackfillInv, skips = 0 PROVE ResumesAsUndisturbed
    BY DEF ResumesAsUndisturbed
  <2>1. PICK n \in 0..Len(Chunks) : AtChunk(n) /\ Kept(n)
    BY DEF BackfillInv
  <2> DEFINE pass == Undisturbed[archive]
  <2>2. Completed(checkpoint.last) = 1..n /\ checkpoint.last = Reach(n)
    BY <2>1, CompletedUpTo DEF AtChunk
  <2>3. \A i \in 1..n : pass[i] = ChunkPass(archive, i)
    <3>1. 1..n \subseteq DOMAIN Chunks /\ archive \in Archives
      BY ChunksAssumption DEF BackfillInv
    <3>. QED  BY <3>1 DEF Undisturbed, ChunkPass
  <2> HIDE DEF pass
  <2>4. checkpoint.totals = Totals(pass, Cardinality(Completed(checkpoint.last)))
    <3>1. n \in Nat
      OBVIOUS
    <3>2. Cardinality(1..n) = n
      BY <3>1, FS_Interval
    <3>. QED  BY <2>1, <2>2, <3>2 DEF Kept, pass
  <2>5. ASSUME NEW t \in Kinds
        PROVE  /\ {p \in DOMAIN Stored[t] : DayOf(t, p) <= checkpoint.last}
                    = UNION {DOMAIN pass[i][t] : i \in 1..n}
               /\ \A i \in 1..n : \A p \in DOMAIN pass[i][t] : Stored[t][p] = pass[i][t][p]
    <3>1. UNION {DOMAIN pass[i][t] : i \in 1..n} = UNION {DOMAIN ChunkPass(archive, i)[t] : i \in 1..n}
      BY <2>3
    <3>. QED  BY <2>1, <2>2, <2>3, <2>5, <3>1, CompletedTables
  <2>6. /\ {p \in DOMAIN bars : p[2] <= checkpoint.last} = UNION {DOMAIN pass[i].bars : i \in 1..n}
        /\ \A i \in 1..n : \A p \in DOMAIN pass[i].bars : bars[p] = pass[i].bars[p]
    <3>1. "bars" \in Kinds /\ Stored["bars"] = bars /\ \A p : DayOf("bars", p) = p[2]
      BY DEF Kinds, Stored, DayOf
    <3>. QED  BY <2>5, <3>1
  <2>7. /\ {p \in DOMAIN inferred : p[2] <= checkpoint.last} = UNION {DOMAIN pass[i].inferred : i \in 1..n}
        /\ \A i \in 1..n : \A p \in DOMAIN pass[i].inferred : inferred[p] = pass[i].inferred[p]
    <3>1. "inferred" \in Kinds /\ Stored["inferred"] = inferred /\ \A p : DayOf("inferred", p) = p[2]
      BY DEF Kinds, Stored, DayOf
    <3>. QED  BY <2>5, <3>1
  <2>8. /\ {p \in DOMAIN gaps : p[3] <= checkpoint.last} = UNION {DOMAIN pass[i].gaps : i \in 1..n}
        /\ \A i \in 1..n : \A p \in DOMAIN pass[i].gaps : gaps[p] = pass[i].gaps[p]
    <3>1. "gaps" \in Kinds /\ Stored["gaps"] = gaps /\ \A p : DayOf("gaps", p) = p[3]
      BY DEF Kinds, Stored, DayOf
    <3>. QED  BY <2>5, <3>1
  <2>. QED  BY <2>2, <2>4, <2>6, <2>7, <2>8 DEF ResumesAsUndisturbed, pass
<1>. QED  BY <1>1, BackfillInvariant, PTL
-----------------------------------------------------------------------------
(* Reading the archive: the history of one security, day by day.             *)

\* A security's bars are read day by day.
LEMMA HistoryUnfolds ==
  ASSUME NEW table, NEW s, NEW n \in Nat
  PROVE  /\ HistoryTo(table, s, 0) = <<>>
         /\ HistoryTo(table, s, n + 1)
              = IF <<s, n + 1>> \in DOMAIN table
                THEN Append(HistoryTo(table, s, n), table[<<s, n + 1>>])
                ELSE HistoryTo(table, s, n)
<1> DEFINE Step(before, d) == IF <<s, d>> \in DOMAIN table THEN Append(before, table[<<s, d>>]) ELSE before
           Body(g, d) == IF d = 0 THEN <<>>
                         ELSE IF <<s, d>> \in DOMAIN table THEN Append(g[d - 1], table[<<s, d>>])
                         ELSE g[d - 1]
           Is(g, m) == g = [d \in 0..m |-> Body(g, d)]
           It(m) == CHOOSE g : Is(g, m)
           T == {m \in Nat : \E g : Is(g, m)}
<1>0. \A g, d : d # 0 => Body(g, d) = Step(g[d - 1], d)
  OBVIOUS
<1>1. 0 \in T
  <2> DEFINE g == [d \in 0..0 |-> <<>>]
  <2>1. g = [d \in 0..0 |-> Body(g, d)]
    OBVIOUS
  <2>. QED  BY <2>1
<1>a. \A m : HistoryTo(table, s, m) = It(m)[m]
  BY DEF HistoryTo
<1>b. \A g : Body(g, 0) = <<>>
  OBVIOUS
<1> HIDE DEF Step, Body
<1>2. ASSUME NEW m \in Nat, m \in T PROVE m + 1 \in T
  <2>1. PICK g : Is(g, m)
    BY <1>2
  <2> DEFINE h == [d \in 0..(m + 1) |-> IF d = m + 1 THEN Step(g[m], d) ELSE g[d]]
  <2>2. ASSUME NEW d \in 0..(m + 1) PROVE h[d] = Body(h, d)
    <3>1. CASE d = m + 1
      <4>1. h[d - 1] = g[m]
        BY <3>1
      <4>. QED  BY <1>0, <3>1, <4>1
    <3>2. CASE d # m + 1
      <4>1. d \in 0..m /\ h[d] = g[d] /\ g[d] = Body(g, d)
        BY <2>1, <3>2
      <4>2. CASE d = 0
        BY <1>b, <4>1, <4>2
      <4>3. CASE d # 0
        <5>1. d - 1 \in 0..(m + 1) /\ d - 1 # m + 1
          BY <4>1, <4>3
        <5>2. h[d - 1] = g[d - 1]
          BY <5>1
        <5>. QED  BY <1>0, <4>1, <4>3, <5>2
      <4>. QED  BY <4>2, <4>3
    <3>. QED  BY <3>1, <3>2
  <2>3. h = [d \in 0..(m + 1) |-> h[d]]
    OBVIOUS
  <2> HIDE DEF h
  <2>4. Is(h, m + 1)
    BY <2>2, <2>3
  <2>. QED  BY <2>4
<1>3. \A m \in Nat : m \in T
  <2> HIDE DEF T
  <2>. QED  BY <1>1, <1>2, NatSetInduction
<1>4. ASSUME NEW m \in Nat PROVE Is(It(m), m)
  <2>1. \E g : Is(g, m)
    BY <1>3
  <2> HIDE DEF Is
  <2>. QED  BY <2>1
<1>6. ASSUME NEW m \in Nat, NEW d \in 0..m PROVE It(m)[d] = Body(It(m), d)
  <2> HIDE DEF It
  <2>. QED  BY <1>4
<1> HIDE DEF It
<1>7. \A d \in 0..n : It(n)[d] = It(n + 1)[d]
  <2> DEFINE E == {k \in Nat : k <= n => It(n)[k] = It(n + 1)[k]}
  <2>1. 0 \in E
    BY <1>6, <1>b
  <2>2. ASSUME NEW k \in Nat, k \in E PROVE k + 1 \in E
    <3> SUFFICES ASSUME k + 1 <= n PROVE It(n)[k + 1] = It(n + 1)[k + 1]
      OBVIOUS
    <3>1. k + 1 \in 0..n /\ k + 1 \in 0..(n + 1) /\ k + 1 # 0 /\ k + 1 - 1 = k
      OBVIOUS
    <3>2. It(n)[k] = It(n + 1)[k]
      BY <2>2
    <3>3. /\ It(n)[k + 1] = Step(It(n)[k], k + 1)
          /\ It(n + 1)[k + 1] = Step(It(n + 1)[k], k + 1)
      BY <1>0, <1>6, <3>1
    <3>. QED  BY <3>2, <3>3
  <2>3. \A k \in Nat : k \in E
    <3> HIDE DEF E
    <3>. QED  BY <2>1, <2>2, NatSetInduction
  <2>. QED  BY <2>3
<1>8. HistoryTo(table, s, 0) = <<>>
  <2>1. It(0)[0] = Body(It(0), 0)
    BY <1>6
  <2>. QED  BY <1>a, <1>b, <2>1
<1>9. HistoryTo(table, s, n + 1) = Step(HistoryTo(table, s, n), n + 1)
  <2>1. n + 1 \in 0..(n + 1) /\ n + 1 # 0 /\ n + 1 - 1 = n /\ n \in 0..n
    OBVIOUS
  <2>2. It(n + 1)[n + 1] = Step(It(n + 1)[n], n + 1)
    BY <1>0, <1>6, <2>1
  <2>3. It(n)[n] = It(n + 1)[n]
    BY <1>7, <2>1
  <2>. QED  BY <1>a, <2>2, <2>3
<1>. QED  BY <1>8, <1>9 DEF Step

-----------------------------------------------------------------------------
(* The history of a table is such a series, and grows with the table.        *)

\* A table that dates every bar by its key.
DatesItsBars(table) == \A p \in DOMAIN table : table[p].date = p[2]

\* The history up to a day is in order, in the days up to it, and begins the
\* history up to any later one, whose further bars are of later days.
LEMMA HistoryDated ==
  ASSUME NEW table, DatesItsBars(table), NEW s, NEW n \in Nat
  PROVE  /\ Dated(HistoryTo(table, s, n))
         /\ \A i \in 1..Len(HistoryTo(table, s, n)) : HistoryTo(table, s, n)[i].date \in 1..n
<1> DEFINE S == {table[p] : p \in DOMAIN table}
           H(d) == HistoryTo(table, s, d)
           Good(d) == /\ H(d) \in Seq(S)
                      /\ \A i \in 1..Len(H(d)) : H(d)[i].date \in 1..d
                      /\ \A i, j \in 1..Len(H(d)) : i < j => H(d)[i].date < H(d)[j].date
           T == {d \in Nat : Good(d)}
<1>1. 0 \in T
  <2>1. H(0) = <<>>
    BY HistoryUnfolds
  <2>2. H(0) \in Seq(S) /\ Len(H(0)) = 0
    <3>1. <<>> \in Seq(S) /\ Len(<<>>) = 0
      <4> HIDE DEF S
      <4>. QED  BY EmptySeq
    <3>. QED  BY <2>1, <3>1
  <2>3. \A i \in 1..0 : FALSE
    OBVIOUS
  <2> HIDE DEF H, S
  <2>. QED  BY <2>2, <2>3
<1>2. ASSUME NEW d \in Nat, d \in T PROVE d + 1 \in T
  <2>1. Good(d)
    BY <1>2
  <2>2. H(d + 1) = IF <<s, d + 1>> \in DOMAIN table THEN Append(H(d), table[<<s, d + 1>>]) ELSE H(d)
    BY HistoryUnfolds
  <2>3. \A i \in 1..Len(H(d)) : /\ H(d)[i].date \in Nat /\ H(d)[i].date < d + 1
                                /\ H(d)[i].date \in 1..(d + 1)
    BY <2>1
  <2> HIDE DEF H, S
  <2>4. CASE <<s, d + 1>> \notin DOMAIN table
    BY <2>1, <2>2, <2>3, <2>4
  <2>5. CASE <<s, d + 1>> \in DOMAIN table
    <3> DEFINE b == table[<<s, d + 1>>]
    <3>1. b \in S /\ b.date = d + 1
      BY <2>5 DEF S, DatesItsBars
    <3> HIDE DEF b
    <3>2. H(d + 1) = Append(H(d), b)
      BY <2>2, <2>5 DEF b
    <3>3. /\ H(d + 1) \in Seq(S) /\ Len(H(d + 1)) = Len(H(d)) + 1 /\ Len(H(d)) \in Nat
          /\ H(d + 1)[Len(H(d)) + 1] = b
          /\ \A i \in 1..Len(H(d)) : H(d + 1)[i] = H(d)[i]
      <4>1. H(d) \in Seq(S)
        BY <2>1
      <4> HIDE DEF Good
      <4>. QED  BY <3>1, <3>2, <4>1
    <3>4. PICK m \in Nat : m = Len(H(d))
      BY <3>3
    <3>5. \A i \in 1..(m + 1) : i = m + 1 \/ i \in 1..m
      BY <3>4
    <3>6. \A i \in 1..(m + 1) : H(d + 1)[i].date \in 1..(d + 1)
      <4>1. d + 1 \in 1..(d + 1)
        OBVIOUS
      <4>. QED  BY <2>3, <3>1, <3>3, <3>4, <3>5, <4>1
    <3>7. ASSUME NEW i \in 1..(m + 1), NEW j \in 1..(m + 1), i < j
          PROVE  H(d + 1)[i].date < H(d + 1)[j].date
      <4>1. i \in 1..m
        BY <3>7
      <4>2. CASE j = m + 1
        BY <2>3, <3>1, <3>3, <3>4, <4>1, <4>2
      <4>3. CASE j \in 1..m
        BY <2>1, <3>3, <3>4, <3>7, <4>1, <4>3
      <4>. QED  BY <3>5, <4>2, <4>3
    <3>. QED  BY <3>3, <3>4, <3>6, <3>7
  <2>. QED  BY <2>4, <2>5
<1>3. Good(n)
  <2>1. n \in T
    <3> HIDE DEF T
    <3>. QED  BY <1>1, <1>2, NatSetInduction
  <2>. QED  BY <2>1
<1>. QED  BY <1>3 DEF Dated

\* A history grows by the bars of the day after.
LEMMA HistoryGrows ==
  ASSUME NEW table, DatesItsBars(table), NEW s, NEW n \in Nat, NEW k \in Nat
  PROVE  /\ Begins(HistoryTo(table, s, n), HistoryTo(table, s, n + k))
         /\ \A i \in 1..Len(HistoryTo(table, s, n + k)) :
              HistoryTo(table, s, n + k)[i].date <= n => i <= Len(HistoryTo(table, s, n))
<1> DEFINE H(d) == HistoryTo(table, s, d)
           Good(d) == /\ Begins(H(n), H(d))
                      /\ \A i \in 1..Len(H(d)) : H(d)[i].date <= n => i <= Len(H(n))
           T == {m \in Nat : Good(n + m)}
<1>1. \A d \in Nat : Dated(H(d)) /\ Len(H(d)) \in Nat
  <2>1. \A d \in Nat : Dated(H(d))
    BY HistoryDated
  <2>2. ASSUME NEW d \in Nat PROVE Len(H(d)) \in Nat
    <3>1. Dated(H(d))
      BY <2>1
    <3> HIDE DEF H
    <3>. QED  BY <3>1 DEF Dated
  <2>. QED  BY <2>1, <2>2
<1> HIDE DEF H
<1>2. 0 \in T
  BY <1>1 DEF Begins
<1>3. ASSUME NEW m \in Nat, m \in T PROVE m + 1 \in T
  <2> DEFINE d == n + m
  <2>1. d \in Nat /\ d + 1 = n + (m + 1) /\ Good(d) /\ n <= d
    BY <1>3
  <2> HIDE DEF d
  <2>2. H(d + 1) = IF <<s, d + 1>> \in DOMAIN table THEN Append(H(d), table[<<s, d + 1>>]) ELSE H(d)
    BY <2>1, HistoryUnfolds DEF H
  <2>3. CASE <<s, d + 1>> \notin DOMAIN table
    BY <2>1, <2>2, <2>3
  <2>4. CASE <<s, d + 1>> \in DOMAIN table
    <3> DEFINE b == table[<<s, d + 1>>]
    <3>1. b.date = d + 1
      BY <2>4 DEF DatesItsBars
    <3> HIDE DEF b
    <3>2. PICK S : H(d) \in Seq(S)
      BY <1>1, <2>1 DEF Dated
    <3>3. /\ Len(H(d + 1)) = Len(H(d)) + 1 /\ Len(H(d)) \in Nat
          /\ H(d + 1)[Len(H(d)) + 1] = b
          /\ \A i \in 1..Len(H(d)) : H(d + 1)[i] = H(d)[i]
      <4>1. H(d + 1) = Append(H(d), b)
        BY <2>2, <2>4 DEF b
      <4>. QED  BY <3>2, <4>1
    <3>4. PICK a \in Nat : a = Len(H(d))
      BY <3>3
    <3>5. PICK c \in Nat : c = Len(H(n))
      BY <1>1
    <3>6. c <= a /\ \A i \in 1..c : H(n)[i] = H(d)[i]
      BY <2>1, <3>4, <3>5 DEF Begins
    <3>7. c <= a + 1 /\ \A i \in 1..c : i \in 1..a
      BY <3>6
    <3>8. Begins(H(n), H(d + 1))
      BY <3>3, <3>4, <3>5, <3>6, <3>7 DEF Begins
    <3>9. ASSUME NEW i \in 1..(a + 1), H(d + 1)[i].date <= n PROVE i <= c
      <4>1. i # a + 1
        <5>1. d + 1 \in Nat /\ ~(d + 1 <= n)
          BY <2>1
        <5>. QED  BY <3>1, <3>3, <3>4, <3>9, <5>1
      <4>2. i \in 1..a
        BY <4>1
      <4>. QED  BY <2>1, <3>3, <3>4, <3>5, <3>9, <4>2
    <3>. QED  BY <2>1, <3>3, <3>4, <3>5, <3>8, <3>9
  <2>. QED  BY <2>3, <2>4
<1>4. k \in T
  <2> HIDE DEF T
  <2>. QED  BY <1>2, <1>3, NatSetInduction
<1>. QED  BY <1>4 DEF H

\* It depends on the table's bars of these days only.
LEMMA HistoryCongruent ==
  ASSUME NEW f, NEW g, NEW s, NEW n \in Nat,
         \A d \in 1..n : /\ <<s, d>> \in DOMAIN f <=> <<s, d>> \in DOMAIN g
                         /\ <<s, d>> \in DOMAIN f => f[<<s, d>>] = g[<<s, d>>]
  PROVE  HistoryTo(f, s, n) = HistoryTo(g, s, n)
<1> DEFINE T == {d \in Nat : d <= n => HistoryTo(f, s, d) = HistoryTo(g, s, d)}
<1>1. 0 \in T
  <2>1. HistoryTo(f, s, 0) = <<>> /\ HistoryTo(g, s, 0) = <<>>
    BY HistoryUnfolds
  <2>. QED  BY <2>1
<1>2. ASSUME NEW d \in Nat, d \in T PROVE d + 1 \in T
  <2> SUFFICES ASSUME d + 1 <= n PROVE HistoryTo(f, s, d + 1) = HistoryTo(g, s, d + 1)
    OBVIOUS
  <2>1. d + 1 \in 1..n /\ HistoryTo(f, s, d) = HistoryTo(g, s, d)
    BY <1>2
  <2>2. \A t \in {f, g} : HistoryTo(t, s, d + 1) = IF <<s, d + 1>> \in DOMAIN t
                                                  THEN Append(HistoryTo(t, s, d), t[<<s, d + 1>>])
                                                  ELSE HistoryTo(t, s, d)
    BY HistoryUnfolds
  <2>. QED  BY <2>1, <2>2
<1>3. n \in T
  <2> HIDE DEF T
  <2>. QED  BY <1>1, <1>2, NatSetInduction
<1>. QED  BY <1>3

\* And ends with the last of them.
LEMMA HistoryStops ==
  ASSUME NEW table, NEW s, NEW n \in Nat, NEW k \in Nat,
         \A d \in Nat : d > n => <<s, d>> \notin DOMAIN table
  PROVE  HistoryTo(table, s, n + k) = HistoryTo(table, s, n)
<1> DEFINE T == {m \in Nat : HistoryTo(table, s, n + m) = HistoryTo(table, s, n)}
<1>1. 0 \in T
  OBVIOUS
<1>2. ASSUME NEW m \in Nat, m \in T PROVE m + 1 \in T
  <2>1. n + m \in Nat /\ (n + m) + 1 = n + (m + 1) /\ n + m + 1 > n /\ n + m + 1 \in Nat
    OBVIOUS
  <2>2. HistoryTo(table, s, (n + m) + 1) = HistoryTo(table, s, n + m)
    BY <2>1, HistoryUnfolds
  <2>. QED  BY <1>2, <2>1, <2>2
<1>3. k \in T
  <2> HIDE DEF T
  <2>. QED  BY <1>1, <1>2, NatSetInduction
<1>. QED  BY <1>3

-----------------------------------------------------------------------------
(* The bars of the first days: what a pass over them leaves.                 *)

\* What a day adds to the bars, whatever is remembered.
DayBars(rows, d) == Session(Fresh, rows, d).bars

\* The bars of the first days.
Settled(days, n) ==
  [p \in UNION {DOMAIN DayBars(days[d], d) : d \in 1..n} |-> DayBars(days[p[2]], p[2])[p]]

\* The bars of a day do not depend on what is remembered, and are of that day.
LEMMA DayBarsAre ==
  ASSUME NEW rows, NEW d
  PROVE  /\ \A memory : Session(memory, rows, d).bars = DayBars(rows, d)
         /\ \A p \in DOMAIN DayBars(rows, d) : /\ p = <<p[1], d>> /\ p[2] = d
                                               /\ DayBars(rows, d)[p].date = d
         /\ rows = {} => DOMAIN DayBars(rows, d) = {}
<1>1. \A memory : Session(memory, rows, d).bars = DayBars(rows, d)
  BY DEF Session, DayBars
<1>2. PICK ids, entry : /\ DayBars(rows, d) = [p \in ids \X {d} |-> [date |-> d, close |-> entry[p].close, turnover |-> entry[p].turnover, adj |-> None]]
                        /\ ids = {r.id : r \in Known(rows)}
  <2> DEFINE ids == {r.id : r \in Known(rows)}
             entry == [p \in ids \X {d} |-> CHOOSE r \in Known(rows) : r.id = p[1]]
  <2>1. DayBars(rows, d) = [p \in ids \X {d} |->
                              [date |-> d, close |-> (CHOOSE r \in Known(rows) : r.id = p[1]).close,
                               turnover |-> (CHOOSE r \in Known(rows) : r.id = p[1]).turnover, adj |-> None]]
    BY DEF Session, DayBars
  <2>2. \A p \in ids \X {d} : entry[p] = CHOOSE r \in Known(rows) : r.id = p[1]
    OBVIOUS
  <2> HIDE DEF entry
  <2>3. DayBars(rows, d) = [p \in ids \X {d} |-> [date |-> d, close |-> entry[p].close, turnover |-> entry[p].turnover, adj |-> None]]
    BY <2>1, <2>2
  <2>. QED  BY <2>3
<1>3. \A p \in DOMAIN DayBars(rows, d) : p = <<p[1], d>> /\ p[2] = d /\ DayBars(rows, d)[p].date = d
  BY <1>2
<1>4. rows = {} => DOMAIN DayBars(rows, d) = {}
  <2>1. rows = {} => Known(rows) = {}
    BY DEF Known
  <2>. QED  BY <1>2, <2>1
<1>. QED  BY <1>1, <1>3, <1>4

\* Each of the bars of the first days is one of its own day.
LEMMA SettledBars ==
  ASSUME NEW days, NEW n \in Nat
  PROVE  /\ \A p : p \in DOMAIN Settled(days, n) <=> p[2] \in 1..n /\ p \in DOMAIN DayBars(days[p[2]], p[2])
         /\ \A p \in DOMAIN Settled(days, n) : Settled(days, n)[p] = DayBars(days[p[2]], p[2])[p]
         /\ DatesItsBars(Settled(days, n))
<1>1. DOMAIN Settled(days, n) = UNION {DOMAIN DayBars(days[d], d) : d \in 1..n}
  BY DEF Settled
<1>2. \A p \in DOMAIN Settled(days, n) : Settled(days, n)[p] = DayBars(days[p[2]], p[2])[p]
  BY DEF Settled
<1>3. ASSUME NEW p
      PROVE  p \in DOMAIN Settled(days, n) <=> p[2] \in 1..n /\ p \in DOMAIN DayBars(days[p[2]], p[2])
  <2>1. ASSUME NEW d \in 1..n, p \in DOMAIN DayBars(days[d], d) PROVE p[2] = d
    BY <2>1, DayBarsAre
  <2>. QED  BY <1>1, <2>1
<1>4. DatesItsBars(Settled(days, n))
  <2>1. \A p \in DOMAIN Settled(days, n) : DayBars(days[p[2]], p[2])[p].date = p[2]
    BY <1>3, DayBarsAre
  <2>. QED  BY <1>2, <2>1 DEF DatesItsBars
<1>. QED  BY <1>2, <1>3, <1>4

\* One more day.
LEMMA SettledGrows ==
  ASSUME NEW days, NEW n \in Nat
  PROVE  /\ Settled(days, 0) = <<>>
         /\ Settled(days, n + 1) = Over(DayBars(days[n + 1], n + 1), Settled(days, n))
<1> DEFINE new == DayBars(days[n + 1], n + 1)
<1>1. \A k \in Nat : \A p : p \in DOMAIN Settled(days, k) <=> p[2] \in 1..k /\ p \in DOMAIN DayBars(days[p[2]], p[2])
  BY SettledBars
<1>2. \A k \in Nat : \A p \in DOMAIN Settled(days, k) : Settled(days, k)[p] = DayBars(days[p[2]], p[2])[p]
  BY SettledBars
<1>3. \A p \in DOMAIN new : p[2] = n + 1
  BY DayBarsAre
<1>4. Settled(days, 0) = <<>>
  <2>1. DOMAIN Settled(days, 0) = {}
    <3>1. 1..0 = {}
      OBVIOUS
    <3>. QED  BY <3>1 DEF Settled
  <2>. QED  BY <2>1 DEF Settled
<1>5. DOMAIN Settled(days, n + 1) = DOMAIN new \cup DOMAIN Settled(days, n)
  <2>1. ASSUME NEW p PROVE p \in DOMAIN Settled(days, n + 1) <=> p \in DOMAIN new \/ p \in DOMAIN Settled(days, n)
    <3>1. p[2] \in 1..(n + 1) <=> p[2] = n + 1 \/ p[2] \in 1..n
      OBVIOUS
    <3>2. n + 1 \in Nat
      OBVIOUS
    <3>. QED  BY <1>1, <1>3, <3>1, <3>2
  <2>. QED  BY <2>1
<1>6. ASSUME NEW p \in DOMAIN Settled(days, n + 1)
      PROVE  Settled(days, n + 1)[p] = IF p \in DOMAIN new THEN new[p] ELSE Settled(days, n)[p]
  <2>1. Settled(days, n + 1)[p] = DayBars(days[p[2]], p[2])[p]
    BY <1>2, <1>6
  <2>. QED  BY <1>2, <1>3, <1>5, <2>1
<1> HIDE DEF new
<1>7. \A k \in Nat : Settled(days, k) = [p \in DOMAIN Settled(days, k) |-> Settled(days, k)[p]]
  BY DEF Settled
<1>8. Settled(days, n + 1) = Over(new, Settled(days, n))
  <2>1. n + 1 \in Nat
    OBVIOUS
  <2> DEFINE big == Settled(days, n + 1)
  <2>2. big = [p \in DOMAIN big |-> big[p]]
    BY <1>7, <2>1
  <2> HIDE DEF big
  <2>. QED  BY <1>5, <1>6, <2>2 DEF Over, big
<1>. QED  BY <1>4, <1>8 DEF new

\* It is what a pass over these days stores.
LEMMA PassSettles ==
  ASSUME NEW days, NEW n \in Nat
  PROVE  Pass(days, 1, n).bars = Settled(days, n)
<1> DEFINE T == {k \in Nat : Pass(days, 1, k).bars = Settled(days, k)}
<1>1. 0 \in T
  <2>1. Pass(days, 1, 1 - 1) = Nothing
    BY PassUnfolds
  <2>. QED  BY <2>1, SettledGrows DEF Nothing
<1>2. ASSUME NEW k \in Nat, k \in T PROVE k + 1 \in T
  <2> DEFINE before == Pass(days, 1, k)
             after == Pass(days, 1, k + 1)
  <2>1. after = Extend(before, days[k + 1], k + 1)
    BY PassUnfolds
  <2>2. Settled(days, k + 1) = Over(DayBars(days[k + 1], k + 1), Settled(days, k))
    BY SettledGrows
  <2>3. before.bars = Settled(days, k)
    BY <1>2
  <2>4. "bars" \in DOMAIN before
    <3>1. "bars" \in Kinds
      BY DEF Kinds
    <3>2. PICK first \in Nat \ {0}, mid \in Nat : first = 1 /\ mid = 0 /\ first - 1 <= mid /\ mid + k = k
      OBVIOUS
    <3>3. Keeps(Pass(days, first, mid), Pass(days, first, mid + k), "bars", first, mid + k)
      BY <3>1, <3>2, PassKeeps
    <3>. QED  BY <3>1, <3>2, <3>3 DEF Keeps
  <2> HIDE DEF before, after
  <2>5. CASE days[k + 1] = {}
    <3>1. after.bars = before.bars
      BY <2>1, <2>4, <2>5 DEF Extend
    <3>2. Over(DayBars(days[k + 1], k + 1), Settled(days, k)) = Settled(days, k)
      <4>1. DOMAIN DayBars(days[k + 1], k + 1) = {}
        BY <2>5, DayBarsAre
      <4>2. PICK g : g = Settled(days, k) /\ g = [p \in DOMAIN g |-> g[p]]
        BY DEF Settled
      <4>. QED  BY <4>1, <4>2 DEF Over
    <3>. QED  BY <2>2, <2>3, <3>1, <3>2 DEF before, after
  <2>6. CASE days[k + 1] # {}
    <3>1. after.bars = Over(Session(before.memory, days[k + 1], k + 1).bars, before.bars)
      BY <2>1, <2>6 DEF Extend
    <3>2. Session(before.memory, days[k + 1], k + 1).bars = DayBars(days[k + 1], k + 1)
      BY DayBarsAre
    <3>. QED  BY <2>2, <2>3, <3>1, <3>2 DEF before, after
  <2>. QED  BY <2>5, <2>6
<1>3. n \in T
  <2> HIDE DEF T
  <2>. QED  BY <1>1, <1>2, NatSetInduction
<1>. QED  BY <1>3

\* A history read early begins the one read late, whose further bars are of
\* later days.
LEMMA EarlyHistory ==
  ASSUME Len(archive) \in Nat, NEW top \in Nat, NEW all \in Nat, top <= all, all <= Len(archive), NEW s
  PROVE  LET x == History(Settled(archive, top), s)
             y == History(Settled(archive, all), s)
         IN  /\ Dated(x) /\ Dated(y) /\ Begins(x, y)
             /\ \A i \in 1..Len(y) : y[i].date <= top => i <= Len(x)
<1> DEFINE f == Settled(archive, top)
           g == Settled(archive, all)
<1>1. PICK n \in Nat : n = Len(archive) /\ top <= n
  OBVIOUS
<1>2. PICK k \in Nat : top + k = n
  <2>1. n - top \in Nat /\ top + (n - top) = n
    BY <1>1
  <2>. QED  BY <2>1
<1>3. DatesItsBars(f) /\ DatesItsBars(g)
  BY SettledBars
<1>4. \A p : /\ p \in DOMAIN f <=> p[2] \in 1..top /\ p \in DOMAIN DayBars(archive[p[2]], p[2])
             /\ p \in DOMAIN g <=> p[2] \in 1..all /\ p \in DOMAIN DayBars(archive[p[2]], p[2])
  BY SettledBars
<1>5. /\ \A p \in DOMAIN f : f[p] = DayBars(archive[p[2]], p[2])[p]
      /\ \A p \in DOMAIN g : g[p] = DayBars(archive[p[2]], p[2])[p]
  BY SettledBars
<1> HIDE DEF f, g
<1>6. HistoryTo(f, s, top) = HistoryTo(g, s, top)
  <2>1. \A d \in 1..top : d \in 1..all /\ <<s, d>>[2] = d
    OBVIOUS
  <2>2. \A d \in 1..top : /\ <<s, d>> \in DOMAIN f <=> <<s, d>> \in DOMAIN g
                          /\ <<s, d>> \in DOMAIN f => f[<<s, d>>] = g[<<s, d>>]
    BY <1>4, <1>5, <2>1
  <2>. QED  BY <2>2, HistoryCongruent
<1>7. HistoryTo(f, s, top + k) = HistoryTo(f, s, top)
  <2>1. \A d \in Nat : d > top => <<s, d>> \notin DOMAIN f
    <3> SUFFICES ASSUME NEW d \in Nat, d > top PROVE <<s, d>> \notin DOMAIN f
      OBVIOUS
    <3>1. <<s, d>>[2] = d /\ d \notin 1..top
      OBVIOUS
    <3>. QED  BY <1>4, <3>1
  <2>. QED  BY <2>1, HistoryStops
<1>8. /\ Begins(HistoryTo(g, s, top), HistoryTo(g, s, top + k))
      /\ \A i \in 1..Len(HistoryTo(g, s, top + k)) :
           HistoryTo(g, s, top + k)[i].date <= top => i <= Len(HistoryTo(g, s, top))
  BY <1>3, HistoryGrows
<1>9. Dated(HistoryTo(f, s, n)) /\ Dated(HistoryTo(g, s, n))
  BY <1>3, HistoryDated
<1>. QED  BY <1>1, <1>2, <1>6, <1>7, <1>8, <1>9 DEF History, f, g

-----------------------------------------------------------------------------
(* The memberships of a stretch of days.                                     *)

\* The memberships of the days of a series are those of the days of any series
\* it begins.
LEMMA SeriesMemberships ==
  ASSUME NEW x, NEW y, Dated(x), Dated(y), Begins(x, y), NEW start \in Int, NEW end \in Int
  PROVE  LET m == MembershipSeries(x, start, end)
             k == MembershipSeries(y, start, end)
         IN  /\ DOMAIN m \subseteq DOMAIN k /\ DOMAIN k \subseteq Nat
             /\ \A i \in DOMAIN m : m[i] = k[i]
             /\ \A i, j \in DOMAIN k : k[i][1] = k[j][1] => i = j
<1> DEFINE X == Through(Since(x, start - 1), end)
           Y == Through(Since(y, start - 1), end)
           First(i) == Max({1, i - TurnoverWindow + 1})
           Item(z, i) == <<z[i].date,
                           LiquidityReason(z[i].close, "EQ", i - 1,
                             [k \in DOMAIN SubSeq(z, First(i), i) |-> SubSeq(z, First(i), i)[k].turnover])>>
<1>1. Dated(X) /\ Dated(Y) /\ Begins(X, Y)
  <2>1. start - 1 \in Int
    OBVIOUS
  <2>2. /\ Dated(Since(x, start - 1)) /\ Dated(Since(y, start - 1))
        /\ Begins(Since(x, start - 1), Since(y, start - 1))
    BY <2>1, Parts, PartsBegin
  <2>. QED  BY <2>2, Parts, PartsBegin
<1>2. /\ MembershipSeries(x, start, end) = [i \in DOMAIN X |-> Item(X, i)]
      /\ MembershipSeries(y, start, end) = [i \in DOMAIN Y |-> Item(Y, i)]
  BY DEF MembershipSeries
<1>3. /\ DOMAIN X = 1..Len(X) /\ DOMAIN Y = 1..Len(Y) /\ Len(X) \in Nat /\ Len(Y) \in Nat
      /\ Len(X) <= Len(Y) /\ \A i \in 1..Len(X) : X[i] = Y[i]
  BY <1>1 DEF Dated, Begins
<1>4. \A i, j \in 1..Len(Y) : i < j => Y[i].date < Y[j].date
  BY <1>1 DEF Dated
<1>a. \A j \in 1..Len(Y) : Y[j].date \in Nat
  BY <1>1 DEF Dated
<1> HIDE DEF X, Y
<1>5. ASSUME NEW i \in 1..Len(X) PROVE Item(X, i) = Item(Y, i)
  <2>1. First(i) \in Nat /\ First(i) >= 1
    <3>1. {1, i - TurnoverWindow + 1} \in SUBSET Int /\ {1, i - TurnoverWindow + 1} # {} /\ i + 1 \in Int
      BY TurnoverAssumption
    <3>2. \A k \in {1, i - TurnoverWindow + 1} : k <= i + 1
      BY TurnoverAssumption
    <3>3. First(i) \in {1, i - TurnoverWindow + 1} /\ \A k \in {1, i - TurnoverWindow + 1} : k <= First(i)
      BY <3>1, <3>2, BoundedSetHasMax
    <3> HIDE DEF First
    <3>. QED  BY <3>1, <3>3
  <2> HIDE DEF First
  <2>2. \A j \in First(i)..i : j \in 1..Len(X)
    BY <1>3, <2>1
  <2>3. SubSeq(X, First(i), i) = SubSeq(Y, First(i), i)
    <3>1. First(i) \in Int /\ i \in Int /\ \A j \in First(i)..i : X[j] = Y[j]
      BY <1>3, <2>1, <2>2
    <3>. QED  BY <3>1, SubSeqAgree
  <2>. QED  BY <1>3, <2>3
<1>6. \A i, j \in 1..Len(Y) : Y[i].date = Y[j].date => i = j
  <2> SUFFICES ASSUME NEW i \in 1..Len(Y), NEW j \in 1..Len(Y), Y[i].date = Y[j].date PROVE i = j
    OBVIOUS
  <2>1. ~(i < j) /\ ~(j < i)
    BY <1>4, <1>a
  <2>. QED  BY <1>3, <2>1
<1>7. \A z, i : Item(z, i)[1] = z[i].date
  OBVIOUS
<1> HIDE DEF Item
<1>. QED  BY <1>2, <1>3, <1>5, <1>6, <1>7

\* A membership stored early stands.
LEMMA EarlyMemberships ==
  ASSUME Len(archive) \in Nat, NEW top \in Nat, NEW all \in Nat, top <= all, all <= Len(archive), NEW s
  PROVE  LET early == Memberships(Settled(archive, top), s)
             late == Memberships(Settled(archive, all), s)
         IN  \A p \in DOMAIN early : p[1] = s /\ early[p] = late[p]
<1> DEFINE M(table) == MembershipSeries(History(table, s), Window[1], Window[2])
           m == M(Settled(archive, top))
           k == M(Settled(archive, all))
           Of(d) == [p \in {<<s, d[i][1]>> : i \in DOMAIN d} |->
                       d[CHOOSE i \in DOMAIN d : d[i][1] = p[2]][2]]
<1>1. \A table : Memberships(table, s) = Of(M(table))
  BY DEF Memberships
<1>2. /\ DOMAIN m \subseteq DOMAIN k
      /\ \A i \in DOMAIN m : m[i] = k[i]
      /\ \A i, j \in DOMAIN k : k[i][1] = k[j][1] => i = j
  <2>1. Window[1] \in Int /\ Window[2] \in Int
    BY WindowAssumption
  <2>. QED  BY <2>1, EarlyHistory, SeriesMemberships
<1> HIDE DEF M
<1>3. \A p \in DOMAIN Of(m) : p[1] = s /\ Of(m)[p] = Of(k)[p]
  <2> HIDE DEF m, k
  <2> SUFFICES ASSUME NEW p \in DOMAIN Of(m) PROVE p[1] = s /\ Of(m)[p] = Of(k)[p]
    OBVIOUS
  <2>1. PICK i \in DOMAIN m : p = <<s, m[i][1]>>
    OBVIOUS
  <2>2. i \in DOMAIN k /\ m[i] = k[i] /\ p[2] = m[i][1] /\ p[1] = s
    BY <1>2, <2>1
  <2>3. (CHOOSE j \in DOMAIN m : m[j][1] = p[2]) = i
    BY <1>2, <2>2
  <2>4. (CHOOSE j \in DOMAIN k : k[j][1] = p[2]) = i
    BY <1>2, <2>2
  <2>5. Of(m)[p] = m[i][2]
    BY <2>3
  <2>6. p \in DOMAIN Of(k)
    BY <2>1, <2>2
  <2>7. Of(k)[p] = k[i][2]
    BY <2>4, <2>6
  <2>. QED  BY <2>2, <2>5, <2>7
<1>4. /\ Memberships(Settled(archive, top), s) = Of(m)
      /\ Memberships(Settled(archive, all), s) = Of(k)
  <2> HIDE DEF Of
  <2>. QED  BY <1>1
<1> HIDE DEF Of
<1>. QED  BY <1>3, <1>4

-----------------------------------------------------------------------------
(* What was read of a settled day reads the same of all of the archive.      *)

\* Up to a settled day, what is read of it stays.
LEMMA EarlyPast ==
  ASSUME Len(archive) \in Nat, NEW top \in Nat, NEW all \in Nat, top <= all, all <= Len(archive),
         NEW s, NEW day \in 1..top
  PROVE  Through(History(Settled(archive, top), s), day) = Through(History(Settled(archive, all), s), day)
<1> DEFINE x == History(Settled(archive, top), s)
           y == History(Settled(archive, all), s)
<1>1. /\ Dated(x) /\ Dated(y) /\ Begins(x, y)
      /\ \A i \in 1..Len(y) : y[i].date <= top => i <= Len(x)
  BY EarlyHistory
<1> HIDE DEF x, y
<1>2. \A i \in 1..Len(y) : y[i].date \in Nat
  BY <1>1 DEF Dated
<1>3. \A i \in 1..Len(y) : y[i].date <= day => i <= Len(x)
  <2> SUFFICES ASSUME NEW i \in 1..Len(y), y[i].date <= day PROVE i <= Len(x)
    OBVIOUS
  <2>1. y[i].date <= top
    BY <1>2
  <2>. QED  BY <1>1, <2>1
<1>4. Through(x, day) = Through(y, day)
  BY <1>1, <1>3, ThroughStays
<1>. QED  BY <1>4 DEF x, y

\* Who was eligible on a settled day and what was scored of them stand.
LEMMA EarlyScreen ==
  ASSUME Len(archive) \in Nat, NEW top \in Nat, NEW all \in Nat, top <= all, all <= Len(archive),
         NEW day \in 1..top
  PROVE  /\ EligibleOn(Settled(archive, top), day) = EligibleOn(Settled(archive, all), day)
         /\ \A e : ScoredOn(Settled(archive, top), e, day) = ScoredOn(Settled(archive, all), e, day)
<1> DEFINE f == Settled(archive, top)
           g == Settled(archive, all)
<1>1. \A s : Through(History(f, s), day) = Through(History(g, s), day)
  BY EarlyPast
<1>2. \A s : <<s, day>> \in DOMAIN f <=> <<s, day>> \in DOMAIN g
  <2>1. \A p : /\ p \in DOMAIN f <=> p[2] \in 1..top /\ p \in DOMAIN DayBars(archive[p[2]], p[2])
               /\ p \in DOMAIN g <=> p[2] \in 1..all /\ p \in DOMAIN DayBars(archive[p[2]], p[2])
    BY SettledBars
  <2>2. \A s : <<s, day>>[2] = day
    OBVIOUS
  <2>3. day \in 1..all
    OBVIOUS
  <2> HIDE DEF f, g
  <2>. QED  BY <2>1, <2>2, <2>3
<1> HIDE DEF f, g
<1>3. \A s : MembershipOn(History(f, s), day) = MembershipOn(History(g, s), day)
  <2> DEFINE Of(past) ==
               LET n == Len(past)
                   trailing == SubSeq(past, Max({1, n - TurnoverWindow + 1}), n)
               IN  LiquidityReason(LastOf(past).close, "EQ", n - 1,
                                   [i \in DOMAIN trailing |-> trailing[i].turnover])
  <2>1. \A x : MembershipOn(x, day) = Of(Through(x, day))
    BY DEF MembershipOn
  <2> HIDE DEF Of
  <2>. QED  BY <1>1, <2>1
<1>4. EligibleOn(f, day) = EligibleOn(g, day)
  BY <1>2, <1>3 DEF EligibleOn
<1>5. \A e : ScoredOn(f, e, day) = ScoredOn(g, e, day)
  BY <1>1 DEF ScoredOn
<1>. QED  BY <1>4, <1>5 DEF f, g

\* The forward returns of one security's history.
RowOf(x, day, h) ==
  IF Through(x, day) = <<>> THEN None
  ELSE ForwardReturn(AdjustedClose(LastOf(Through(x, day))),
                     [i \in DOMAIN Since(x, day) |-> AdjustedClose(Since(x, day)[i])], h, None, None)

Pending(table, day, scored) ==
  {q \in scored \X Horizons : RowOf(History(table, q[1]), day, q[2]) # None}

RowsFor(table, day, scored) ==
  [p \in Pending(table, day, scored) |-> RowOf(History(table, p[1]), day, p[2])]

\* A backfill that starts from nothing and without a benchmark writes the rows
\* of what is pending.
LEMMA RowsAre ==
  ASSUME NEW table, NEW day, NEW scored \in SUBSET Ids
  PROVE  ForwardRows(table, day, scored) = RowsFor(table, day, scored)
<1> DEFINE bars_ == [s \in Ids |-> History(table, s)]
           none == <<>>
           pending == {q \in scored \X Horizons : RowOf(History(table, q[1]), day, q[2]) # None}
           Before(s) == Through(bars_[s], day)
           After(s) == Since(bars_[s], day)
           Closes(s) == [i \in DOMAIN After(s) |-> AdjustedClose(After(s)[i])]
           Row(s, h) ==
             IF Before(s) = <<>> THEN None
             ELSE ForwardReturn(AdjustedClose(LastOf(Before(s))), Closes(s), h, NearestClose(none, day),
                                IF Len(After(s)) >= h THEN NearestClose(none, After(s)[h].date) ELSE None)
<1>1. ForwardRows(table, day, scored)
        = Over(none, [p \in {q \in scored \X Horizons : q \notin DOMAIN none /\ Row(q[1], q[2]) # None} |->
                        Row(p[1], p[2])])
  BY DEF ForwardRows, Backfill
<1>2. DOMAIN none = {}
  OBVIOUS
<1> HIDE DEF none
<1>3. \A d : NearestClose(none, d) = None
  BY <1>2 DEF NearestClose
<1>4. \A s \in scored : \A h : Row(s, h) = RowOf(History(table, s), day, h)
  <2> SUFFICES ASSUME NEW s \in scored, NEW h PROVE Row(s, h) = RowOf(History(table, s), day, h)
    OBVIOUS
  <2>1. bars_[s] = History(table, s)
    OBVIOUS
  <2> HIDE DEF bars_
  <2>2. /\ NearestClose(none, day) = None
        /\ (IF Len(After(s)) >= h THEN NearestClose(none, After(s)[h].date) ELSE None) = None
    BY <1>3
  <2>. QED  BY <2>1, <2>2 DEF RowOf
<1> HIDE DEF Row
<1>5. {q \in scored \X Horizons : q \notin DOMAIN none /\ Row(q[1], q[2]) # None} = pending
  BY <1>2, <1>4
<1>6. [p \in pending |-> Row(p[1], p[2])] = [p \in pending |-> RowOf(History(table, p[1]), day, p[2])]
  BY <1>4
<1>7. \A f : f = [p \in DOMAIN f |-> f[p]] => Over(none, f) = f
  BY <1>2 DEF Over
<1> DEFINE rows == [p \in pending |-> RowOf(History(table, p[1]), day, p[2])]
<1>8. rows = [p \in DOMAIN rows |-> rows[p]]
  OBVIOUS
<1> HIDE DEF rows
<1>9. Over(none, rows) = rows
  BY <1>7, <1>8
<1> HIDE DEF pending
<1>. QED  BY <1>1, <1>5, <1>6, <1>9 DEF rows, pending, RowsFor, Pending

\* A return measured early is the one measured late.
LEMMA EarlyRow ==
  ASSUME NEW x, NEW y, Dated(x), Dated(y), Begins(x, y), NEW day \in Int, NEW h \in Nat,
         Through(x, day) = Through(y, day), RowOf(x, day, h) # None
  PROVE  RowOf(y, day, h) = RowOf(x, day, h)
<1> DEFINE X == Since(x, day)
           Y == Since(y, day)
           C(z) == [i \in DOMAIN z |-> AdjustedClose(z[i])]
           entry == AdjustedClose(LastOf(Through(x, day)))
<1>1. Dated(X) /\ Dated(Y) /\ Begins(X, Y)
  BY Parts, PartsBegin
<1>2. /\ DOMAIN X = 1..Len(X) /\ DOMAIN Y = 1..Len(Y) /\ Len(X) \in Nat /\ Len(Y) \in Nat
      /\ Len(X) <= Len(Y) /\ \A i \in 1..Len(X) : X[i] = Y[i]
  BY <1>1 DEF Dated, Begins
<1>3. /\ RowOf(x, day, h) = ForwardReturn(entry, C(X), h, None, None)
      /\ RowOf(y, day, h) = ForwardReturn(entry, C(Y), h, None, None)
  BY DEF RowOf
<1> HIDE DEF X, Y, entry
<1>4. /\ Len(C(X)) = Len(X) /\ Len(C(Y)) = Len(Y)
      /\ \A i \in 1..Len(X) : C(X)[i] = C(Y)[i]
  BY <1>2
<1> HIDE DEF C
<1>5. ~(entry <= 0) /\ ~(Len(X) < h)
  BY <1>3, <1>4 DEF ForwardReturn
<1>6. ~(Len(Y) < h) /\ \A j \in 1..h : j \in 1..Len(X)
  BY <1>2, <1>5
<1>7. SubSeq(C(X), 1, h) = SubSeq(C(Y), 1, h)
  <2>1. h \in Int /\ 1 \in Int /\ \A j \in 1..h : C(X)[j] = C(Y)[j]
    BY <1>4, <1>6
  <2>. QED  BY <2>1, SubSeqAgree
<1>8. /\ RowOf(x, day, h) = Measures(entry, SubSeq(C(X), 1, h), None, None)
      /\ RowOf(y, day, h) = Measures(entry, SubSeq(C(Y), 1, h), None, None)
  BY <1>3, <1>4, <1>5, <1>6 DEF ForwardReturn
<1>. QED  BY <1>7, <1>8

\* The forward returns measured early stand.
LEMMA EarlyForward ==
  ASSUME Len(archive) \in Nat, NEW top \in Nat, NEW all \in Nat, top <= all, all <= Len(archive),
         NEW day \in 1..top, NEW scored \in SUBSET Ids
  PROVE  LET early == ForwardRows(Settled(archive, top), day, scored)
             late == ForwardRows(Settled(archive, all), day, scored)
         IN  \A r \in DOMAIN early : early[r] = late[r]
<1> DEFINE f == Settled(archive, top)
           g == Settled(archive, all)
           Rows(t) == RowsFor(t, day, scored)
           Open(t) == Pending(t, day, scored)
<1>1. ForwardRows(f, day, scored) = Rows(f) /\ ForwardRows(g, day, scored) = Rows(g)
  BY RowsAre
<1>2. ASSUME NEW p \in Open(f)
      PROVE  p \in Open(g) /\ RowOf(History(g, p[1]), day, p[2]) = RowOf(History(f, p[1]), day, p[2])
  <2>1. p \in scored \X Horizons /\ p[2] \in Nat /\ RowOf(History(f, p[1]), day, p[2]) # None
    BY <1>2, HorizonsAssumption DEF Pending
  <2>2. /\ Dated(History(f, p[1])) /\ Dated(History(g, p[1])) /\ Begins(History(f, p[1]), History(g, p[1]))
    BY EarlyHistory
  <2>3. Through(History(f, p[1]), day) = Through(History(g, p[1]), day)
    BY EarlyPast
  <2>4. day \in Int
    OBVIOUS
  <2> HIDE DEF f, g
  <2>5. RowOf(History(g, p[1]), day, p[2]) = RowOf(History(f, p[1]), day, p[2])
    BY <2>1, <2>2, <2>3, <2>4, EarlyRow
  <2>. QED  BY <2>1, <2>5 DEF Pending
<1> HIDE DEF f, g
<1>3. \A p \in DOMAIN Rows(f) : Rows(f)[p] = Rows(g)[p]
  <2> SUFFICES ASSUME NEW p \in Open(f) PROVE Rows(f)[p] = Rows(g)[p]
    BY DEF RowsFor
  <2>1. p \in Open(g) /\ RowOf(History(g, p[1]), day, p[2]) = RowOf(History(f, p[1]), day, p[2])
    BY <1>2
  <2>. QED  BY <2>1 DEF RowsFor
<1>. QED  BY <1>1, <1>3 DEF f, g

-----------------------------------------------------------------------------
(* The bars are those of the first days, whatever the backfill went through. *)

\* The last day before one that fails.
LastGood(days) ==
  LET failing == {d \in DOMAIN days : Fails(days[d])}
  IN  IF failing = {} THEN Len(days) ELSE Min(failing) - 1

\* The bars there will be are those of the days before the first that fails.
LEMMA WholeIsSettled ==
  ASSUME NEW days \in Archives
  PROVE  /\ LastGood(days) \in Nat /\ LastGood(days) <= Len(days) /\ Len(days) \in Nat
         /\ Whole[days] = Settled(days, LastGood(days))
         /\ \A top \in Nat : top <= Len(days) /\ (\A d \in 1..top : ~Fails(days[d])) => top <= LastGood(days)
<1> DEFINE failing == {d \in DOMAIN days : Fails(days[d])}
           n == LastGood(days)
<1>1. PICK len \in Nat : len = Len(days) /\ DOMAIN days = 1..len
  BY ArchivesAssumption
<1>2. n = IF failing = {} THEN len ELSE Min(failing) - 1
  BY <1>1 DEF LastGood
<1>3. failing # {} => Min(failing) \in 1..len /\ Fails(days[Min(failing)])
  <2> SUFFICES ASSUME failing # {} PROVE Min(failing) \in 1..len /\ Fails(days[Min(failing)])
    OBVIOUS
  <2>1. failing \in SUBSET Nat
    BY <1>1
  <2>2. Min(failing) \in failing
    <3> HIDE DEF failing
    <3>. QED  BY <2>1, NatSetHasMin
  <2>. QED  BY <1>1, <2>2
<1>4. Whole[days] = Pass(days, 1, n).bars
  <2>1. Whole[days] = Pass(days, 1, IF failing = {} THEN Len(days) ELSE Min(failing) - 1).bars
    BY DEF Whole
  <2>. QED  BY <2>1 DEF LastGood
<1>5. n \in Nat /\ n <= len
  <2> HIDE DEF n, failing
  <2>. QED  BY <1>2, <1>3
<1>6. ASSUME NEW top \in Nat, top <= len, \A d \in 1..top : ~Fails(days[d]) PROVE top <= n
  <2> HIDE DEF n, failing
  <2>1. failing # {} => Min(failing) \notin 1..top
    BY <1>3, <1>6
  <2>. QED  BY <1>2, <1>3, <1>6, <2>1
<1>7. Pass(days, 1, n).bars = Settled(days, n)
  <2> HIDE DEF n
  <2>. QED  BY <1>5, PassSettles
<1>. QED  BY <1>1, <1>4, <1>5, <1>6, <1>7

\* The bars are those of the first days, none of which failed; the script is at
\* the next of them or one it has been at.
SettledTo(top) ==
  /\ top \in Nat /\ top <= Len(archive)
  /\ bars = Settled(archive, top)
  /\ \A d \in 1..top : ~Fails(archive[d])
  /\ checkpoint.last <= top
  /\ job # Idle => job.day <= top + 1

\* A chunk starts on the day after the one before it.
LEMMA ChunksJoin ==
  ASSUME NEW n \in 0..Len(Chunks), n + 1 \in DOMAIN Chunks
  PROVE  FirstDay(n + 1) = Reach(n) + 1
<1>1. CASE n = 0
  <2>1. 1 \in DOMAIN Chunks /\ n + 1 = 1
    BY <1>1
  <2>2. Chunks[1][1] = 1
    BY <2>1, ChunksAssumption
  <2>. QED  BY <1>1, <2>1, <2>2 DEF FirstDay, Reach
<1>2. CASE n # 0
  <2>1. n \in DOMAIN Chunks
    <3>1. DOMAIN Chunks = 1..Len(Chunks) /\ Len(Chunks) \in Nat
      BY ChunksAssumption
    <3>. QED  BY <1>2, <3>1
  <2>. QED  BY <1>2, <2>1, ChunkDays DEF Reach
<1>. QED  BY <1>1, <1>2

\* A day that is stored again changes nothing, the next one adds its own.
LEMMA DaySettles ==
  ASSUME NEW days, NEW top \in Nat, NEW d \in 1..(top + 1)
  PROVE  LET t == IF d = top + 1 THEN top + 1 ELSE top
         IN  Over(DayBars(days[d], d), Settled(days, top)) = Settled(days, t)
<1> DEFINE new == DayBars(days[d], d)
           old == Settled(days, top)
<1>1. CASE d = top + 1
  BY <1>1, SettledGrows
<1>2. CASE d # top + 1
  <2>1. \A p \in DOMAIN new : p[2] = d
    BY DayBarsAre
  <2>2. \A p : p \in DOMAIN old <=> p[2] \in 1..top /\ p \in DOMAIN DayBars(days[p[2]], p[2])
    BY SettledBars
  <2>3. \A p \in DOMAIN old : old[p] = DayBars(days[p[2]], p[2])[p]
    BY SettledBars
  <2>4. d \in 1..top
    BY <1>2
  <2>5. \A p \in DOMAIN new : p \in DOMAIN old /\ old[p] = new[p]
    BY <2>1, <2>2, <2>3, <2>4
  <2>6. old = [p \in DOMAIN old |-> old[p]]
    BY DEF Settled
  <2> HIDE DEF new, old
  <2>7. Over(new, old) = old
    BY <2>5, <2>6 DEF Over
  <2>. QED  BY <1>2, <2>7 DEF new, old
<1>. QED  BY <1>1, <1>2

\* A day without prints does not fail.
LEMMA NothingFails ==
  ~Fails({})
<1>1. Known({}) = {}
  BY DEF Known
<1>. QED  BY <1>1 DEF Fails

\* The day at work is one of the archive, the next to be settled or an earlier.
LEMMA WorkedDay ==
  ASSUME archive \in Archives, NEW n \in 0..Len(Chunks), AtChunk(n), Working, NEW top, SettledTo(top)
  PROVE  /\ job.day \in 1..(top + 1) /\ job.day <= Len(archive) /\ Len(archive) \in Nat
         /\ \A memory : [job EXCEPT !.day = @ + 1, !.memory = memory].day = job.day + 1
<1>1. /\ InChunk(n + 1) /\ n + 1 \in DOMAIN Chunks
      /\ job.day \in FirstDay(n + 1)..LastDay(n + 1) /\ job # Idle
  BY AtWork DEF Working, Busy
<1>2. FirstDay(n + 1) \in Nat \ {0} /\ LastDay(n + 1) \in Nat
  BY <1>1, ChunkDays
<1>3. Len(archive) \in Nat /\ LastDay(n + 1) <= Len(archive)
  BY <1>1, ArchivesAssumption DEF LastDay
<1>4. job.day <= top + 1 /\ top \in Nat
  BY <1>1 DEF SettledTo
<1>5. PICK day, memory, from : job = [chunk |-> n + 1, day |-> day, memory |-> memory, from |-> from]
  BY <1>1 DEF InChunk
<1>6. \A m : [job EXCEPT !.day = @ + 1, !.memory = m].day = job.day + 1
  BY <1>5
<1>. QED  BY <1>1, <1>2, <1>3, <1>4, <1>6

\* A chunk is opened on the day after what the file has, or after the day the
\* script is at.
LEMMA OpensBehind ==
  ASSUME NEW n \in 0..Len(Chunks), NEW i \in 0..n, NEW m \in 0..n, i = n \/ m = n,
         NEW top \in Nat, Reach(n) <= top, OpenChunk(i, Reach(m)) # Idle
  PROVE  OpenChunk(i, Reach(m)).day <= top + 1
<1>1. n # Len(Chunks) /\ OpenChunk(i, Reach(m)) = [chunk |-> n + 1, day |-> FirstDay(n + 1), memory |-> Fresh, from |-> Reach(m)]
  BY OpensTheNext
<1>2. n + 1 \in DOMAIN Chunks
  <2>1. PICK k \in Nat : k = Len(Chunks) /\ DOMAIN Chunks = 1..k
    BY ChunksAssumption
  <2>. QED  BY <1>1, <2>1
<1>3. FirstDay(n + 1) = Reach(n) + 1 /\ Reach(n) \in Nat
  BY <1>2, ChunksJoin, CompletedUpTo
<1>. QED  BY <1>1, <1>3

\* A step of the backfill that skips no session leaves the bars of as many first
\* days, or of one more.
LEMMA BackfillSettles ==
  ASSUME archive \in Archives, NEW n \in 0..Len(Chunks), AtChunk(n), NEW top, SettledTo(top),
         BackfillNext, skips \in Nat, skips' = 0
  PROVE  archive' = archive /\ \E t \in Nat : top <= t /\ SettledTo(t)'
<1>1. /\ top \in Nat /\ top <= Len(archive) /\ bars = Settled(archive, top)
      /\ \A d \in 1..top : ~Fails(archive[d])
      /\ checkpoint.last <= top /\ checkpoint.last = Reach(n) /\ Reach(n) \in Nat
      /\ job # Idle => job.day <= top + 1
  BY CompletedUpTo DEF SettledTo, AtChunk
<1>2. CASE Start
  <2>1. /\ job' = OpenChunk(0, Reach(n)) /\ UNCHANGED <<archive, bars, checkpoint>>
    BY <1>1, <1>2 DEF Start
  <2>2. 0 \in 0..n /\ n \in 0..n
    OBVIOUS
  <2>3. job' # Idle => job'.day <= top + 1
    BY <1>1, <2>1, <2>2, OpensBehind
  <2>. QED  BY <1>1, <2>1, <2>3 DEF SettledTo
<1>3. CASE PersistDay
  <2> DEFINE t == IF job.day = top + 1 THEN top + 1 ELSE top
  <2>1. /\ Working /\ ~Fails(archive[job.day])
        /\ bars' = Over(Session(job.memory, archive[job.day], job.day).bars, bars)
        /\ job' = [job EXCEPT !.day = @ + 1, !.memory = Session(job.memory, archive[job.day], job.day).memory]
        /\ UNCHANGED <<archive, checkpoint>>
    BY <1>3 DEF PersistDay
  <2>2. /\ job.day \in 1..(top + 1) /\ job.day <= Len(archive) /\ Len(archive) \in Nat
        /\ job'.day = job.day + 1
    BY <2>1, WorkedDay
  <2>3. bars' = Settled(archive, t)
    <3>1. Session(job.memory, archive[job.day], job.day).bars = DayBars(archive[job.day], job.day)
      BY DayBarsAre
    <3>. QED  BY <1>1, <2>1, <2>2, <3>1, DaySettles
  <2>4. t \in Nat /\ top <= t /\ t <= Len(archive) /\ job'.day <= t + 1 /\ checkpoint.last <= t
    BY <1>1, <2>2
  <2>5. \A d \in 1..t : ~Fails(archive[d])
    BY <1>1, <2>1, <2>2
  <2> HIDE DEF t
  <2>. QED  BY <2>1, <2>3, <2>4, <2>5 DEF SettledTo
<1>4. CASE PassHoliday
  <2> DEFINE t == IF job.day = top + 1 THEN top + 1 ELSE top
  <2>1. /\ Working /\ archive[job.day] = {}
        /\ job' = [job EXCEPT !.day = @ + 1, !.memory = Holiday(job.memory)]
        /\ UNCHANGED <<archive, bars, checkpoint>>
    BY <1>4 DEF PassHoliday
  <2>2. /\ job.day \in 1..(top + 1) /\ job.day <= Len(archive) /\ Len(archive) \in Nat
        /\ job'.day = job.day + 1
    BY <2>1, WorkedDay
  <2>3. bars' = Settled(archive, t)
    <3> DEFINE new == DayBars(archive[job.day], job.day)
    <3>1. DOMAIN new = {}
      BY <2>1, DayBarsAre
    <3>2. Over(new, bars) = Settled(archive, t)
      BY <1>1, <2>2, DaySettles
    <3>3. bars = [p \in DOMAIN bars |-> bars[p]]
      BY <1>1 DEF Settled
    <3> HIDE DEF new
    <3>4. Over(new, bars) = bars
      BY <3>1, <3>3 DEF Over
    <3>. QED  BY <2>1, <3>2, <3>4
  <2>4. t \in Nat /\ top <= t /\ t <= Len(archive) /\ job'.day <= t + 1 /\ checkpoint.last <= t
    BY <1>1, <2>2
  <2>5. \A d \in 1..t : ~Fails(archive[d])
    <3>1. ~Fails(archive[job.day])
      <4>1. PICK rows : rows = {} /\ archive[job.day] = rows
        BY <2>1
      <4>2. ~Fails(rows)
        BY <4>1, NothingFails
      <4>. QED  BY <4>1, <4>2
    <3>. QED  BY <1>1, <2>2, <3>1
  <2> HIDE DEF t
  <2>. QED  BY <2>1, <2>3, <2>4, <2>5 DEF SettledTo
<1>5. CASE DayFails \/ Crash
  <2>1. job' = Idle /\ UNCHANGED <<archive, bars, checkpoint>>
    BY <1>5 DEF DayFails, Crash
  <2>. QED  BY <1>1, <2>1 DEF SettledTo
<1>6. CASE SaveCheckpoint
  <2>1. /\ job # Idle /\ job.day > LastDay(job.chunk)
        /\ checkpoint' = [last |-> LastDay(job.chunk),
                          totals |-> Plus(checkpoint.totals, job.memory.counts)]
        /\ job' = OpenChunk(job.chunk, job.from)
        /\ UNCHANGED <<archive, bars>>
    BY <1>6 DEF SaveCheckpoint, Busy
  <2>2. InChunk(n + 1)
    BY <2>1 DEF AtChunk
  <2>3. PICK m \in 0..((n + 1) - 1) : job.from = Reach(m)
    BY <2>2 DEF InChunk
  <2>4. /\ n + 1 \in DOMAIN Chunks /\ job.chunk = n + 1
        /\ job.day \in FirstDay(n + 1)..(LastDay(n + 1) + 1)
    <3>1. job = [chunk |-> n + 1, day |-> job.day, memory |-> job.memory, from |-> job.from]
      BY <2>2 DEF InChunk
    <3>. QED  BY <2>2, <3>1 DEF InChunk
  <2>5. PICK k \in 0..Len(Chunks) : k = n + 1 /\ k # 0 /\ k \in 0..k /\ m \in 0..k
    <3>1. PICK len \in Nat : len = Len(Chunks) /\ DOMAIN Chunks = 1..len
      BY ChunksAssumption
    <3>2. n \in Nat
      OBVIOUS
    <3>. QED  BY <2>4, <3>1, <3>2
  <2>6. FirstDay(n + 1) \in Nat \ {0} /\ LastDay(n + 1) \in Nat
    BY <2>4, ChunkDays
  <2>7. Reach(k) = LastDay(n + 1) /\ checkpoint'.last = LastDay(n + 1)
    BY <2>1, <2>4, <2>5 DEF Reach
  <2>8. LastDay(n + 1) <= top
    BY <1>1, <2>1, <2>4, <2>6
  <2>9. job' # Idle => job'.day <= top + 1
    BY <1>1, <2>1, <2>3, <2>4, <2>5, <2>7, <2>8, OpensBehind
  <2>. QED  BY <1>1, <2>1, <2>7, <2>8, <2>9 DEF SettledTo
<1>7. CASE SkipSession
  <2>1. skips' = skips + 1
    BY <1>7 DEF SkipSession
  <2>. QED  BY <2>1
<1>. QED  BY <1>2, <1>3, <1>4, <1>5, <1>6, <1>7 DEF BackfillNext, BackfillStep

-----------------------------------------------------------------------------
(* The invariant of the readers: they are at days that are settled, and what  *)
(* they have written is what all of the archive will say of those days.       *)

Late == Settled(archive, LastGood(archive))

LateEligible(day) == EligibleOn(Late, day)

LateScored(day) == ScoredOn(Late, LateEligible(day), day)

LateForward(day) == ForwardRows(Late, day, LateScored(day))

LateMember(p) == Memberships(Late, p[1])[p]

RunAgrees(run, picks, rows) ==
  /\ run = [status |-> run.status, scored |-> run.scored, tagged |-> run.tagged, forward |-> run.forward]
  /\ run.scored \in SUBSET Ids
  /\ run.status = "COMPLETED" => /\ run.scored = picks
                                 /\ \A r \in DOMAIN run.forward : run.forward[r] = rows[r]

RunHolds(day, run) == RunAgrees(run, LateScored(day), LateForward(day))

ReplayHolds(top, state) ==
  \/ state = Resting
  \/ \E day \in 1..top : \E left \in SUBSET (1..top) :
       \/ state = [phase |-> "reconstruct", day |-> day, left |-> left]
       \/ \E phase \in {"screen", "tag", "forward"} :
            state = [phase |-> phase, day |-> day, left |-> left, eligible |-> LateEligible(day)]

ReadersHold(top) ==
  /\ ReplayHolds(top, replay)
  /\ \A d \in DOMAIN runs : RunHolds(d, runs[d])
  /\ \A p \in DOMAIN universe : universe[p] = LateMember(p)

RaceInv == archive \in Archives /\ (skips = 0 => \E top \in Nat : SettledTo(top) /\ ReadersHold(top))

\* What is read now of a settled day.
LEMMA ReadNow ==
  ASSUME archive \in Archives, NEW top, SettledTo(top)
  PROVE  /\ \A s : LET now == Memberships(bars, s) IN \A p \in DOMAIN now : p[1] = s /\ now[p] = Memberships(Late, s)[p]
         /\ \A day \in 1..top :
              /\ EligibleOn(bars, day) = LateEligible(day)
              /\ \A e : ScoredOn(bars, e, day) = ScoredOn(Late, e, day)
              /\ \A scored \in SUBSET Ids : LET now == ForwardRows(bars, day, scored)
                                            IN  \A r \in DOMAIN now : now[r] = ForwardRows(Late, day, scored)[r]
<1>1. /\ top \in Nat /\ top <= Len(archive) /\ bars = Settled(archive, top)
      /\ \A d \in 1..top : ~Fails(archive[d])
  BY DEF SettledTo
<1>2. /\ LastGood(archive) \in Nat /\ LastGood(archive) <= Len(archive) /\ Len(archive) \in Nat
      /\ top <= LastGood(archive)
  BY <1>1, WholeIsSettled
<1>3. ASSUME NEW s
      PROVE  LET now == Memberships(bars, s) IN \A p \in DOMAIN now : p[1] = s /\ now[p] = Memberships(Late, s)[p]
  BY <1>1, <1>2, EarlyMemberships DEF Late
<1>4. ASSUME NEW day \in 1..top
      PROVE  /\ EligibleOn(bars, day) = LateEligible(day)
             /\ \A e : ScoredOn(bars, e, day) = ScoredOn(Late, e, day)
  BY <1>1, <1>2, EarlyScreen DEF Late, LateEligible
<1>5. ASSUME NEW day \in 1..top, NEW scored \in SUBSET Ids
      PROVE  LET now == ForwardRows(bars, day, scored)
             IN  \A r \in DOMAIN now : now[r] = ForwardRows(Late, day, scored)[r]
  BY <1>1, <1>2, EarlyForward DEF Late
<1>. QED  BY <1>3, <1>4, <1>5

\* The days with bars are settled ones.
LEMMA SettledDays ==
  ASSUME NEW top, SettledTo(top), NEW p \in DOMAIN bars
  PROVE  p[2] \in 1..top
<1>1. top \in Nat /\ bars = Settled(archive, top)
  BY DEF SettledTo
<1>. QED  BY <1>1, SettledBars

\* The dates that are replayed are sessions.
LEMMA RunDatesAreSessions ==
  ASSUME NEW sessions \in SUBSET Nat
  PROVE  WeeklyRunDates(sessions) \subseteq sessions
<1> DEFINE inside == {d \in sessions : InWindow(d)}
           targets == {d \in Window[1]..Window[2] : (d - Window[1]) % Cadence = 0}
<1>1. WeeklyRunDates(sessions)
        = {Max({d \in inside : d <= t}) : t \in {u \in targets : \E d \in inside : d <= u}}
  BY DEF WeeklyRunDates
<1>2. inside \in SUBSET sessions /\ inside \in SUBSET Int /\ targets \in SUBSET Int
  <2>1. Window[1] \in Nat /\ Window[2] \in Nat
    BY WindowAssumption
  <2>2. targets \subseteq Window[1]..Window[2]
    OBVIOUS
  <2>3. inside \in SUBSET sessions
    OBVIOUS
  <2> HIDE DEF targets, inside
  <2>4. Window[1]..Window[2] \subseteq Int
    BY <2>1
  <2>. QED  BY <2>2, <2>3, <2>4
<1> HIDE DEF inside, targets
<1>3. ASSUME NEW t \in targets, \E d \in inside : d <= t
      PROVE  Max({d \in inside : d <= t}) \in sessions
  <2> DEFINE S == {d \in inside : d <= t}
  <2>1. t \in Int
    BY <1>2
  <2>2. S \in SUBSET Int /\ S # {} /\ \A d \in S : d <= t
    BY <1>2, <1>3
  <2>3. \A d \in S : d \in sessions
    BY <1>2
  <2> HIDE DEF S
  <2>4. Max(S) \in S
    BY <2>1, <2>2, BoundedSetHasMax
  <2>. QED  BY <2>3, <2>4 DEF S
<1>. QED  BY <1>1, <1>3

\* The replay starts on a settled day.
LEMMA FirstOfDays ==
  ASSUME NEW top \in Nat, NEW left \in SUBSET (1..top), left # {}
  PROVE  ReplayHolds(top, [phase |-> "reconstruct", day |-> Min(left), left |-> left \ {Min(left)}])
<1>1. left \in SUBSET Nat
  OBVIOUS
<1>2. Min(left) \in left
  BY <1>1, NatSetHasMin
<1>3. Min(left) \in 1..top /\ left \ {Min(left)} \in SUBSET (1..top)
  BY <1>2
<1>. QED  BY <1>3 DEF ReplayHolds

\* The next date is a settled day.
LEMMA NextDateHolds ==
  ASSUME NEW top \in Nat, replay.left \in SUBSET (1..top)
  PROVE  ReplayHolds(top, NextDate)
<1>1. CASE replay.left = {}
  BY <1>1 DEF NextDate, ReplayHolds
<1>2. CASE replay.left # {}
  <2>1. PICK left \in SUBSET (1..top) : left = replay.left
    OBVIOUS
  <2>. QED  BY <1>2, <2>1, FirstOfDays DEF NextDate
<1>. QED  BY <1>1, <1>2

\* While a replay is in a phase, its date and the dates left are settled days.
LEMMA AtPhase ==
  ASSUME NEW top, ReplayHolds(top, replay), NEW phase, In(phase), phase # "idle"
  PROVE  \E day \in 1..top : \E left \in SUBSET (1..top) :
           /\ replay.day = day /\ replay.left = left
           /\ phase # "reconstruct" =>
                /\ phase \in {"screen", "tag", "forward"}
                /\ replay = [phase |-> phase, day |-> day, left |-> left, eligible |-> LateEligible(day)]
<1>1. replay # Resting
  BY DEF In, Resting
<1>2. PICK day \in 1..top, left \in SUBSET (1..top) :
       \/ replay = [phase |-> "reconstruct", day |-> day, left |-> left]
       \/ \E ph \in {"screen", "tag", "forward"} :
            replay = [phase |-> ph, day |-> day, left |-> left, eligible |-> LateEligible(day)]
  BY <1>1 DEF ReplayHolds
<1>3. CASE replay = [phase |-> "reconstruct", day |-> day, left |-> left]
  BY <1>3 DEF In
<1>4. ASSUME NEW ph \in {"screen", "tag", "forward"},
             replay = [phase |-> ph, day |-> day, left |-> left, eligible |-> LateEligible(day)]
      PROVE  replay.day = day /\ replay.left = left /\ ph = phase
  BY <1>4 DEF In
<1>. QED  BY <1>2, <1>3, <1>4

\* What all of the archive says changes only with the archive.
LEMMA SameReadings ==
  ASSUME archive' = archive
  PROVE  /\ Late' = Late
         /\ \A p : LateMember(p)' = LateMember(p)
         /\ \A day : /\ LateEligible(day)' = LateEligible(day)
                     /\ LateScored(day)' = LateScored(day)
                     /\ LateForward(day)' = LateForward(day)
<1>1. Late' = Late
  BY DEF Late
<1>2. \A s : History(Late, s)' = History(Late, s)
  BY <1>1 DEF History
<1>3. ASSUME NEW p PROVE LateMember(p)' = LateMember(p)
  <2> DEFINE Of(x) ==
               LET dated == MembershipSeries(x, Window[1], Window[2])
               IN  [q \in {<<p[1], dated[i][1]>> : i \in DOMAIN dated} |->
                      LET i == CHOOSE k \in DOMAIN dated : dated[k][1] = q[2] IN dated[i][2]]
  <2>1. LateMember(p) = Of(History(Late, p[1]))[p]
    BY DEF LateMember, Memberships
  <2>2. LateMember(p)' = Of(History(Late, p[1])')[p]
    BY DEF LateMember, Memberships
  <2> HIDE DEF Of
  <2>. QED  BY <1>2, <2>1, <2>2
<1>4. ASSUME NEW day PROVE LateEligible(day)' = LateEligible(day)
  BY <1>1, <1>2 DEF LateEligible, EligibleOn
<1>5. ASSUME NEW day PROVE LateScored(day)' = LateScored(day)
  BY <1>1, <1>2, <1>4 DEF LateScored, ScoredOn
<1>6. ASSUME NEW day PROVE LateForward(day)' = LateForward(day)
  <2> DEFINE Of(scored, x) == Backfill(<<>>, [date |-> day, picks |-> scored], x, <<>>)
  <2>1. [s \in Ids |-> History(Late, s)]' = [s \in Ids |-> History(Late, s)]
    BY <1>2
  <2>2. LateForward(day) = Of(LateScored(day), [s \in Ids |-> History(Late, s)])
    BY DEF LateForward, ForwardRows
  <2>3. LateForward(day)' = Of(LateScored(day)', [s \in Ids |-> History(Late, s)]')
    BY DEF LateForward, ForwardRows
  <2> HIDE DEF Of
  <2>. QED  BY <1>5, <2>1, <2>2, <2>3
<1>. QED  BY <1>1, <1>3, <1>4, <1>5, <1>6

\* More days, the same readers.
LEMMA ReadersWait ==
  ASSUME NEW top \in Nat, ReadersHold(top), archive' = archive, UNCHANGED replayVars, NEW t \in Nat, top <= t
  PROVE  ReadersHold(t)'
<1>1. replay' = replay /\ runs' = runs /\ universe' = universe
  BY DEF replayVars
<1>2. \A p \in DOMAIN universe' : universe'[p] = LateMember(p)'
  BY <1>1, SameReadings DEF ReadersHold
<1>3. \A d \in DOMAIN runs' : RunHolds(d, runs[d])'
  <2>1. ASSUME NEW d, RunHolds(d, runs[d]) PROVE RunHolds(d, runs[d])'
    <3>1. LateScored(d)' = LateScored(d) /\ LateForward(d)' = LateForward(d) /\ runs'[d] = runs[d]
      BY <1>1, SameReadings
    <3>. QED  BY <2>1, <3>1 DEF RunHolds
  <2>. QED  BY <1>1, <2>1 DEF ReadersHold
<1>4. ReplayHolds(t, replay)'
  <2>1. 1..top \subseteq 1..t
    OBVIOUS
  <2>. QED  BY <1>1, <2>1, SameReadings DEF ReadersHold, ReplayHolds
<1>. QED  BY <1>2, <1>3, <1>4 DEF ReadersHold

\* A step of the readers leaves the archive and the backfill as they are; the
\* parts of the invariant it does not write stand.
LEMMA ReadersMove ==
  ASSUME archive \in Archives, NEW top, SettledTo(top), ReadersHold(top),
         UNCHANGED <<archive, bars, checkpoint, job>>,
         universe' = universe \/ \E s : universe' = Over(universe, Memberships(bars, s)),
         \A d \in DOMAIN runs' : (d \in DOMAIN runs /\ runs'[d] = runs[d]) \/ RunHolds(d, runs'[d]),
         ReplayHolds(top, replay')
  PROVE  SettledTo(top)' /\ ReadersHold(top)'
<1>1. SettledTo(top)'
  BY DEF SettledTo
<1>2. ReplayHolds(top, replay)'
  BY SameReadings DEF ReplayHolds
<1>3. \A d \in DOMAIN runs' : RunHolds(d, runs[d])'
  <2>1. \A d \in DOMAIN runs' : RunHolds(d, runs'[d])
    BY DEF ReadersHold
  <2>2. ASSUME NEW d, RunHolds(d, runs'[d]) PROVE RunHolds(d, runs[d])'
    <3>1. LateScored(d)' = LateScored(d) /\ LateForward(d)' = LateForward(d)
      BY SameReadings
    <3>. QED  BY <2>2, <3>1 DEF RunHolds
  <2>. QED  BY <2>1, <2>2
<1>4. \A p \in DOMAIN universe' : universe'[p] = LateMember(p)
  <2>1. CASE universe' = universe
    BY <2>1 DEF ReadersHold
  <2>2. ASSUME NEW s, universe' = Over(universe, Memberships(bars, s))
        PROVE  \A p \in DOMAIN universe' : universe'[p] = LateMember(p)
    <3>1. \A p \in DOMAIN Memberships(bars, s) : Memberships(bars, s)[p] = LateMember(p)
      <4>1. \A p \in DOMAIN Memberships(bars, s) : p[1] = s /\ Memberships(bars, s)[p] = Memberships(Late, s)[p]
        BY ReadNow
      <4>. QED  BY <4>1 DEF LateMember
    <3>2. \A p \in DOMAIN universe : universe[p] = LateMember(p)
      BY DEF ReadersHold
    <3>. QED  BY <2>2, <3>1, <3>2 DEF Over
  <2>. QED  BY <2>1, <2>2
<1>5. \A p \in DOMAIN universe' : universe'[p] = LateMember(p)'
  BY <1>4, SameReadings
<1>. QED  BY <1>1, <1>2, <1>3, <1>5 DEF ReadersHold

\* What may be said of a run, from what it is made of.
LEMMA RunMade ==
  ASSUME NEW status, NEW scored \in SUBSET Ids, NEW tagged, NEW forward, NEW day,
         status = "COMPLETED" => scored = LateScored(day) /\ \A r \in DOMAIN forward : forward[r] = LateForward(day)[r]
  PROVE  RunHolds(day, [status |-> status, scored |-> scored, tagged |-> tagged, forward |-> forward])
<1> DEFINE run == [status |-> status, scored |-> scored, tagged |-> tagged, forward |-> forward]
<1>1. run.status = status /\ run.scored = scored /\ run.tagged = tagged /\ run.forward = forward
  OBVIOUS
<1>2. run = [status |-> run.status, scored |-> run.scored, tagged |-> run.tagged, forward |-> run.forward]
  OBVIOUS
<1> HIDE DEF run
<1>3. RunHolds(day, run)
  BY <1>1, <1>2 DEF RunHolds, RunAgrees
<1>. QED  BY <1>3 DEF run

\* The same the other way.
LEMMA RunParts ==
  ASSUME NEW day, NEW run, RunHolds(day, run)
  PROVE  \E status, tagged, forward : \E scored \in SUBSET Ids :
           /\ run = [status |-> status, scored |-> scored, tagged |-> tagged, forward |-> forward]
           /\ status = "COMPLETED" => scored = LateScored(day) /\ \A r \in DOMAIN forward : forward[r] = LateForward(day)[r]
BY DEF RunHolds, RunAgrees

\* One step of any of the readers.
LEMMA ReaderSteps ==
  ASSUME archive \in Archives, NEW top, SettledTo(top), ReadersHold(top), ReplayNext
  PROVE  UNCHANGED <<archive, skips>> /\ SettledTo(top)' /\ ReadersHold(top)'
<1>1. UNCHANGED <<archive, bars, checkpoint, job, skips>>
  BY DEF ReplayNext, StartReconstruction, ReconstructSecurity, CrashReconstruction, StartReplay,
         ReconstructDate, ScreenDate, ScreenFails, TagRun, BackfillForward, CrashReplay, backfillVars
<1>2. /\ top \in Nat /\ ReplayHolds(top, replay)
      /\ \A d \in DOMAIN runs : RunHolds(d, runs[d])
  BY DEF SettledTo, ReadersHold
<1>3. CASE StartReconstruction \/ CrashReconstruction
  <2>1. UNCHANGED <<universe, runs, replay>>
    BY <1>3 DEF StartReconstruction, CrashReconstruction
  <2>. QED  BY <1>1, <1>2, <2>1, ReadersMove
<1>4. CASE ReconstructSecurity
  <2>1. UNCHANGED <<runs, replay>> /\ universe' = Over(universe, Memberships(bars, Min(recon)))
    BY <1>4 DEF ReconstructSecurity
  <2>. QED  BY <1>1, <1>2, <2>1, ReadersMove
<1>5. CASE StartReplay
  <2> DEFINE days == {p[2] : p \in DOMAIN bars}
             left == WeeklyRunDates(days) \ DOMAIN runs
  <2>1. /\ UNCHANGED <<universe, runs>> /\ left # {}
        /\ replay' = [phase |-> "reconstruct", day |-> Min(left), left |-> left \ {Min(left)}]
    BY <1>5 DEF StartReplay
  <2>2. days \in SUBSET (1..top)
    BY SettledDays
  <2>3. left \in SUBSET (1..top)
    <3> HIDE DEF days
    <3>1. days \in SUBSET Nat
      BY <1>2, <2>2
    <3>. QED  BY <2>2, <3>1, RunDatesAreSessions
  <2> HIDE DEF left
  <2>4. ReplayHolds(top, replay')
    BY <1>2, <2>1, <2>3, FirstOfDays
  <2>. QED  BY <1>1, <1>2, <2>1, <2>4, ReadersMove
<1>6. CASE ReconstructDate
  <2>1. UNCHANGED <<universe, runs>>
    BY <1>6 DEF ReconstructDate
  <2>2. In("reconstruct") /\ "reconstruct" # "idle"
    BY <1>6 DEF ReconstructDate
  <2>3. PICK day \in 1..top, left \in SUBSET (1..top) : replay.day = day /\ replay.left = left
    BY <1>2, <2>2, AtPhase
  <2>4. EligibleOn(bars, day) = LateEligible(day)
    BY ReadNow
  <2>5. \/ replay' = NextDate
        \/ replay' = Resting
        \/ replay' = [phase |-> "screen", day |-> day, left |-> left, eligible |-> LateEligible(day)]
    BY <1>6, <2>3, <2>4 DEF ReconstructDate
  <2>6. ReplayHolds(top, NextDate)
    BY <1>2, <2>3, NextDateHolds
  <2>7. ReplayHolds(top, replay')
    BY <2>5, <2>6 DEF ReplayHolds
  <2>. QED  BY <1>1, <1>2, <2>1, <2>7, ReadersMove
<1>7. CASE ScreenDate
  <2>1. /\ In("screen") /\ "screen" # "idle" /\ "screen" # "reconstruct" /\ UNCHANGED universe
        /\ runs' = WithRun(replay.day, "COMPLETED", ScoredOn(bars, replay.eligible, replay.day))
        /\ replay' = [replay EXCEPT !.phase = "tag"]
    BY <1>7 DEF ScreenDate
  <2>2. PICK day \in 1..top, left \in SUBSET (1..top) :
          replay = [phase |-> "screen", day |-> day, left |-> left, eligible |-> LateEligible(day)]
    BY <1>2, <2>1, AtPhase
  <2>3. replay' = [phase |-> "tag", day |-> day, left |-> left, eligible |-> LateEligible(day)]
    BY <2>1, <2>2
  <2>4. ReplayHolds(top, replay')
    BY <2>3 DEF ReplayHolds
  <2>5. ScoredOn(bars, replay.eligible, replay.day) = LateScored(day) /\ LateScored(day) \in SUBSET Ids
    <3>1. replay.day = day /\ replay.eligible = LateEligible(day)
      BY <2>2
    <3>2. ScoredOn(bars, LateEligible(day), day) = LateScored(day)
      BY ReadNow DEF LateScored
    <3>3. LateScored(day) \in SUBSET Ids
      BY DEF LateScored, ScoredOn, LateEligible, EligibleOn
    <3>. QED  BY <3>1, <3>2, <3>3
  <2> DEFINE run == [status |-> "COMPLETED", scored |-> LateScored(day), tagged |-> FALSE, forward |-> <<>>]
  <2>6. RunHolds(day, run)
    BY <2>5, RunMade
  <2>7. \A d \in DOMAIN runs' : IF d = day THEN runs'[d] = run ELSE d \in DOMAIN runs /\ runs'[d] = runs[d]
    <3>1. replay.day = day
      BY <2>2
    <3>. QED  BY <2>1, <2>5, <3>1 DEF WithRun, Over
  <2> HIDE DEF run
  <2>. QED  BY <1>1, <1>2, <2>1, <2>4, <2>6, <2>7, ReadersMove
<1>8. CASE ScreenFails
  <2>1. /\ UNCHANGED universe /\ replay' = Resting
        /\ runs' = WithRun(replay.day, "FAILED", {}) \/ runs' = runs
    BY <1>8 DEF ScreenFails
  <2>2. ReplayHolds(top, replay')
    BY <2>1 DEF ReplayHolds
  <2> DEFINE run == [status |-> "FAILED", scored |-> {}, tagged |-> FALSE, forward |-> <<>>]
  <2>3. \A d : RunHolds(d, run)
    BY RunMade
  <2>4. \A d \in DOMAIN runs' : runs'[d] = run \/ (d \in DOMAIN runs /\ runs'[d] = runs[d])
    BY <2>1 DEF WithRun, Over
  <2> HIDE DEF run
  <2>. QED  BY <1>1, <1>2, <2>1, <2>2, <2>3, <2>4, ReadersMove
<1>9. CASE TagRun
  <2>1. /\ In("tag") /\ "tag" # "idle" /\ "tag" # "reconstruct" /\ UNCHANGED universe
        /\ runs' = [runs EXCEPT ![replay.day].tagged = TRUE]
        /\ replay' = [replay EXCEPT !.phase = "forward"]
    BY <1>9 DEF TagRun
  <2>2. PICK day \in 1..top, left \in SUBSET (1..top) :
          replay = [phase |-> "tag", day |-> day, left |-> left, eligible |-> LateEligible(day)]
    BY <1>2, <2>1, AtPhase
  <2>3. replay' = [phase |-> "forward", day |-> day, left |-> left, eligible |-> LateEligible(day)]
    BY <2>1, <2>2
  <2>4. ReplayHolds(top, replay')
    BY <2>3 DEF ReplayHolds
  <2>5. \A d \in DOMAIN runs' : d \in DOMAIN runs /\ runs'[d] = IF d = replay.day THEN [runs[d] EXCEPT !.tagged = TRUE] ELSE runs[d]
    BY <2>1
  <2>6. ASSUME NEW d \in DOMAIN runs PROVE RunHolds(d, [runs[d] EXCEPT !.tagged = TRUE])
    <3>1. RunHolds(d, runs[d])
      BY <1>2
    <3>2. PICK status, tagged, forward : \E scored \in SUBSET Ids :
            /\ runs[d] = [status |-> status, scored |-> scored, tagged |-> tagged, forward |-> forward]
            /\ status = "COMPLETED" => scored = LateScored(d) /\ \A r \in DOMAIN forward : forward[r] = LateForward(d)[r]
      BY <3>1, RunParts
    <3>a. PICK scored \in SUBSET Ids :
            /\ runs[d] = [status |-> status, scored |-> scored, tagged |-> tagged, forward |-> forward]
            /\ status = "COMPLETED" => scored = LateScored(d) /\ \A r \in DOMAIN forward : forward[r] = LateForward(d)[r]
      BY <3>2
    <3>3. [runs[d] EXCEPT !.tagged = TRUE] = [status |-> status, scored |-> scored, tagged |-> TRUE, forward |-> forward]
      <4>1. PICK run : run = runs[d]
        OBVIOUS
      <4>2. run = [status |-> status, scored |-> scored, tagged |-> tagged, forward |-> forward]
        BY <3>a, <4>1
      <4>3. \A yes : [run EXCEPT !.tagged = yes] = [status |-> status, scored |-> scored, tagged |-> yes, forward |-> forward]
        BY <4>2
      <4>. QED  BY <4>1, <4>3, Zenon
    <3>. QED  BY <3>a, <3>3, RunMade
  <2>7. \A d \in DOMAIN runs' : (d \in DOMAIN runs /\ runs'[d] = runs[d]) \/ RunHolds(d, runs'[d])
    BY <2>5, <2>6
  <2>. QED  BY <1>1, <1>2, <2>1, <2>4, <2>7, ReadersMove
<1>10. CASE BackfillForward
  <2>1. /\ In("forward") /\ "forward" # "idle" /\ "forward" # "reconstruct" /\ UNCHANGED universe
        /\ runs' = [runs EXCEPT ![replay.day].forward = ForwardRows(bars, replay.day, runs[replay.day].scored)]
        /\ replay' = NextDate
    BY <1>10 DEF BackfillForward
  <2>2. PICK day \in 1..top, left \in SUBSET (1..top) :
          replay = [phase |-> "forward", day |-> day, left |-> left, eligible |-> LateEligible(day)]
    BY <1>2, <2>1, AtPhase
  <2>3. replay.day = day /\ replay.left \in SUBSET (1..top)
    BY <2>2
  <2>4. ReplayHolds(top, replay')
    BY <1>2, <2>1, <2>3, NextDateHolds
  <2>5. \A d \in DOMAIN runs' :
          /\ d \in DOMAIN runs
          /\ runs'[d] = IF d = day THEN [runs[d] EXCEPT !.forward = ForwardRows(bars, d, runs[d].scored)] ELSE runs[d]
    BY <2>1, <2>3
  <2>6. day \in DOMAIN runs => RunHolds(day, [runs[day] EXCEPT !.forward = ForwardRows(bars, day, runs[day].scored)])
    <3> SUFFICES ASSUME day \in DOMAIN runs
                 PROVE  RunHolds(day, [runs[day] EXCEPT !.forward = ForwardRows(bars, day, runs[day].scored)])
      OBVIOUS
    <3>1. RunHolds(day, runs[day])
      BY <1>2
    <3>2. PICK status, tagged, forward : \E scored \in SUBSET Ids :
            /\ runs[day] = [status |-> status, scored |-> scored, tagged |-> tagged, forward |-> forward]
            /\ status = "COMPLETED" => scored = LateScored(day)
      BY <3>1, RunParts
    <3>a. PICK scored \in SUBSET Ids :
            /\ runs[day] = [status |-> status, scored |-> scored, tagged |-> tagged, forward |-> forward]
            /\ status = "COMPLETED" => scored = LateScored(day)
      BY <3>2
    <3> DEFINE rows == ForwardRows(bars, day, scored)
    <3>3. runs[day].scored = scored
      BY <3>a
    <3>4. \A r \in DOMAIN rows : rows[r] = ForwardRows(Late, day, scored)[r]
      BY ReadNow
    <3>5. status = "COMPLETED" => \A r \in DOMAIN rows : rows[r] = LateForward(day)[r]
      BY <3>a, <3>4 DEF LateForward
    <3> HIDE DEF rows
    <3>6. [runs[day] EXCEPT !.forward = rows] = [status |-> status, scored |-> scored, tagged |-> tagged, forward |-> rows]
      BY <3>a
    <3>7. RunHolds(day, [runs[day] EXCEPT !.forward = rows])
      BY <3>a, <3>5, <3>6, RunMade
    <3>. QED  BY <3>3, <3>7 DEF rows
  <2>7. \A d \in DOMAIN runs' : (d \in DOMAIN runs /\ runs'[d] = runs[d]) \/ RunHolds(d, runs'[d])
    BY <2>5, <2>6
  <2>. QED  BY <1>1, <1>2, <2>1, <2>4, <2>7, ReadersMove
<1>11. CASE CrashReplay
  <2>1. UNCHANGED <<universe, runs>> /\ replay' = Resting
    BY <1>11 DEF CrashReplay
  <2>2. ReplayHolds(top, replay')
    BY <2>1 DEF ReplayHolds
  <2>. QED  BY <1>1, <1>2, <2>1, <2>2, ReadersMove
<1>. QED  BY <1>3, <1>4, <1>5, <1>6, <1>7, <1>8, <1>9, <1>10, <1>11 DEF ReplayNext

\* The invariant of the readers, beside that of the backfill.
LEMMA RaceInvariant == Spec => []RaceInv
<1>1. Init => RaceInv
  <2> SUFFICES ASSUME Init PROVE RaceInv
    OBVIOUS
  <2>1. /\ archive \in Archives /\ job = Idle /\ bars = <<>>
        /\ checkpoint = [last |-> 0, totals |-> NoCounts]
        /\ universe = <<>> /\ runs = <<>> /\ replay = Resting
    BY DEF Init, BackfillInit
  <2>2. PICK len \in Nat : len = Len(archive)
    BY <2>1, ArchivesAssumption
  <2>3. bars = Settled(archive, 0)
    <3>1. UNION {DOMAIN DayBars(archive[d], d) : d \in 1..0} = {}
      OBVIOUS
    <3>2. DOMAIN Settled(archive, 0) = {}
      BY <3>1 DEF Settled
    <3>3. PICK none : none = bars /\ DOMAIN none = {} /\ none = [x \in {} |-> x]
      BY <2>1
    <3>. QED  BY <3>1, <3>3 DEF Settled
  <2>4. SettledTo(0)
    BY <2>1, <2>2, <2>3 DEF SettledTo
  <2>5. ReadersHold(0)
    BY <2>1 DEF ReadersHold, ReplayHolds
  <2>. QED  BY <2>1, <2>4, <2>5 DEF RaceInv
<1>2. RaceInv /\ BackfillInv /\ [Next]_vars => RaceInv'
  <2> SUFFICES ASSUME RaceInv, BackfillInv, [Next]_vars PROVE RaceInv'
    OBVIOUS
  <2>1. archive \in Archives /\ skips \in Nat /\ \E n \in 0..Len(Chunks) : AtChunk(n)
    BY DEF BackfillInv
  <2>2. archive' = archive /\ (skips' = 0 => skips = 0)
    <3>1. CASE BackfillNext
      BY <2>1, <3>1 DEF BackfillNext, BackfillStep, Start, PersistDay, PassHoliday, SkipSession, DayFails,
           SaveCheckpoint, Crash
    <3>2. CASE ReplayNext
      BY <3>2 DEF ReplayNext, StartReconstruction, ReconstructSecurity, CrashReconstruction, StartReplay,
         ReconstructDate, ScreenDate, ScreenFails, TagRun, BackfillForward, CrashReplay, backfillVars
    <3>3. CASE UNCHANGED vars
      BY <3>3 DEF vars, backfillVars
    <3>. QED  BY <3>1, <3>2, <3>3 DEF Next
  <2>3. SUFFICES ASSUME skips' = 0 PROVE \E t \in Nat : SettledTo(t)' /\ ReadersHold(t)'
    BY <2>1, <2>2 DEF RaceInv
  <2>4. PICK top \in Nat : SettledTo(top) /\ ReadersHold(top)
    BY <2>2, <2>3 DEF RaceInv
  <2>5. CASE BackfillNext /\ UNCHANGED replayVars
    <3>1. PICK n \in 0..Len(Chunks) : AtChunk(n)
      BY <2>1
    <3>2. PICK t \in Nat : top <= t /\ SettledTo(t)'
      BY <2>1, <2>3, <2>4, <2>5, <3>1, BackfillSettles
    <3>3. ReadersHold(t)'
      BY <2>2, <2>4, <2>5, <3>2, ReadersWait
    <3>. QED  BY <3>2, <3>3
  <2>6. CASE ReplayNext
    BY <2>1, <2>4, <2>6, ReaderSteps
  <2>7. CASE UNCHANGED vars
    <3>1. UNCHANGED <<archive, bars, checkpoint, job>> /\ UNCHANGED replayVars
      BY <2>7 DEF vars, backfillVars
    <3>2. SettledTo(top)'
      BY <2>4, <3>1 DEF SettledTo
    <3>3. ReadersHold(top)'
      BY <2>4, <3>1, ReadersWait
    <3>. QED  BY <3>2, <3>3
  <2>. QED  BY <2>5, <2>6, <2>7 DEF Next
<1>. QED  BY <1>1, <1>2, BackfillInvariant, PTL DEF Spec

\* Whatever was read while the archive grew is what would be read of all of
\* it: the memberships of the universe, what a run scored and its returns.
THEOREM ReadersSeeTheWhole == Spec => []ReadersDoNotRace
<1>1. RaceInv => ReadersDoNotRace
  <2> SUFFICES ASSUME RaceInv, skips = 0
               PROVE  LET whole == Whole[archive]
                      IN  /\ \A p \in DOMAIN universe : universe[p] = Memberships(whole, p[1])[p]
                          /\ \A d \in {x \in DOMAIN runs : runs[x].status = "COMPLETED"} :
                               /\ runs[d].scored = ScoredOn(whole, EligibleOn(whole, d), d)
                               /\ \A r \in DOMAIN runs[d].forward :
                                    runs[d].forward[r] = ForwardRows(whole, d, runs[d].scored)[r]
    BY DEF ReadersDoNotRace
  <2>1. Whole[archive] = Late
    BY WholeIsSettled DEF RaceInv, Late
  <2>2. PICK top \in Nat : ReadersHold(top)
    BY DEF RaceInv
  <2>3. \A p \in DOMAIN universe : universe[p] = Memberships(Late, p[1])[p]
    BY <2>2 DEF ReadersHold, LateMember
  <2>4. ASSUME NEW d \in DOMAIN runs, runs[d].status = "COMPLETED"
        PROVE  /\ runs[d].scored = ScoredOn(Late, EligibleOn(Late, d), d)
               /\ \A r \in DOMAIN runs[d].forward : runs[d].forward[r] = ForwardRows(Late, d, runs[d].scored)[r]
    <3>1. runs[d].scored = LateScored(d) /\ \A r \in DOMAIN runs[d].forward : runs[d].forward[r] = LateForward(d)[r]
      BY <2>2, <2>4 DEF ReadersHold, RunHolds, RunAgrees
    <3>. QED  BY <3>1 DEF LateScored, LateForward, LateEligible
  <2>. QED  BY <2>1, <2>3, <2>4
<1>. QED  BY <1>1, RaceInvariant, PTL

=============================================================================
