-------------------------- MODULE CalculationsProofs --------------------------
(* What the calculations promise of every input: LimitIsExact,                *)
(* GateStoryAgrees, RankingIsFair, TradesAreHonest, ForwardRowsIgnoreWhen,    *)
(* UniverseIsConsistent, IndicatorsIgnoreTheFuture, SplitsDoNotMoveIndicators, *)
(* RatingsFollowReturns and EnginesAreSound.                                 *)
EXTENDS Analysis, RateLimiter, Charts, SumsAndSeries

-----------------------------------------------------------------------------
(* The process that is given the inputs.                                     *)

InputOK ==
  \/ \E kind \in DOMAIN Inputs : input = Idle(kind)
  \/ \E kind \in DOMAIN Inputs : \E v \in Inputs[kind] : input = [kind |-> kind, value |-> v]

\* Whatever is asked is one of the inputs of its kind: the process that hands
\* them to the calculations makes up none.
THEOREM InputsAreGiven == Spec => []InputOK
<1>1. Init => InputOK
  BY DEF Init, InputOK
<1>2. InputOK /\ [Next]_input => InputOK'
  BY DEF InputOK, Next, Ask, Rest, Is, Idle
<1>. QED  BY <1>1, <1>2, PTL DEF Spec

-----------------------------------------------------------------------------
(* The requests of an address.                                               *)

\* The requests are handled one after another.
LEMMA DispatchedUnfolds ==
  ASSUME NEW r, NEW start, NEW n \in Nat
  PROVE  /\ DispatchedTo(r, start, 0) = AtStart(start)
         /\ DispatchedTo(r, start, n + 1) = Dispatch(DispatchedTo(r, start, n), r[n + 1], n + 1)
<1> DEFINE Body(g, e) == IF e = 0 THEN AtStart(start) ELSE Dispatch(g[e - 1], r[e], e)
           Is1(g, last) == g = [e \in 0..last |-> Body(g, e)]
           It(last) == CHOOSE g : Is1(g, last)
           T == {m \in Nat : \E g : Is1(g, m)}
<1>1. 0 \in T
  <2> DEFINE g == [e \in 0..0 |-> AtStart(start)]
  <2>1. g = [e \in 0..0 |-> Body(g, e)]
    OBVIOUS
  <2>. QED  BY <2>1
<1>2. ASSUME NEW last \in Nat, last \in T PROVE last + 1 \in T
  <2>1. PICK g : Is1(g, last)
    BY <1>2
  <2> DEFINE h == [e \in 0..(last + 1) |->
                     IF e = last + 1 THEN Dispatch(g[last], r[e], e) ELSE g[e]]
  <2>2. ASSUME NEW e \in 0..(last + 1) PROVE h[e] = Body(h, e)
    <3>1. CASE e = last + 1
      <4>1. h[e - 1] = g[last]
        BY <3>1
      <4>. QED  BY <3>1, <4>1
    <3>2. CASE e # last + 1
      <4>1. e \in 0..last /\ h[e] = g[e] /\ g[e] = Body(g, e)
        BY <2>1, <3>2
      <4>2. CASE e = 0
        BY <4>1, <4>2
      <4>3. CASE e # 0
        <5>1. h[e - 1] = g[e - 1]
          BY <4>1, <4>3
        <5>. QED  BY <4>1, <4>3, <5>1
      <4>. QED  BY <4>2, <4>3
    <3>. QED  BY <3>1, <3>2
  <2>3. h = [e \in 0..(last + 1) |-> h[e]]
    OBVIOUS
  <2> HIDE DEF h
  <2>4. Is1(h, last + 1)
    BY <2>2, <2>3
  <2> HIDE DEF Is1
  <2>. QED  BY <2>4
<1>3. \A m \in Nat : m \in T
  <2> HIDE DEF T
  <2>. QED  BY <1>1, <1>2, NatSetInduction
<1>4. ASSUME NEW m \in Nat PROVE Is1(It(m), m)
  <2>1. \E g : Is1(g, m)
    BY <1>3
  <2> HIDE DEF Is1
  <2>. QED  BY <2>1
<1>5. \A m : DispatchedTo(r, start, m) = It(m)[m]
  BY DEF DispatchedTo
<1>6. ASSUME NEW m \in Nat, NEW e \in 0..m PROVE It(m)[e] = Body(It(m), e)
  <2> HIDE DEF It
  <2>. QED  BY <1>4
\* What is so far does not depend on what follows.
<1>7. \A e \in Nat : e <= n => It(n)[e] = It(n + 1)[e]
  <2> DEFINE E == {e \in Nat : e <= n => It(n)[e] = It(n + 1)[e]}
  <2>1. /\ \A e \in 0..n : It(n)[e] = Body(It(n), e)
        /\ \A e \in 0..(n + 1) : It(n + 1)[e] = Body(It(n + 1), e)
    BY <1>6
  <2> HIDE DEF It
  <2>2. 0 \in E
    BY <2>1
  <2>3. ASSUME NEW e \in Nat, e \in E PROVE e + 1 \in E
    <3>1. CASE e + 1 <= n
      <4>1. It(n)[e] = It(n + 1)[e] /\ e + 1 \in 0..n /\ e + 1 \in 0..(n + 1) /\ e + 1 # 0 /\ e + 1 - 1 = e
        BY <2>3, <3>1
      <4>2. It(n)[e + 1] = Body(It(n), e + 1) /\ It(n + 1)[e + 1] = Body(It(n + 1), e + 1)
        BY <2>1, <4>1
      <4>. QED  BY <4>1, <4>2
    <3>. QED  BY <3>1
  <2> HIDE DEF E
  <2>4. \A e \in Nat : e \in E
    BY <2>2, <2>3, NatSetInduction
  <2>. QED  BY <2>4 DEF E
<1> HIDE DEF It
<1>8. It(0)[0] = AtStart(start)
  <2>1. It(0)[0] = Body(It(0), 0)
    BY <1>6
  <2>. QED  BY <2>1
<1>9. It(n + 1)[n + 1] = Dispatch(It(n)[n], r[n + 1], n + 1)
  <2>1. It(n + 1)[n + 1] = Body(It(n + 1), n + 1)
    BY <1>6
  <2>2. It(n)[n] = It(n + 1)[n]
    BY <1>7
  <2>3. n + 1 # 0 /\ n + 1 - 1 = n
    OBVIOUS
  <2>. QED  BY <2>1, <2>2, <2>3
<1>. QED  BY <1>5, <1>8, <1>9

-----------------------------------------------------------------------------
(* What the limiter remembers after the first n requests: of the requests    *)
(* let through, those that a sweep or a prune did not find too old.          *)

Limited(r) == {j \in DOMAIN r : ~r[j].exempt}

\* The limited requests of r[i]'s address let through in the window before it.
Before(r, served, i) ==
  {j \in 1..(i - 1) : /\ r[j].ip = r[i].ip /\ ~r[j].exempt /\ j \in served
                      /\ r[j].at > r[i].at - WindowSeconds}

Entries(r, numbers) == {Entry(r[j], j) : j \in numbers}

Let(r, served, ip) == {j \in Limited(r) : j \in served /\ r[j].ip = ip}

\* The last sweep is one that happened, less than a window ago.
SweptInTime(r, s, n) ==
  /\ s.limiter.lastSweep \in Nat
  /\ \/ s.limiter.lastSweep = 1
     \/ \E j \in Limited(r) : j <= n /\ s.limiter.lastSweep = r[j].at
  /\ \A j \in Limited(r) : j <= n => r[j].at - s.limiter.lastSweep < WindowSeconds

\* An address that is remembered was let through less than a window before it.
NobodyIdle(r, s) ==
  \A ip \in DOMAIN s.limiter.times :
    /\ s.limiter.times[ip] \subseteq Entries(r, Let(r, s.served, ip))
    /\ \E t \in s.limiter.times[ip] : t.at > s.limiter.lastSweep - WindowSeconds

\* What was let through is remembered until the window has passed it.
TooOld(r, n, j) == \E i \in Limited(r) : i <= n /\ r[j].at <= r[i].at - WindowSeconds

Kept(r, s, n) ==
  \A ip : \A j \in Let(r, s.served, ip) :
    Entry(r[j], j) \in TimesOf(s.limiter, ip) \/ TooOld(r, n, j)

Allowed(r, served, i) == r[i].exempt \/ Cardinality(Before(r, served, i)) < MaxRequests

Judged(r, s, n) ==
  /\ s.served \subseteq 1..n
  /\ \A i \in 1..n : i \in s.served <=> Allowed(r, s.served, i)

Told(r, s, n) == SweptInTime(r, s, n) /\ NobodyIdle(r, s) /\ Kept(r, s, n) /\ Judged(r, s, n)

\* A sweep is at most a window old afterwards, and loses no recent entry.
LEMMA SweepForgets ==
  ASSUME NEW L, NEW now \in Int, L.lastSweep \in Int, NEW s, s = SweepIdleClients(L, now)
  PROVE  /\ s.lastSweep \in {L.lastSweep, now} /\ now - s.lastSweep < WindowSeconds
         /\ \A k \in DOMAIN s.times : /\ k \in DOMAIN L.times /\ s.times[k] = L.times[k]
                                      /\ s.lastSweep = L.lastSweep \/ InWindow(L.times[k], now) # {}
         /\ \A k \in DOMAIN L.times : k \in DOMAIN s.times \/ InWindow(L.times[k], now) = {}
<1>1. CASE now - L.lastSweep < WindowSeconds
  <2>1. s = L
    BY <1>1 DEF SweepIdleClients
  <2>. QED  BY <1>1, <2>1
<1>2. CASE ~(now - L.lastSweep < WindowSeconds)
  <2> DEFINE busy == {k \in DOMAIN L.times : InWindow(L.times[k], now) # {}}
  <2>1. s = [lastSweep |-> now, times |-> [ip \in busy |-> L.times[ip]]]
    BY <1>2 DEF SweepIdleClients
  <2>2. s.lastSweep = now /\ s.times = [ip \in busy |-> L.times[ip]]
    BY <2>1
  <2>3. now - now < WindowSeconds
    BY LimitAssumption
  <2>. QED  BY <2>2, <2>3
<1>. QED  BY <1>1, <1>2

LEMMA WithTimesIs ==
  ASSUME NEW s, NEW ip, NEW entries, NEW w, w = WithTimes(s, ip, entries)
  PROVE  /\ w.lastSweep = s.lastSweep /\ DOMAIN w.times = DOMAIN s.times \cup {ip}
         /\ w.times[ip] = entries /\ TimesOf(w, ip) = entries
         /\ \A k : k # ip => TimesOf(w, k) = TimesOf(s, k)
         /\ \A k \in DOMAIN w.times : k # ip => k \in DOMAIN s.times /\ w.times[k] = s.times[k]
<1> DEFINE f == [k \in {ip} |-> entries]
<1>1. w.lastSweep = s.lastSweep /\ w.times = Over(f, s.times)
  BY DEF WithTimes
<1>2. w.times = [x \in DOMAIN s.times \cup {ip} |-> IF x = ip THEN entries ELSE s.times[x]]
  BY <1>1 DEF Over
<1>. QED  BY <1>1, <1>2 DEF TimesOf

\* The state of the limiter when it judges the request: of its own address it
\* knows the recent entries, all of them.
LEMMA PruneKeepsRecent ==
  ASSUME NEW L, NEW ip, NEW now \in Int, L.lastSweep \in Int,
         NEW s, s = Cleanup(SweepIdleClients(L, now), ip, now)
  PROVE  /\ s.lastSweep \in {L.lastSweep, now} /\ now - s.lastSweep < WindowSeconds
         /\ ip \in DOMAIN s.times /\ s.times[ip] = InWindow(TimesOf(L, ip), now)
         /\ \A k \in DOMAIN s.times : k # ip =>
              /\ k \in DOMAIN L.times /\ s.times[k] = L.times[k]
              /\ s.lastSweep = L.lastSweep \/ InWindow(L.times[k], now) # {}
         /\ \A k : InWindow(TimesOf(L, k), now) \subseteq TimesOf(s, k)
<1> DEFINE w == SweepIdleClients(L, now)
<1>1. /\ w.lastSweep \in {L.lastSweep, now} /\ now - w.lastSweep < WindowSeconds
      /\ \A k \in DOMAIN w.times : /\ k \in DOMAIN L.times /\ w.times[k] = L.times[k]
                                   /\ w.lastSweep = L.lastSweep \/ InWindow(L.times[k], now) # {}
      /\ \A k \in DOMAIN L.times : k \in DOMAIN w.times \/ InWindow(L.times[k], now) = {}
  BY SweepForgets
<1> HIDE DEF w
<1>2. s = WithTimes(w, ip, InWindow(TimesOf(w, ip), now))
  BY DEF Cleanup, w
<1>3. /\ s.lastSweep = w.lastSweep /\ DOMAIN s.times = DOMAIN w.times \cup {ip}
      /\ s.times[ip] = InWindow(TimesOf(w, ip), now) /\ TimesOf(s, ip) = InWindow(TimesOf(w, ip), now)
      /\ \A k : k # ip => TimesOf(s, k) = TimesOf(w, k)
      /\ \A k \in DOMAIN s.times : k # ip => k \in DOMAIN w.times /\ s.times[k] = w.times[k]
  BY <1>2, WithTimesIs
<1>4. ASSUME NEW k PROVE InWindow(TimesOf(w, k), now) = InWindow(TimesOf(L, k), now)
  <2>1. InWindow({}, now) = {}
    BY DEF InWindow
  <2>2. CASE k \in DOMAIN w.times
    BY <1>1, <2>2 DEF TimesOf
  <2>3. CASE k \notin DOMAIN w.times
    BY <1>1, <2>1, <2>3 DEF TimesOf
  <2>. QED  BY <2>2, <2>3
<1>5. \A k : InWindow(TimesOf(w, k), now) \subseteq TimesOf(w, k)
  BY DEF InWindow
<1>6. \A k : InWindow(TimesOf(L, k), now) \subseteq TimesOf(s, k)
  BY <1>3, <1>4, <1>5
<1>. QED  BY <1>1, <1>3, <1>4, <1>6

\* There are as many entries as requests they are the entries of.
LEMMA EntriesCount ==
  ASSUME NEW r, NEW B, IsFiniteSet(B)
  PROVE  Cardinality(Entries(r, B)) = Cardinality(B)
<1> DEFINE f == [j \in B |-> Entry(r[j], j)]
<1>1. \A j \in B : f[j].number = j
  BY DEF Entry
<1>2. f \in Bijection(B, Entries(r, B))
  <2>1. f \in [B -> Entries(r, B)]
    BY DEF Entries
  <2>2. \A e \in Entries(r, B) : \E j \in B : f[j] = e
    BY DEF Entries
  <2> HIDE DEF f
  <2>3. \A a, b \in B : f[a] = f[b] => a = b
    BY <1>1
  <2>. QED  BY <2>1, <2>2, <2>3, Fun_IsBij
<1>. QED  BY <1>2, FS_Bijection DEF ExistsBijection

\* The requests before do not depend on what is served later.
LEMMA BeforeIsPast ==
  ASSUME NEW r, NEW one, NEW two, NEW i \in Nat,
         \A j \in 1..(i - 1) : j \in one <=> j \in two
  PROVE  Before(r, one, i) = Before(r, two, i) /\ (Allowed(r, one, i) <=> Allowed(r, two, i))
<1>1. Before(r, one, i) = Before(r, two, i)
  BY DEF Before
<1>. QED  BY <1>1 DEF Allowed

LEMMA BeforeFinite ==
  ASSUME NEW r, NEW served, NEW i \in Nat
  PROVE  IsFiniteSet(Before(r, served, i))
<1>1. IsFiniteSet(1..(i - 1))
  BY FS_Interval
<1>2. Before(r, served, i) \subseteq 1..(i - 1)
  BY DEF Before
<1>. QED  BY <1>1, <1>2, FS_Subset

LEMMA NumbersAreNat ==
  ASSUME NEW r, InOrder(r)
  PROVE  /\ Len(r) \in Nat /\ DOMAIN r = 1..Len(r)
         /\ \A i \in 1..Len(r) : r[i].at \in Nat \ {0} /\ r[i].exempt \in BOOLEAN
         /\ \A i, j \in 1..Len(r) : i <= j => r[i].at <= r[j].at
BY DEF InOrder

\* What the limiter counts is what was let through in the window before.
LEMMA CountsWhatWasLetThrough ==
  ASSUME NEW r, InOrder(r), NEW n \in Nat, n + 1 <= Len(r), NEW s, Told(r, s, n), ~r[n + 1].exempt
  PROVE  InWindow(TimesOf(s.limiter, r[n + 1].ip), r[n + 1].at) = Entries(r, Before(r, s.served, n + 1))
<1> DEFINE m == n + 1
           ip == r[m].ip
           now == r[m].at
           B == Before(r, s.served, m)
<1>1. /\ m \in 1..Len(r) /\ now \in Nat /\ DOMAIN r = 1..Len(r) /\ Len(r) \in Nat /\ m - 1 = n
      /\ \A i \in 1..Len(r) : r[i].at \in Nat
      /\ \A i, j \in 1..Len(r) : i <= j => r[i].at <= r[j].at
  BY NumbersAreNat
<1>2. s.served \subseteq 1..n
  BY DEF Told, Judged
<1>3. \A j \in B : /\ j \in 1..n /\ r[j].ip = ip /\ ~r[j].exempt /\ j \in s.served
                   /\ r[j].at > now - WindowSeconds
  BY <1>1 DEF Before
<1>4. \A j \in 1..n : r[j].ip = ip /\ ~r[j].exempt /\ j \in s.served /\ r[j].at > now - WindowSeconds => j \in B
  BY <1>1 DEF Before
<1> HIDE DEF B
<1>5. ASSUME NEW e \in InWindow(TimesOf(s.limiter, ip), now) PROVE e \in Entries(r, B)
  <2>1. e \in TimesOf(s.limiter, ip) /\ e.at > now - WindowSeconds
    BY <1>5 DEF InWindow
  <2>2. ip \in DOMAIN s.limiter.times /\ e \in s.limiter.times[ip]
    BY <2>1 DEF TimesOf
  <2>3. e \in Entries(r, Let(r, s.served, ip))
    BY <2>2 DEF Told, NobodyIdle
  <2>4. PICK j \in Let(r, s.served, ip) : e = Entry(r[j], j)
    BY <2>3 DEF Entries
  <2>5. j \in 1..n /\ r[j].ip = ip /\ ~r[j].exempt /\ j \in s.served
    BY <1>2, <2>4 DEF Let, Limited
  <2>6. r[j].at > now - WindowSeconds
    BY <2>1, <2>4 DEF Entry
  <2>. QED  BY <1>4, <2>4, <2>5, <2>6 DEF Entries
<1>6. ASSUME NEW e \in Entries(r, B) PROVE e \in InWindow(TimesOf(s.limiter, ip), now)
  <2>1. PICK j \in B : e = Entry(r[j], j)
    BY <1>6 DEF Entries
  <2>2. j \in 1..n /\ j \in 1..Len(r) /\ r[j].at \in Nat
    BY <1>1, <1>3
  <2>3. j \in Let(r, s.served, ip)
    BY <1>1, <1>3, <2>2 DEF Let, Limited
  <2>4. ~TooOld(r, n, j)
    <3> SUFFICES ASSUME NEW i \in Limited(r), i <= n, r[j].at <= r[i].at - WindowSeconds PROVE FALSE
      BY DEF TooOld
    <3>1. i \in 1..Len(r) /\ i <= m
      BY <1>1 DEF Limited
    <3>2. r[i].at <= now /\ r[i].at \in Nat
      BY <1>1, <3>1
    <3>3. r[j].at > now - WindowSeconds /\ WindowSeconds \in Nat
      BY <1>3, LimitAssumption
    <3> HIDE DEF now
    <3>. QED  BY <1>1, <2>2, <3>2, <3>3
  <2>5. Entry(r[j], j) \in TimesOf(s.limiter, ip)
    BY <2>3, <2>4 DEF Told, Kept
  <2>6. e.at > now - WindowSeconds
    BY <1>3, <2>1 DEF Entry
  <2>. QED  BY <2>1, <2>5, <2>6 DEF InWindow
<1>. QED  BY <1>5, <1>6 DEF B

\* The limiter starts without a request.
LEMMA ToldAtStart ==
  ASSUME NEW r, InOrder(r)
  PROVE  Told(r, AtStart(1), 0)
<1> DEFINE s == AtStart(1)
<1>1. s.limiter.lastSweep = 1 /\ s.limiter.times = <<>> /\ s.served = {}
  BY DEF AtStart
<1> HIDE DEF s
<1>2. DOMAIN s.limiter.times = {}
  BY <1>1
<1>3. \A j \in Limited(r) : ~(j <= 0)
  BY NumbersAreNat DEF Limited
<1>4. \A ip : Let(r, s.served, ip) = {}
  BY <1>1 DEF Let
<1>5. SweptInTime(r, s, 0)
  BY <1>1, <1>3 DEF SweptInTime
<1>6. NobodyIdle(r, s) /\ Kept(r, s, 0) /\ Judged(r, s, 0)
  BY <1>1, <1>2, <1>4 DEF NobodyIdle, Kept, Judged
<1>. QED  BY <1>5, <1>6 DEF Told, s

\* A request that is not limited changes nothing the others are judged by.
LEMMA ToldExempt ==
  ASSUME NEW r, InOrder(r), NEW n \in Nat, n + 1 <= Len(r), NEW s, Told(r, s, n), r[n + 1].exempt,
         NEW t, t.limiter = s.limiter, t.served = s.served \cup {n + 1}
  PROVE  Told(r, t, n + 1)
<1>1. \A j \in Limited(r) : j # n + 1 /\ j \in Nat
  BY NumbersAreNat DEF Limited
<1>2. \A j \in Limited(r) : j <= n + 1 <=> j <= n
  BY <1>1
<1>3. \A ip : Let(r, t.served, ip) = Let(r, s.served, ip)
  BY <1>1 DEF Let
<1>4. SweptInTime(r, t, n + 1)
  BY <1>2 DEF Told, SweptInTime
<1>5. NobodyIdle(r, t)
  BY <1>3 DEF Told, NobodyIdle
<1>6. \A j : TooOld(r, n, j) => TooOld(r, n + 1, j)
  BY <1>2 DEF TooOld
<1>7. Kept(r, t, n + 1)
  BY <1>3, <1>6 DEF Told, Kept
<1>8. Judged(r, t, n + 1)
  <2>1. s.served \subseteq 1..n /\ \A i \in 1..n : i \in s.served <=> Allowed(r, s.served, i)
    BY DEF Told, Judged
  <2>2. t.served \subseteq 1..(n + 1)
    BY <2>1
  <2>3. ASSUME NEW i \in 1..(n + 1) PROVE i \in t.served <=> Allowed(r, t.served, i)
    <3>1. \A j \in 1..(i - 1) : j \in t.served <=> j \in s.served
      OBVIOUS
    <3>0. i \in Nat
      OBVIOUS
    <3>2. Allowed(r, t.served, i) <=> Allowed(r, s.served, i)
      BY <3>0, <3>1, BeforeIsPast
    <3>3. CASE i = n + 1
      BY <3>3 DEF Allowed
    <3>4. CASE i # n + 1
      BY <2>1, <3>2, <3>4
    <3>. QED  BY <3>3, <3>4
  <2>. QED  BY <2>2, <2>3 DEF Judged
<1>. QED  BY <1>4, <1>5, <1>7, <1>8 DEF Told

\* A limited request, whichever way it goes: what it leaves of the limiter.
Leaves(r, s, m, t) ==
  LET ip == r[m].ip
      now == r[m].at
      B == Before(r, s.served, m)
  IN  /\ t.limiter.lastSweep \in {s.limiter.lastSweep, now}
      /\ now - t.limiter.lastSweep < WindowSeconds
      /\ \A k : InWindow(TimesOf(s.limiter, k), now) \subseteq TimesOf(t.limiter, k)
      /\ \A k \in DOMAIN t.limiter.times : k # ip =>
           /\ k \in DOMAIN s.limiter.times /\ t.limiter.times[k] = s.limiter.times[k]
           /\ t.limiter.lastSweep = s.limiter.lastSweep \/ InWindow(s.limiter.times[k], now) # {}
      /\ \A e \in TimesOf(t.limiter, ip) : e \in Entries(r, B) \/ (m \in t.served /\ e = Entry(r[m], m))
      /\ \E e \in TimesOf(t.limiter, ip) : e.at > now - WindowSeconds
      /\ m \in t.served => Entry(r[m], m) \in TimesOf(t.limiter, ip)
      /\ \A j : j # m => (j \in t.served <=> j \in s.served)
      /\ m \in t.served <=> Cardinality(B) < MaxRequests

LEMMA ToldLimited ==
  ASSUME NEW r, InOrder(r), NEW n \in Nat, n + 1 <= Len(r), NEW s, Told(r, s, n), ~r[n + 1].exempt,
         NEW t, Leaves(r, s, n + 1, t)
  PROVE  Told(r, t, n + 1)
<1> DEFINE m == n + 1
           ip == r[m].ip
           now == r[m].at
           B == Before(r, s.served, m)
           old == s.limiter.lastSweep
           new == t.limiter.lastSweep
<1>1. /\ m \in 1..Len(r) /\ m \in Nat /\ now \in Nat \ {0} /\ DOMAIN r = 1..Len(r) /\ Len(r) \in Nat
      /\ \A i \in 1..Len(r) : r[i].at \in Nat \ {0}
      /\ \A i, j \in 1..Len(r) : i <= j => r[i].at <= r[j].at
  BY NumbersAreNat
<1>2. WindowSeconds \in Nat \ {0} /\ MaxRequests \in Nat \ {0}
  BY LimitAssumption
<1>3. m \in Limited(r)
  BY <1>1 DEF Limited
<1>4. \A j \in Limited(r) : /\ j \in 1..Len(r) /\ j \in Nat /\ r[j].at \in Nat \ {0}
                            /\ j <= m => j = m \/ j <= n
                            /\ j <= m => r[j].at <= now
  <2>1. \A j \in Limited(r) : j \in 1..Len(r)
    BY <1>1 DEF Limited
  <2>2. \A j \in 1..Len(r) : j \in Nat /\ (j <= m => j = m \/ j <= n)
    OBVIOUS
  <2>. QED  BY <1>1, <2>1, <2>2
<1>5. /\ old \in Nat /\ old <= now
      /\ \A j \in Limited(r) : j <= n => r[j].at - old < WindowSeconds
  <2>1. /\ old \in Nat
        /\ old = 1 \/ \E j \in Limited(r) : j <= n /\ old = r[j].at
        /\ \A j \in Limited(r) : j <= n => r[j].at - old < WindowSeconds
    BY DEF Told, SweptInTime
  <2>2. CASE old = 1
    BY <1>1, <2>1, <2>2
  <2>3. CASE \E j \in Limited(r) : j <= n /\ old = r[j].at
    <3>1. PICK j \in Limited(r) : j <= n /\ old = r[j].at
      BY <2>3
    <3>2. j <= m
      BY <1>4, <3>1
    <3>. QED  BY <1>4, <2>1, <3>1, <3>2
  <2>. QED  BY <2>1, <2>2, <2>3
<1>6. /\ new \in {old, now} /\ now - new < WindowSeconds
      /\ \A k : InWindow(TimesOf(s.limiter, k), now) \subseteq TimesOf(t.limiter, k)
      /\ \A k \in DOMAIN t.limiter.times : k # ip =>
           /\ k \in DOMAIN s.limiter.times /\ t.limiter.times[k] = s.limiter.times[k]
           /\ new = old \/ InWindow(s.limiter.times[k], now) # {}
  BY DEF Leaves
<1>7. /\ \A e \in TimesOf(t.limiter, ip) : e \in Entries(r, B) \/ (m \in t.served /\ e = Entry(r[m], m))
      /\ \E e \in TimesOf(t.limiter, ip) : e.at > now - WindowSeconds
      /\ m \in t.served => Entry(r[m], m) \in TimesOf(t.limiter, ip)
      /\ \A j : j # m => (j \in t.served <=> j \in s.served)
      /\ m \in t.served <=> Cardinality(B) < MaxRequests
  BY DEF Leaves
<1>8. /\ s.served \subseteq 1..n
      /\ \A i \in 1..n : i \in s.served <=> Allowed(r, s.served, i)
  BY DEF Told, Judged
<1>9. new \in Nat /\ new <= now
  BY <1>1, <1>5, <1>6
<1>10. \A j \in B : j \in Let(r, t.served, ip)
  <2>1. \A j \in B : j \in 1..n /\ r[j].ip = ip /\ ~r[j].exempt /\ j \in s.served
    BY <1>8 DEF Before
  <2>2. \A j \in 1..n : j \in DOMAIN r /\ j # m
    BY <1>1
  <2> HIDE DEF B
  <2>. QED  BY <1>7, <2>1, <2>2 DEF Let, Limited
<1>11. \A k : Let(r, s.served, k) \subseteq Let(r, t.served, k)
  <2>1. m \notin s.served
    BY <1>8
  <2>. QED  BY <1>7, <2>1 DEF Let
<1> HIDE DEF B, old, new, now, m
<1>12. SweptInTime(r, t, m)
  <2>1. new = 1 \/ \E j \in Limited(r) : j <= m /\ new = r[j].at
    <3>1. CASE new = now
      <4>1. m <= m
        BY <1>1
      <4>. QED  BY <1>3, <3>1, <4>1 DEF now
    <3>2. CASE new = old
      <4>1. old = 1 \/ \E j \in Limited(r) : j <= n /\ old = r[j].at
        BY DEF Told, SweptInTime, old
      <4>2. \A j \in Limited(r) : j <= n => j <= m
        BY <1>4 DEF m
      <4>. QED  BY <3>2, <4>1, <4>2
    <3>. QED  BY <1>6, <3>1, <3>2
  <2>2. ASSUME NEW j \in Limited(r), j <= m PROVE r[j].at - new < WindowSeconds
    <3>1. CASE new = now
      BY <1>1, <1>2, <1>4, <2>2, <3>1
    <3>2. CASE new = old /\ j <= n
      BY <1>5, <3>2
    <3>3. CASE j = m
      BY <1>6, <3>3 DEF now
    <3>. QED  BY <1>4, <1>6, <2>2, <3>1, <3>2, <3>3
  <2>. QED  BY <1>9, <2>1, <2>2 DEF SweptInTime, new
<1>13. NobodyIdle(r, t)
  <2> SUFFICES ASSUME NEW k \in DOMAIN t.limiter.times
               PROVE  /\ t.limiter.times[k] \subseteq Entries(r, Let(r, t.served, k))
                      /\ \E e \in t.limiter.times[k] : e.at > new - WindowSeconds
    BY DEF NobodyIdle, new
  <2>1. CASE k = ip
    <3>1. t.limiter.times[k] = TimesOf(t.limiter, ip)
      BY <2>1 DEF TimesOf
    <3>2. Entries(r, B) \subseteq Entries(r, Let(r, t.served, ip))
      BY <1>10 DEF Entries
    <3>3. m \in t.served => Entry(r[m], m) \in Entries(r, Let(r, t.served, ip))
      BY <1>3 DEF Entries, Let
    <3>4. PICK e \in TimesOf(t.limiter, ip) : e.at > now - WindowSeconds
      BY <1>7
    <3>5. e.at \in Nat
      <4>1. \A j \in B : r[j].at \in Nat
        BY <1>4, <1>10 DEF Let
      <4>2. e \in Entries(r, B) \/ e = Entry(r[m], m)
        BY <1>7
      <4>3. CASE e \in Entries(r, B)
        BY <4>1, <4>3 DEF Entries, Entry
      <4>4. CASE e = Entry(r[m], m)
        BY <1>1, <4>4 DEF Entry, now
      <4>. QED  BY <4>2, <4>3, <4>4
    <3>6. e.at > new - WindowSeconds
      BY <1>1, <1>2, <1>9, <3>4, <3>5
    <3>. QED  BY <1>7, <2>1, <3>1, <3>2, <3>3, <3>6
  <2>2. CASE k # ip
    <3>1. /\ k \in DOMAIN s.limiter.times /\ t.limiter.times[k] = s.limiter.times[k]
          /\ new = old \/ InWindow(s.limiter.times[k], now) # {}
      BY <1>6, <2>2
    <3>2. /\ s.limiter.times[k] \subseteq Entries(r, Let(r, s.served, k))
          /\ \E e \in s.limiter.times[k] : e.at > old - WindowSeconds
      BY <3>1 DEF Told, NobodyIdle, old
    <3>3. Entries(r, Let(r, s.served, k)) \subseteq Entries(r, Let(r, t.served, k))
      BY <1>11 DEF Entries
    <3>4. CASE new = old
      BY <3>1, <3>2, <3>3, <3>4
    <3>5. CASE new = now /\ new # old
      <4>1. PICK e \in s.limiter.times[k] : e.at > now - WindowSeconds
        BY <3>1, <3>5 DEF InWindow
      <4>. QED  BY <3>1, <3>2, <3>3, <3>5, <4>1
    <3>. QED  BY <1>6, <3>4, <3>5
  <2>. QED  BY <2>1, <2>2
<1>14. Kept(r, t, m)
  <2> SUFFICES ASSUME NEW k, NEW j \in Let(r, t.served, k)
               PROVE  Entry(r[j], j) \in TimesOf(t.limiter, k) \/ TooOld(r, m, j)
    BY DEF Kept
  <2>1. j \in Limited(r) /\ j \in t.served /\ r[j].ip = k
    BY DEF Let
  <2>2. CASE j = m
    BY <1>7, <2>1, <2>2
  <2>3. CASE j # m
    <3>1. j \in Let(r, s.served, k)
      BY <1>7, <2>1, <2>3 DEF Let
    <3>2. Entry(r[j], j) \in TimesOf(s.limiter, k) \/ TooOld(r, n, j)
      BY <3>1 DEF Told, Kept
    <3>3. CASE TooOld(r, n, j)
      <4>1. \A i \in Limited(r) : i <= n => i <= m
        BY <1>4 DEF m
      <4>. QED  BY <3>3, <4>1 DEF TooOld
    <3>4. CASE Entry(r[j], j) \in TimesOf(s.limiter, k) /\ r[j].at > now - WindowSeconds
      <4>1. Entry(r[j], j) \in InWindow(TimesOf(s.limiter, k), now)
        BY <3>4 DEF InWindow, Entry
      <4>. QED  BY <1>6, <4>1
    <3>5. CASE ~(r[j].at > now - WindowSeconds)
      <4>1. r[j].at <= now - WindowSeconds /\ m <= m
        BY <1>1, <1>2, <1>4, <2>1, <3>5
      <4>. QED  BY <1>3, <4>1 DEF TooOld, now
    <3>. QED  BY <3>2, <3>3, <3>4, <3>5
  <2>. QED  BY <2>2, <2>3
<1>15. Judged(r, t, m)
  <2>1. t.served \subseteq 1..m
    <3>1. \A j \in 1..n : j \in 1..m
      BY DEF m
    <3>2. m \in 1..m
      BY DEF m
    <3>. QED  BY <1>7, <1>8, <3>1, <3>2
  <2>2. ASSUME NEW i \in 1..m PROVE i \in t.served <=> Allowed(r, t.served, i)
    <3>1. i \in Nat /\ \A j \in 1..(i - 1) : j # m
      BY DEF m
    <3>2. \A j \in 1..(i - 1) : j \in t.served <=> j \in s.served
      BY <1>7, <3>1
    <3>3. Before(r, t.served, i) = Before(r, s.served, i) /\ (Allowed(r, t.served, i) <=> Allowed(r, s.served, i))
      BY <3>1, <3>2, BeforeIsPast
    <3>4. CASE i = m
      BY <1>3, <1>7, <3>3, <3>4 DEF Allowed, Limited, B
    <3>5. CASE i # m
      <4>1. i \in 1..n
        BY <3>5 DEF m
      <4>. QED  BY <1>7, <1>8, <3>3, <3>5, <4>1
    <3>. QED  BY <3>4, <3>5
  <2>. QED  BY <2>1, <2>2 DEF Judged
<1>. QED  BY <1>12, <1>13, <1>14, <1>15 DEF Told, m

\* Dispatch leaves the limiter so: a refused request adds nothing, but the
\* requests it is refused for are recent.
LEMMA DispatchLeaves ==
  ASSUME NEW r, InOrder(r), NEW n \in Nat, n + 1 <= Len(r), NEW s, Told(r, s, n), ~r[n + 1].exempt
  PROVE  Leaves(r, s, n + 1, Dispatch(s, r[n + 1], n + 1))
<1> DEFINE m == n + 1
           ip == r[m].ip
           now == r[m].at
           B == Before(r, s.served, m)
           L == s.limiter
           c == Cleanup(SweepIdleClients(L, now), ip, now)
           t == Dispatch(s, r[m], m)
           known == c.times[ip]
<1>1. m \in 1..Len(r) /\ m \in Nat /\ now \in Nat \ {0}
  BY NumbersAreNat
<1>2. WindowSeconds \in Nat \ {0} /\ MaxRequests \in Nat \ {0}
  BY LimitAssumption
<1>3. L.lastSweep \in Int /\ s.served \subseteq 1..n
  BY DEF Told, SweptInTime, Judged
<1>4. now \in Int
  BY <1>1
<1>5. /\ c.lastSweep \in {L.lastSweep, now} /\ now - c.lastSweep < WindowSeconds
      /\ ip \in DOMAIN c.times /\ known = InWindow(TimesOf(L, ip), now)
      /\ \A k \in DOMAIN c.times : k # ip =>
           /\ k \in DOMAIN L.times /\ c.times[k] = L.times[k]
           /\ c.lastSweep = L.lastSweep \/ InWindow(L.times[k], now) # {}
      /\ \A k : InWindow(TimesOf(L, k), now) \subseteq TimesOf(c, k)
  <2> HIDE DEF L, now, ip
  <2>. QED  BY <1>3, <1>4, PruneKeepsRecent
<1>6. known = Entries(r, B)
  BY <1>5, CountsWhatWasLetThrough
<1>7. IsFiniteSet(B) /\ Cardinality(known) = Cardinality(B) /\ Cardinality(B) \in Nat
  <2>1. IsFiniteSet(B)
    BY <1>1, BeforeFinite
  <2> HIDE DEF B, known
  <2>. QED  BY <1>6, <2>1, EntriesCount, FS_CardinalityType
<1>8. t = IF Cardinality(known) >= MaxRequests THEN [limiter |-> c, served |-> s.served]
          ELSE [limiter |-> WithTimes(c, ip, known \cup {Entry(r[m], m)}), served |-> s.served \cup {m}]
  BY DEF Dispatch
<1>9. TimesOf(c, ip) = known /\ m \notin s.served
  BY <1>3, <1>5 DEF TimesOf
<1>10. \A e \in known : e.at > now - WindowSeconds
  BY <1>5 DEF InWindow
<1> HIDE DEF B, c, t, known, L
<1>11. CASE Cardinality(known) >= MaxRequests
  <2>1. t.limiter = c /\ t.served = s.served
    BY <1>8, <1>11
  <2>2. \E e \in known : e.at > now - WindowSeconds
    <3>1. known # {}
      <4>1. Cardinality({}) = 0
        BY FS_EmptySet
      <4>2. PICK k \in Nat : k = Cardinality(known) /\ k >= MaxRequests /\ MaxRequests # 0
        BY <1>2, <1>7, <1>11
      <4>3. MaxRequests \in Nat
        BY <1>2
      <4>4. k # 0
        BY <4>2, <4>3
      <4>. QED  BY ONLY <4>1, <4>2, <4>4
    <3>. QED  BY <1>10, <3>1
  <2>3. ~(Cardinality(B) < MaxRequests)
    BY <1>2, <1>7, <1>11
  <2> HIDE DEF ip, now, m
  <2>4. m \notin t.served
    BY <1>9, <2>1
  <2>. QED  BY <1>5, <1>6, <1>9, <2>1, <2>2, <2>3, <2>4 DEF Leaves, m, ip, now, B, L, t
<1>12. CASE ~(Cardinality(known) >= MaxRequests)
  <2> DEFINE w == WithTimes(c, ip, known \cup {Entry(r[m], m)})
  <2>1. t.limiter = w /\ t.served = s.served \cup {m}
    BY <1>8, <1>12
  <2>2. /\ w.lastSweep = c.lastSweep /\ DOMAIN w.times = DOMAIN c.times \cup {ip}
        /\ TimesOf(w, ip) = known \cup {Entry(r[m], m)}
        /\ \A k : k # ip => TimesOf(w, k) = TimesOf(c, k)
        /\ \A k \in DOMAIN w.times : k # ip => k \in DOMAIN c.times /\ w.times[k] = c.times[k]
    <3> HIDE DEF ip
    <3>. QED  BY WithTimesIs
  <2> HIDE DEF w
  <2>3. Cardinality(B) < MaxRequests
    BY <1>2, <1>7, <1>12
  <2>4. Entry(r[m], m).at > now - WindowSeconds
    <3>1. Entry(r[m], m).at = now
      BY DEF Entry
    <3> HIDE DEF now
    <3>. QED  BY <1>1, <1>2, <3>1
  <2>5. \A k : InWindow(TimesOf(L, k), now) \subseteq TimesOf(w, k)
    <3> SUFFICES ASSUME NEW k PROVE InWindow(TimesOf(L, k), now) \subseteq TimesOf(w, k)
      OBVIOUS
    <3>. QED  BY <1>5, <2>2
  <2> HIDE DEF ip, now, m
  <2>6. /\ t.limiter.lastSweep \in {L.lastSweep, now} /\ now - t.limiter.lastSweep < WindowSeconds
        /\ \A k : InWindow(TimesOf(L, k), now) \subseteq TimesOf(t.limiter, k)
        /\ \A k \in DOMAIN t.limiter.times : k # ip =>
           /\ k \in DOMAIN L.times /\ t.limiter.times[k] = L.times[k]
           /\ t.limiter.lastSweep = L.lastSweep \/ InWindow(L.times[k], now) # {}
    BY <1>5, <2>1, <2>2, <2>5
  <2>7. /\ \A e \in TimesOf(t.limiter, ip) : e \in Entries(r, B) \/ (m \in t.served /\ e = Entry(r[m], m))
        /\ \E e \in TimesOf(t.limiter, ip) : e.at > now - WindowSeconds
        /\ m \in t.served => Entry(r[m], m) \in TimesOf(t.limiter, ip)
        /\ \A j : j # m => (j \in t.served <=> j \in s.served)
        /\ m \in t.served <=> Cardinality(B) < MaxRequests
    BY <1>6, <2>1, <2>2, <2>3, <2>4
  <2>. QED  BY <2>6, <2>7 DEF Leaves, m, ip, now, B, L, t
<1>. QED  BY <1>11, <1>12

LEMMA ToldAlways ==
  ASSUME NEW r, InOrder(r), NEW n \in Nat, n <= Len(r)
  PROVE  Told(r, DispatchedTo(r, 1, n), n)
<1> DEFINE T == {k \in Nat : k <= Len(r) => Told(r, DispatchedTo(r, 1, k), k)}
<1>1. 0 \in T
  BY ToldAtStart, DispatchedUnfolds
<1>2. ASSUME NEW k \in Nat, k \in T PROVE k + 1 \in T
  <2> SUFFICES ASSUME k + 1 <= Len(r) PROVE Told(r, DispatchedTo(r, 1, k + 1), k + 1)
    OBVIOUS
  <2> DEFINE s == DispatchedTo(r, 1, k)
             t == Dispatch(s, r[k + 1], k + 1)
  <2>1. Len(r) \in Nat
    BY NumbersAreNat
  <2>2. Told(r, s, k)
    BY <1>2, <2>1
  <2>3. DispatchedTo(r, 1, k + 1) = t
    BY DispatchedUnfolds
  <2>4. CASE r[k + 1].exempt
    <3>1. t.limiter = s.limiter /\ t.served = s.served \cup {k + 1}
      BY <2>4 DEF Dispatch
    <3> HIDE DEF s, t
    <3>. QED  BY <2>2, <2>3, <2>4, <3>1, ToldExempt
  <2>5. CASE ~r[k + 1].exempt
    <3> HIDE DEF s
    <3>1. Leaves(r, s, k + 1, t)
      BY <2>2, <2>5, DispatchLeaves
    <3> HIDE DEF t
    <3>. QED  BY <2>2, <2>3, <2>5, <3>1, ToldLimited
  <2>. QED  BY <2>4, <2>5
<1>3. \A k \in Nat : k \in T
  <2> HIDE DEF T
  <2>. QED  BY <1>1, <1>2, NatSetInduction
<1>. QED  BY <1>3

\* Of any requests, in whichever order the addresses ask and whenever the sweeps
\* come: a request is refused just when its address was let through as often
\* as allowed in the window before, and an address goes within two windows
\* (RateLimitMiddleware.dispatch).
THEOREM AnyLimitIsExact == Spec => []LimitIsExact
<1>1. InputOK => LimitIsExact
  <2> SUFFICES ASSUME InputOK, Is("requests") PROVE LimitIsExact
    BY DEF LimitIsExact
  <2> DEFINE r == input.value
             end == Dispatched(r, 1)
             now == Max({1} \cup {r[i].at : i \in {k \in DOMAIN r : ~r[k].exempt}})
  <2>1. "requests" \in DOMAIN Inputs /\ r \in Inputs["requests"]
    BY DEF InputOK, Is, Idle
  <2>2. InOrder(r)
    BY <2>1, RequestsAssumption
  <2>3. /\ Len(r) \in Nat /\ DOMAIN r = 1..Len(r)
        /\ \A i \in 1..Len(r) : r[i].at \in Nat \ {0}
        /\ \A i, j \in 1..Len(r) : i <= j => r[i].at <= r[j].at
    BY <2>2, NumbersAreNat
  <2> HIDE DEF r
  <2>4. Told(r, end, Len(r))
    BY <2>2, <2>3, ToldAlways DEF Dispatched
  <2> HIDE DEF end
  <2>5. \A i \in DOMAIN r : i \in end.served <=> r[i].exempt \/ Cardinality(Before(r, end.served, i)) < MaxRequests
    BY <2>3, <2>4 DEF Told, Judged, Allowed
  <2>6. now \in Nat /\ now - end.limiter.lastSweep < WindowSeconds
    <3> DEFINE S == {1} \cup {r[i].at : i \in {k \in DOMAIN r : ~r[k].exempt}}
    <3>1. \A x \in S : x = 1 \/ \E i \in Limited(r) : x = r[i].at
      BY DEF Limited
    <3>2. \A i \in Limited(r) : i \in 1..Len(r) /\ r[i].at \in Nat /\ i <= Len(r) /\ r[i].at <= r[Len(r)].at
      <4>1. \A i \in 1..Len(r) : i <= Len(r) /\ Len(r) \in 1..Len(r)
        BY <2>3
      <4>. QED  BY <2>3, <4>1 DEF Limited
    <3> HIDE DEF S
    <3>3. PICK top \in Nat : \A x \in S : x <= top
      <4>1. CASE Limited(r) = {}
        BY <3>1, <4>1
      <4>2. CASE Limited(r) # {}
        <5>1. r[Len(r)].at \in Nat \ {0}
          <6>1. Len(r) \in 1..Len(r)
            BY <2>3, <3>2, <4>2
          <6>. QED  BY <2>3, <6>1
        <5>2. 1 <= r[Len(r)].at
          BY <5>1
        <5>. QED  BY <3>1, <3>2, <5>1, <5>2
      <4>. QED  BY <4>1, <4>2
    <3>4. S \in SUBSET Int /\ S # {} /\ top \in Int
      BY <3>1, <3>2 DEF S
    <3>5. Max(S) \in S
      BY <3>3, <3>4, BoundedSetHasMax
    <3>6. /\ end.limiter.lastSweep \in Nat /\ end.limiter.lastSweep >= 1
          /\ \A j \in Limited(r) : j <= Len(r) => r[j].at - end.limiter.lastSweep < WindowSeconds
      <4>1. /\ end.limiter.lastSweep \in Nat
            /\ end.limiter.lastSweep = 1 \/ \E j \in Limited(r) : end.limiter.lastSweep = r[j].at
            /\ \A j \in Limited(r) : j <= Len(r) => r[j].at - end.limiter.lastSweep < WindowSeconds
        BY <2>4 DEF Told, SweptInTime
      <4>2. \A j \in Limited(r) : r[j].at >= 1
        BY <2>3, <3>2
      <4>. QED  BY <4>1, <4>2
    <3>7. WindowSeconds \in Nat \ {0} /\ now = Max(S)
      BY LimitAssumption DEF S
    <3> HIDE DEF now
    <3>8. CASE now = 1
      BY <3>6, <3>7, <3>8
    <3>9. CASE \E i \in Limited(r) : now = r[i].at
      BY <3>2, <3>6, <3>9
    <3>. QED  BY <3>1, <3>5, <3>7, <3>8, <3>9
  <2> HIDE DEF now
  <2>7. ASSUME NEW ip \in DOMAIN end.limiter.times
        PROVE  \E t \in end.limiter.times[ip] : t.at > now - 2 * WindowSeconds
    <3>1. /\ end.limiter.times[ip] \subseteq Entries(r, Let(r, end.served, ip))
          /\ \E t \in end.limiter.times[ip] : t.at > end.limiter.lastSweep - WindowSeconds
      BY <2>4, <2>7 DEF Told, NobodyIdle
    <3>2. PICK t \in end.limiter.times[ip] : t.at > end.limiter.lastSweep - WindowSeconds
      BY <3>1
    <3>3. t.at \in Nat
      <4>1. \A j \in Let(r, end.served, ip) : r[j].at \in Nat
        BY <2>3 DEF Let, Limited
      <4>. QED  BY <3>1, <3>2, <4>1 DEF Entries, Entry
    <3>4. end.limiter.lastSweep \in Nat /\ WindowSeconds \in Nat
      BY <2>4, LimitAssumption DEF Told, SweptInTime
    <3>. QED  BY <2>6, <3>2, <3>3, <3>4
  <2>. QED  BY <2>5, <2>7 DEF LimitIsExact, Before, r, end, now
<1>. QED  BY <1>1, InputsAreGiven, PTL

-----------------------------------------------------------------------------
(* The gates of a strategy.                                                  *)

\* What an engine says of the rules that are listed for it.
LEMMA ResultsOfEngines ==
  ASSUME NEW s, NEW all
  PROVE  LET results == EngineResults(s, all)
         IN  /\ DOMAIN results = DOMAIN s
             /\ \A i \in DOMAIN s :
                  /\ DOMAIN results[i].rules = {r \in DOMAIN all[s[i].id] : Included(s[i], r)}
                  /\ \A r \in DOMAIN results[i].rules : results[i].rules[r] = all[s[i].id][r]
                  /\ results[i].passedGate = PassedGate(s[i], results[i].rules)
                  /\ results[i].score = EngineScore(s[i].id, results[i].rules)
BY DEF EngineResults, EngineResult, Selected

\* A gate is passed with all of its rules, of which it has some.
LEMMA GatesAreTemplates ==
  ASSUME NEW s, NEW all, AsShipped(s, all), NEW i \in DOMAIN s, s[i].gate
  PROVE  LET rules == EngineResults(s, all)[i].rules
         IN  /\ s[i].id = "trend_template" /\ DOMAIN rules # {}
             /\ DOMAIN rules = s[i].rules \cap DOMAIN all[s[i].id]
             /\ EngineResults(s, all)[i].passedGate <=> \A r \in DOMAIN rules : rules[r].passed
<1> DEFINE rules == EngineResults(s, all)[i].rules
<1>1. s[i].id = "trend_template" /\ s[i].rules \cap DOMAIN all["trend_template"] # {}
  BY DEF AsShipped
<1>2. /\ DOMAIN rules = {r \in DOMAIN all[s[i].id] : Included(s[i], r)}
      /\ EngineResults(s, all)[i].passedGate = PassedGate(s[i], rules)
  BY ResultsOfEngines
<1> HIDE DEF rules
<1>3. DOMAIN rules = s[i].rules \cap DOMAIN all[s[i].id]
  BY <1>1, <1>2 DEF Included
<1>4. DOMAIN rules # {}
  BY <1>1, <1>3
<1>5. PassedGate(s[i], rules) <=> \A r \in DOMAIN rules : rules[r].passed
  BY <1>1, <1>4 DEF PassedGate, AllPass
<1>. QED  BY <1>1, <1>2, <1>3, <1>4, <1>5 DEF rules

\* A rule that blocks is one of the engine that lists it.
LEMMA BlockingRules ==
  ASSUME NEW s, NEW all, AsShipped(s, all), NEW i \in DOMAIN s,
         NEW r \in DOMAIN EngineResults(s, all)[i].rules
  PROVE  r \in GateRuleIds(s) <=>
           IF s[i].gate THEN r \in s[i].rules ELSE r \in s[i].ruleGates
<1>1. r \in DOMAIN all[s[i].id]
  BY ResultsOfEngines
<1>2. r \in GateRuleIds(s) <=> \E j \in DOMAIN s : r \in IF s[j].gate THEN s[j].rules ELSE s[j].ruleGates
  BY DEF GateRuleIds, AsShipped
<1>3. \A j \in DOMAIN s : (r \in IF s[j].gate THEN s[j].rules ELSE s[j].ruleGates) => r \in s[j].rules
  BY DEF AsShipped
<1>4. \A j \in DOMAIN s : r \in s[j].rules => j = i
  BY <1>1 DEF AsShipped
<1>. QED  BY <1>2, <1>3, <1>4

\* Of any results of a strategy of the shape of those shipped: it passes the hard
\* filters just when no rule is named as blocking (scoring_engine.py and the
\* explanation builder each read the gates for themselves).
LEMMA GatesAgree ==
  ASSUME NEW s, NEW all, AsShipped(s, all)
  PROVE  LET results == EngineResults(s, all)
         IN  HardFiltersPassed(s, results) <=> HardFilterFailures(s, results) = {}
<1> DEFINE results == EngineResults(s, all)
           Blocks(i, r) == IF s[i].gate THEN r \in s[i].rules ELSE r \in s[i].ruleGates
<1>1. DOMAIN results = DOMAIN s
  BY ResultsOfEngines
<1>2. \A i \in DOMAIN s : \A r \in DOMAIN results[i].rules : r \in GateRuleIds(s) <=> Blocks(i, r)
  BY BlockingRules
<1>3. HardFilterFailures(s, results) = {} <=>
        \A i \in DOMAIN s : \A r \in DOMAIN results[i].rules : Blocks(i, r) => results[i].rules[r].passed
  <2> HIDE DEF results, Blocks
  <2>. QED  BY <1>1, <1>2 DEF HardFilterFailures
<1>4. \A i \in DOMAIN s : s[i].gate =>
        /\ \A r \in DOMAIN results[i].rules : r \in s[i].rules
        /\ results[i].passedGate <=> \A r \in DOMAIN results[i].rules : results[i].rules[r].passed
  BY GatesAreTemplates
<1>5. HardFiltersPassed(s, results) <=>
        \A i \in DOMAIN s :
          /\ s[i].gate => results[i].passedGate
          /\ \A r \in DOMAIN results[i].rules \cap s[i].ruleGates : results[i].rules[r].passed
  BY DEF HardFiltersPassed, AsShipped
<1>6. \A i \in DOMAIN s : s[i].gate \in BOOLEAN /\ s[i].ruleGates \subseteq s[i].rules
  BY DEF AsShipped
<1> HIDE DEF results
<1>7. ASSUME NEW i \in DOMAIN s
      PROVE  (/\ s[i].gate => results[i].passedGate
              /\ \A r \in DOMAIN results[i].rules \cap s[i].ruleGates : results[i].rules[r].passed)
             <=> \A r \in DOMAIN results[i].rules : Blocks(i, r) => results[i].rules[r].passed
  <2>1. CASE s[i].gate
    BY <1>4, <2>1
  <2>2. CASE ~s[i].gate
    BY <2>2
  <2>. QED  BY <2>1, <2>2
<1> HIDE DEF Blocks
<1>8. HardFiltersPassed(s, results) <=> HardFilterFailures(s, results) = {}
  BY <1>3, <1>5, <1>7
<1>. QED  BY <1>8 DEF results

\* Whatever the rules say of a security, its explanation and its verdict agree
\* (ScoringEngine and the explanation builder read the gates each for itself).
THEOREM AnyGateStoryAgrees == Spec => []GateStoryAgrees
<1>1. InputOK => GateStoryAgrees
  <2> SUFFICES ASSUME InputOK, Is("gate") PROVE GateStoryAgrees
    BY DEF GateStoryAgrees
  <2> DEFINE s == input.value.strategy
             all == input.value.results
             results == EngineResults(s, all)
             passed == HardFiltersPassed(s, results)
  <2>1. "gate" \in DOMAIN Inputs /\ input.value \in Inputs["gate"]
    BY DEF InputOK, Is, Idle
  <2>2. AsShipped(s, all)
    BY <2>1, StrategiesAssumption
  <2>3. passed <=> HardFilterFailures(s, results) = {}
    BY <2>2, GatesAgree
  <2>4. GateSentence(s, results, passed) # "does not clear"
    BY <2>3 DEF GateSentence
  <2>. QED  BY <2>3, <2>4 DEF GateStoryAgrees
<1>. QED  BY <1>1, InputsAreGiven, PTL

-----------------------------------------------------------------------------
(* Scores with and without the gates.                                        *)

\* The weight of a rule is positive.
LEMMA WeightsArePositive ==
  ASSUME NEW r
  PROVE  RuleWeight(r) \in Nat \ {0}
<1>1. CASE r \in {"tt_rs_rating_min", "bo_pivot_breakout"}
  BY <1>1 DEF RuleWeight
<1>2. CASE r = "rs_rating"
  BY <1>2 DEF RuleWeight
<1>3. CASE r \in {"bo_false_breakout", "rs_industry_relative", "risk_atr"}
  BY <1>3 DEF RuleWeight
<1>4. CASE r \notin {"tt_rs_rating_min", "bo_pivot_breakout", "rs_rating",
                     "bo_false_breakout", "rs_industry_relative", "risk_atr"}
  BY <1>4 DEF RuleWeight
<1>. QED  BY <1>1, <1>2, <1>3, <1>4

\* The score of an engine is a number, and that of a trend template all of
\* whose rules pass is 100.
LEMMA ScoreOfEngine ==
  ASSUME NEW id, NEW rules, IsFiniteSet(DOMAIN rules), \A r \in DOMAIN rules : rules[r].part \in Int
  PROVE  /\ EngineScore(id, rules) \in Int
         /\ (id = "trend_template" /\ DOMAIN rules # {} /\ \A r \in DOMAIN rules : rules[r].passed)
            => EngineScore(id, rules) = 100
<1> DEFINE D == DOMAIN rules
           weight == [r \in D |-> IF id = "trend_template" THEN 1 ELSE RuleWeight(r)]
           Part(r) == IF id = "trend_template" THEN (IF rules[r].passed THEN 100 ELSE 0)
                      ELSE rules[r].part
           parts == [r \in D |-> weight[r] * Part(r)]
           total == Sum(weight, D)
<1>1. EngineScore(id, rules) = IF total = 0 THEN 0 ELSE Sum(parts, D) \div total
  <2>1. SumFunction(weight) = total /\ SumFunction(parts) = Sum(parts, D)
    BY SumFunctionIsSum
  <2>. QED  BY <2>1 DEF EngineScore
<1>2. \A r \in D : weight[r] \in Nat /\ Part(r) \in Int
  BY WeightsArePositive
<1>3. \A r \in D : parts[r] = weight[r] * Part(r) /\ parts[r] \in Int
  BY <1>2
<1>4. total \in Nat
  <2> HIDE DEF weight
  <2>. QED  BY <1>2, SumOfNaturals
<1>5. Sum(parts, D) \in Int
  <2> HIDE DEF parts
  <2>1. Summable(parts, D)
    BY <1>3 DEF Summable
  <2>. QED  BY <2>1, SumUnfolds
<1>6. EngineScore(id, rules) \in Int
  <2> HIDE DEF total, parts, D
  <2>. QED  BY <1>1, <1>4, <1>5
<1>7. ASSUME id = "trend_template", D # {}, \A r \in D : rules[r].passed
      PROVE  EngineScore(id, rules) = 100
  <2>1. \A r \in D : weight[r] = 1 /\ parts[r] = 100
    BY <1>7
  <2> HIDE DEF weight, parts
  <2>2. total = Cardinality(D) * 1 /\ Sum(parts, D) = Cardinality(D) * 100
    BY <2>1, SumOfConstant
  <2>3. Cardinality(D) \in Nat \ {0}
    BY <1>7, FS_CardinalityType, FS_EmptySet
  <2> HIDE DEF D, total
  <2>4. \A n \in Nat \ {0} : n * 1 = n /\ (n * 100) \div n = 100
    OBVIOUS
  <2>5. total = Cardinality(D)
    BY <2>2, <2>3, <2>4
  <2>. QED  BY <1>1, <2>2, <2>3, <2>4, <2>5
<1>. QED  BY <1>6, <1>7

\* With all weights one a score is the mean of the engines that are no gates.
Ranked(t) == {i \in DOMAIN t : ~t[i].gate}

Alike(t, weights) == \A i \in DOMAIN t : weights[t[i].id] = 1

Lists(score, results, S) == \A i \in S : score[i] = results[i].score /\ score[i] \in Int

MeanOver(score, S) == IF S = {} THEN 0 ELSE Sum(score, S) \div Cardinality(S)

LEMMA ScoreIsMean ==
  ASSUME NEW t, IsFiniteSet(DOMAIN t), NEW results, NEW weights, Alike(t, weights),
         NEW score, Lists(score, results, DOMAIN t)
  PROVE  WeightedScore(t, results, weights) = MeanOver(score, Ranked(t))
<1> USE DEF Alike, Lists, Ranked
<1> DEFINE ranked == Ranked(t)
           weight == [i \in ranked |-> weights[t[i].id]]
           weighted == [i \in ranked |-> weight[i] * results[i].score]
<1>1. WeightedScore(t, results, weights)
        = IF Sum(weight, ranked) = 0 THEN 0 ELSE Sum(weighted, ranked) \div Sum(weight, ranked)
  <2>1. SumFunction(weight) = Sum(weight, ranked) /\ SumFunction(weighted) = Sum(weighted, ranked)
    BY SumFunctionIsSum
  <2>. QED  BY <2>1 DEF WeightedScore
<1>2. IsFiniteSet(ranked)
  BY FS_Subset
<1>3. \A i \in ranked : weight[i] = 1 /\ weighted[i] = score[i]
  <2>1. \A x \in Int : 1 * x = x
    OBVIOUS
  <2>. QED  BY <2>1
<1> HIDE DEF weight, weighted
<1>4. Sum(weight, ranked) = Cardinality(ranked)
  <2>1. Sum(weight, ranked) = Cardinality(ranked) * 1 /\ Cardinality(ranked) \in Nat
    BY <1>2, <1>3, SumOfConstant, FS_CardinalityType
  <2>. QED  BY <2>1
<1>5. Sum(score, ranked) = Sum(weighted, ranked)
  <2>1. Summable(score, ranked)
    BY <1>2 DEF Summable
  <2>. QED  BY <1>3, <2>1, SumCongruent
<1>6. Cardinality(ranked) = 0 <=> ranked = {}
  BY <1>2, FS_EmptySet
<1> HIDE DEF ranked
<1>7. WeightedScore(t, results, weights) = MeanOver(score, ranked)
  BY <1>1, <1>4, <1>5, <1>6 DEF MeanOver
<1>. QED  BY <1>7 DEF ranked

\* Adding what is the same for both never turns the two around.
LEMMA MeansAgree ==
  ASSUME NEW D, IsFiniteSet(D), NEW ranked \in SUBSET D, ranked # {},
         NEW one, NEW two, \A i \in D : one[i] \in Int /\ two[i] \in Int,
         \A i \in D \ ranked : one[i] = two[i],
         Sum(one, ranked) \div Cardinality(ranked) > Sum(two, ranked) \div Cardinality(ranked)
  PROVE  Sum(one, D) \div Cardinality(D) >= Sum(two, D) \div Cardinality(D)
<1> DEFINE rest == D \ ranked
           Mean1(sum, S) == sum \div Cardinality(S)
<1>1. IsFiniteSet(ranked) /\ Cardinality(ranked) \in Nat \ {0} /\ Cardinality(D) \in Nat \ {0}
  BY FS_Subset, FS_CardinalityType, FS_EmptySet
<1>2. Summable(one, D) /\ Summable(two, D)
  BY DEF Summable
<1>3. /\ \A U \in SUBSET D : Summable(one, U) /\ Sum(one, U) \in Int
      /\ \A U \in SUBSET D : Summable(two, U) /\ Sum(two, U) \in Int
  BY <1>2, SumOfPart
<1>4. ranked \cup rest = D /\ ranked \cap rest = {} /\ rest \in SUBSET D /\ D \in SUBSET D
  OBVIOUS
<1>5. /\ Sum(one, D) = Sum(one, ranked) + Sum(one, rest)
      /\ Sum(two, D) = Sum(two, ranked) + Sum(two, rest)
  <2>1. Sum(one, ranked \cup rest) = Sum(one, ranked) + Sum(one, rest)
    BY <1>2, <1>4, SumUnion
  <2>2. Sum(two, ranked \cup rest) = Sum(two, ranked) + Sum(two, rest)
    BY <1>2, <1>4, SumUnion
  <2>. QED  BY <1>4, <2>1, <2>2
<1>6. Sum(one, rest) = Sum(two, rest)
  BY <1>3, <1>4, SumCongruent
<1>7. Sum(one, ranked) > Sum(two, ranked)
  <2> SUFFICES ASSUME Sum(one, ranked) <= Sum(two, ranked) PROVE FALSE
    BY <1>3
  <2>1. Sum(one, ranked) \div Cardinality(ranked) <= Sum(two, ranked) \div Cardinality(ranked)
    BY <1>1, <1>3, QuotientsFollow
  <2>2. /\ Sum(one, ranked) \div Cardinality(ranked) \in Int
        /\ Sum(two, ranked) \div Cardinality(ranked) \in Int
    BY <1>1, <1>3, QuotientBounds
  <2> DEFINE x == Sum(one, ranked) \div Cardinality(ranked)
             y == Sum(two, ranked) \div Cardinality(ranked)
  <2>3. x > y /\ x <= y /\ x \in Int /\ y \in Int
    BY <2>1, <2>2
  <2> HIDE DEF x, y
  <2>. QED  BY <2>3
<1>8. Sum(two, D) <= Sum(one, D) /\ Sum(two, D) \in Int /\ Sum(one, D) \in Int
  <2>1. /\ Sum(one, ranked) \in Int /\ Sum(one, rest) \in Int
        /\ Sum(two, ranked) \in Int /\ Sum(two, rest) \in Int
    BY <1>3, <1>4
  <2> HIDE DEF rest
  <2>. QED  BY <1>5, <1>6, <1>7, <2>1
<1>9. Sum(two, D) \div Cardinality(D) <= Sum(one, D) \div Cardinality(D)
  BY <1>1, <1>8, QuotientsFollow
<1>10. /\ Sum(one, D) \div Cardinality(D) \in Int
       /\ Sum(two, D) \div Cardinality(D) \in Int
  BY <1>1, <1>8, QuotientBounds
<1> DEFINE x == Sum(one, D) \div Cardinality(D)
           y == Sum(two, D) \div Cardinality(D)
<1>11. y <= x /\ x \in Int /\ y \in Int
  BY <1>9, <1>10
<1> HIDE DEF x, y
<1>12. x >= y
  BY <1>11
<1>. QED  BY <1>12 DEF x, y

\* What the ranking compares: the engines' scores are numbers, and the gates of
\* a security that passes score 100.
LEMMA ScoresOfPassing ==
  ASSUME NEW s, NEW all, AsShipped(s, all), NEW i \in DOMAIN s
  PROVE  LET results == EngineResults(s, all)
         IN  /\ results[i].score \in Int
             /\ HardFiltersPassed(s, results) /\ s[i].gate => results[i].score = 100
<1> DEFINE results == EngineResults(s, all)
           rules == results[i].rules
<1>1. /\ DOMAIN rules = {r \in DOMAIN all[s[i].id] : Included(s[i], r)}
      /\ \A r \in DOMAIN rules : rules[r] = all[s[i].id][r]
      /\ results[i].score = EngineScore(s[i].id, rules)
  BY ResultsOfEngines
<1>2. /\ IsFiniteSet(DOMAIN all[s[i].id])
      /\ \A r \in DOMAIN all[s[i].id] : all[s[i].id][r].part \in Int
      /\ HasGate(s)
  BY DEF AsShipped
<1>3. HardFiltersPassed(s, results) /\ s[i].gate => results[i].passedGate
  BY <1>2 DEF HardFiltersPassed
<1>4. s[i].gate => /\ s[i].id = "trend_template" /\ DOMAIN rules # {}
                   /\ results[i].passedGate <=> \A r \in DOMAIN rules : rules[r].passed
  BY GatesAreTemplates
<1> HIDE DEF results, rules
<1>5. IsFiniteSet(DOMAIN rules) /\ \A r \in DOMAIN rules : rules[r].part \in Int
  BY <1>1, <1>2, FS_Subset
<1>6. /\ EngineScore(s[i].id, rules) \in Int
      /\ (s[i].id = "trend_template" /\ DOMAIN rules # {} /\ \A r \in DOMAIN rules : rules[r].passed)
         => EngineScore(s[i].id, rules) = 100
  BY <1>5, ScoreOfEngine
<1>7. /\ results[i].score \in Int
      /\ HardFiltersPassed(s, results) /\ s[i].gate => results[i].score = 100
  BY <1>1, <1>3, <1>4, <1>6
<1>. QED  BY <1>7 DEF results

Score(s, t, results) == WeightedScore(t, results, [e \in {s[i].id : i \in DOMAIN s} |-> 1])

Open(s) == [i \in DOMAIN s |-> [s[i] EXCEPT !.gate = FALSE]]

\* Of two securities that pass, the one ahead is not behind when the gates are
\* counted in (scoring_engine.py: "provably rank-neutral").
LEMMA GatesAreNeutral ==
  ASSUME NEW s, NEW a, NEW b, AsShipped(s, a), AsShipped(s, b),
         NEW one, one = EngineResults(s, a), NEW two, two = EngineResults(s, b),
         HardFiltersPassed(s, one), HardFiltersPassed(s, two),
         Score(s, s, one) > Score(s, s, two)
  PROVE  Score(s, Open(s), one) >= Score(s, Open(s), two)
<1> DEFINE D == DOMAIN s
           weights == [e \in {s[i].id : i \in D} |-> 1]
           ranked == {i \in D : ~s[i].gate}
           f == [i \in D |-> one[i].score]
           g == [i \in D |-> two[i].score]
<1>1. IsFiniteSet(D) /\ D # {}
  <2>1. D = 1..Len(s) /\ Len(s) \in Nat \ {0}
    BY DEF AsShipped
  <2> HIDE DEF D
  <2>2. IsFiniteSet(1..Len(s)) /\ 1 \in 1..Len(s)
    BY <2>1, FS_Interval
  <2>. QED  BY <2>1, <2>2
<1>2. \A i \in D : /\ one[i].score \in Int /\ two[i].score \in Int
                   /\ s[i].gate => one[i].score = 100 /\ two[i].score = 100
  BY ScoresOfPassing
<1>3. \A i \in D : s[i].gate \in BOOLEAN /\ "id" \in DOMAIN s[i] /\ "gate" \in DOMAIN s[i]
  BY DEF AsShipped
<1>4. /\ DOMAIN Open(s) = D
      /\ \A i \in D : ~Open(s)[i].gate /\ Open(s)[i].id = s[i].id
  BY <1>3 DEF Open
<1>5. /\ \A i \in DOMAIN s : weights[s[i].id] = 1
      /\ \A i \in DOMAIN Open(s) : weights[Open(s)[i].id] = 1
  BY <1>4
<1>6. {i \in DOMAIN Open(s) : ~Open(s)[i].gate} = D
  BY <1>4
<1>7. /\ \A i \in D : f[i] = one[i].score /\ f[i] \in Int
      /\ \A i \in D : g[i] = two[i].score /\ g[i] \in Int
      /\ \A i \in D \ ranked : f[i] = g[i]
  BY <1>2
<1>8. ranked \in SUBSET D /\ IsFiniteSet(DOMAIN s) /\ IsFiniteSet(DOMAIN Open(s))
  BY <1>1, <1>4
<1> DEFINE open == Open(s)
<1> HIDE DEF weights, f, g
<1>9. WeightedScore(s, one, weights) = MeanOver(f, ranked) /\ WeightedScore(s, two, weights) = MeanOver(g, ranked)
  <2>1. Lists(f, one, DOMAIN s) /\ Lists(g, two, DOMAIN s) /\ Alike(s, weights) /\ ranked = Ranked(s)
    BY <1>5, <1>7 DEF Lists, Alike, Ranked
  <2>. QED  BY <1>8, <2>1, ScoreIsMean
<1>10. WeightedScore(open, one, weights) = MeanOver(f, D) /\ WeightedScore(open, two, weights) = MeanOver(g, D)
  <2>1. Lists(f, one, DOMAIN open) /\ Lists(g, two, DOMAIN open) /\ Alike(open, weights) /\ D = Ranked(open)
    BY <1>4, <1>5, <1>6, <1>7 DEF Lists, Alike, Ranked
  <2> HIDE DEF open, D
  <2>2. IsFiniteSet(DOMAIN open)
    BY <1>8 DEF open
  <2>. QED  BY <2>1, <2>2, ScoreIsMean
<1>11. WeightedScore(s, one, weights) > WeightedScore(s, two, weights)
  BY DEF Score, weights
<1>12. ranked # {}
  BY <1>9, <1>11 DEF MeanOver
<1>13. Sum(f, ranked) \div Cardinality(ranked) > Sum(g, ranked) \div Cardinality(ranked)
  BY <1>9, <1>11, <1>12 DEF MeanOver
<1>14. Sum(f, D) \div Cardinality(D) >= Sum(g, D) \div Cardinality(D)
  <2> HIDE DEF D, ranked
  <2>. QED  BY <1>1, <1>7, <1>8, <1>12, <1>13, MeansAgree
<1>15. WeightedScore(open, one, weights) >= WeightedScore(open, two, weights)
  BY <1>1, <1>10, <1>14 DEF MeanOver
<1>. QED  BY <1>15 DEF Score, weights, open

-----------------------------------------------------------------------------
(* Ranks.                                                                    *)

Passing(scores) == {i \in DOMAIN scores : scores[i].passed}

AheadOf(scores, i) == {j \in Passing(scores) : j # i /\ Outranks(scores[j], scores[i])}

\* One of two securities outranks the other.
LEMMA OutranksIsOrder ==
  ASSUME NEW scores, ScoredOnce(scores)
  PROVE  /\ \A i, j \in DOMAIN scores : i # j => Outranks(scores[i], scores[j]) \/ Outranks(scores[j], scores[i])
         /\ \A i, j \in DOMAIN scores : ~(Outranks(scores[i], scores[j]) /\ Outranks(scores[j], scores[i]))
         /\ \A i, j, k \in DOMAIN scores :
              Outranks(scores[i], scores[j]) /\ Outranks(scores[j], scores[k]) => Outranks(scores[i], scores[k])
<1>1. \A i \in DOMAIN scores : /\ scores[i].momentum \in Int /\ scores[i].setup \in Int
                               /\ scores[i].rs \in Int /\ scores[i].security \in Int
  BY DEF ScoredOnce
<1>2. \A i, j \in DOMAIN scores : scores[i].security = scores[j].security => i = j
  BY DEF ScoredOnce
<1>3. \A i, j \in DOMAIN scores : i # j => Outranks(scores[i], scores[j]) \/ Outranks(scores[j], scores[i])
  BY <1>1, <1>2 DEF Outranks
<1>4. \A i, j \in DOMAIN scores : ~(Outranks(scores[i], scores[j]) /\ Outranks(scores[j], scores[i]))
  BY <1>1 DEF Outranks
<1>5. ASSUME NEW i \in DOMAIN scores, NEW j \in DOMAIN scores, NEW k \in DOMAIN scores,
             Outranks(scores[i], scores[j]), Outranks(scores[j], scores[k])
      PROVE  Outranks(scores[i], scores[k])
  BY <1>1, <1>5 DEF Outranks
<1>. QED  BY <1>3, <1>4, <1>5

\* The order of evaluation decides nothing.
LEMMA RankCounts ==
  ASSUME NEW scores, ScoredOnce(scores), NEW i \in DOMAIN scores
  PROVE  RankOf(scores)[i] = IF i \in Passing(scores) THEN 1 + Cardinality(AheadOf(scores, i)) ELSE None
<1> DEFINE Ahead(j, k) == \/ Outranks(scores[j], scores[k])
                          \/ ~Outranks(scores[k], scores[j]) /\ j < k
           ahead == {j \in Passing(scores) : j # i /\ Ahead(j, i)}
<1>1. \A j \in DOMAIN scores : j # i => (Ahead(j, i) <=> Outranks(scores[j], scores[i]))
  <2> SUFFICES ASSUME NEW j \in DOMAIN scores, j # i
               PROVE  Ahead(j, i) <=> Outranks(scores[j], scores[i])
    OBVIOUS
  <2>1. Outranks(scores[i], scores[j]) \/ Outranks(scores[j], scores[i])
    BY OutranksIsOrder
  <2>2. ~(Outranks(scores[i], scores[j]) /\ Outranks(scores[j], scores[i]))
    BY OutranksIsOrder
  <2>. QED  BY <2>1, <2>2
<1> HIDE DEF Ahead
<1>2. ahead = AheadOf(scores, i)
  BY <1>1 DEF AheadOf, Passing
<1>3. RankOf(scores)[i] = IF i \in Passing(scores) THEN 1 + Cardinality(ahead) ELSE None
  BY DEF RankOf, Passing, Ahead
<1>. QED  BY <1>2, <1>3

\* In the opposite order of evaluation: the same securities, passed over from
\* the other end.
LEMMA ReversedScores ==
  ASSUME NEW scores, ScoredOnce(scores), NEW back, back = Reverse(scores),
         NEW n, n = Len(scores)
  PROVE  /\ ScoredOnce(back) /\ DOMAIN back = DOMAIN scores /\ DOMAIN scores = 1..n /\ n \in Nat
         /\ \A i \in DOMAIN scores : n + 1 - i \in DOMAIN scores /\ n + 1 - (n + 1 - i) = i
                                     /\ back[n + 1 - i] = scores[i] /\ back[i] = scores[n + 1 - i]
<1>1. n \in Nat /\ DOMAIN scores = 1..n
  BY DEF ScoredOnce
<1>2. back = [i \in 1..n |-> scores[(n - i) + 1]]
  BY DEF Reverse
<1>3. \A i \in 1..n : n + 1 - i \in 1..n /\ n + 1 - (n + 1 - i) = i /\ (n - i) + 1 = n + 1 - i
                      /\ (n - (n + 1 - i)) + 1 = i
  BY <1>1
<1>4. DOMAIN back = 1..n /\ Len(back) = n
  BY <1>1, <1>2
<1>5. \A i \in 1..n : back[i] = scores[n + 1 - i] /\ back[n + 1 - i] = scores[i]
  BY <1>2, <1>3
<1>6. \A i \in 1..n : /\ {back[i].momentum, back[i].setup, back[i].rs, back[i].security} \subseteq Int
                      /\ back[i].passed \in BOOLEAN
  BY <1>1, <1>3, <1>5 DEF ScoredOnce
<1>7. ASSUME NEW i \in 1..n, NEW j \in 1..n, back[i].security = back[j].security PROVE i = j
  <2> DEFINE k == n + 1 - i
             m == n + 1 - j
  <2>0. k \in DOMAIN scores /\ m \in DOMAIN scores /\ scores[k].security = scores[m].security
    BY <1>1, <1>3, <1>5, <1>7
  <2> HIDE DEF k, m
  <2>3. k = m
    BY <2>0 DEF ScoredOnce
  <2>1. n + 1 - i = n + 1 - j
    BY <2>3 DEF k, m
  <2>. QED  BY <1>1, <2>1
<1>. QED  BY <1>1, <1>3, <1>4, <1>5, <1>6, <1>7 DEF ScoredOnce

LEMMA RankIgnoresOrder ==
  ASSUME NEW scores, ScoredOnce(scores), NEW i \in DOMAIN scores
  PROVE  RankOf(scores)[i] = RankOf(Reverse(scores))[Len(scores) + 1 - i]
<1> DEFINE n == Len(scores)
           back == Reverse(scores)
           other(j) == n + 1 - j
           A == AheadOf(scores, i)
           B == AheadOf(back, other(i))
<1>1. /\ ScoredOnce(back) /\ DOMAIN back = DOMAIN scores /\ DOMAIN scores = 1..n /\ n \in Nat
      /\ \A j \in DOMAIN scores : other(j) \in DOMAIN scores /\ other(other(j)) = j
                                  /\ back[other(j)] = scores[j] /\ back[j] = scores[other(j)]
  <2>1. n = Len(scores) /\ back = Reverse(scores)
    OBVIOUS
  <2> HIDE DEF n, back
  <2>2. /\ ScoredOnce(back) /\ DOMAIN back = DOMAIN scores /\ DOMAIN scores = 1..n /\ n \in Nat
        /\ \A j \in DOMAIN scores : n + 1 - j \in DOMAIN scores /\ n + 1 - (n + 1 - j) = j
                                    /\ back[n + 1 - j] = scores[j] /\ back[j] = scores[n + 1 - j]
    BY <2>1, ReversedScores
  <2>. QED  BY <2>2
<1>2. \A j \in DOMAIN scores : j \in Passing(scores) <=> other(j) \in Passing(back)
  <2> HIDE DEF back
  <2>. QED  BY <1>1 DEF Passing
<1>3. \A j \in DOMAIN scores : j \in A <=> other(j) \in B
  <2> HIDE DEF back, n
  <2>1. \A j \in DOMAIN scores : j # i <=> other(j) # other(i)
    BY <1>1
  <2>2. \A j \in DOMAIN scores : Outranks(scores[j], scores[i]) <=> Outranks(back[other(j)], back[other(i)])
    BY <1>1
  <2> HIDE DEF other
  <2>. QED  BY <1>2, <2>1, <2>2 DEF AheadOf
<1>4. A \subseteq DOMAIN scores /\ B \subseteq DOMAIN scores
  <2> HIDE DEF back, n, other
  <2>. QED  BY <1>1 DEF AheadOf, Passing
<1>5. IsFiniteSet(A)
  <2> HIDE DEF A, n
  <2>1. IsFiniteSet(1..n)
    BY <1>1, FS_Interval
  <2>. QED  BY <1>1, <1>4, <2>1, FS_Subset
<1>6. Cardinality(A) = Cardinality(B)
  <2> DEFINE f == [j \in A |-> other(j)]
  <2> HIDE DEF A, B, n, back
  <2>1. \A j \in A : f[j] \in B
    BY <1>3, <1>4
  <2>2. \A b \in B : \E j \in A : f[j] = b
    <3> SUFFICES ASSUME NEW b \in B PROVE \E j \in A : f[j] = b
      OBVIOUS
    <3>1. other(b) \in DOMAIN scores /\ other(other(b)) = b
      BY <1>1, <1>4
    <3>2. other(b) \in A
      BY <1>3, <3>1
    <3>. QED  BY <3>1, <3>2
  <2>3. \A j, k \in A : f[j] = f[k] => j = k
    BY <1>1, <1>4
  <2>4. f \in [A -> B]
    BY <2>1
  <2> HIDE DEF f
  <2>5. f \in Bijection(A, B)
    BY <2>2, <2>3, <2>4, Fun_IsBij
  <2>. QED  BY <1>5, <2>5, FS_Bijection DEF ExistsBijection
<1>7. RankOf(scores)[i] = IF i \in Passing(scores) THEN 1 + Cardinality(A) ELSE None
  BY RankCounts
<1>8. RankOf(back)[other(i)] = IF other(i) \in Passing(back) THEN 1 + Cardinality(B) ELSE None
  <2> HIDE DEF back, n
  <2>. QED  BY <1>1, RankCounts
<1>9. RankOf(scores)[i] = RankOf(back)[other(i)]
  <2> HIDE DEF A, B, back, n, other
  <2>. QED  BY <1>2, <1>6, <1>7, <1>8
<1>. QED  BY <1>9

LEMMA RanksAreDense ==
  ASSUME NEW scores, ScoredOnce(scores)
  PROVE  {RankOf(scores)[i] : i \in Passing(scores)} = 1..Cardinality(Passing(scores))
<1> DEFINE S == Passing(scores)
           before == [i \in S |-> AheadOf(scores, i)]
<1>1. S \subseteq DOMAIN scores /\ IsFiniteSet(S)
  <2>1. DOMAIN scores = 1..Len(scores) /\ Len(scores) \in Nat
    BY DEF ScoredOnce
  <2>2. IsFiniteSet(1..Len(scores)) /\ S \subseteq 1..Len(scores)
    BY <2>1, FS_Interval DEF Passing
  <2>. QED  BY <2>1, <2>2, FS_Subset
<1>2. \A x \in S : before[x] \subseteq S \ {x}
  BY DEF AheadOf
<1>3. \A x, y \in S : x \in before[y] <=> x # y /\ Outranks(scores[x], scores[y])
  BY DEF AheadOf
<1>4. \A x, y \in S : x # y => x \in before[y] \/ y \in before[x]
  <2> HIDE DEF before, S
  <2>1. \A x, y \in S : x # y => Outranks(scores[x], scores[y]) \/ Outranks(scores[y], scores[x])
    BY <1>1, OutranksIsOrder
  <2>. QED  BY <1>3, <2>1
<1>5. \A x, y \in S : x \in before[y] => before[x] \subseteq before[y]
  <2> HIDE DEF before, S
  <2> SUFFICES ASSUME NEW x \in S, NEW y \in S, x \in before[y], NEW z \in before[x] PROVE z \in before[y]
    OBVIOUS
  <2>1. z \in S
    BY <1>2
  <2>2. Outranks(scores[x], scores[y]) /\ Outranks(scores[z], scores[x])
    BY <1>3, <2>1
  <2>3. Outranks(scores[z], scores[y])
    BY <1>1, <2>1, <2>2, OutranksIsOrder
  <2>4. z # y
    BY <1>1, <2>1, <2>2, OutranksIsOrder
  <2>. QED  BY <1>3, <2>1, <2>3, <2>4
<1>6. {1 + Cardinality(before[x]) : x \in S} = 1..Cardinality(S)
  <2> HIDE DEF before, S
  <2>. QED  BY <1>1, <1>2, <1>4, <1>5, PlacesAreDense
<1>7. \A x \in S : RankOf(scores)[x] = 1 + Cardinality(before[x])
  BY <1>1, RankCounts
<1> HIDE DEF before
<1>. QED  BY <1>6, <1>7

\* Whatever the strategy and its results, whatever the scores and the order in
\* which they arrived: leaving the gates out of the scores turns no two
\* securities around, and the ranks are 1 to n, each once, in any order of
\* evaluation (ScoringEngine and the ranking of a run).
THEOREM AnyRankingIsFair == Spec => []RankingIsFair
<1>1. ASSUME InputOK, Is("pair") PROVE
        LET s == input.value.strategy
            one == EngineResults(s, input.value.one)
            two == EngineResults(s, input.value.two)
        IN  HardFiltersPassed(s, one) /\ HardFiltersPassed(s, two) /\ Score(s, s, one) > Score(s, s, two)
              => Score(s, Open(s), one) >= Score(s, Open(s), two)
  <2>1. "pair" \in DOMAIN Inputs /\ input.value \in Inputs["pair"]
    BY <1>1 DEF InputOK, Is, Idle
  <2>2. AsShipped(input.value.strategy, input.value.one) /\ AsShipped(input.value.strategy, input.value.two)
    BY <2>1, StrategiesAssumption
  <2>. QED  BY <2>2, GatesAreNeutral
<1>2. ASSUME InputOK, Is("ranking") PROVE
        LET scores == input.value
        IN  /\ {RankOf(scores)[i] : i \in Passing(scores)} = 1..Cardinality(Passing(scores))
            /\ \A i \in DOMAIN scores : RankOf(scores)[i] = RankOf(Reverse(scores))[Len(scores) + 1 - i]
  <2>1. "ranking" \in DOMAIN Inputs /\ input.value \in Inputs["ranking"]
    BY <1>2 DEF InputOK, Is, Idle
  <2>2. ScoredOnce(input.value)
    BY <2>1, ScoresAssumption
  <2>. QED  BY <2>2, RanksAreDense, RankIgnoresOrder
<1>3. InputOK => RankingIsFair
  BY <1>1, <1>2 DEF RankingIsFair, Score, Open, Passing
<1>. QED  BY <1>3, InputsAreGiven, PTL

-----------------------------------------------------------------------------
(* Trades.                                                                   *)

LEMMA BelowBoth ==
  ASSUME NEW a \in Int, NEW b \in Int, NEW c, c <= a, c <= b
  PROVE  c <= Min({a, b})
BY LeastOfTwo

\* A plan risks something to gain something.
LEMMA PlansAreBounded ==
  ASSUME NEW entry \in Int, NEW atr, NEW resistance, {atr, resistance} \subseteq Int \cup {None},
         NEW plan, plan = SwingTargetPlan(entry, atr, resistance), plan # None
  PROVE  /\ plan.entry = entry /\ plan.stop \in Int /\ plan.target \in Int
         /\ plan.stop < entry /\ entry < plan.target
<1> DEFINE known == atr # None /\ atr > 0
           risk == IF known THEN atr * StopAtrs ELSE (2 * entry) \div 100
           reward == IF resistance # None /\ resistance > entry
                     THEN resistance - entry
                     ELSE IF known THEN atr * TargetAtrs ELSE 2 * risk
<1>1. StopAtrs \in Nat \ {0} /\ TargetAtrs \in Nat \ {0}
  BY PlanAssumption
<1>2. plan = IF entry <= 0 \/ risk <= 0 THEN None
             ELSE [entry |-> entry, stop |-> entry - risk, target |-> entry + reward, risk |-> risk]
  BY DEF SwingTargetPlan
<1>3. risk \in Int
  BY <1>1, QuotientBounds
<1>4. reward \in Int /\ (risk > 0 => reward > 0)
  <2>1. CASE resistance # None /\ resistance > entry
    BY <2>1
  <2>2. CASE ~(resistance # None /\ resistance > entry) /\ known
    <3>1. atr \in Int /\ atr > 0 /\ reward = atr * TargetAtrs
      BY <2>2
    <3>. QED  BY <1>1, <3>1
  <2>3. CASE ~(resistance # None /\ resistance > entry) /\ ~known
    <3>1. reward = 2 * risk
      BY <2>3
    <3> HIDE DEF risk, reward
    <3>. QED  BY <1>3, <3>1
  <2>. QED  BY <2>1, <2>2, <2>3
<1> HIDE DEF risk, reward
<1>5. ~(risk <= 0) /\ plan = [entry |-> entry, stop |-> entry - risk, target |-> entry + reward, risk |-> risk]
  BY <1>2
<1>. QED  BY <1>3, <1>4, <1>5

\* The first bars of a series.
Starts(w, x, n) ==
  /\ Len(x) \in Nat /\ DOMAIN x = 1..Len(x) /\ Len(w) = n /\ DOMAIN w = 1..n /\ w # <<>>
  /\ LastOf(w) = x[n] /\ \A i \in 1..n : w[i] = x[i]

LEMMA FirstBars ==
  ASSUME NEW x, Plausible(x), NEW n \in 1..Len(x)
  PROVE  Starts(SubSeq(x, 1, n), x, n)
<1> DEFINE S == {x[i] : i \in DOMAIN x}
           w == SubSeq(x, 1, n)
<1>1. x \in Seq(S)
  BY DEF Plausible, Dated
<1>2. Len(x) \in Nat /\ DOMAIN x = 1..Len(x) /\ \A i \in 1..n : x[i] \in S
  <2>1. Len(x) \in Nat /\ DOMAIN x = 1..Len(x)
    BY <1>1
  <2>. QED  BY <2>1
<1>3. /\ w \in Seq(S) /\ Len(w) = IF 1 <= n THEN n - 1 + 1 ELSE 0
      /\ \A i \in 1..(n - 1 + 1) : w[i] = x[1 + i - 1]
  <2>1. 1 \in Int /\ n \in Int
    BY <1>2
  <2> HIDE DEF S
  <2>. QED  BY <1>2, <2>1, SubSeqProperties
<1>4. n \in Nat /\ 1 <= n
  BY <1>2
<1> HIDE DEF S, w
<1>5. Len(w) = n /\ DOMAIN w = 1..n
  BY <1>3, <1>4
<1>6. \A i \in 1..n : w[i] = x[i]
  BY <1>3, <1>4
<1>7. w # <<>>
  BY <1>4, <1>5
<1>8. Starts(w, x, n)
  BY <1>2, <1>4, <1>5, <1>6, <1>7 DEF LastOf, Starts
<1>. QED  BY <1>8 DEF w

\* A trade ends at the first bar of the holding period that decides it, or at
\* the last one.
LEMMA TradesEnd ==
  ASSUME NEW plan, {plan.stop, plan.entry, plan.target} \subseteq Int,
         plan.stop < plan.entry, plan.entry < plan.target,
         NEW x, Plausible(x), x # <<>>, NEW trade, trade = SimulateTrade(plan, x)
  PROVE  /\ trade.days \in 1..Len(x) /\ \A i \in 1..(trade.days - 1) : ~Decided(plan, x[i])
         /\ trade.price <= x[trade.days].high
         /\ trade.outcome # "TARGET_HIT" => x[trade.days].low <= trade.price
         /\ trade.outcome = "TARGET_HIT" => x[trade.days].low > plan.stop
         /\ trade.outcome = "TIME_EXIT" => ~Decided(plan, x[trade.days])
         /\ trade.worst <= Min({0, trade.gain})
<1> DEFINE n == Min({HoldingBars, Len(x)})
           window == SubSeq(x, 1, n)
           deciding == {i \in DOMAIN window : Decided(plan, window[i])}
           last == IF deciding = {} THEN Len(window) ELSE Min(deciding)
           exit == IF deciding = {} THEN [outcome |-> "TIME_EXIT", price |-> LastOf(window).close]
                   ELSE ExitAt(plan, window[last])
           gain == exit.price - plan.entry
           Falls == {0} \cup {window[i].low - plan.entry : i \in 1..last}
           worst == Min(Falls)
           bar == x[last]
<1>1. trade = [outcome |-> exit.outcome, price |-> exit.price, days |-> last, gain |-> gain,
               worst |-> IF exit.outcome = "STOP_HIT" THEN Min({worst, gain}) ELSE worst]
  BY DEF SimulateTrade
<1>2. n \in 1..Len(x) /\ n \in Nat
  <2>1. Len(x) \in Nat /\ Len(x) # 0
    BY DEF Plausible, Dated
  <2>2. HoldingBars \in Nat \ {0}
    BY PlanAssumption
  <2>3. n \in {HoldingBars, Len(x)} /\ n <= HoldingBars /\ n <= Len(x)
    <3>1. Len(x) \in Int /\ HoldingBars \in Int
      BY <2>1, <2>2
    <3>. QED  BY <3>1, LeastOfTwo
  <2> HIDE DEF n
  <2>. QED  BY <2>1, <2>2, <2>3
<1> HIDE DEF n
<1>3. /\ Len(x) \in Nat /\ DOMAIN x = 1..Len(x) /\ Len(window) = n /\ DOMAIN window = 1..n
      /\ LastOf(window) = x[n] /\ \A i \in 1..n : window[i] = x[i]
  <2>1. Starts(window, x, n)
    BY <1>2, FirstBars
  <2> HIDE DEF window
  <2>. QED  BY <2>1 DEF Starts
<1> HIDE DEF window
<1>4. \A i \in 1..n : i \in DOMAIN x
  BY <1>2, <1>3
<1>5. \A i \in 1..n : /\ {x[i].open, x[i].high, x[i].low, x[i].close} \subseteq Int
                      /\ x[i].low <= x[i].open /\ x[i].open <= x[i].high
                      /\ x[i].low <= x[i].close /\ x[i].close <= x[i].high
  BY <1>4 DEF Plausible
<1>6. deciding \subseteq 1..n /\ \A i \in 1..n : i \in deciding <=> Decided(plan, x[i])
  BY <1>3
<1>7. /\ last \in 1..n /\ \A i \in 1..(last - 1) : i \notin deciding
      /\ deciding = {} => last = n
      /\ deciding # {} => last \in deciding
  <2>1. CASE deciding = {}
    <3>1. last = n
      BY <1>3, <2>1
    <3>. QED  BY <1>2, <2>1, <3>1
  <2>2. CASE deciding # {}
    <3>1. last = Min(deciding)
      BY <2>2
    <3> HIDE DEF deciding, last
    <3>2. deciding \in SUBSET Nat
      BY <1>6
    <3>3. last \in deciding /\ \A i \in deciding : last <= i
      BY <2>2, <3>1, <3>2, NatSetHasMin
    <3>. QED  BY <1>6, <2>2, <3>2, <3>3
  <2>. QED  BY <2>1, <2>2
<1> HIDE DEF last, deciding
<1>8. last \in Nat /\ bar = window[last] /\ {bar.open, bar.high, bar.low, bar.close} \subseteq Int
      /\ bar.low <= bar.open /\ bar.open <= bar.high /\ bar.low <= bar.close /\ bar.close <= bar.high
  BY <1>3, <1>5, <1>7
<1>9. Falls \in SUBSET Int /\ IsFiniteSet(Falls) /\ 0 \in Falls /\ bar.low - plan.entry \in Falls
  <2>1. \A i \in 1..last : i \in 1..n
    BY <1>2, <1>7
  <2>2. \A i \in 1..last : window[i].low - plan.entry \in Int
    BY <1>3, <1>5, <2>1
  <2>3. last \in 1..last
    BY <1>7, <1>8
  <2>4. IsFiniteSet(1..last)
    BY <1>8, FS_Interval
  <2>5. IsFiniteSet({window[i].low - plan.entry : i \in 1..last})
    <3> DEFINE fall == [i \in 1..last |-> window[i].low - plan.entry]
    <3>1. {window[i].low - plan.entry : i \in 1..last} = {fall[i] : i \in 1..last}
      OBVIOUS
    <3> HIDE DEF fall
    <3>. QED  BY <2>4, <3>1, FiniteImage
  <2>6. IsFiniteSet(Falls)
    <3>1. Falls = {window[i].low - plan.entry : i \in 1..last} \cup {0}
      OBVIOUS
    <3>. QED  BY <2>5, <3>1, FS_AddElement
  <2>. QED  BY <1>8, <2>2, <2>3, <2>6
<1> HIDE DEF Falls
<1>10. worst \in Int /\ worst <= 0 /\ worst <= bar.low - plan.entry
  BY <1>9, FiniteSetHasBounds
<1> HIDE DEF worst, bar
<1>11. CASE deciding = {}
  <2>1. exit = [outcome |-> "TIME_EXIT", price |-> bar.close]
    BY <1>3, <1>7, <1>11 DEF bar
  <2> HIDE DEF exit
  <2>2. exit.outcome = "TIME_EXIT" /\ exit.price = bar.close
    BY <2>1
  <2>3. gain \in Int /\ worst <= gain
    BY <1>8, <1>10, <2>2
  <2>4. ~Decided(plan, bar)
    BY <1>6, <1>7, <1>11 DEF bar
  <2>5. trade.price = bar.close /\ trade.worst = worst /\ trade.gain = gain /\ trade.days = last
        /\ trade.outcome = "TIME_EXIT"
    BY <1>1, <2>2
  <2> HIDE DEF gain
  <2>6. worst <= Min({0, gain})
    BY <1>10, <2>3, BelowBoth
  <2>. QED  BY <1>2, <1>6, <1>7, <1>8, <1>11, <2>4, <2>5, <2>6 DEF bar
<1>12. CASE deciding # {} /\ bar.low <= plan.stop
  <2>1. exit = [outcome |-> "STOP_HIT", price |-> Min({plan.stop, bar.open})]
    BY <1>8, <1>12 DEF ExitAt
  <2> HIDE DEF exit
  <2>2. exit.outcome = "STOP_HIT" /\ exit.price = Min({plan.stop, bar.open})
    BY <2>1
  <2>3. exit.price \in {plan.stop, bar.open} /\ exit.price <= plan.stop /\ exit.price <= bar.open
    <3> DEFINE a == plan.stop
               b == bar.open
    <3>1. a \in Int /\ b \in Int
      BY <1>8
    <3> HIDE DEF a, b
    <3>2. Min({a, b}) \in {a, b} /\ Min({a, b}) <= a /\ Min({a, b}) <= b
      BY <3>1, LeastOfTwo
    <3>. QED  BY <2>2, <3>2 DEF a, b
  <2>4. exit.price \in Int /\ gain \in Int /\ bar.low <= exit.price /\ exit.price <= bar.high
    BY <1>8, <1>12, <2>3
  <2>5. trade.price = exit.price /\ trade.gain = gain /\ trade.days = last
        /\ trade.outcome = "STOP_HIT" /\ trade.worst = Min({worst, gain})
    BY <1>1, <2>2
  <2> HIDE DEF gain
  <2>6. trade.worst \in Int /\ trade.worst <= worst /\ trade.worst <= gain
    <3>1. worst \in Int /\ gain \in Int
      BY <1>10, <2>4
    <3>2. Min({worst, gain}) \in {worst, gain} /\ Min({worst, gain}) <= worst /\ Min({worst, gain}) <= gain
      BY <3>1, LeastOfTwo
    <3>. QED  BY <2>5, <3>1, <3>2
  <2>7. trade.worst <= Min({0, gain})
    <3>1. trade.worst <= 0
      BY <1>10, <2>6
    <3>. QED  BY <2>4, <2>6, <3>1, BelowBoth
  <2>. QED  BY <1>2, <1>6, <1>7, <1>8, <2>4, <2>5, <2>7 DEF bar
<1>13. CASE deciding # {} /\ ~(bar.low <= plan.stop)
  <2>1. exit = [outcome |-> "TARGET_HIT", price |-> plan.target]
    BY <1>8, <1>13 DEF ExitAt
  <2> HIDE DEF exit
  <2>2. exit.outcome = "TARGET_HIT" /\ exit.price = plan.target
    BY <2>1
  <2>3. Decided(plan, bar)
    BY <1>6, <1>7, <1>13 DEF bar
  <2>4. plan.target <= bar.high /\ bar.low > plan.stop
    BY <1>8, <1>13, <2>3 DEF Decided
  <2>5. trade.price = plan.target /\ trade.gain = gain /\ trade.days = last
        /\ trade.outcome = "TARGET_HIT" /\ trade.worst = worst
    BY <1>1, <2>2
  <2>6. gain \in Int /\ gain > 0
    BY <2>2
  <2> HIDE DEF gain
  <2>7. trade.worst <= Min({0, gain})
    <3>1. trade.worst <= 0 /\ trade.worst <= gain
      BY <1>10, <2>5, <2>6
    <3>. QED  BY <2>6, <3>1, BelowBoth
  <2>. QED  BY <1>2, <1>6, <1>7, <1>8, <2>4, <2>5, <2>7 DEF bar
<1>. QED  BY <1>11, <1>12, <1>13

\* Entered at its first bar, a series is that bar and those after it.
LEMMA EntryBar ==
  ASSUME NEW x, Plausible(x), x # <<>>, NEW after, after = Since(x, x[1].date)
  PROVE  /\ Through(x, x[1].date) # <<>> /\ LastOf(Through(x, x[1].date)) = x[1]
         /\ Plausible(after) /\ Len(after) = Len(x) - 1 /\ Len(x) \in Nat \ {0}
         /\ \A i \in 1..Len(after) : after[i] = x[i + 1] /\ after[i] = Tail(x)[i]
<1> DEFINE date == x[1].date
           c == CountThrough(x, date)
           before == Through(x, date)
<1>1. /\ Dated(x) /\ Len(x) \in Nat \ {0} /\ DOMAIN x = 1..Len(x) /\ 1 \in 1..Len(x)
      /\ \A i \in 1..Len(x) : x[i].date \in Nat
      /\ \A i, j \in 1..Len(x) : i < j => x[i].date < x[j].date
  <2>1. Dated(x)
    BY DEF Plausible
  <2>2. Len(x) \in Nat \ {0} /\ DOMAIN x = 1..Len(x)
    BY <2>1 DEF Dated
  <2>. QED  BY <2>1, <2>2 DEF Dated
<1>2. date \in Int
  BY <1>1
<1>3. /\ c \in 0..Len(x)
      /\ \A i \in 1..Len(x) : x[i].date <= date <=> i <= c
  BY <1>1, <1>2, CountSplits
<1>4. c = 1
  <2> HIDE DEF c
  <2>1. 1 <= c
    BY <1>1, <1>2, <1>3
  <2>2. ~(2 <= c)
    <3>1. ASSUME 2 <= c PROVE FALSE
      <4>1. 2 \in 1..Len(x) /\ 1 < 2
        BY <1>1, <1>3, <3>1
      <4>2. x[2].date <= date
        BY <1>3, <3>1, <4>1
      <4>3. x[1].date < x[2].date
        BY <1>1, <4>1
      <4>. QED  BY <1>1, <4>1, <4>2, <4>3
    <3>. QED  BY <3>1
  <2>. QED  BY <1>1, <1>3, <2>1, <2>2
<1>5. /\ Dated(before) /\ Dated(after) /\ Len(before) = c /\ Len(after) = Len(x) - c
      /\ \A i \in 1..c : before[i] = x[i]
      /\ \A i \in 1..(Len(x) - c) : after[i] = x[c + i]
  BY <1>1, <1>2, Parts
<1> HIDE DEF c, before, date
<1>6. before # <<>> /\ LastOf(before) = x[1]
  <2>1. Len(before) = 1 /\ before[1] = x[1]
    BY <1>4, <1>5
  <2>2. before # <<>>
    BY <2>1
  <2>. QED  BY <2>1, <2>2 DEF LastOf
<1>7. /\ Len(after) = Len(x) - 1
      /\ \A i \in 1..(Len(x) - 1) : after[i] = x[i + 1] /\ i + 1 \in 1..Len(x)
  <2>1. \A i \in 1..(Len(x) - 1) : 1 + i = i + 1 /\ i + 1 \in 1..Len(x)
    BY <1>1
  <2>. QED  BY <1>4, <1>5, <2>1
<1>8. \A i \in 1..(Len(x) - 1) : Tail(x)[i] = x[i + 1]
  <2>1. x \in Seq({x[i] : i \in DOMAIN x})
    BY <1>1 DEF Dated
  <2> DEFINE S == {x[i] : i \in DOMAIN x}
  <2> HIDE DEF S
  <2>2. x \in Seq(S)
    BY <2>1 DEF S
  <2>. QED  BY <2>2
<1>9. Plausible(after)
  <2>1. DOMAIN after = 1..(Len(x) - 1)
    BY <1>5, <1>7 DEF Dated
  <2>2. \A i \in DOMAIN after : i + 1 \in DOMAIN x /\ after[i] = x[i + 1]
    BY <1>1, <1>7, <2>1
  <2>3. \A i \in DOMAIN x : /\ {x[i].open, x[i].high, x[i].low, x[i].close} \subseteq Int
                            /\ x[i].low <= x[i].open /\ x[i].open <= x[i].high
                            /\ x[i].low <= x[i].close /\ x[i].close <= x[i].high
    BY DEF Plausible
  <2>. QED  BY <1>5, <2>2, <2>3 DEF Plausible
<1>. QED  BY <1>1, <1>6, <1>7, <1>8, <1>9 DEF before, date

\* For any bars that do not contradict themselves, any levels and any holding
\* period, a simulated trade ends where the market was, as a loss if it could
\* have been one (swing_target_backtest.py, simulate_trade).
THEOREM AnyTradeIsHonest == Spec => []TradesAreHonest
<1>1. ASSUME InputOK, Is("trade") PROVE TradesAreHonest
  <2> DEFINE v == input.value
             x == v.bars
             plan == SwingTargetPlan(x[1].close, v.atr, v.resistance)
             ranking == [rank |-> 1, date |-> x[1].date]
             indicators == [sma200 |-> 1, atr |-> v.atr, resistance |-> v.resistance]
             signal == SimulateSignal(ranking, indicators, x, v.ratio)
             after == Since(x, x[1].date)
             trade == SimulateTrade(plan, after)
             later == Tail(x)
  <2>1. "trade" \in DOMAIN Inputs /\ v \in Inputs["trade"]
    BY <1>1 DEF InputOK, Is, Idle
  <2>2. Plausible(x) /\ x # <<>> /\ {v.atr, v.resistance} \subseteq Int \cup {None}
    BY <2>1, SignalsAssumption
  <2> HIDE DEF v
  <2>3. /\ Through(x, x[1].date) # <<>> /\ LastOf(Through(x, x[1].date)) = x[1]
        /\ Plausible(after) /\ Len(after) = Len(x) - 1 /\ Len(x) \in Nat \ {0}
        /\ \A i \in 1..Len(after) : after[i] = x[i + 1] /\ after[i] = later[i]
    <3> HIDE DEF x
    <3>. QED  BY <2>2, EntryBar
  <2>4. signal = <<>> \/ (plan # None /\ signal = <<trade>>)
    <3>1. ranking.date = x[1].date /\ indicators.atr = v.atr /\ indicators.resistance = v.resistance
      OBVIOUS
    <3> HIDE DEF ranking, indicators, x
    <3>. QED  BY <2>3, <3>1 DEF SimulateSignal
  <2> HIDE DEF after
  <2>5. ASSUME signal # <<>> PROVE
          /\ plan.stop < plan.entry /\ plan.entry < plan.target
          /\ signal[1].outcome # "INSUFFICIENT_DATA" =>
               /\ \A i \in 1..(signal[1].days - 1) : ~Decided(plan, later[i])
               /\ signal[1].price <= later[signal[1].days].high
               /\ signal[1].outcome # "TARGET_HIT" => later[signal[1].days].low <= signal[1].price
               /\ signal[1].outcome = "TARGET_HIT" => later[signal[1].days].low > plan.stop
               /\ signal[1].outcome = "TIME_EXIT" => ~Decided(plan, later[signal[1].days])
               /\ signal[1].worst <= Min({0, signal[1].gain})
    <3>1. plan # None /\ signal[1] = trade
      BY <2>4, <2>5
    <3>2. x[1].close \in Int
      BY <2>2, <2>3 DEF Plausible, Dated
    <3>3. /\ plan.entry = x[1].close /\ plan.stop \in Int /\ plan.target \in Int
          /\ plan.stop < x[1].close /\ x[1].close < plan.target
      <4> HIDE DEF x
      <4>. QED  BY <2>2, <3>1, <3>2, PlansAreBounded
    <3> HIDE DEF plan, signal, x
    <3>4. CASE after = <<>>
      <4>1. trade.outcome = "INSUFFICIENT_DATA"
        BY <3>4 DEF SimulateTrade
      <4>. QED  BY <3>1, <3>2, <3>3, <4>1
    <3>5. CASE after # <<>>
      <4>1. {plan.stop, plan.entry, plan.target} \subseteq Int /\ plan.stop < plan.entry /\ plan.entry < plan.target
        BY <3>2, <3>3
      <4>2. /\ trade.days \in 1..Len(after) /\ \A i \in 1..(trade.days - 1) : ~Decided(plan, after[i])
            /\ trade.price <= after[trade.days].high
            /\ trade.outcome # "TARGET_HIT" => after[trade.days].low <= trade.price
            /\ trade.outcome = "TARGET_HIT" => after[trade.days].low > plan.stop
            /\ trade.outcome = "TIME_EXIT" => ~Decided(plan, after[trade.days])
            /\ trade.worst <= Min({0, trade.gain})
        BY <2>3, <3>5, <4>1, TradesEnd
      <4> HIDE DEF trade, later
      <4>3. after[trade.days] = later[trade.days] /\ \A i \in 1..(trade.days - 1) : after[i] = later[i]
        <5>1. \A i \in 1..(trade.days - 1) : i \in 1..Len(after)
          BY <2>3, <4>2
        <5>. QED  BY <2>3, <4>2, <5>1
      <4>. QED  BY <3>1, <4>1, <4>2, <4>3
    <3>. QED  BY <3>4, <3>5
  <2> HIDE DEF signal, plan, later, x
  <2>. QED  BY <2>5 DEF TradesAreHonest, Decided, signal, plan, later, x, ranking, indicators, v
<1>2. InputOK => TradesAreHonest
  BY <1>1 DEF TradesAreHonest
<1>. QED  BY <1>2, InputsAreGiven, PTL

-----------------------------------------------------------------------------
(* Forward returns.                                                          *)

\* The backfills come one after another, each on the rows of the last.
LEMMA BackfilledUnfolds ==
  ASSUME NEW v, NEW n \in Nat
  PROVE  /\ BackfilledDaily(v, 0) = BackfillOn(v, v.run.date + 0, <<>>)
         /\ BackfilledDaily(v, n + 1) = BackfillOn(v, v.run.date + (n + 1), BackfilledDaily(v, n))
<1> DEFINE Body(g, e) == BackfillOn(v, v.run.date + e, IF e = 0 THEN <<>> ELSE g[e - 1])
           Is1(g, last) == g = [e \in 0..last |-> Body(g, e)]
           It(last) == CHOOSE g : Is1(g, last)
           T == {m \in Nat : \E g : Is1(g, m)}
<1>1. 0 \in T
  <2> DEFINE g == [e \in 0..0 |-> BackfillOn(v, v.run.date + 0, <<>>)]
  <2>1. g = [e \in 0..0 |-> Body(g, e)]
    OBVIOUS
  <2>. QED  BY <2>1
<1>2. ASSUME NEW last \in Nat, last \in T PROVE last + 1 \in T
  <2>1. PICK g : Is1(g, last)
    BY <1>2
  <2> DEFINE h == [e \in 0..(last + 1) |->
                     IF e = last + 1 THEN BackfillOn(v, v.run.date + e, g[last]) ELSE g[e]]
  <2>2. ASSUME NEW e \in 0..(last + 1) PROVE h[e] = Body(h, e)
    <3>1. CASE e = last + 1
      <4>1. h[e - 1] = g[last] /\ e # 0
        BY <3>1
      <4>. QED  BY <3>1, <4>1
    <3>2. CASE e # last + 1
      <4>1. e \in 0..last /\ h[e] = g[e] /\ g[e] = Body(g, e)
        BY <2>1, <3>2
      <4>2. CASE e = 0
        BY <4>1, <4>2
      <4>3. CASE e # 0
        <5>1. h[e - 1] = g[e - 1]
          BY <4>1, <4>3
        <5>. QED  BY <4>1, <4>3, <5>1
      <4>. QED  BY <4>2, <4>3
    <3>. QED  BY <3>1, <3>2
  <2>3. h = [e \in 0..(last + 1) |-> h[e]]
    OBVIOUS
  <2> HIDE DEF h
  <2>4. Is1(h, last + 1)
    BY <2>2, <2>3
  <2> HIDE DEF Is1
  <2>. QED  BY <2>4
<1>3. \A m \in Nat : m \in T
  <2> HIDE DEF T
  <2>. QED  BY <1>1, <1>2, NatSetInduction
<1>4. ASSUME NEW m \in Nat PROVE Is1(It(m), m)
  <2>1. \E g : Is1(g, m)
    BY <1>3
  <2> HIDE DEF Is1
  <2>. QED  BY <2>1
<1>5. \A m : BackfilledDaily(v, m) = It(m)[m]
  BY DEF BackfilledDaily
<1>6. ASSUME NEW m \in Nat, NEW e \in 0..m PROVE It(m)[e] = Body(It(m), e)
  <2> HIDE DEF It
  <2>. QED  BY <1>4
\* What is so far does not depend on what follows.
<1>7. ASSUME NEW m \in Nat PROVE \A e \in 0..m : It(m + 1)[e] = It(m)[e]
  <2> DEFINE S == {e \in Nat : e <= m => It(m + 1)[e] = It(m)[e]}
  <2>1. 0 \in S
    <3>1. 0 \in 0..m /\ 0 \in 0..(m + 1) /\ m + 1 \in Nat
      OBVIOUS
    <3>2. It(m)[0] = Body(It(m), 0) /\ It(m + 1)[0] = Body(It(m + 1), 0)
      BY <1>6, <3>1
    <3> HIDE DEF It
    <3>. QED  BY <3>2
  <2>2. ASSUME NEW e \in Nat, e \in S PROVE e + 1 \in S
    <3> SUFFICES ASSUME e + 1 <= m PROVE It(m + 1)[e + 1] = It(m)[e + 1]
      OBVIOUS
    <3>1. e + 1 \in 0..m /\ e + 1 \in 0..(m + 1) /\ m + 1 \in Nat /\ e + 1 # 0 /\ (e + 1) - 1 = e /\ e <= m
      OBVIOUS
    <3>2. It(m)[e + 1] = Body(It(m), e + 1) /\ It(m + 1)[e + 1] = Body(It(m + 1), e + 1)
      BY <1>6, <3>1
    <3>3. It(m + 1)[e] = It(m)[e]
      BY <2>2, <3>1
    <3> HIDE DEF It
    <3>. QED  BY <3>1, <3>2, <3>3
  <2>3. \A e \in Nat : e \in S
    <3> HIDE DEF S
    <3>. QED  BY <2>1, <2>2, NatSetInduction
  <2> HIDE DEF It
  <2>. QED  BY <2>3
<1>8. BackfilledDaily(v, 0) = BackfillOn(v, v.run.date + 0, <<>>)
  <2>1. It(0)[0] = Body(It(0), 0)
    <3>1. 0 \in Nat /\ 0 \in 0..0
      OBVIOUS
    <3> HIDE DEF It, Body
    <3>. QED  BY <1>6, <3>1
  <2> HIDE DEF It
  <2>. QED  BY <1>5, <2>1
<1>9. BackfilledDaily(v, n + 1) = BackfillOn(v, v.run.date + (n + 1), BackfilledDaily(v, n))
  <2>1. n + 1 \in Nat /\ n + 1 \in 0..(n + 1) /\ n + 1 # 0 /\ (n + 1) - 1 = n /\ n \in 0..n
    OBVIOUS
  <2>2. It(n + 1)[n + 1] = Body(It(n + 1), n + 1)
    BY <1>6, <2>1
  <2>3. It(n + 1)[n] = It(n)[n]
    BY <1>7, <2>1
  <2> HIDE DEF It
  <2>. QED  BY <1>5, <2>1, <2>2, <2>3
<1>. QED  BY <1>8, <1>9

\* The row of a security whose bars are x, for a run on a date.
RowAt(x, bench, date, h) ==
  IF Through(x, date) = <<>> THEN None
  ELSE ForwardReturn(AdjustedClose(LastOf(Through(x, date))),
                     [i \in DOMAIN Since(x, date) |-> AdjustedClose(Since(x, date)[i])], h,
                     NearestClose(bench, date),
                     IF Len(Since(x, date)) >= h THEN NearestClose(bench, Since(x, date)[h].date) ELSE None)

\* What a backfill from nothing writes once the bars up to a day are known.
Matured(v, day) ==
  {p \in v.run.picks \X Horizons : RowAt(Through(v.bars[p[1]], day), v.bench, v.run.date, p[2]) # None}

RowsOn(v, day) ==
  [p \in Matured(v, day) |-> RowAt(Through(v.bars[p[1]], day), v.bench, v.run.date, p[2])]

\* A backfill adds the rows that have matured and are not there.
LEMMA BackfillAdds ==
  ASSUME NEW v, Measurable(v), NEW day, NEW existing
  PROVE  BackfillOn(v, day, existing)
           = Over(existing, [p \in {q \in Matured(v, day) : q \notin DOMAIN existing} |-> RowsOn(v, day)[p]])
<1> DEFINE bars_ == [s \in DOMAIN v.bars |-> Through(v.bars[s], day)]
           run_ == v.run
           Row(s, h) ==
             IF Through(bars_[s], run_.date) = <<>> THEN None
             ELSE ForwardReturn(AdjustedClose(LastOf(Through(bars_[s], run_.date))),
                                [i \in DOMAIN Since(bars_[s], run_.date) |-> AdjustedClose(Since(bars_[s], run_.date)[i])], h,
                                NearestClose(v.bench, run_.date),
                                IF Len(Since(bars_[s], run_.date)) >= h
                                THEN NearestClose(v.bench, Since(bars_[s], run_.date)[h].date) ELSE None)
           pending == {p \in run_.picks \X Horizons : p \notin DOMAIN existing /\ Row(p[1], p[2]) # None}
           New == {q \in Matured(v, day) : q \notin DOMAIN existing}
<1>1. BackfillOn(v, day, existing) = Over(existing, [p \in pending |-> Row(p[1], p[2])])
  BY DEF BackfillOn, Backfill
<1>2. \A s, h : Row(s, h) = RowAt(bars_[s], v.bench, run_.date, h)
  BY DEF RowAt
<1> HIDE DEF Row
<1>3. \A s \in run_.picks : bars_[s] = Through(v.bars[s], day)
  BY DEF Measurable
<1> HIDE DEF bars_
<1>4. \A p \in run_.picks \X Horizons : Row(p[1], p[2]) = RowAt(Through(v.bars[p[1]], day), v.bench, v.run.date, p[2])
  BY <1>2, <1>3
<1>5. pending = New
  BY <1>4 DEF Matured
<1>6. \A p \in New : RowsOn(v, day)[p] = Row(p[1], p[2])
  BY <1>4 DEF RowsOn, Matured
<1> HIDE DEF pending, New
<1>7. [p \in pending |-> Row(p[1], p[2])] = [p \in New |-> RowsOn(v, day)[p]]
  BY <1>5, <1>6
<1>. QED  BY <1>1, <1>7 DEF New

\* A row that has matured is the same when more bars are known.
LEMMA MaturedRow ==
  ASSUME NEW x, NEW y, Dated(x), Dated(y), Begins(x, y), NEW bench, NEW date \in Int, NEW h \in Nat \ {0},
         Through(x, date) = Through(y, date), RowAt(x, bench, date, h) # None
  PROVE  RowAt(y, bench, date, h) = RowAt(x, bench, date, h)
<1> DEFINE X == Since(x, date)
           Y == Since(y, date)
           C(z) == [i \in DOMAIN z |-> AdjustedClose(z[i])]
           entry == AdjustedClose(LastOf(Through(x, date)))
           now == NearestClose(bench, date)
           End(z) == IF Len(z) >= h THEN NearestClose(bench, z[h].date) ELSE None
<1>1. Dated(X) /\ Dated(Y) /\ Begins(X, Y)
  BY Parts, PartsBegin
<1>2. /\ DOMAIN X = 1..Len(X) /\ DOMAIN Y = 1..Len(Y) /\ Len(X) \in Nat /\ Len(Y) \in Nat
      /\ Len(X) <= Len(Y) /\ \A i \in 1..Len(X) : X[i] = Y[i]
  BY <1>1 DEF Dated, Begins
<1>3. /\ RowAt(x, bench, date, h) = ForwardReturn(entry, C(X), h, now, End(X))
      /\ RowAt(y, bench, date, h) = ForwardReturn(entry, C(Y), h, now, End(Y))
  BY DEF RowAt
<1> HIDE DEF X, Y, entry, now
<1>4. /\ Len(C(X)) = Len(X) /\ Len(C(Y)) = Len(Y)
      /\ \A i \in 1..Len(X) : C(X)[i] = C(Y)[i]
  BY <1>2
<1> HIDE DEF C
<1>5. ~(entry <= 0) /\ ~(Len(X) < h)
  BY <1>3, <1>4 DEF ForwardReturn
<1>6. ~(Len(Y) < h) /\ Len(X) >= h /\ Len(Y) >= h /\ h \in 1..Len(X) /\ \A j \in 1..h : j \in 1..Len(X)
  BY <1>2, <1>5
<1>7. SubSeq(C(X), 1, h) = SubSeq(C(Y), 1, h)
  <2>1. h \in Int /\ 1 \in Int /\ \A j \in 1..h : C(X)[j] = C(Y)[j]
    BY <1>4, <1>6
  <2>. QED  BY <2>1, SubSeqAgree
<1>8. End(X) = End(Y)
  BY <1>2, <1>6
<1> HIDE DEF End
<1>9. /\ RowAt(x, bench, date, h) = Measures(entry, SubSeq(C(X), 1, h), now, End(X))
      /\ RowAt(y, bench, date, h) = Measures(entry, SubSeq(C(Y), 1, h), now, End(Y))
  BY <1>3, <1>4, <1>5, <1>6 DEF ForwardReturn
<1>. QED  BY <1>7, <1>8, <1>9

\* Bars up to a day begin those up to a later one, and none up to the run is
\* missing in either.
LEMMA LaterBegins ==
  ASSUME NEW z, Dated(z), NEW date \in Int, NEW day \in Int, NEW later \in Int, date <= day, day <= later
  PROVE  LET x == Through(z, day)
             y == Through(z, later)
         IN  Dated(x) /\ Dated(y) /\ Begins(x, y) /\ Through(x, date) = Through(y, date)
<1> DEFINE x == Through(z, day)
           y == Through(z, later)
           c == CountThrough(z, day)
           d == CountThrough(z, later)
<1>1. /\ c \in 0..Len(z) /\ d \in 0..Len(z) /\ Len(z) \in Nat
      /\ \A i \in 1..Len(z) : z[i].date <= day <=> i <= c
      /\ \A i \in 1..Len(z) : z[i].date <= later <=> i <= d
      /\ \A i \in 1..Len(z) : z[i].date \in Nat
  <2>1. /\ c \in 0..Len(z) /\ d \in 0..Len(z)
        /\ \A i \in 1..Len(z) : z[i].date <= day <=> i <= c
        /\ \A i \in 1..Len(z) : z[i].date <= later <=> i <= d
    BY CountSplits
  <2>. QED  BY <2>1 DEF Dated
<1>2. /\ Dated(x) /\ Dated(y) /\ Len(x) = c /\ Len(y) = d
      /\ \A i \in 1..c : x[i] = z[i]
      /\ \A i \in 1..d : y[i] = z[i]
  BY Parts
<1> HIDE DEF x, y, c, d
<1>3. c <= d
  <2> SUFFICES ASSUME c > d PROVE FALSE
    BY <1>1
  <2>1. c \in 1..Len(z) /\ c <= c /\ ~(c <= d)
    BY <1>1
  <2>2. z[c].date <= day /\ ~(z[c].date <= later) /\ z[c].date \in Nat
    BY <1>1, <2>1
  <2>. QED  BY <2>2
<1>4. Begins(x, y)
  <2>1. \A i \in 1..c : i \in 1..d
    BY <1>1, <1>3
  <2>2. \A i \in 1..c : x[i] = y[i]
    BY <1>2, <2>1
  <2>. QED  BY <1>2, <1>3, <2>2 DEF Begins
<1>5. ASSUME NEW i \in 1..Len(y), y[i].date <= date PROVE i <= Len(x)
  <2>1. i \in 1..Len(z) /\ y[i] = z[i] /\ z[i].date \in Nat
    BY <1>1, <1>2
  <2>2. z[i].date <= day
    BY <1>5, <2>1
  <2>. QED  BY <1>1, <1>2, <2>1, <2>2
<1>6. Through(x, date) = Through(y, date)
  BY <1>2, <1>4, <1>5, ThroughStays
<1>. QED  BY <1>2, <1>4, <1>6 DEF x, y

\* What has matured on a day has on any later day, with the same rows.
LEMMA RowsStay ==
  ASSUME NEW v, Measurable(v), NEW day \in Int, NEW later \in Int, v.run.date <= day, day <= later
  PROVE  /\ Matured(v, day) \subseteq Matured(v, later)
         /\ \A p \in Matured(v, day) : RowsOn(v, later)[p] = RowsOn(v, day)[p]
<1> SUFFICES ASSUME NEW p \in Matured(v, day)
             PROVE  p \in Matured(v, later) /\ RowsOn(v, later)[p] = RowsOn(v, day)[p]
  OBVIOUS
<1> DEFINE z == v.bars[p[1]]
           x == Through(z, day)
           y == Through(z, later)
<1>1. /\ p \in v.run.picks \X Horizons /\ p[1] \in v.run.picks /\ p[2] \in Nat \ {0}
      /\ RowAt(x, v.bench, v.run.date, p[2]) # None
  BY HorizonsAssumption DEF Matured
<1>2. Dated(z) /\ v.run.date \in Int
  BY <1>1 DEF Measurable
<1>3. Dated(x) /\ Dated(y) /\ Begins(x, y) /\ Through(x, v.run.date) = Through(y, v.run.date)
  <2> HIDE DEF z
  <2>. QED  BY <1>2, LaterBegins
<1>4. RowAt(y, v.bench, v.run.date, p[2]) = RowAt(x, v.bench, v.run.date, p[2])
  <2> HIDE DEF x, y
  <2>. QED  BY <1>1, <1>2, <1>3, MaturedRow
<1>5. p \in Matured(v, later)
  BY <1>1, <1>4 DEF Matured
<1>. QED  BY <1>4, <1>5 DEF RowsOn

\* Backfills after every day leave the rows of one on the last.
LEMMA DailyIsOnce ==
  ASSUME NEW v, Measurable(v), NEW days \in Nat
  PROVE  /\ BackfilledDaily(v, days) = RowsOn(v, v.run.date + days)
         /\ BackfillOn(v, v.run.date + days, <<>>) = RowsOn(v, v.run.date + days)
<1> DEFINE none == <<>>
<1>1. DOMAIN none = {}
  OBVIOUS
<1>2. ASSUME NEW day PROVE BackfillOn(v, day, none) = RowsOn(v, day)
  <2>1. BackfillOn(v, day, none)
          = Over(none, [p \in {q \in Matured(v, day) : q \notin DOMAIN none} |-> RowsOn(v, day)[p]])
    BY BackfillAdds
  <2> HIDE DEF none
  <2>2. {q \in Matured(v, day) : q \notin DOMAIN none} = Matured(v, day)
    BY <1>1
  <2>3. DOMAIN RowsOn(v, day) = Matured(v, day) /\ RowsOn(v, day) = [p \in Matured(v, day) |-> RowsOn(v, day)[p]]
    BY DEF RowsOn
  <2>4. \A f : f = [p \in DOMAIN f |-> f[p]] => Over(none, f) = f
    BY <1>1 DEF Over
  <2>5. Over(none, RowsOn(v, day)) = RowsOn(v, day)
    BY <2>3, <2>4
  <2>. QED  BY <2>1, <2>2, <2>3, <2>5
<1> HIDE DEF none
<1> DEFINE T == {n \in Nat : BackfilledDaily(v, n) = RowsOn(v, v.run.date + n)}
<1>3. 0 \in T
  BY <1>2, BackfilledUnfolds DEF none
<1>4. ASSUME NEW n \in Nat, n \in T PROVE n + 1 \in T
  <2> DEFINE day == v.run.date + n
             next == v.run.date + (n + 1)
             old == RowsOn(v, day)
             all == RowsOn(v, next)
             add == [p \in {q \in Matured(v, next) : q \notin DOMAIN old} |-> all[p]]
  <2>1. BackfilledDaily(v, n + 1) = BackfillOn(v, next, old)
    BY <1>4, BackfilledUnfolds
  <2>2. v.run.date \in Nat /\ day \in Int /\ next \in Int /\ v.run.date <= day /\ day <= next
    BY DEF Measurable
  <2> HIDE DEF day, next
  <2>3. BackfillOn(v, next, old) = Over(old, add)
    BY BackfillAdds
  <2>4. /\ Matured(v, day) \subseteq Matured(v, next)
        /\ \A p \in Matured(v, day) : all[p] = old[p]
    BY <2>2, RowsStay
  <2>5. /\ DOMAIN old = Matured(v, day) /\ DOMAIN all = Matured(v, next)
        /\ all = [p \in DOMAIN all |-> all[p]]
    BY DEF RowsOn
  <2> HIDE DEF old, all
  <2>6. Over(old, add) = all
    <3>1. DOMAIN old \cup DOMAIN add = DOMAIN all
      BY <2>4, <2>5
    <3>2. \A p \in DOMAIN all : (IF p \in DOMAIN old THEN old[p] ELSE add[p]) = all[p]
      BY <2>4, <2>5
    <3> HIDE DEF add
    <3>3. Over(old, add) = [p \in DOMAIN all |-> IF p \in DOMAIN old THEN old[p] ELSE add[p]]
      BY <3>1 DEF Over
    <3>4. Over(old, add) = [p \in DOMAIN all |-> all[p]]
      BY <3>2, <3>3
    <3>. QED  BY <2>5, <3>4
  <2>. QED  BY <2>1, <2>3, <2>6 DEF next, all
<1>5. \A n \in Nat : n \in T
  <2> HIDE DEF T
  <2>. QED  BY <1>3, <1>4, NatSetInduction
<1>. QED  BY <1>2, <1>5 DEF none

\* A row is worth what the closes of its horizon are: its gain one of theirs,
\* its best and its worst their extremes.
Gains(entry, closes, h) == {closes[i] - entry : i \in 1..h}

LEMMA RowIsOfItsHorizon ==
  ASSUME NEW entry \in Int, NEW closes \in Seq(Int),
         NEW h \in Nat \ {0}, NEW b, NEW e, ForwardReturn(entry, closes, h, b, e) # None
  PROVE  LET row == ForwardReturn(entry, closes, h, b, e)
         IN  /\ row.gain \in Gains(entry, closes, h)
             /\ row.best = Max(Gains(entry, closes, h)) /\ row.worst = Min(Gains(entry, closes, h))
             /\ h <= Len(closes)
<1> DEFINE row == ForwardReturn(entry, closes, h, b, e)
           window == SubSeq(closes, 1, h)
           gains == [i \in DOMAIN window |-> window[i] - entry]
<1>1. h <= Len(closes) /\ row = Measures(entry, window, b, e)
  BY DEF ForwardReturn
<1>2. Len(window) = h /\ DOMAIN window = 1..h /\ \A i \in 1..h : window[i] = closes[i]
  BY <1>1
<1> HIDE DEF window
<1>3. row.gain = LastOf(gains) /\ row.best = Max(ToSet(gains)) /\ row.worst = Min(ToSet(gains))
  <2> HIDE DEF row
  <2>. QED  BY <1>1 DEF Measures
<1>4. DOMAIN gains = 1..h /\ Len(gains) = h /\ \A i \in 1..h : gains[i] = closes[i] - entry
  BY <1>2
<1> HIDE DEF gains
<1>5. ToSet(gains) = Gains(entry, closes, h)
  BY <1>4 DEF ToSet, Gains
<1>6. gains # <<>>
  BY <1>4
<1>7. LastOf(gains) = closes[h] - entry
  BY <1>4, <1>6 DEF LastOf
<1>. QED  BY <1>1, <1>3, <1>5, <1>7 DEF row, Gains

LEMMA GainsAreBounded ==
  ASSUME NEW entry \in Int, NEW closes, NEW h \in Nat \ {0}, \A i \in 1..h : closes[i] \in Int
  PROVE  LET g == Gains(entry, closes, h)
         IN  g \in SUBSET Int /\ \A n \in g : Min(g) <= n /\ n <= Max(g) /\ Min(g) \in g /\ Max(g) \in g
<1> DEFINE f == [i \in 1..h |-> closes[i] - entry]
           g == Gains(entry, closes, h)
<1>1. IsFiniteSet(1..h)
  BY FS_Interval
<1>2. {f[i] : i \in 1..h} = g
  BY DEF Gains
<1>3. IsFiniteSet(g)
  <2> HIDE DEF f, g
  <2>1. IsFiniteSet({f[i] : i \in 1..h})
    BY <1>1, FiniteImage
  <2>. QED  BY <1>2, <2>1
<1>4. g \in SUBSET Int /\ g # {}
  BY DEF Gains
<1> HIDE DEF g
<1>. QED  BY <1>3, <1>4, FiniteSetHasBounds DEF g

\* The rows of a security on a day are measured from one entry and one series
\* of closes, whatever their horizons.
MeasuredFrom(v, day, s, entry, closes, b) ==
  /\ closes \in Seq(Int)
  /\ \A h : <<s, h>> \in Matured(v, day) =>
       \E e : /\ RowsOn(v, day)[<<s, h>>] = ForwardReturn(entry, closes, h, b, e)
              /\ ForwardReturn(entry, closes, h, b, e) # None

LEMMA MaturedIsMeasured ==
  ASSUME NEW v, Measurable(v), NEW day \in Int, NEW s \in v.run.picks
  PROVE  \E entry \in Int : \E closes : \E b : MeasuredFrom(v, day, s, entry, closes, b)
<1> DEFINE z == v.bars[s]
           x == Through(z, day)
           date == v.run.date
           before == Through(x, date)
           after == Since(x, date)
           closes == [i \in DOMAIN after |-> AdjustedClose(after[i])]
           given == AdjustedClose(LastOf(before))
           entry == IF before = <<>> THEN 0 ELSE given
           End(h) == IF Len(after) >= h THEN NearestClose(v.bench, after[h].date) ELSE None
<1>1. /\ Dated(z) /\ date \in Int
      /\ \A i \in DOMAIN z : z[i].close \in Int /\ z[i].adj \in Int \cup {None}
  BY DEF Measurable
<1>2. DOMAIN z = 1..Len(z) /\ Len(z) \in Nat
  BY <1>1 DEF Dated
<1>3. \A i \in 1..Len(z) : AdjustedClose(z[i]) \in Int
  BY <1>1, <1>2 DEF AdjustedClose
<1> DEFINE c == CountThrough(z, day)
           d == CountThrough(x, date)
<1>4. Dated(x) /\ Len(x) = c /\ c \in 0..Len(z) /\ \A i \in 1..c : x[i] = z[i]
  <2> HIDE DEF z
  <2>. QED  BY <1>1, Parts, CountSplits
<1> HIDE DEF z, x, c
<1>5. \A i \in 1..Len(x) : AdjustedClose(x[i]) \in Int
  BY <1>2, <1>3, <1>4
<1>6. /\ Dated(before) /\ Dated(after) /\ d \in 0..Len(x) /\ Len(before) = d /\ Len(after) = Len(x) - d
      /\ \A i \in 1..d : before[i] = x[i]
      /\ \A i \in 1..(Len(x) - d) : after[i] = x[d + i]
  <2> HIDE DEF date
  <2>. QED  BY <1>1, <1>4, Parts, CountSplits
<1> HIDE DEF before, after, d
<1>7. Len(x) \in Nat /\ DOMAIN before = 1..d /\ DOMAIN after = 1..(Len(x) - d) /\ Len(after) \in Nat
  BY <1>4, <1>6 DEF Dated
<1>8. closes \in Seq(Int)
  <2>1. \A i \in 1..(Len(x) - d) : d + i \in 1..Len(x)
    BY <1>6, <1>7
  <2> DEFINE m == Len(x) - d
  <2>2. m \in Nat /\ \A i \in 1..m : AdjustedClose(after[i]) \in Int
    BY <1>5, <1>6, <1>7, <2>1
  <2>3. closes \in [1..m -> Int]
    BY <1>7, <2>2
  <2> HIDE DEF m, closes
  <2>. QED  BY <2>2, <2>3
<1>9. entry \in Int
  <2>1. before # <<>> => d \in 1..Len(x) /\ LastOf(before) = x[d]
    <3> SUFFICES ASSUME before # <<>> PROVE d \in 1..Len(x) /\ before[Len(before)] = x[d]
      BY DEF LastOf
    <3>1. d # 0
      BY <1>6 DEF Dated
    <3>. QED  BY <1>6, <1>7, <3>1
  <2>. QED  BY <1>5, <2>1
<1>10. ASSUME NEW h, <<s, h>> \in Matured(v, day)
       PROVE  /\ RowsOn(v, day)[<<s, h>>] = ForwardReturn(entry, closes, h, NearestClose(v.bench, date), End(h))
              /\ ForwardReturn(entry, closes, h, NearestClose(v.bench, date), End(h)) # None
  <2>1. /\ RowsOn(v, day)[<<s, h>>] = RowAt(x, v.bench, date, h)
        /\ RowAt(x, v.bench, date, h) # None
    BY <1>10 DEF RowsOn, Matured, x, z
  <2>2. /\ RowAt(x, v.bench, date, h) # None => before # <<>>
        /\ before # <<>> =>
             RowAt(x, v.bench, date, h) = ForwardReturn(given, closes, h, NearestClose(v.bench, date), End(h))
    BY DEF RowAt, before, after
  <2>. QED  BY <2>1, <2>2
<1>11. MeasuredFrom(v, day, s, entry, closes, NearestClose(v.bench, date))
  <2> HIDE DEF entry, closes, End
  <2>. QED  BY <1>8, <1>10 DEF MeasuredFrom
<1> HIDE DEF entry, closes
<1>. QED  BY <1>9, <1>11

\* A longer horizon only widens what a row spans.
LEMMA HorizonsWiden ==
  ASSUME NEW v, Measurable(v), NEW day \in Int, NEW p \in Matured(v, day)
  PROVE  LET rows == RowsOn(v, day)
         IN  /\ rows[p].worst <= rows[p].gain /\ rows[p].gain <= rows[p].best
             /\ \A q \in Matured(v, day) :
                  p[1] = q[1] /\ p[2] < q[2] => /\ rows[q].best >= rows[p].best
                                                /\ rows[q].worst <= rows[p].worst
<1> DEFINE rows == RowsOn(v, day)
           s == p[1]
<1>1. \A q \in Matured(v, day) : q = <<q[1], q[2]>> /\ q[1] \in v.run.picks /\ q[2] \in Nat \ {0}
  <2>1. \A q \in Matured(v, day) : q \in v.run.picks \X Horizons
    BY DEF Matured
  <2>. QED  BY <2>1, HorizonsAssumption
<1>2. s \in v.run.picks
  BY <1>1
<1> HIDE DEF s
<1>3. \E entry \in Int : \E closes : \E b : MeasuredFrom(v, day, s, entry, closes, b)
  BY <1>2, MaturedIsMeasured
<1>4. PICK entry \in Int : \E closes : \E b : MeasuredFrom(v, day, s, entry, closes, b)
  BY <1>3
<1>5. PICK closes : \E b : MeasuredFrom(v, day, s, entry, closes, b)
  BY <1>4
<1>6. PICK b : MeasuredFrom(v, day, s, entry, closes, b)
  BY <1>5
<1> DEFINE G(h) == Gains(entry, closes, h)
<1>7. ASSUME NEW q \in Matured(v, day), q[1] = s
      PROVE  /\ rows[q].gain \in G(q[2]) /\ rows[q].best = Max(G(q[2])) /\ rows[q].worst = Min(G(q[2]))
             /\ G(q[2]) \in SUBSET Int
             /\ \A n \in G(q[2]) : Min(G(q[2])) <= n /\ n <= Max(G(q[2]))
             /\ Min(G(q[2])) \in G(q[2]) /\ Max(G(q[2])) \in G(q[2])
  <2> DEFINE h == q[2]
  <2>1. h \in Nat \ {0} /\ q = <<s, h>>
    BY <1>1, <1>7
  <2>0. closes \in Seq(Int)
    BY <1>6 DEF MeasuredFrom
  <2>2. PICK e : /\ rows[q] = ForwardReturn(entry, closes, h, b, e)
                 /\ ForwardReturn(entry, closes, h, b, e) # None
    BY <1>7, <1>6, <2>1 DEF MeasuredFrom
  <2> HIDE DEF h, rows
  <2>3. /\ rows[q].gain \in G(h) /\ rows[q].best = Max(G(h)) /\ rows[q].worst = Min(G(h))
        /\ h <= Len(closes)
    BY <2>1, <2>2, <2>0, RowIsOfItsHorizon
  <2>4. \A i \in 1..h : closes[i] \in Int
    BY <2>0, <2>1, <2>3
  <2>5. /\ G(h) \in SUBSET Int
        /\ \A n \in G(h) : Min(G(h)) <= n /\ n <= Max(G(h)) /\ Min(G(h)) \in G(h) /\ Max(G(h)) \in G(h)
    BY <2>1, <2>4, GainsAreBounded
  <2> HIDE DEF G
  <2>. QED  BY <2>3, <2>5 DEF h
<1>8. ASSUME NEW q \in Matured(v, day), p[1] = q[1], p[2] < q[2] PROVE G(p[2]) \subseteq G(q[2])
  <2>1. \A i \in 1..p[2] : i \in 1..q[2]
    BY <1>1, <1>8
  <2>. QED  BY <2>1 DEF Gains
<1> HIDE DEF G, rows
<1>9. rows[p].worst <= rows[p].gain /\ rows[p].gain <= rows[p].best
  BY <1>7 DEF s
<1>10. ASSUME NEW q \in Matured(v, day), p[1] = q[1], p[2] < q[2]
      PROVE  rows[q].best >= rows[p].best /\ rows[q].worst <= rows[p].worst
  <2>1. q[1] = s /\ p[1] = s
    BY <1>10 DEF s
  <2>2. Max(G(p[2])) \in G(q[2]) /\ Min(G(p[2])) \in G(q[2])
    BY <1>7, <1>8, <1>10, <2>1
  <2>3. /\ Max(G(p[2])) <= Max(G(q[2])) /\ Min(G(q[2])) <= Min(G(p[2]))
        /\ {Max(G(p[2])), Max(G(q[2])), Min(G(p[2])), Min(G(q[2]))} \subseteq Int
    BY <1>7, <1>10, <2>1, <2>2
  <2>. QED  BY <1>7, <1>10, <2>1, <2>3
<1>. QED  BY <1>9, <1>10 DEF rows

\* For any picks, closes, splits known at the run and horizons, backfills after
\* every session leave the rows of one at the end, and a longer horizon only
\* widens a row (forward_returns_backfill.py, forward_returns.py).
THEOREM AnyForwardRowIgnoresWhen == Spec => []ForwardRowsIgnoreWhen
<1>1. ASSUME InputOK, Is("forward") PROVE ForwardRowsIgnoreWhen
  <2> DEFINE v == input.value
             days == Max(Horizons)
             day == v.run.date + days
             rows == BackfilledDaily(v, days)
  <2>1. "forward" \in DOMAIN Inputs /\ v \in Inputs["forward"]
    BY <1>1 DEF InputOK, Is, Idle
  <2>2. Measurable(v)
    BY <2>1, PicksAssumption
  <2> HIDE DEF v
  <2>3. days \in Nat
    <3>1. Horizons \in SUBSET Int /\ IsFiniteSet(Horizons) /\ Horizons # {}
      BY HorizonsAssumption
    <3>2. days \in Horizons
      BY <3>1, FiniteSetHasBounds
    <3>. QED  BY <3>2, HorizonsAssumption
  <2> HIDE DEF days
  <2>4. day \in Int
    BY <2>2, <2>3 DEF Measurable
  <2>5. rows = RowsOn(v, day) /\ BackfillOn(v, day, <<>>) = RowsOn(v, day)
    BY <2>2, <2>3, DailyIsOnce
  <2> HIDE DEF day, rows
  <2>6. DOMAIN rows = Matured(v, day)
    BY <2>5 DEF RowsOn
  <2>7. \A p \in DOMAIN rows :
          /\ rows[p].worst <= rows[p].gain /\ rows[p].gain <= rows[p].best
          /\ \A q \in DOMAIN rows :
               p[1] = q[1] /\ p[2] < q[2] => /\ rows[q].best >= rows[p].best
                                             /\ rows[q].worst <= rows[p].worst
    BY <2>2, <2>4, <2>5, <2>6, HorizonsWiden
  <2>. QED  BY <2>5, <2>7 DEF ForwardRowsIgnoreWhen, v, days, day, rows
<1>2. InputOK => ForwardRowsIgnoreWhen
  BY <1>1 DEF ForwardRowsIgnoreWhen
<1>. QED  BY <1>2, InputsAreGiven, PTL

-----------------------------------------------------------------------------
(* Memberships.                                                              *)

\* Where the trailing bars of a session begin.
FirstTrailing(i) == Max({1, i - TurnoverWindow + 1})

LEMMA FirstTrailingIs ==
  ASSUME NEW i \in Nat
  PROVE  FirstTrailing(i) = IF i >= TurnoverWindow THEN i - TurnoverWindow + 1 ELSE 1
<1> DEFINE a == i - TurnoverWindow + 1
<1>1. a \in Int /\ (i >= TurnoverWindow <=> a >= 1)
  BY TurnoverAssumption
<1> HIDE DEF a
<1>2. {1, a} \in SUBSET Int /\ {1, a} # {} /\ IsFiniteSet({1, a})
  <2>1. {1, a} = {1} \cup {a}
    OBVIOUS
  <2>2. IsFiniteSet({1})
    BY FS_Singleton
  <2>3. IsFiniteSet({1, a})
    BY <2>1, <2>2, FS_AddElement
  <2>. QED  BY <1>1, <2>3
<1>3. Max({1, a}) \in {1, a} /\ \A k \in {1, a} : k <= Max({1, a})
  BY <1>2, FiniteSetHasBounds
<1>4. Max({1, a}) = IF a >= 1 THEN a ELSE 1
  BY <1>1, <1>3
<1>. QED  BY <1>1, <1>4 DEF FirstTrailing, a

Turnovers(bars) == [i \in DOMAIN bars |-> bars[i].turnover]

\* A membership computed in a window is the one over all bars, or refused for
\* want of what is before the window.
LEMMA WindowMembership ==
  ASSUME NEW x, Dated(x), NEW start \in Int, NEW end \in Int,
         NEW i \in DOMAIN MembershipSeries(x, start, end)
  PROVE  LET m == MembershipSeries(x, start, end)[i]
         IN  \/ m[2] = MembershipOn(x, m[1])
             \/ /\ start > x[1].date
                /\ m[2] \in {"insufficient_history", "insufficient_turnover_data"}
<1> DEFINE c == CountThrough(x, start - 1)
           Z == Since(x, start - 1)
           W == Through(Z, end)
           d == CountThrough(Z, end)
           n == c + i
           date == x[n].date
           U == Through(x, date)
           mine == SubSeq(W, FirstTrailing(i), i)
           whole == SubSeq(U, FirstTrailing(n), n)
           m == MembershipSeries(x, start, end)[i]
<1>1. /\ Len(x) \in Nat /\ c \in 0..Len(x)
      /\ \A k \in 1..Len(x) : x[k].date <= start - 1 <=> k <= c
      /\ Dated(Z) /\ Len(Z) = Len(x) - c /\ \A k \in 1..(Len(x) - c) : Z[k] = x[c + k]
  <2>1. start - 1 \in Int
    OBVIOUS
  <2>2. Len(x) \in Nat
    BY DEF Dated
  <2>. QED  BY <2>1, <2>2, Parts, CountSplits
<1>2. /\ \A k \in 1..Len(x) : x[k].date \in Nat
      /\ \A k, l \in 1..Len(x) : k < l => x[k].date < x[l].date
  BY DEF Dated
<1> HIDE DEF c, Z
<1>3. /\ Dated(W) /\ d \in 0..Len(Z) /\ Len(W) = d /\ \A k \in 1..d : W[k] = Z[k]
  BY <1>1, Parts, CountSplits
<1>4. DOMAIN W = 1..Len(W)
  BY <1>3 DEF Dated
<1>5. /\ i \in DOMAIN W
      /\ m = <<W[i].date, LiquidityReason(W[i].close, "EQ", i - 1, Turnovers(mine))>>
  BY DEF MembershipSeries, FirstTrailing, Turnovers, Z
<1> HIDE DEF W, d
<1>6. /\ i \in 1..d /\ i \in Nat /\ n \in 1..Len(x) /\ n \in Nat /\ c \in Nat
      /\ \A k \in 1..i : W[k] = x[c + k]
  <2>1. i \in 1..d /\ c \in Nat
    BY <1>1, <1>3, <1>4, <1>5
  <2>2. d <= Len(x) - c /\ d \in Nat
    BY <1>1, <1>3
  <2>3. i \in Nat /\ n \in 1..Len(x) /\ n \in Nat
    BY <1>1, <2>1, <2>2
  <2>4. \A k \in 1..i : k \in 1..d /\ k \in 1..(Len(x) - c)
    BY <1>1, <2>1, <2>2
  <2>. QED  BY <1>1, <1>3, <2>1, <2>3, <2>4
<1>7. W[i] = x[n] /\ date \in Nat
  BY <1>2, <1>6
<1>8. CountThrough(x, date) = n
  <2> DEFINE e == CountThrough(x, date)
  <2>1. e \in 0..Len(x) /\ \A k \in 1..Len(x) : x[k].date <= date <=> k <= e
    <3>1. date \in Int
      BY <1>7
    <3> HIDE DEF date
    <3>. QED  BY <3>1, CountSplits
  <2> HIDE DEF e
  <2>2. n <= e
    BY <1>6, <1>7, <2>1
  <2>3. ~(n < e)
    <3> SUFFICES ASSUME n < e PROVE FALSE
      OBVIOUS
    <3>1. e \in 1..Len(x) /\ e <= e
      BY <1>1, <1>6, <2>1
    <3>2. x[e].date <= date /\ date < x[e].date /\ x[e].date \in Nat
      BY <1>2, <1>6, <2>1, <3>1
    <3>. QED  BY <1>7, <3>2
  <2>4. n = e
    <3>1. n \in Nat /\ e \in Nat
      BY <1>1, <1>6, <2>1
    <3> HIDE DEF n
    <3>. QED  BY <2>2, <2>3, <3>1
  <2>. QED  BY <2>4 DEF e
<1>9. Dated(U) /\ Len(U) = n /\ \A k \in 1..n : U[k] = x[k]
  <2>1. date \in Int
    BY <1>7
  <2> HIDE DEF date, n
  <2>. QED  BY <1>8, <2>1, Parts
<1>10. LastOf(U) = x[n]
  <2>1. U # <<>>
    BY <1>6, <1>9
  <2>. QED  BY <1>6, <1>9, <2>1 DEF LastOf
<1>11. MembershipOn(x, date) = LiquidityReason(x[n].close, "EQ", n - 1, Turnovers(whole))
  <2>1. MembershipOn(x, date)
          = LiquidityReason(LastOf(U).close, "EQ", Len(U) - 1, Turnovers(SubSeq(U, FirstTrailing(Len(U)), Len(U))))
    BY DEF MembershipOn, FirstTrailing, Turnovers
  <2> HIDE DEF U, n, date
  <2>. QED  BY <1>9, <1>10, <2>1
<1>12. m[1] = date /\ m[2] = LiquidityReason(x[n].close, "EQ", i - 1, Turnovers(mine))
  <2> HIDE DEF m, mine
  <2>. QED  BY <1>5, <1>7
<1>13. /\ FirstTrailing(i) = IF i >= TurnoverWindow THEN i - TurnoverWindow + 1 ELSE 1
       /\ FirstTrailing(n) = IF n >= TurnoverWindow THEN n - TurnoverWindow + 1 ELSE 1
       /\ FirstTrailing(i) \in Int /\ FirstTrailing(i) >= 1
  BY <1>6, FirstTrailingIs, TurnoverAssumption
<1>14. c = 0 \/ i >= TurnoverWindow => mine = whole
  <2> SUFFICES ASSUME c = 0 \/ i >= TurnoverWindow PROVE mine = whole
    OBVIOUS
  <2> DEFINE f == FirstTrailing(i)
  <2>1. FirstTrailing(n) = c + f
    BY <1>6, <1>13, TurnoverAssumption
  <2>2. \A j \in f..i : j \in 1..i /\ c + j \in 1..n
    BY <1>6, <1>13
  <2> HIDE DEF f, W, U
  <2>3. \A j \in f..i : W[j] = U[c + j]
    BY <1>6, <1>9, <2>2
  <2>4. f \in Int /\ i \in Int
    BY <1>6, <1>13 DEF f
  <2>5. SubSeq(W, f, i) = SubSeq(U, c + f, c + i)
    <3>1. c \in Nat
      BY <1>6
    <3>2. Shifted(W, U, c, f, i)
      BY <2>3 DEF Shifted
    <3> HIDE DEF mine, whole, m, date, n
    <3>. QED  BY <2>4, <3>1, <3>2, SubSeqShift
  <2>. QED  BY <2>1, <2>5 DEF f
<1>15. i < TurnoverWindow => AvgTurnover(Turnovers(mine)) = None
  <2> SUFFICES ASSUME i < TurnoverWindow PROVE AvgTurnover(Turnovers(mine)) = None
    OBVIOUS
  <2>1. FirstTrailing(i) = 1
    BY <1>6, <1>13, TurnoverAssumption
  <2> DEFINE S == {W[k] : k \in 1..i}
  <2>2. \A k \in 1..i : W[k] \in S
    OBVIOUS
  <2>3. 1 \in Int /\ i \in Int
    BY <1>6
  <2> HIDE DEF S
  <2>4. /\ SubSeq(W, 1, i) \in Seq(S) /\ Len(SubSeq(W, 1, i)) = IF 1 <= i THEN i - 1 + 1 ELSE 0
    BY <2>2, <2>3, SubSeqProperties
  <2>5. mine \in Seq(S) /\ Len(mine) = i
    BY <1>6, <2>1, <2>4
  <2> HIDE DEF mine
  <2>6. Len(Turnovers(mine)) = i
    BY <1>6, <2>5 DEF Turnovers
  <2>. QED  BY <2>6 DEF AvgTurnover
<1> HIDE DEF mine, whole, m, date, n
<1>16. n = c + i
  BY DEF n
<1>17. CASE c = 0
  <2>1. n = i /\ mine = whole
    BY <1>6, <1>14, <1>16, <1>17
  <2>2. m[2] = MembershipOn(x, m[1])
    BY <1>11, <1>12, <2>1
  <2>. QED  BY <2>2 DEF m
<1>18. CASE c # 0
  <2>1. start > x[1].date
    <3>1. 1 \in 1..Len(x) /\ 1 <= c
      BY <1>1, <1>6, <1>18
    <3>. QED  BY <1>1, <1>2, <3>1
  <2>2. CASE i - 1 < MinPriorSessions
    <3>1. m[2] = "insufficient_history"
      BY <1>12, <2>2 DEF LiquidityReason
    <3>. QED  BY <2>1, <3>1 DEF m
  <2>3. CASE ~(i - 1 < MinPriorSessions) /\ i < TurnoverWindow
    <3>1. m[2] = "insufficient_turnover_data"
      BY <1>12, <1>15, <2>3 DEF LiquidityReason
    <3>. QED  BY <2>1, <3>1 DEF m
  <2>4. CASE ~(i - 1 < MinPriorSessions) /\ i >= TurnoverWindow
    <3>1. ~(n - 1 < MinPriorSessions)
      BY <1>6, <1>16, <2>4, SessionsAssumption
    <3>2. m[2] = MembershipOn(x, date)
      BY <1>11, <1>12, <1>14, <2>4, <3>1 DEF LiquidityReason
    <3>. QED  BY <1>12, <3>2 DEF m
  <2>. QED  BY <1>6, <2>2, <2>3, <2>4, TurnoverAssumption
<1>. QED  BY <1>17, <1>18 DEF m

-----------------------------------------------------------------------------
(* Listings.                                                                 *)

Items(list) == {list[i] : i \in DOMAIN list}

IsinsIn(items) == {e.isin : e \in items} \ {None}

Canonical(own, items) ==
  [symbol |-> own.symbol, isin |-> own.isin,
   exchange |-> IF own.isin \in IsinsIn(items) THEN "BOTH" ELSE "NSE"]

Alone(e, nse) == e.isin = None \/ e.isin \notin IsinsIn(Items(nse))

Taken(e, nse) == e.symbol \in {f.symbol : f \in Items(nse)}

OfBse(e) == [symbol |-> e.symbol, isin |-> e.isin, exchange |-> "BSE"]

\* The merge as a function of what BSE lists, not of its order.
MergedWith(nse, items, admitted) ==
  [instruments |-> {Canonical(e, items) : e \in Items(nse)} \cup
                   {OfBse(e) : e \in {f \in items : Alone(f, nse) /\ f.series \in admitted /\ ~Taken(f, nse)}},
   crossListed |-> Cardinality({i \in DOMAIN nse : Canonical(nse[i], items).exchange = "BOTH"}),
   withheld |-> {e.symbol : e \in {f \in items : Alone(f, nse) /\ f.series \notin admitted}},
   collisions |-> {e.symbol : e \in {f \in items : Alone(f, nse) /\ f.series \in admitted /\ Taken(f, nse)}}]

LEMMA MergeIgnoresOrder ==
  ASSUME NEW nse, NEW bse, Listed(bse), NEW admitted
  PROVE  ReconcileCrossListings(nse, bse, admitted) = MergedWith(nse, Items(bse), admitted)
<1> DEFINE Isins(list) == {list[i].isin : i \in DOMAIN list} \ {None}
           symbols == {nse[i].symbol : i \in DOMAIN nse}
           canonical == [i \in DOMAIN nse |->
                           [symbol |-> nse[i].symbol, isin |-> nse[i].isin,
                            exchange |-> IF nse[i].isin \in Isins(bse) THEN "BOTH" ELSE "NSE"]]
           alone == {i \in DOMAIN bse : bse[i].isin = None \/ bse[i].isin \notin Isins(nse)}
           offered == {i \in alone : bse[i].series \in admitted}
           new == {i \in offered : bse[i].symbol \notin symbols}
           Rank(isin) == IF isin = None THEN 0 ELSE isin
           First(i) == \A j \in new : bse[j].symbol = bse[i].symbol =>
                         \/ Rank(bse[i].isin) < Rank(bse[j].isin)
                         \/ Rank(bse[i].isin) = Rank(bse[j].isin) /\ i <= j
           items == Items(bse)
           all == ToSet(canonical) \cup
                    {[symbol |-> bse[i].symbol, isin |-> bse[i].isin, exchange |-> "BSE"] : i \in {k \in new : First(k)}}
           crossed == Cardinality({i \in DOMAIN canonical : canonical[i].exchange = "BOTH"})
           withheld == {bse[i].symbol : i \in alone \ offered}
           collisions == {bse[i].symbol : i \in offered \ new}
<1>1. ReconcileCrossListings(nse, bse, admitted)
        = [instruments |-> all, crossListed |-> crossed, withheld |-> withheld, collisions |-> collisions]
  BY DEF ReconcileCrossListings
<1>2. Isins(bse) = IsinsIn(items) /\ Isins(nse) = IsinsIn(Items(nse))
  BY DEF Items, IsinsIn
<1>3. symbols = {f.symbol : f \in Items(nse)}
  BY DEF Items
<1>4. \A i \in DOMAIN nse : canonical[i] = Canonical(nse[i], items)
  <2> HIDE DEF Isins, items
  <2>. QED  BY <1>2 DEF Canonical
<1>5. DOMAIN canonical = DOMAIN nse
  OBVIOUS
<1>6. \A i : i \in alone <=> i \in DOMAIN bse /\ Alone(bse[i], nse)
  <2> HIDE DEF Isins, items
  <2>. QED  BY <1>2 DEF Alone
<1> HIDE DEF alone, canonical
<1>7. \A i : i \in offered <=> i \in DOMAIN bse /\ Alone(bse[i], nse) /\ bse[i].series \in admitted
  BY <1>6
<1> HIDE DEF offered
<1>8. \A i : i \in new <=> /\ i \in DOMAIN bse /\ Alone(bse[i], nse) /\ bse[i].series \in admitted
                           /\ ~Taken(bse[i], nse)
  <2> HIDE DEF symbols
  <2>. QED  BY <1>3, <1>7 DEF Taken
<1> HIDE DEF new
<1>9. \A i \in new : First(i)
  <2> SUFFICES ASSUME NEW i \in new, NEW j \in new, bse[j].symbol = bse[i].symbol PROVE j = i /\ i <= j
    OBVIOUS
  <2>1. i \in DOMAIN bse /\ j \in DOMAIN bse
    BY <1>8
  <2>2. j = i
    BY <2>1 DEF Listed
  <2>3. i \in Int
    <3>1. DOMAIN bse = 1..Len(bse) /\ Len(bse) \in Nat
      BY DEF Listed
    <3>. QED  BY <2>1, <3>1
  <2>. QED  BY <2>2, <2>3
<1>10. {k \in new : First(k)} = new
  <2> HIDE DEF First
  <2>. QED  BY <1>9
<1> HIDE DEF First
<1>11. ToSet(canonical) = {Canonical(e, items) : e \in Items(nse)}
  BY <1>4, <1>5 DEF ToSet, Items
<1>12. {[symbol |-> bse[i].symbol, isin |-> bse[i].isin, exchange |-> "BSE"] : i \in {k \in new : First(k)}}
         = {OfBse(e) : e \in {f \in items : Alone(f, nse) /\ f.series \in admitted /\ ~Taken(f, nse)}}
  <2>1. \A i : OfBse(bse[i]) = [symbol |-> bse[i].symbol, isin |-> bse[i].isin, exchange |-> "BSE"]
    BY DEF OfBse
  <2>. QED  BY <1>8, <1>10, <2>1 DEF Items
<1>13. crossed = Cardinality({i \in DOMAIN nse : Canonical(nse[i], items).exchange = "BOTH"})
  <2>1. {i \in DOMAIN canonical : canonical[i].exchange = "BOTH"}
          = {i \in DOMAIN nse : Canonical(nse[i], items).exchange = "BOTH"}
    BY <1>4, <1>5
  <2>. QED  BY <2>1
<1>14. withheld = {e.symbol : e \in {f \in items : Alone(f, nse) /\ f.series \notin admitted}}
  BY <1>6, <1>7 DEF Items
<1>15. collisions = {e.symbol : e \in {f \in items : Alone(f, nse) /\ f.series \in admitted /\ Taken(f, nse)}}
  BY <1>7, <1>8 DEF Items
<1>16. all = {Canonical(e, items) : e \in Items(nse)} \cup
               {OfBse(e) : e \in {f \in items : Alone(f, nse) /\ f.series \in admitted /\ ~Taken(f, nse)}}
  BY <1>11, <1>12
<1> HIDE DEF all, crossed, withheld, collisions
<1>. QED  BY <1>1, <1>13, <1>14, <1>15, <1>16 DEF MergedWith

\* A list read backwards has the same items, each once.
LEMMA Backwards ==
  ASSUME NEW list, Listed(list)
  PROVE  Items(Reverse(list)) = Items(list) /\ Listed(Reverse(list))
<1> DEFINE r == Reverse(list)
<1>1. Len(list) \in Nat /\ DOMAIN list = 1..Len(list)
  BY DEF Listed
<1>2. r = [i \in 1..Len(list) |-> list[(Len(list) - i) + 1]]
  BY DEF Reverse
<1>3. DOMAIN r = DOMAIN list /\ \A i \in DOMAIN list : r[i] = list[(Len(list) - i) + 1]
  BY <1>1, <1>2
<1>4. \A i \in DOMAIN list : /\ (Len(list) - i) + 1 \in DOMAIN list
                             /\ (Len(list) - ((Len(list) - i) + 1)) + 1 = i
  BY <1>1
<1>5. \A i, j \in DOMAIN list : i # j => (Len(list) - i) + 1 # (Len(list) - j) + 1
  BY <1>1
<1> DEFINE S == {r[i] : i \in DOMAIN r}
<1>6. r \in Seq(S)
  <2>1. \A i \in 1..Len(list) : r[i] \in S
    BY <1>1, <1>3
  <2> HIDE DEF S
  <2>2. r \in [1..Len(list) -> S]
    BY <1>2, <2>1
  <2> HIDE DEF r
  <2>. QED  BY <1>1, <2>2
<1> HIDE DEF r
<1>7. Items(r) = Items(list)
  <2>1. \A i \in DOMAIN list : r[(Len(list) - i) + 1] = list[i]
    BY <1>3, <1>4
  <2>. QED  BY <1>3, <1>4, <2>1 DEF Items
<1>8. ASSUME NEW i \in DOMAIN r, NEW j \in DOMAIN r, i # j
      PROVE  r[i].symbol # r[j].symbol /\ (r[i].isin = None \/ r[i].isin # r[j].isin)
  <2> DEFINE k == (Len(list) - i) + 1
             l == (Len(list) - j) + 1
  <2>1. k \in DOMAIN list /\ l \in DOMAIN list /\ k # l /\ r[i] = list[k] /\ r[j] = list[l]
    BY <1>3, <1>4, <1>5, <1>8
  <2> HIDE DEF k, l
  <2>. QED  BY <2>1 DEF Listed
<1>9. Listed(r)
  BY <1>6, <1>8 DEF Listed
<1>. QED  BY <1>7, <1>9 DEF r

\* Of a merge, what two instruments share and what becomes of BSE's.
LEMMA MergeIsClean ==
  ASSUME NEW nse, NEW bse, Listed(nse), Listed(bse), NEW admitted
  PROVE  LET merged == MergedWith(nse, Items(bse), admitted)
             isins == {x.isin : x \in merged.instruments}
         IN  /\ \A x, y \in merged.instruments :
                  x # y => x.symbol # y.symbol /\ (x.isin = None \/ x.isin # y.isin)
             /\ \A i \in DOMAIN bse :
                  \/ bse[i].isin # None /\ bse[i].isin \in isins
                  \/ bse[i].symbol \in merged.withheld \cup merged.collisions
                  \/ \E x \in merged.instruments : x.symbol = bse[i].symbol
<1> DEFINE items == Items(bse)
           own == Items(nse)
           new == {f \in items : Alone(f, nse) /\ f.series \in admitted /\ ~Taken(f, nse)}
           ours == {Canonical(e, items) : e \in own}
           theirs == {OfBse(e) : e \in new}
           merged == MergedWith(nse, items, admitted)
<1>1. /\ merged.instruments = ours \cup theirs
      /\ merged.withheld = {e.symbol : e \in {f \in items : Alone(f, nse) /\ f.series \notin admitted}}
      /\ merged.collisions = {e.symbol : e \in {f \in items : Alone(f, nse) /\ f.series \in admitted /\ Taken(f, nse)}}
  BY DEF MergedWith
<1>2. /\ \A e, f \in own : e # f => e.symbol # f.symbol /\ (e.isin = None \/ e.isin # f.isin)
      /\ \A e, f \in items : e # f => e.symbol # f.symbol /\ (e.isin = None \/ e.isin # f.isin)
  BY DEF Items, Listed
<1>3. /\ \A e \in new : e \in items
      /\ \A e \in new, f \in own : e.symbol # f.symbol /\ (e.isin = None \/ e.isin # f.isin)
  BY DEF Alone, Taken, IsinsIn
<1>4. /\ \A e : Canonical(e, items).symbol = e.symbol /\ Canonical(e, items).isin = e.isin
      /\ \A e : OfBse(e).symbol = e.symbol /\ OfBse(e).isin = e.isin
  BY DEF Canonical, OfBse
<1> HIDE DEF merged
<1>5. ASSUME NEW x \in merged.instruments, NEW y \in merged.instruments, x # y
      PROVE  x.symbol # y.symbol /\ (x.isin = None \/ x.isin # y.isin)
  <2>1. CASE x \in ours /\ y \in ours
    <3>1. PICK e \in own : x = Canonical(e, items)
      BY <2>1
    <3>2. PICK f \in own : y = Canonical(f, items)
      BY <2>1
    <3>3. e # f
      BY <1>5, <3>1, <3>2
    <3> HIDE DEF items, own
    <3>. QED  BY <1>2, <1>4, <3>1, <3>2, <3>3
  <2>2. CASE x \in ours /\ y \in theirs
    <3>1. PICK e \in own : x = Canonical(e, items)
      BY <2>2
    <3>2. PICK f \in new : y = OfBse(f)
      BY <2>2
    <3> HIDE DEF items, own, new
    <3>. QED  BY <1>3, <1>4, <3>1, <3>2
  <2>3. CASE x \in theirs /\ y \in ours
    <3>1. PICK e \in new : x = OfBse(e)
      BY <2>3
    <3>2. PICK f \in own : y = Canonical(f, items)
      BY <2>3
    <3> HIDE DEF items, own, new
    <3>. QED  BY <1>3, <1>4, <3>1, <3>2
  <2>4. CASE x \in theirs /\ y \in theirs
    <3>1. PICK e \in new : x = OfBse(e)
      BY <2>4
    <3>2. PICK f \in new : y = OfBse(f)
      BY <2>4
    <3>3. e # f
      BY <1>5, <3>1, <3>2
    <3> HIDE DEF items, own, new
    <3>. QED  BY <1>2, <1>3, <1>4, <3>1, <3>2, <3>3
  <2>. QED  BY <1>1, <2>1, <2>2, <2>3, <2>4
<1>6. ASSUME NEW i \in DOMAIN bse
      PROVE  \/ bse[i].isin # None /\ bse[i].isin \in {x.isin : x \in merged.instruments}
             \/ bse[i].symbol \in merged.withheld \cup merged.collisions
             \/ \E x \in merged.instruments : x.symbol = bse[i].symbol
  <2> DEFINE e == bse[i]
  <2>1. e \in items
    BY DEF Items
  <2> HIDE DEF e
  <2>2. CASE ~Alone(e, nse)
    <3>1. e.isin # None /\ \E f \in own : f.isin = e.isin
      BY <2>2 DEF Alone, IsinsIn
    <3>2. PICK f \in own : f.isin = e.isin
      BY <3>1
    <3>3. Canonical(f, items) \in merged.instruments /\ Canonical(f, items).isin = e.isin
      BY <1>1, <1>4, <3>2
    <3> HIDE DEF items, own
    <3>. QED  BY <3>1, <3>3 DEF e
  <2>3. CASE Alone(e, nse) /\ e.series \notin admitted
    <3>1. e.symbol \in merged.withheld
      BY <1>1, <2>1, <2>3
    <3>. QED  BY <3>1 DEF e
  <2>4. CASE Alone(e, nse) /\ e.series \in admitted /\ Taken(e, nse)
    <3>1. e.symbol \in merged.collisions
      BY <1>1, <2>1, <2>4
    <3>. QED  BY <3>1 DEF e
  <2>5. CASE Alone(e, nse) /\ e.series \in admitted /\ ~Taken(e, nse)
    <3>1. OfBse(e) \in merged.instruments /\ OfBse(e).symbol = e.symbol
      BY <1>1, <1>4, <2>1, <2>5
    <3>. QED  BY <3>1 DEF e
  <2>. QED  BY <2>2, <2>3, <2>4, <2>5
<1>. QED  BY <1>5, <1>6 DEF merged

\* For any stored bars, a membership computed in a window is the one over all
\* bars unless history before the window is wanting; for any two exchanges that
\* list each symbol and ISIN once, the merge has one instrument for each,
\* whatever their order, and loses none (historical_universe.py,
\* cross_listing.py).
THEOREM AnyUniverseIsConsistent == Spec => []UniverseIsConsistent
<1>1. ASSUME InputOK, Is("archive") PROVE MembershipPathsAgree
  <2> DEFINE v == input.value
  <2>1. "archive" \in DOMAIN Inputs /\ v \in Inputs["archive"]
    BY <1>1 DEF InputOK, Is, Idle
  <2>2. Dated(v.bars) /\ v.start \in Int /\ v.end \in Int
    BY <2>1, StoredAssumption
  <2> HIDE DEF v
  <2>3. \A i \in DOMAIN MembershipSeries(v.bars, v.start, v.end) :
          LET m == MembershipSeries(v.bars, v.start, v.end)[i]
          IN  \/ m[2] = MembershipOn(v.bars, m[1])
              \/ /\ v.start > v.bars[1].date
                 /\ m[2] \in {"insufficient_history", "insufficient_turnover_data"}
    BY <2>2, WindowMembership
  <2>. QED  BY <2>3 DEF MembershipPathsAgree, v
<1>2. ASSUME InputOK, Is("listings") PROVE ListingsMergeOnce
  <2> DEFINE v == input.value
             merged == ReconcileCrossListings(v.nse, v.bse, v.admitted)
  <2>1. "listings" \in DOMAIN Inputs /\ v \in Inputs["listings"]
    BY <1>2 DEF InputOK, Is, Idle
  <2>2. Listed(v.nse) /\ Listed(v.bse)
    BY <2>1, ListingsAssumption
  <2> HIDE DEF v
  <2>3. merged = MergedWith(v.nse, Items(v.bse), v.admitted)
    BY <2>2, MergeIgnoresOrder
  <2>4. ReconcileCrossListings(v.nse, Reverse(v.bse), v.admitted) = merged
    <3> DEFINE r == Reverse(v.bse)
    <3>1. Listed(r) /\ Items(r) = Items(v.bse)
      BY <2>2, Backwards
    <3> HIDE DEF r
    <3>2. ReconcileCrossListings(v.nse, r, v.admitted) = MergedWith(v.nse, Items(r), v.admitted)
      BY <3>1, MergeIgnoresOrder
    <3>. QED  BY <2>3, <3>1, <3>2 DEF r
  <2> HIDE DEF merged
  <2>5. /\ \A x, y \in merged.instruments :
             x # y => x.symbol # y.symbol /\ (x.isin = None \/ x.isin # y.isin)
        /\ \A i \in DOMAIN v.bse :
             \/ v.bse[i].isin # None /\ v.bse[i].isin \in {x.isin : x \in merged.instruments}
             \/ v.bse[i].symbol \in merged.withheld \cup merged.collisions
             \/ \E x \in merged.instruments : x.symbol = v.bse[i].symbol
    BY <2>2, <2>3, MergeIsClean
  <2>. QED  BY <2>4, <2>5 DEF ListingsMergeOnce, merged, v
<1>3. InputOK => UniverseIsConsistent
  BY <1>1, <1>2 DEF UniverseIsConsistent, MembershipPathsAgree, ListingsMergeOnce
<1>. QED  BY <1>3, InputsAreGiven, PTL

-----------------------------------------------------------------------------
(* Recursion along an interval.                                              *)

\* What a recursion along an interval computes.
Steps(g, lo, hi, first, step) ==
  \A i \in lo..hi : g[i] = IF i = lo THEN first ELSE step[<<g[i - 1], i>>]

LEMMA RecursionExists ==
  ASSUME NEW V, NEW lo \in Int, NEW hi \in Int, NEW first \in V, NEW step \in [V \X (lo..hi) -> V]
  PROVE  \E g \in [lo..hi -> V] : Steps(g, lo, hi, first, step)
<1> DEFINE T == {m \in Nat : lo + m <= hi => \E g \in [lo..(lo + m) -> V] : Steps(g, lo, lo + m, first, step)}
<1>1. 0 \in T
  <2>1. [i \in lo..(lo + 0) |-> first] \in [lo..(lo + 0) -> V]
    OBVIOUS
  <2>2. Steps([i \in lo..(lo + 0) |-> first], lo, lo + 0, first, step)
    BY DEF Steps
  <2>. QED  BY <2>1, <2>2
<1>2. ASSUME NEW m \in Nat, m \in T PROVE m + 1 \in T
  <2> SUFFICES ASSUME lo + (m + 1) <= hi
               PROVE  \E g \in [lo..(lo + (m + 1)) -> V] : Steps(g, lo, lo + (m + 1), first, step)
    OBVIOUS
  <2> DEFINE last == lo + (m + 1)
  <2>1. last \in Int /\ last - 1 = lo + m /\ last - 1 \in lo..hi /\ last \in lo..hi /\ last # lo /\ lo + m <= hi
    OBVIOUS
  <2>2. PICK g \in [lo..(lo + m) -> V] : Steps(g, lo, lo + m, first, step)
    BY <1>2, <2>1
  <2> HIDE DEF last
  <2> DEFINE h == [i \in lo..last |-> IF i = last THEN step[<<g[last - 1], last>>] ELSE g[i]]
  <2>3. g[last - 1] \in V /\ step[<<g[last - 1], last>>] \in V
    <3>1. last - 1 \in lo..(lo + m)
      BY <2>1
    <3>2. g[last - 1] \in V
      BY <3>1
    <3>3. <<g[last - 1], last>> \in V \X (lo..hi)
      BY <2>1, <3>2
    <3>. QED  BY <3>2, <3>3
  <2>4. \A i \in lo..last : i # last => i \in lo..(lo + m)
    BY <2>1
  <2>5. h \in [lo..last -> V]
    BY <2>3, <2>4
  <2>6. ASSUME NEW i \in lo..last
        PROVE  h[i] = IF i = lo THEN first ELSE step[<<h[i - 1], i>>]
    <3>1. CASE i = last
      <4>1. i - 1 \in lo..last /\ i - 1 # last /\ i # lo
        BY <2>1, <3>1
      <4>2. h[i - 1] = g[last - 1]
        BY <3>1, <4>1
      <4>3. h[i] = step[<<g[last - 1], last>>]
        BY <3>1
      <4>. QED  BY <3>1, <4>1, <4>2, <4>3
    <3>2. CASE i # last
      <4>1. i \in lo..(lo + m) /\ h[i] = g[i]
        BY <2>4, <3>2
      <4>2. g[i] = IF i = lo THEN first ELSE step[<<g[i - 1], i>>]
        BY <2>2, <4>1 DEF Steps
      <4>3. CASE i = lo
        BY <4>1, <4>2, <4>3
      <4>4. CASE i # lo
        <5>1. i - 1 \in lo..last /\ i - 1 # last
          BY <2>1, <4>1, <4>4
        <5>2. h[i - 1] = g[i - 1]
          BY <5>1
        <5>. QED  BY <4>1, <4>2, <4>4, <5>2
      <4>. QED  BY <4>3, <4>4
    <3>. QED  BY <3>1, <3>2
  <2>7. Steps(h, lo, last, first, step)
    <3> HIDE DEF h
    <3>. QED  BY <2>6 DEF Steps
  <2> HIDE DEF h
  <2>. QED  BY <2>5, <2>7 DEF last
<1>3. CASE lo <= hi
  <2> HIDE DEF T
  <2>1. \A m \in Nat : m \in T
    BY <1>1, <1>2, NatSetInduction
  <2>2. hi - lo \in Nat /\ lo + (hi - lo) = hi /\ hi - lo \in T
    BY <1>3, <2>1
  <2>. QED  BY <2>2 DEF T
<1>4. CASE hi < lo
  <2>1. lo..hi = {}
    BY <1>4
  <2>2. [i \in lo..hi |-> first] \in [lo..hi -> V]
    OBVIOUS
  <2>3. Steps([i \in lo..hi |-> first], lo, hi, first, step)
    BY <2>1 DEF Steps
  <2>. QED  BY <2>2, <2>3
<1>. QED  BY <1>3, <1>4

\* Two that agree on the first value and take the same steps agree.
SameSteps(g, h, lo, hi) ==
  /\ lo <= hi => g[lo] = h[lo]
  /\ \A i \in (lo + 1)..hi : g[i - 1] = h[i - 1] => g[i] = h[i]

LEMMA StepsAgree ==
  ASSUME NEW g, NEW h, NEW lo \in Int, NEW hi \in Int, SameSteps(g, h, lo, hi)
  PROVE  \A i \in lo..hi : g[i] = h[i]
<1> DEFINE T == {m \in Nat : lo + m <= hi => g[lo + m] = h[lo + m]}
<1>1. 0 \in T
  BY DEF SameSteps
<1>2. ASSUME NEW m \in Nat, m \in T PROVE m + 1 \in T
  <2> SUFFICES ASSUME lo + (m + 1) <= hi PROVE g[lo + (m + 1)] = h[lo + (m + 1)]
    OBVIOUS
  <2>1. lo + m <= hi /\ lo + (m + 1) \in (lo + 1)..hi /\ lo + (m + 1) - 1 = lo + m
    OBVIOUS
  <2>2. g[lo + m] = h[lo + m]
    BY <1>2, <2>1
  <2>. QED  BY <2>1, <2>2 DEF SameSteps
<1> HIDE DEF T
<1>3. \A m \in Nat : m \in T
  BY <1>1, <1>2, NatSetInduction
<1>4. ASSUME NEW i \in lo..hi PROVE g[i] = h[i]
  <2>1. i - lo \in Nat /\ lo + (i - lo) = i /\ i - lo \in T
    BY <1>3
  <2>. QED  BY <2>1 DEF T
<1>. QED  BY <1>4

-----------------------------------------------------------------------------
(* Smoothed series.                                                          *)

LEMMA TotalIsSum ==
  ASSUME NEW s
  PROVE  Total(s) = Sum(s, DOMAIN s)
BY DEF Total, FoldSeq, FoldFunction, FoldFunctionOnSet, Sum, SumFunctionOnSet, MapThenFoldSet

LEMMA TotalIsInt ==
  ASSUME NEW n \in Nat, NEW s \in [1..n -> Int]
  PROVE  Summable(s, DOMAIN s) /\ Total(s) \in Int
<1>1. DOMAIN s = 1..n /\ IsFiniteSet(1..n)
  BY FS_Interval
<1>2. Summable(s, DOMAIN s)
  BY <1>1 DEF Summable
<1>. QED  BY <1>2, TotalIsSum, SumUnfolds

\* What is smoothed, from the window on.
Smoothed(g, values, n, w) ==
  \A i \in w..n : g[i] = IF i = w THEN Total(SubSeq(values, 1, w)) \div w
                         ELSE ((w - 1) * g[i - 1] + values[i]) \div w

LEMMA WilderUnfolds ==
  ASSUME NEW n \in Nat, NEW values \in [1..n -> Int], NEW w \in Nat \ {0}
  PROVE  \E g \in [w..n -> Int] :
           /\ Smoothed(g, values, n, w)
           /\ WilderSmooth(values, w) = [i \in 1..n |-> IF i < w THEN None ELSE g[i]]
<1> DEFINE first == IF w <= n THEN Total(SubSeq(values, 1, w)) \div w ELSE 0
           step == [p \in Int \X (w..n) |-> ((w - 1) * p[1] + values[p[2]]) \div w]
           Body(h, i) == IF i = w THEN Total(SubSeq(values, 1, w)) \div w
                         ELSE ((w - 1) * h[i - 1] + values[i]) \div w
           It == CHOOSE h : h = [i \in w..Len(values) |-> Body(h, i)]
<1>1. Len(values) = n /\ DOMAIN values = 1..n
  BY ListOf
<1>2. first \in Int
  <2>1. CASE w <= n
    <3>1. /\ SubSeq(values, 1, w) \in Seq(Int) /\ Len(SubSeq(values, 1, w)) = w
      <4>1. \A i \in 1..w : values[i] \in Int
        BY <2>1
      <4>. QED  BY <4>1, SubSeqProperties
    <3>2. SubSeq(values, 1, w) \in [1..w -> Int]
      BY <3>1, LenProperties
    <3>3. Total(SubSeq(values, 1, w)) \in Int
      BY <3>2, TotalIsInt
    <3>. QED  BY <2>1, <3>3
  <2>. QED  BY <2>1
<1>3. step \in [Int \X (w..n) -> Int]
  <2>1. ASSUME NEW v \in Int, NEW i \in w..n PROVE ((w - 1) * v + values[i]) \div w \in Int
    <3>1. values[i] \in Int
      OBVIOUS
    <3>. QED  BY <3>1
  <2>. QED  BY <2>1
<1>4. \A v \in Int, i \in w..n : step[<<v, i>>] = ((w - 1) * v + values[i]) \div w
  OBVIOUS
<1>5. w <= n => first = Total(SubSeq(values, 1, w)) \div w
  OBVIOUS
<1> HIDE DEF first, step
<1>6. PICK g \in [w..n -> Int] : Steps(g, w, n, first, step)
  <2> HIDE DEF Body, It
  <2>1. w \in Int /\ n \in Int
    OBVIOUS
  <2>. QED  BY <1>2, <1>3, <2>1, RecursionExists
<1>7. ASSUME NEW i \in w..n PROVE g[i] = Body(g, i)
  <2>1. g[i] = IF i = w THEN first ELSE step[<<g[i - 1], i>>]
    BY <1>6 DEF Steps
  <2>2. CASE i = w
    BY <1>5, <2>1, <2>2
  <2>3. CASE i # w
    <3>1. g[i - 1] \in Int
      BY <2>3
    <3>. QED  BY <1>4, <2>1, <2>3, <3>1
  <2>. QED  BY <2>2, <2>3
<1>8. It = [i \in w..n |-> Body(It, i)]
  <2>1. g = [i \in w..n |-> Body(g, i)]
    <3> HIDE DEF Body
    <3>. QED  BY <1>7
  <2>2. \E h : h = [i \in w..Len(values) |-> Body(h, i)]
    BY <1>1, <2>1
  <2>3. It = [i \in w..Len(values) |-> Body(It, i)]
    BY <2>2
  <2>. QED  BY <1>1, <2>3
<1>9. \A i \in w..n : It[i] = Body(It, i)
  <2> HIDE DEF It
  <2>. QED  BY <1>8
<1>10. WilderSmooth(values, w) = [i \in DOMAIN values |-> IF i < w THEN None ELSE It[i]]
  BY DEF WilderSmooth
<1> HIDE DEF It
<1>11. \A i \in w..n : g[i] = It[i]
  <2>1. w <= n => g[w] = It[w]
    BY <1>7, <1>9
  <2>2. ASSUME NEW i \in (w + 1)..n, g[i - 1] = It[i - 1] PROVE g[i] = It[i]
    <3>1. i \in w..n /\ i # w
      OBVIOUS
    <3>. QED  BY <1>7, <1>9, <2>2, <3>1
  <2>3. SameSteps(g, It, w, n)
    BY <2>1, <2>2 DEF SameSteps
  <2>. QED  BY <2>3, StepsAgree
<1>12. Smoothed(g, values, n, w)
  BY <1>7 DEF Smoothed
<1>13. WilderSmooth(values, w) = [i \in 1..n |-> IF i < w THEN None ELSE g[i]]
  BY <1>1, <1>10, <1>11
<1>. QED  BY <1>12, <1>13

LEMMA UpToIs ==
  ASSUME NEW S, NEW n \in Nat, NEW f \in [1..n -> S], NEW m \in Nat, m <= n
  PROVE  /\ UpTo(f, m) \in [1..m -> S] /\ Len(UpTo(f, m)) = m
         /\ \A i \in 1..m : UpTo(f, m)[i] = f[i] /\ i \in 1..n
<1>1. UpTo(f, m) \in [1..m -> S] /\ \A i \in 1..m : UpTo(f, m)[i] = f[i] /\ i \in 1..n
  BY DEF UpTo
<1>. QED  BY <1>1, ListOf

\* The smoothed series of the first values is the beginning of that of all.
LEMMA WilderBegins ==
  ASSUME NEW n \in Nat, NEW values \in [1..n -> Int], NEW w \in Nat \ {0}, NEW m \in Nat, m <= n
  PROVE  WilderSmooth(UpTo(values, m), w) = UpTo(WilderSmooth(values, w), m)
<1> DEFINE first == UpTo(values, m)
<1>1. /\ first \in [1..m -> Int] /\ \A i \in 1..m : first[i] = values[i] /\ i \in 1..n
  BY UpToIs
<1> HIDE DEF first
<1>2. PICK g \in [w..n -> Int] :
        /\ Smoothed(g, values, n, w)
        /\ WilderSmooth(values, w) = [i \in 1..n |-> IF i < w THEN None ELSE g[i]]
  BY WilderUnfolds
<1>3. PICK h \in [w..m -> Int] :
        /\ Smoothed(h, first, m, w)
        /\ WilderSmooth(first, w) = [i \in 1..m |-> IF i < w THEN None ELSE h[i]]
  BY <1>1, WilderUnfolds
<1>4. \A i \in w..m : g[i] = h[i]
  <2>1. ASSUME w <= m PROVE g[w] = h[w]
    <3>1. \A i \in 1..w : first[i] = values[i]
      BY <1>1, <2>1
    <3>2. 1 \in Int /\ w \in Int
      OBVIOUS
    <3>3. SubSeq(first, 1, w) = SubSeq(values, 1, w)
      BY <3>1, <3>2, SubSeqAgree
    <3>4. w \in w..m /\ w \in w..n
      BY <2>1
    <3>5. g[w] = Total(SubSeq(values, 1, w)) \div w
      BY <1>2, <3>4 DEF Smoothed
    <3>6. h[w] = Total(SubSeq(first, 1, w)) \div w
      BY <1>3, <3>4 DEF Smoothed
    <3>. QED  BY <3>3, <3>5, <3>6
  <2>2. ASSUME NEW i \in (w + 1)..m, g[i - 1] = h[i - 1] PROVE g[i] = h[i]
    <3>1. i \in w..m /\ i \in w..n /\ i # w /\ i \in 1..m
      OBVIOUS
    <3>2. g[i] = ((w - 1) * g[i - 1] + values[i]) \div w
      BY <1>2, <3>1 DEF Smoothed
    <3>3. h[i] = ((w - 1) * h[i - 1] + first[i]) \div w
      BY <1>3, <3>1 DEF Smoothed
    <3>. QED  BY <1>1, <2>2, <3>1, <3>2, <3>3
  <2>3. SameSteps(g, h, w, m)
    BY <2>1, <2>2 DEF SameSteps
  <2>4. w \in Int /\ m \in Int
    OBVIOUS
  <2>. QED  BY ONLY <2>3, <2>4, StepsAgree
<1>5. UpTo(WilderSmooth(values, w), m) = [i \in 1..m |-> IF i < w THEN None ELSE h[i]]
  BY <1>2, <1>4 DEF UpTo
<1>. QED  BY <1>3, <1>5 DEF first

\* None in the window, whole numbers from its end on.
LEMMA WilderIs ==
  ASSUME NEW n \in Nat, NEW values \in [1..n -> Int], NEW w \in Nat \ {0}
  PROVE  /\ WilderSmooth(values, w) \in [1..n -> Int \cup {None}]
         /\ \A i \in 1..n : IF i < w THEN WilderSmooth(values, w)[i] = None
                                     ELSE WilderSmooth(values, w)[i] \in Int
<1>1. PICK g \in [w..n -> Int] :
        /\ Smoothed(g, values, n, w)
        /\ WilderSmooth(values, w) = [i \in 1..n |-> IF i < w THEN None ELSE g[i]]
  BY WilderUnfolds
<1>2. \A i \in 1..n : i < w \/ i \in w..n
  OBVIOUS
<1>. QED  BY <1>1, <1>2

\* g is the exponential average of the values.
AveragesOf(g, values, n, span) ==
  /\ g \in [1..n -> Int]
  /\ \A i \in 1..n : g[i] = IF i = 1 THEN values[1] ELSE (2 * values[i] + (span - 1) * g[i - 1]) \div (span + 1)

LEMMA EmaUnfolds ==
  ASSUME NEW n \in Nat, NEW values \in [1..n -> Int], NEW span \in Nat
  PROVE  AveragesOf(Ema(values, span), values, n, span)
<1> DEFINE first == IF 1 <= n THEN values[1] ELSE 0
           step == [p \in Int \X (1..n) |-> (2 * values[p[2]] + (span - 1) * p[1]) \div (span + 1)]
           Body(h, i) == IF i = 1 THEN values[1] ELSE (2 * values[i] + (span - 1) * h[i - 1]) \div (span + 1)
           It == CHOOSE h : h = [i \in DOMAIN values |-> Body(h, i)]
<1>1. DOMAIN values = 1..n
  OBVIOUS
<1>2. first \in Int
  OBVIOUS
<1>3. step \in [Int \X (1..n) -> Int]
  <2>1. ASSUME NEW v \in Int, NEW i \in 1..n PROVE (2 * values[i] + (span - 1) * v) \div (span + 1) \in Int
    <3>1. values[i] \in Int /\ span + 1 \in Nat \ {0}
      OBVIOUS
    <3>. QED  BY <3>1
  <2>. QED  BY <2>1
<1>4. \A v \in Int, i \in 1..n : step[<<v, i>>] = (2 * values[i] + (span - 1) * v) \div (span + 1)
  OBVIOUS
<1>5. 1 <= n => first = values[1]
  OBVIOUS
<1> HIDE DEF first, step
<1>6. PICK g \in [1..n -> Int] : Steps(g, 1, n, first, step)
  <2> HIDE DEF Body, It
  <2>1. 1 \in Int /\ n \in Int
    OBVIOUS
  <2>. QED  BY <1>2, <1>3, <2>1, RecursionExists
<1>7. ASSUME NEW i \in 1..n PROVE g[i] = Body(g, i)
  <2>1. g[i] = IF i = 1 THEN first ELSE step[<<g[i - 1], i>>]
    BY <1>6 DEF Steps
  <2>2. CASE i = 1
    BY <1>5, <2>1, <2>2
  <2>3. CASE i # 1
    <3>1. g[i - 1] \in Int
      BY <2>3
    <3>. QED  BY <1>4, <2>1, <2>3, <3>1
  <2>. QED  BY <2>2, <2>3
<1>8. It = [i \in 1..n |-> Body(It, i)]
  <2>1. g = [i \in 1..n |-> Body(g, i)]
    <3> HIDE DEF Body
    <3>. QED  BY <1>7
  <2>2. It = [i \in DOMAIN values |-> Body(It, i)]
    BY <1>1, <2>1
  <2>. QED  BY <1>1, <2>2
<1>9. \A i \in 1..n : It[i] = Body(It, i)
  <2> HIDE DEF It
  <2>. QED  BY <1>8
<1>10. Ema(values, span) = [i \in DOMAIN values |-> It[i]]
  BY DEF Ema
<1> HIDE DEF It
<1>11. \A i \in 1..n : g[i] = It[i]
  <2>1. 1 <= n => g[1] = It[1]
    BY <1>7, <1>9
  <2>2. ASSUME NEW i \in (1 + 1)..n, g[i - 1] = It[i - 1] PROVE g[i] = It[i]
    <3>1. i \in 1..n /\ i # 1
      OBVIOUS
    <3>. QED  BY <1>7, <1>9, <2>2, <3>1
  <2>3. SameSteps(g, It, 1, n)
    BY <2>1, <2>2 DEF SameSteps
  <2>4. 1 \in Int /\ n \in Int
    OBVIOUS
  <2>. QED  BY <2>3, <2>4, StepsAgree
<1>12. Ema(values, span) = g
  BY <1>1, <1>10, <1>11
<1>13. AveragesOf(g, values, n, span)
  BY <1>7 DEF AveragesOf
<1>. QED  BY <1>12, <1>13

LEMMA EmaBegins ==
  ASSUME NEW n \in Nat, NEW values \in [1..n -> Int], NEW span \in Nat, NEW m \in Nat, m <= n
  PROVE  Ema(UpTo(values, m), span) = UpTo(Ema(values, span), m)
<1> DEFINE first == UpTo(values, m)
           g == Ema(values, span)
           h == Ema(first, span)
<1>1. /\ first \in [1..m -> Int] /\ \A i \in 1..m : first[i] = values[i] /\ i \in 1..n
  BY UpToIs
<1> HIDE DEF first
<1>2. AveragesOf(g, values, n, span)
  BY EmaUnfolds
<1>3. AveragesOf(h, first, m, span)
  BY <1>1, EmaUnfolds
<1> HIDE DEF g, h
<1>4. SameSteps(g, h, 1, m)
  <2>1. 1 <= m => g[1] = h[1]
    BY <1>1, <1>2, <1>3 DEF AveragesOf
  <2>2. ASSUME NEW i \in (1 + 1)..m, g[i - 1] = h[i - 1] PROVE g[i] = h[i]
    <3>1. i \in 1..m /\ i \in 1..n /\ i # 1
      OBVIOUS
    <3>. QED  BY <1>1, <1>2, <1>3, <2>2, <3>1 DEF AveragesOf
  <2>. QED  BY <2>1, <2>2 DEF SameSteps
<1>5. \A i \in 1..m : g[i] = h[i]
  <2>1. 1 \in Int /\ m \in Int
    OBVIOUS
  <2>. QED  BY <1>4, <2>1, StepsAgree
<1>6. UpTo(g, m) = h
  BY <1>2, <1>3, <1>5 DEF UpTo, AveragesOf
<1>. QED  BY <1>6 DEF g, h, first

-----------------------------------------------------------------------------
(* The series of the first bars are the first values of the series of all.   *)

Rises(closes, n) ==
  [i \in 1..(n - 1) |-> IF closes[i + 1] - closes[i] > 0 THEN closes[i + 1] - closes[i] ELSE 0]
Falls(closes, n) ==
  [i \in 1..(n - 1) |-> IF closes[i + 1] - closes[i] < 0 THEN -(closes[i + 1] - closes[i]) ELSE 0]

RsiOf(g, l) == IF g = None THEN None ELSE IF g + l = 0 THEN 50 ELSE Percent(g, g + l)

LEMMA RsiIs ==
  ASSUME NEW n \in Nat, 1 <= n, NEW closes \in [1..n -> Int], NEW w \in Nat \ {0}
  PROVE  /\ Rises(closes, n) \in [1..(n - 1) -> Nat] /\ Falls(closes, n) \in [1..(n - 1) -> Nat]
         /\ RsiSeries(closes, w)
            = [i \in 1..n |-> IF i = 1 THEN None
                              ELSE RsiOf(WilderSmooth(Rises(closes, n), w)[i - 1],
                                         WilderSmooth(Falls(closes, n), w)[i - 1])]
<1> DEFINE delta == [i \in 1..(n - 1) |-> closes[i + 1] - closes[i]]
           gains == [i \in DOMAIN delta |-> IF delta[i] > 0 THEN delta[i] ELSE 0]
           losses == [i \in DOMAIN delta |-> IF delta[i] < 0 THEN -delta[i] ELSE 0]
<1>1. Len(closes) = n
  BY ListOf
<1>2. DOMAIN delta = 1..(n - 1) /\ \A i \in 1..(n - 1) : delta[i] = closes[i + 1] - closes[i] /\ delta[i] \in Int
  <2>1. \A i \in 1..(n - 1) : closes[i] \in Int /\ closes[i + 1] \in Int
    OBVIOUS
  <2>. QED  BY <2>1
<1>3. gains = Rises(closes, n) /\ losses = Falls(closes, n)
  <2> HIDE DEF delta
  <2>. QED  BY <1>2 DEF Rises, Falls
<1>4. Rises(closes, n) \in [1..(n - 1) -> Nat] /\ Falls(closes, n) \in [1..(n - 1) -> Nat]
  <2>1. \A i \in 1..(n - 1) : closes[i + 1] - closes[i] \in Int
    BY <1>2
  <2> HIDE DEF delta, gains, losses
  <2>. QED  BY ONLY <2>1 DEF Rises, Falls
<1>5. RsiSeries(closes, w)
      = FromSecondBar(n, [i \in DOMAIN delta |-> RsiOf(WilderSmooth(gains, w)[i], WilderSmooth(losses, w)[i])])
  BY <1>1 DEF RsiSeries, RsiOf
<1> HIDE DEF delta, gains, losses
<1>6. RsiSeries(closes, w)
      = FromSecondBar(n, [i \in 1..(n - 1) |-> RsiOf(WilderSmooth(Rises(closes, n), w)[i],
                                                     WilderSmooth(Falls(closes, n), w)[i])])
  BY <1>2, <1>3, <1>5
<1>7. \A i \in 1..n : i # 1 => i - 1 \in 1..(n - 1)
  OBVIOUS
<1>. QED  BY <1>4, <1>6, <1>7 DEF FromSecondBar

LEMMA RsiBegins ==
  ASSUME NEW n \in Nat, NEW closes \in [1..n -> Int], NEW w \in Nat \ {0}, NEW m \in Nat, 1 <= m, m <= n
  PROVE  RsiSeries(UpTo(closes, m), w) = UpTo(RsiSeries(closes, w), m)
<1> DEFINE first == UpTo(closes, m)
<1>1. 1 <= n /\ m - 1 \in Nat /\ n - 1 \in Nat /\ m - 1 <= n - 1
  OBVIOUS
<1>2. first \in [1..m -> Int] /\ \A i \in 1..m : first[i] = closes[i] /\ i \in 1..n
  BY UpToIs
<1> HIDE DEF first
<1>3. Rises(first, m) = UpTo(Rises(closes, n), m - 1) /\ Falls(first, m) = UpTo(Falls(closes, n), m - 1)
  <2>1. \A i \in 1..(m - 1) : i \in 1..m /\ i + 1 \in 1..m /\ i \in 1..(n - 1)
    BY <1>1
  <2>. QED  BY <1>2, <2>1 DEF Rises, Falls, UpTo
<1>4. /\ Rises(closes, n) \in [1..(n - 1) -> Int] /\ Falls(closes, n) \in [1..(n - 1) -> Int]
      /\ RsiSeries(closes, w) = [i \in 1..n |-> IF i = 1 THEN None
                                   ELSE RsiOf(WilderSmooth(Rises(closes, n), w)[i - 1],
                                              WilderSmooth(Falls(closes, n), w)[i - 1])]
  BY RsiIs
<1>5. RsiSeries(first, w) = [i \in 1..m |-> IF i = 1 THEN None
                               ELSE RsiOf(WilderSmooth(Rises(first, m), w)[i - 1],
                                          WilderSmooth(Falls(first, m), w)[i - 1])]
  BY <1>1, <1>2, RsiIs
<1>6. /\ WilderSmooth(Rises(first, m), w) = UpTo(WilderSmooth(Rises(closes, n), w), m - 1)
      /\ WilderSmooth(Falls(first, m), w) = UpTo(WilderSmooth(Falls(closes, n), w), m - 1)
  <2>1. PICK k \in Nat : k = n - 1
    BY <1>1
  <2>2. PICK j \in Nat : j = m - 1 /\ j <= k
    BY <1>1, <2>1
  <2>3. Rises(closes, n) \in [1..k -> Int] /\ Falls(closes, n) \in [1..k -> Int]
    BY <1>4, <2>1
  <2>4. \A s \in [1..k -> Int] : WilderSmooth(UpTo(s, j), w) = UpTo(WilderSmooth(s, w), j)
    BY <2>2, WilderBegins
  <2>5. /\ WilderSmooth(UpTo(Rises(closes, n), j), w) = UpTo(WilderSmooth(Rises(closes, n), w), j)
        /\ WilderSmooth(UpTo(Falls(closes, n), j), w) = UpTo(WilderSmooth(Falls(closes, n), w), j)
    BY <2>3, <2>4
  <2>. QED  BY <1>3, <2>2, <2>5
<1>7. ASSUME NEW i \in 1..m, i # 1
      PROVE  /\ WilderSmooth(Rises(first, m), w)[i - 1] = WilderSmooth(Rises(closes, n), w)[i - 1]
             /\ WilderSmooth(Falls(first, m), w)[i - 1] = WilderSmooth(Falls(closes, n), w)[i - 1]
  <2>1. i - 1 \in 1..(m - 1)
    BY <1>7
  <2>. QED  BY <1>6, <2>1 DEF UpTo
<1>8. \A i \in 1..m : i \in 1..n
  OBVIOUS
<1>9. UpTo(RsiSeries(closes, w), m) = RsiSeries(first, w)
  BY <1>4, <1>5, <1>7, <1>8 DEF UpTo
<1>. QED  BY <1>9 DEF first

Bars == [open : Int, high : Int, low : Nat \ {0}, close : Int, volume : Nat]

LEMMA TrueRangeIs ==
  ASSUME NEW n \in Nat, 1 <= n, NEW bars \in [1..n -> Bars]
  PROVE  /\ TrueRange(bars) \in [1..(n - 1) -> Int]
         /\ \A i \in 1..(n - 1) :
              LET a == bars[i + 1].high - bars[i + 1].low
                  b == bars[i + 1].high - bars[i].close
                  c == bars[i + 1].low - bars[i].close
              IN  /\ TrueRange(bars)[i] = Max({a, Abs(b), Abs(c)})
                  /\ a <= TrueRange(bars)[i] /\ b <= TrueRange(bars)[i] /\ -b <= TrueRange(bars)[i]
                  /\ c <= TrueRange(bars)[i] /\ -c <= TrueRange(bars)[i]
<1>1. Len(bars) = n
  BY ListOf
<1>2. ASSUME NEW i \in 1..(n - 1)
      PROVE  LET a == bars[i + 1].high - bars[i + 1].low
                 b == bars[i + 1].high - bars[i].close
                 c == bars[i + 1].low - bars[i].close
             IN  /\ {a, b, c} \subseteq Int
                 /\ Max({a, Abs(b), Abs(c)}) \in Int
                 /\ a <= Max({a, Abs(b), Abs(c)}) /\ b <= Max({a, Abs(b), Abs(c)}) /\ -b <= Max({a, Abs(b), Abs(c)})
                 /\ c <= Max({a, Abs(b), Abs(c)}) /\ -c <= Max({a, Abs(b), Abs(c)})
  <2> DEFINE a == bars[i + 1].high - bars[i + 1].low
             b == bars[i + 1].high - bars[i].close
             c == bars[i + 1].low - bars[i].close
             S == {a, Abs(b), Abs(c)}
  <2> HIDE DEF a, b, c, S
  <2>0. bars[i] \in Bars /\ bars[i + 1] \in Bars /\ i \in 1..n /\ i + 1 \in 1..n
    OBVIOUS
  <2>1. a \in Int /\ b \in Int /\ c \in Int
    <3>0. \A x \in Bars : x.close \in Int /\ x.high \in Int /\ x.low \in Int
      BY DEF Bars
    <3>1. bars[i].close \in Int /\ bars[i + 1].high \in Int /\ bars[i + 1].low \in Int
      BY <2>0, <3>0
    <3>. QED  BY <3>1 DEF a, b, c
  <2> USE DEF S
  <2>2. /\ Abs(b) \in Int /\ b <= Abs(b) /\ -b <= Abs(b)
        /\ Abs(c) \in Int /\ c <= Abs(c) /\ -c <= Abs(c)
    BY <2>1 DEF Abs
  <2>3. S \in SUBSET Int /\ IsFiniteSet(S) /\ S # {}
    <3>1. IsFiniteSet({a}) /\ IsFiniteSet({Abs(b)}) /\ IsFiniteSet({Abs(c)})
      BY FS_Singleton
    <3>2. IsFiniteSet(({a} \cup {Abs(b)}) \cup {Abs(c)})
      BY <3>1, FS_Union
    <3>3. S = ({a} \cup {Abs(b)}) \cup {Abs(c)}
      OBVIOUS
    <3>. QED  BY <2>1, <2>2, <3>2, <3>3
  <2>4. Max(S) \in S /\ \A x \in S : x <= Max(S)
    <3> HIDE DEF S
    <3>. QED  BY <2>3, FiniteSetHasBounds
  <2>5. Max(S) \in Int /\ a <= Max(S) /\ Abs(b) <= Max(S) /\ Abs(c) <= Max(S)
    BY <2>3, <2>4
  <2> HIDE DEF S
  <2>6. b <= Max(S) /\ -b <= Max(S) /\ c <= Max(S) /\ -c <= Max(S)
    BY <2>1, <2>2, <2>5
  <2>. QED  BY <2>1, <2>5, <2>6 DEF S, a, b, c
<1>3. TrueRange(bars) = [i \in 1..(n - 1) |->
        Max({bars[i + 1].high - bars[i + 1].low, Abs(bars[i + 1].high - bars[i].close),
             Abs(bars[i + 1].low - bars[i].close)})]
  BY <1>1 DEF TrueRange
<1>. QED  BY <1>2, <1>3

LEMMA BarsUpToIs ==
  ASSUME NEW n \in Nat, NEW bars \in [1..n -> Bars], NEW m \in Nat, m <= n
  PROVE  /\ UpTo(bars, m) \in [1..m -> Bars] /\ Len(UpTo(bars, m)) = m
         /\ \A i \in 1..m : UpTo(bars, m)[i] = bars[i] /\ i \in 1..n
BY UpToIs

LEMMA TrueRangeBegins ==
  ASSUME NEW n \in Nat, NEW bars \in [1..n -> Bars], NEW m \in Nat, 1 <= m, m <= n
  PROVE  TrueRange(UpTo(bars, m)) = UpTo(TrueRange(bars), m - 1)
<1> DEFINE first == UpTo(bars, m)
<1>1. /\ first \in [1..m -> Bars] /\ Len(first) = m /\ \A i \in 1..m : first[i] = bars[i] /\ i \in 1..n
  BY BarsUpToIs
<1>2. Len(bars) = n
  BY ListOf
<1> HIDE DEF first
<1>3. \A i \in 1..(m - 1) : i \in 1..m /\ i + 1 \in 1..m /\ i \in 1..(n - 1)
  OBVIOUS
<1>4. TrueRange(first) = UpTo(TrueRange(bars), m - 1)
  BY <1>1, <1>2, <1>3 DEF TrueRange, UpTo
<1>. QED  BY <1>4 DEF first

LEMMA AtrIs ==
  ASSUME NEW n \in Nat, 1 <= n, NEW bars \in [1..n -> Bars], NEW w
  PROVE  AtrSeries(bars, w) = [i \in 1..n |-> IF i = 1 THEN None ELSE WilderSmooth(TrueRange(bars), w)[i - 1]]
<1>1. Len(bars) = n /\ bars # <<>>
  BY ListOf
<1>. QED  BY <1>1 DEF AtrSeries, FromSecondBar

\* As WilderBegins, item by item.
LEMMA WilderAgrees ==
  ASSUME NEW k \in Nat, NEW j \in Nat, j <= k, NEW w \in Nat \ {0}, NEW changes \in [1..k -> Int]
  PROVE  \A i \in 1..j : WilderSmooth(UpTo(changes, j), w)[i] = WilderSmooth(changes, w)[i]
<1>1. WilderSmooth(UpTo(changes, j), w) = UpTo(WilderSmooth(changes, w), j)
  BY WilderBegins
<1>. QED  BY <1>1 DEF UpTo

LEMMA AtrBegins ==
  ASSUME NEW n \in Nat, NEW bars \in [1..n -> Bars], NEW w \in Nat \ {0}, NEW m \in Nat, 1 <= m, m <= n
  PROVE  AtrSeries(UpTo(bars, m), w) = UpTo(AtrSeries(bars, w), m)
<1> DEFINE first == UpTo(bars, m)
<1>1. /\ first \in [1..m -> Bars] /\ Len(first) = m /\ \A i \in 1..m : first[i] = bars[i] /\ i \in 1..n
  BY BarsUpToIs
<1>2. TrueRange(first) = UpTo(TrueRange(bars), m - 1)
  BY TrueRangeBegins
<1> HIDE DEF first
<1>3. TrueRange(bars) \in [1..(n - 1) -> Int]
  BY TrueRangeIs
<1>4. \A i \in 1..(m - 1) : WilderSmooth(TrueRange(first), w)[i] = WilderSmooth(TrueRange(bars), w)[i]
  <2>1. PICK k \in Nat : k = n - 1
    OBVIOUS
  <2>2. PICK j \in Nat : j = m - 1 /\ j <= k
    BY <2>1
  <2>3. TrueRange(bars) \in [1..k -> Int]
    BY <1>3, <2>1
  <2>4. \A i \in 1..j : WilderSmooth(UpTo(TrueRange(bars), j), w)[i] = WilderSmooth(TrueRange(bars), w)[i]
    BY <2>2, <2>3, WilderAgrees
  <2>. QED  BY <1>2, <2>2, <2>4
<1>5. AtrSeries(bars, w) = [i \in 1..n |-> IF i = 1 THEN None ELSE WilderSmooth(TrueRange(bars), w)[i - 1]]
  BY AtrIs
<1>6. AtrSeries(first, w) = [i \in 1..m |-> IF i = 1 THEN None ELSE WilderSmooth(TrueRange(first), w)[i - 1]]
  BY <1>1, AtrIs
<1>7. \A i \in 1..m : i # 1 => i - 1 \in 1..(m - 1)
  OBVIOUS
<1>8. AtrSeries(first, w) = UpTo(AtrSeries(bars, w), m)
  BY <1>1, <1>4, <1>5, <1>6, <1>7 DEF UpTo
<1>. QED  BY <1>8 DEF first

MacdLine(closes, n) == [i \in 1..n |-> Ema(closes, Spans.fast)[i] - Ema(closes, Spans.slow)[i]]

Warm == Spans.slow + Spans.signal

LEMMA SpansAreNat == {Spans.wilder, Spans.slow, Spans.fast, Spans.signal, Spans.pivot} \subseteq Nat
BY SpansAssumption

LEMMA MacdIs ==
  ASSUME NEW n \in Nat, NEW closes \in [1..n -> Int]
  PROVE  /\ MacdLine(closes, n) \in [1..n -> Int]
         /\ MacdSeries(closes).histogram
            = [i \in 1..n |-> IF i < Warm THEN None
                              ELSE MacdLine(closes, n)[i] - Ema(MacdLine(closes, n), Spans.signal)[i]]
<1> DEFINE line == [i \in 1..n |-> Ema(closes, Spans.fast)[i] - Ema(closes, Spans.slow)[i]]
<1>1. Len(closes) = n
  BY ListOf
<1>2. Ema(closes, Spans.fast) \in [1..n -> Int]
  BY SpansAreNat, EmaUnfolds DEF AveragesOf
<1>3. Ema(closes, Spans.slow) \in [1..n -> Int]
  BY SpansAreNat, EmaUnfolds DEF AveragesOf
<1>4. MacdLine(closes, n) \in [1..n -> Int]
  BY <1>2, <1>3 DEF MacdLine
<1>5. MacdLine(closes, n) = line
  BY DEF MacdLine
<1>6. MacdSeries(closes).histogram
      = IF n < Warm THEN Undefined(n)
        ELSE [i \in 1..n |-> IF i < Warm THEN None
                             ELSE [j \in 1..n |-> line[j] - Ema(line, Spans.signal)[j]][i]]
  BY <1>1 DEF MacdSeries, Warm
<1> HIDE DEF line
<1>7. Warm \in Int
  BY SpansAreNat DEF Warm
<1>8. MacdSeries(closes).histogram = [i \in 1..n |-> IF i < Warm THEN None ELSE line[i] - Ema(line, Spans.signal)[i]]
  <2>1. CASE n < Warm
    <3>1. \A i \in 1..n : i < Warm
      BY <1>7, <2>1
    <3>. QED  BY <1>6, <2>1, <3>1 DEF Undefined
  <2>2. CASE ~(n < Warm)
    BY <1>6, <2>2
  <2>. QED  BY <2>1, <2>2
<1>. QED  BY <1>4, <1>5, <1>8

LEMMA MacdBegins ==
  ASSUME NEW n \in Nat, NEW closes \in [1..n -> Int], NEW m \in Nat, m <= n
  PROVE  MacdSeries(UpTo(closes, m)).histogram = UpTo(MacdSeries(closes).histogram, m)
<1> DEFINE first == UpTo(closes, m)
<1>1. first \in [1..m -> Int] /\ \A i \in 1..m : first[i] = closes[i] /\ i \in 1..n
  BY UpToIs
<1>2. Ema(first, Spans.fast) = UpTo(Ema(closes, Spans.fast), m)
  BY SpansAreNat, EmaBegins
<1>3. Ema(first, Spans.slow) = UpTo(Ema(closes, Spans.slow), m)
  BY SpansAreNat, EmaBegins
<1> HIDE DEF first
<1>4. MacdLine(first, m) = UpTo(MacdLine(closes, n), m)
  BY <1>1, <1>2, <1>3 DEF MacdLine, UpTo
<1>5. /\ MacdLine(closes, n) \in [1..n -> Int]
      /\ MacdSeries(closes).histogram
         = [i \in 1..n |-> IF i < Warm THEN None
                           ELSE MacdLine(closes, n)[i] - Ema(MacdLine(closes, n), Spans.signal)[i]]
  BY MacdIs
<1>6. MacdSeries(first).histogram
      = [i \in 1..m |-> IF i < Warm THEN None
                        ELSE MacdLine(first, m)[i] - Ema(MacdLine(first, m), Spans.signal)[i]]
  BY <1>1, MacdIs
<1>7. Ema(UpTo(MacdLine(closes, n), m), Spans.signal) = UpTo(Ema(MacdLine(closes, n), Spans.signal), m)
  <2>1. MacdLine(closes, n) \in [1..n -> Int] /\ Spans.signal \in Nat
    BY <1>5, SpansAreNat
  <2>. QED  BY <2>1, EmaBegins
<1>8. \A i \in 1..m : /\ MacdLine(first, m)[i] = MacdLine(closes, n)[i]
                      /\ Ema(MacdLine(first, m), Spans.signal)[i] = Ema(MacdLine(closes, n), Spans.signal)[i]
  BY <1>4, <1>7 DEF UpTo
<1>9. MacdSeries(first).histogram = UpTo(MacdSeries(closes).histogram, m)
  BY <1>1, <1>5, <1>6, <1>8 DEF UpTo
<1>. QED  BY <1>9 DEF first

LEMMA TotalOrdered ==
  ASSUME NEW n \in Nat, NEW a \in [1..n -> Nat], NEW b \in [1..n -> Int], \A i \in 1..n : a[i] <= b[i]
  PROVE  Total(a) \in Nat /\ Total(b) \in Int /\ Total(a) <= Total(b)
<1>1. DOMAIN a = 1..n /\ DOMAIN b = 1..n /\ IsFiniteSet(1..n)
  BY FS_Interval
<1>2. \A i \in 1..n : a[i] \in Nat
  OBVIOUS
<1>3. Summable(a, 1..n) /\ Sum(a, 1..n) \in Nat
  BY <1>1, <1>2, SumOfNaturals
<1>4. Summable(b, 1..n)
  BY <1>1 DEF Summable
<1>5. Sum(a, 1..n) <= Sum(b, 1..n)
  BY <1>3, <1>4, SumOrdered
<1>6. Sum(b, 1..n) \in Int
  BY <1>4, SumUnfolds
<1>. QED  BY <1>1, <1>3, <1>5, <1>6, TotalIsSum

\* Smoothing keeps two series in their order, and what is not negative so.
LEMMA WilderOrdered ==
  ASSUME NEW n \in Nat, NEW a \in [1..n -> Nat], NEW b \in [1..n -> Nat], \A i \in 1..n : a[i] <= b[i],
         NEW w \in Nat \ {0}
  PROVE  \A i \in 1..n : i >= w => /\ WilderSmooth(a, w)[i] \in Nat /\ WilderSmooth(b, w)[i] \in Nat
                                   /\ WilderSmooth(a, w)[i] <= WilderSmooth(b, w)[i]
<1>0. a \in [1..n -> Int] /\ b \in [1..n -> Int]
  OBVIOUS
<1>1. PICK g \in [w..n -> Int] :
        /\ Smoothed(g, a, n, w)
        /\ WilderSmooth(a, w) = [i \in 1..n |-> IF i < w THEN None ELSE g[i]]
  BY <1>0, WilderUnfolds
<1>2. PICK h \in [w..n -> Int] :
        /\ Smoothed(h, b, n, w)
        /\ WilderSmooth(b, w) = [i \in 1..n |-> IF i < w THEN None ELSE h[i]]
  BY <1>0, WilderUnfolds
<1> DEFINE T == {m \in Nat : w + m <= n => 0 <= g[w + m] /\ g[w + m] <= h[w + m]}
<1>3. 0 \in T
  <2> SUFFICES ASSUME w <= n PROVE 0 <= g[w] /\ g[w] <= h[w]
    OBVIOUS
  <2> DEFINE x == SubSeq(a, 1, w)
             y == SubSeq(b, 1, w)
  <2>1. \A i \in 1..w : a[i] \in Nat /\ b[i] \in Nat /\ a[i] <= b[i]
    OBVIOUS
  <2>2. x \in Seq(Nat) /\ Len(x) = w /\ \A i \in 1..w : x[i] = a[i]
    <3>1. /\ x \in Seq(Nat) /\ Len(x) = IF 1 <= w THEN w - 1 + 1 ELSE 0
          /\ \A i \in 1..(w - 1 + 1) : x[i] = a[1 + i - 1]
      BY <2>1, SubSeqProperties
    <3>. QED  BY <3>1
  <2>3. y \in Seq(Nat) /\ Len(y) = w /\ \A i \in 1..w : y[i] = b[i]
    <3>1. /\ y \in Seq(Nat) /\ Len(y) = IF 1 <= w THEN w - 1 + 1 ELSE 0
          /\ \A i \in 1..(w - 1 + 1) : y[i] = b[1 + i - 1]
      BY <2>1, SubSeqProperties
    <3>. QED  BY <3>1
  <2> HIDE DEF x, y
  <2>4. x \in [1..w -> Nat] /\ y \in [1..w -> Nat]
    BY <2>2, <2>3, LenProperties
  <2>5. Total(x) \in Nat /\ Total(y) \in Int /\ Total(x) <= Total(y)
    <3>1. y \in [1..w -> Int] /\ w \in Nat
      BY <2>4
    <3>2. \A i \in 1..w : x[i] <= y[i]
      BY <2>1, <2>2, <2>3
    <3>. QED  BY <2>4, <3>1, <3>2, TotalOrdered
  <2>6. Total(x) \div w \in Nat
    BY <2>5, QuotientIsNat
  <2>7. Total(x) \div w <= Total(y) \div w
    <3>1. Total(x) \in Int
      BY <2>5
    <3>. QED  BY <2>5, <3>1, QuotientsFollow
  <2>8. g[w] = Total(x) \div w /\ h[w] = Total(y) \div w
    BY <1>1, <1>2 DEF Smoothed, x, y
  <2>. QED  BY <2>6, <2>7, <2>8
<1>4. ASSUME NEW m \in Nat, m \in T PROVE m + 1 \in T
  <2> SUFFICES ASSUME w + (m + 1) <= n PROVE 0 <= g[w + (m + 1)] /\ g[w + (m + 1)] <= h[w + (m + 1)]
    OBVIOUS
  <2>1. PICK i \in w..n : i = w + (m + 1) /\ i - 1 = w + m /\ i # w /\ i \in 1..n /\ i - 1 \in w..n
    <3>1. w + (m + 1) \in w..n
      OBVIOUS
    <3>. QED  BY <3>1
  <2>2. g[i - 1] \in Int /\ h[i - 1] \in Int /\ 0 <= g[i - 1] /\ g[i - 1] <= h[i - 1]
    BY <1>4, <2>1
  <2>3. PICK p \in Nat, q \in Nat : p = g[i - 1] /\ q = h[i - 1] /\ p <= q
    BY <2>2
  <2>4. g[i] = ((w - 1) * p + a[i]) \div w /\ h[i] = ((w - 1) * q + b[i]) \div w
    BY <1>1, <1>2, <2>1, <2>3 DEF Smoothed
  <2>5. PICK k \in Nat : k = w - 1
    OBVIOUS
  <2>6. k * p \in Nat /\ k * q \in Nat /\ k * p <= k * q
    BY <2>3, ProductOrdered
  <2>7. a[i] \in Nat /\ b[i] \in Nat /\ a[i] <= b[i]
    BY <2>1
  <2> DEFINE c == k * p + a[i]
             d == k * q + b[i]
  <2>8. c \in Nat /\ d \in Nat /\ c <= d
    <3>1. \A kp \in Nat, kq \in Nat, x \in Nat, y \in Nat :
            kp <= kq /\ x <= y => kp + x \in Nat /\ kq + y \in Nat /\ kp + x <= kq + y
      OBVIOUS
    <3>. QED  BY ONLY <2>6, <2>7, <3>1
  <2> HIDE DEF c, d
  <2>9. c \div w \in Nat /\ c \div w <= d \div w
    <3>1. c \in Int /\ d \in Int
      BY <2>8
    <3>2. c \div w \in Nat
      BY <2>8, QuotientIsNat
    <3>3. c \div w <= d \div w
      BY <2>8, <3>1, QuotientsFollow
    <3>. QED  BY <3>2, <3>3
  <2>. QED  BY <2>1, <2>4, <2>5, <2>9 DEF c, d
<1> HIDE DEF T
<1>5. \A m \in Nat : m \in T
  BY <1>3, <1>4, NatSetInduction
<1>6. ASSUME NEW i \in 1..n, i >= w PROVE 0 <= g[i] /\ g[i] <= h[i]
  <2>1. i - w \in Nat /\ w + (i - w) = i /\ i - w \in T
    BY <1>5, <1>6
  <2>. QED  BY <2>1 DEF T
<1>7. ASSUME NEW i \in 1..n, i >= w
      PROVE  /\ WilderSmooth(a, w)[i] \in Nat /\ WilderSmooth(b, w)[i] \in Nat
             /\ WilderSmooth(a, w)[i] <= WilderSmooth(b, w)[i]
  <2>1. i \in w..n /\ ~(i < w)
    BY <1>7
  <2>2. WilderSmooth(a, w)[i] = g[i] /\ WilderSmooth(b, w)[i] = h[i] /\ g[i] \in Int /\ h[i] \in Int
    BY <1>1, <1>2, <2>1
  <2>. QED  BY <1>6, <1>7, <2>2
<1>. QED  BY <1>7

-----------------------------------------------------------------------------
(* The direction of the market.                                              *)

PlacesOf(s) == {i \in DOMAIN s : s[i] # None}

LEMMA DefinedCounts ==
  ASSUME NEW n \in Nat, NEW s, DOMAIN s = 1..n
  PROVE  /\ PlacesOf(s) \in SUBSET (1..n) /\ IsFiniteSet(PlacesOf(s)) /\ Cardinality(PlacesOf(s)) \in Nat
         /\ Len(Defined(s)) = Cardinality(PlacesOf(s))
<1>1. PlacesOf(s) \in SUBSET (1..n) /\ IsFiniteSet(1..n)
  BY FS_Interval DEF PlacesOf
<1>2. IsFiniteSet(PlacesOf(s)) /\ Cardinality(PlacesOf(s)) \in Nat
  BY <1>1, FS_Subset, FS_CardinalityType
<1> DEFINE Nth(k) == CHOOSE i \in PlacesOf(s) : Cardinality({j \in PlacesOf(s) : j <= i}) = k
           items == [k \in 1..Cardinality(PlacesOf(s)) |-> s[Nth(k)]]
<1>3. Defined(s) = items
  BY DEF Defined, ItemsAt, PlacesOf
<1>4. Len(items) = Cardinality(PlacesOf(s))
  <2> HIDE DEF Nth
  <2>1. PICK c \in Nat : c = Cardinality(PlacesOf(s))
    BY <1>2
  <2>2. items \in [1..c -> {items[k] : k \in 1..c}]
    BY <2>1
  <2>3. Len(items) = c
    <3> HIDE DEF items
    <3>. QED  BY <2>2, ListOf
  <2>. QED  BY <2>1, <2>3
<1>. QED  BY <1>1, <1>2, <1>3, <1>4

\* All from some place on.
KnownAfter(s, n, k) == \A i \in 1..n : s[i] # None <=> i > k

LEMMA DefinedFrom ==
  ASSUME NEW n \in Nat, NEW s, DOMAIN s = 1..n, NEW k \in Nat, k <= n, KnownAfter(s, n, k)
  PROVE  Defined(s) = [j \in 1..(n - k) |-> s[k + j]]
<1> DEFINE at == {i \in DOMAIN s : s[i] # None}
           Nth(j) == CHOOSE i \in at : Cardinality({x \in at : x <= i}) = j
<1>1. at = (k + 1)..n
  BY DEF KnownAfter
<1>2. Cardinality(at) = n - k
  <2>1. k + 1 \in Int /\ n \in Int
    OBVIOUS
  <2>2. Cardinality((k + 1)..n) = IF k + 1 > n THEN 0 ELSE n - (k + 1) + 1
    BY <2>1, FS_Interval
  <2>3. Cardinality((k + 1)..n) = n - k
    BY <2>2
  <2> HIDE DEF at
  <2>. QED  BY <1>1, <2>3
<1>3. Defined(s) = [j \in 1..Cardinality(at) |-> s[Nth(j)]]
  BY DEF Defined, ItemsAt
<1> HIDE DEF at
<1>4. ASSUME NEW i \in at PROVE Cardinality({x \in at : x <= i}) = i - k
  <2>1. i \in Int /\ k + 1 \in Int /\ k + 1 <= i /\ {x \in at : x <= i} = (k + 1)..i
    BY <1>1
  <2>2. Cardinality((k + 1)..i) = IF k + 1 > i THEN 0 ELSE i - (k + 1) + 1
    BY <2>1, FS_Interval
  <2>3. Cardinality((k + 1)..i) = i - k
    BY <2>1, <2>2
  <2>. QED  BY <2>1, <2>3
<1>5. ASSUME NEW j \in 1..(n - k) PROVE Nth(j) = k + j
  <2>1. k + j \in at /\ \A i \in at : i - k = j <=> i = k + j
    BY <1>1
  <2>. QED  BY <1>4, <2>1
<1> HIDE DEF Nth
<1>. QED  BY <1>2, <1>3, <1>5

Up(bars, i) == bars[i + 1].high - bars[i].high
Down(bars, i) == bars[i].low - bars[i + 1].low

PlusMoves(bars, n) ==
  [i \in 1..(n - 1) |-> IF Up(bars, i) > Down(bars, i) /\ Up(bars, i) > 0 THEN Up(bars, i) ELSE 0]
MinusMoves(bars, n) ==
  [i \in 1..(n - 1) |-> IF Down(bars, i) > Up(bars, i) /\ Down(bars, i) > 0 THEN Down(bars, i) ELSE 0]

DxOf(range, plus, minus) ==
  IF range \in {None, 0} THEN None
  ELSE IF plus + minus = 0 THEN 0 ELSE Percent(Abs(plus - minus), plus + minus)

DxSeries(bars, n, w) ==
  [i \in 1..(n - 1) |-> DxOf(WilderSmooth(TrueRange(bars), w)[i], WilderSmooth(PlusMoves(bars, n), w)[i],
                             WilderSmooth(MinusMoves(bars, n), w)[i])]

\* A move is never more than the range, in which the close before lies.
LEMMA MovesAreBounded ==
  ASSUME NEW n \in Nat, 1 <= n, NEW bars \in [1..n -> Bars],
         \A i \in 1..n : bars[i].low <= bars[i].close /\ bars[i].close <= bars[i].high
  PROVE  /\ PlusMoves(bars, n) \in [1..(n - 1) -> Nat] /\ MinusMoves(bars, n) \in [1..(n - 1) -> Nat]
         /\ TrueRange(bars) \in [1..(n - 1) -> Nat]
         /\ \A i \in 1..(n - 1) : /\ PlusMoves(bars, n)[i] <= TrueRange(bars)[i]
                                  /\ MinusMoves(bars, n)[i] <= TrueRange(bars)[i]
<1>1. /\ TrueRange(bars) \in [1..(n - 1) -> Int]
      /\ \A i \in 1..(n - 1) :
           LET a == bars[i + 1].high - bars[i + 1].low
               b == bars[i + 1].high - bars[i].close
               c == bars[i + 1].low - bars[i].close
           IN  /\ TrueRange(bars)[i] = Max({a, Abs(b), Abs(c)})
               /\ a <= TrueRange(bars)[i] /\ b <= TrueRange(bars)[i] /\ -b <= TrueRange(bars)[i]
               /\ c <= TrueRange(bars)[i] /\ -c <= TrueRange(bars)[i]
  BY TrueRangeIs
<1>2. ASSUME NEW i \in 1..(n - 1)
      PROVE  /\ Up(bars, i) \in Int /\ Down(bars, i) \in Int
             /\ Up(bars, i) <= TrueRange(bars)[i] /\ Down(bars, i) <= TrueRange(bars)[i]
             /\ TrueRange(bars)[i] \in Nat
  <2>1. i \in 1..n /\ i + 1 \in 1..n /\ bars[i] \in Bars /\ bars[i + 1] \in Bars
    OBVIOUS
  <2>2. \A x \in Bars : x.close \in Int /\ x.high \in Int /\ x.low \in Int
    BY DEF Bars
  <2> DEFINE h == bars[i].high
             l == bars[i].low
             c == bars[i].close
             hh == bars[i + 1].high
             ll == bars[i + 1].low
             t == TrueRange(bars)[i]
  <2>3. h \in Int /\ l \in Int /\ c \in Int /\ hh \in Int /\ ll \in Int /\ l <= c /\ c <= h
    BY <2>1, <2>2
  <2>4. t \in Int /\ hh - ll <= t /\ hh - c <= t /\ -(ll - c) <= t /\ -(hh - c) <= t
    BY <1>1
  <2>5. Up(bars, i) = hh - h /\ Down(bars, i) = l - ll
    BY DEF Up, Down
  <2> HIDE DEF h, l, c, hh, ll, t
  <2>6. hh - h \in Int /\ l - ll \in Int /\ hh - h <= t /\ l - ll <= t /\ t \in Nat
    BY <2>3, <2>4
  <2>. QED  BY <2>5, <2>6 DEF t
<1>3. \A i \in 1..(n - 1) : TrueRange(bars)[i] \in Nat
  BY <1>2
<1>4. TrueRange(bars) \in [1..(n - 1) -> Nat]
  BY <1>1, <1>3
<1>5. PlusMoves(bars, n) \in [1..(n - 1) -> Nat] /\ MinusMoves(bars, n) \in [1..(n - 1) -> Nat]
  BY <1>2 DEF PlusMoves, MinusMoves
<1>6. \A i \in 1..(n - 1) : /\ PlusMoves(bars, n)[i] <= TrueRange(bars)[i]
                            /\ MinusMoves(bars, n)[i] <= TrueRange(bars)[i]
  BY <1>2 DEF PlusMoves, MinusMoves
<1>. QED  BY <1>4, <1>5, <1>6

LEMMA AdxIs ==
  ASSUME NEW n \in Nat, NEW bars, Len(bars) = n, NEW w
  PROVE  AdxSeries(bars, w).adx
         = IF n < w + 1 \/ Len(Defined(DxSeries(bars, n, w))) < w THEN Undefined(n)
           ELSE IF Len(Defined(DxSeries(bars, n, w))) = n - w
           THEN [i \in 1..n |-> IF i <= w THEN None ELSE WilderSmooth(Defined(DxSeries(bars, n, w)), w)[i - w]]
           ELSE Raised
<1> DEFINE moves == DirectionalMoves(bars)
           plusMoves == [i \in DOMAIN moves |-> moves[i].plus]
           minusMoves == [i \in DOMAIN moves |-> moves[i].minus]
           dxs == [i \in DOMAIN moves |-> DxOf(WilderSmooth(TrueRange(bars), w)[i], WilderSmooth(plusMoves, w)[i],
                                               WilderSmooth(minusMoves, w)[i])]
<1>1. /\ DOMAIN moves = 1..(n - 1)
      /\ \A i \in 1..(n - 1) : moves[i].plus = PlusMoves(bars, n)[i] /\ moves[i].minus = MinusMoves(bars, n)[i]
  BY DEF DirectionalMoves, PlusMoves, MinusMoves, Up, Down
<1>2. AdxSeries(bars, w).adx
      = IF n < w + 1 \/ Len(Defined(dxs)) < w THEN Undefined(n)
        ELSE IF Len(Defined(dxs)) = n - w
        THEN [i \in 1..n |-> IF i <= w THEN None ELSE WilderSmooth(Defined(dxs), w)[i - w]]
        ELSE Raised
  BY DEF AdxSeries, DxOf
<1> HIDE DEF moves
<1>3. plusMoves = PlusMoves(bars, n) /\ minusMoves = MinusMoves(bars, n)
  BY <1>1 DEF PlusMoves, MinusMoves
<1> HIDE DEF plusMoves, minusMoves
<1>4. dxs = DxSeries(bars, n, w)
  BY <1>1, <1>3 DEF DxSeries
<1> HIDE DEF dxs
<1>. QED  BY <1>2, <1>4

LEMMA PercentOfPart ==
  ASSUME NEW a \in Nat, NEW b \in Nat \ {0}, a <= b
  PROVE  Percent(a, b) \in 0..100
<1>1. 100 * a \in Nat /\ 100 * a <= 100 * b /\ b \in Int
  OBVIOUS
<1>2. (100 * a) \div b \in Nat
  BY <1>1, QuotientIsNat
<1>3. ((100 * a) \div b) * b <= 100 * a
  BY <1>1, QuotientBounds
<1>4. ((100 * a) \div b) * b < 100 * b + b
  BY <1>1, <1>2, <1>3
<1>5. (100 * a) \div b <= 100
  <2>1. (100 * a) \div b \in Int /\ 100 \in Int
    BY <1>2
  <2>. QED  BY <1>4, <2>1, QuotientsOrdered
<1>. QED  BY <1>2, <1>5 DEF Percent

LEMMA DxIsPercentage ==
  ASSUME NEW r, NEW p \in Nat, NEW q \in Nat
  PROVE  DxOf(r, p, q) \in {None} \cup 0..100
<1>1. Abs(p - q) \in Nat /\ Abs(p - q) <= p + q /\ p + q \in Nat
  BY DEF Abs
<1>2. p + q # 0 => Percent(Abs(p - q), p + q) \in 0..100
  BY <1>1, PercentOfPart
<1>. QED  BY <1>2 DEF DxOf

LEMMA DxIs ==
  ASSUME NEW n \in Nat, 1 <= n, NEW bars \in [1..n -> Bars], NEW w \in Nat \ {0},
         \A i \in 1..n : bars[i].low <= bars[i].close /\ bars[i].close <= bars[i].high
  PROVE  /\ DxSeries(bars, n, w) \in [1..(n - 1) -> Int \cup {None}]
         /\ \A i \in 1..(n - 1) : /\ DxSeries(bars, n, w)[i] \in {None} \cup 0..100
                                  /\ i < w => DxSeries(bars, n, w)[i] = None
<1>1. PICK k \in Nat : k = n - 1
  OBVIOUS
<1> DEFINE a == PlusMoves(bars, n)
           b == MinusMoves(bars, n)
           t == TrueRange(bars)
<1>2. /\ a \in [1..k -> Nat] /\ b \in [1..k -> Nat] /\ t \in [1..k -> Nat]
      /\ \A i \in 1..k : a[i] <= t[i] /\ b[i] <= t[i]
  BY <1>1, MovesAreBounded
<1>3. DxSeries(bars, n, w) = [i \in 1..k |-> DxOf(WilderSmooth(t, w)[i], WilderSmooth(a, w)[i], WilderSmooth(b, w)[i])]
  BY <1>1 DEF DxSeries
<1> HIDE DEF a, b, t
<1>4. \A i \in 1..k : i >= w => /\ WilderSmooth(a, w)[i] \in Nat /\ WilderSmooth(t, w)[i] \in Nat
                                /\ WilderSmooth(a, w)[i] <= WilderSmooth(t, w)[i]
  BY <1>2, WilderOrdered
<1>5. \A i \in 1..k : i >= w => /\ WilderSmooth(b, w)[i] \in Nat /\ WilderSmooth(t, w)[i] \in Nat
                                /\ WilderSmooth(b, w)[i] <= WilderSmooth(t, w)[i]
  BY <1>2, WilderOrdered
<1>6. /\ WilderSmooth(t, w) \in [1..k -> Int \cup {None}]
      /\ \A i \in 1..k : IF i < w THEN WilderSmooth(t, w)[i] = None ELSE WilderSmooth(t, w)[i] \in Int
  <2>1. t \in [1..k -> Int]
    BY <1>2
  <2>. QED  BY <2>1, WilderIs
<1>7. ASSUME NEW i \in 1..k
      PROVE  /\ DxOf(WilderSmooth(t, w)[i], WilderSmooth(a, w)[i], WilderSmooth(b, w)[i]) \in {None} \cup 0..100
             /\ i < w => DxOf(WilderSmooth(t, w)[i], WilderSmooth(a, w)[i], WilderSmooth(b, w)[i]) = None
  <2>1. CASE i < w
    BY <1>6, <2>1 DEF DxOf
  <2>2. CASE ~(i < w)
    <3>1. WilderSmooth(a, w)[i] \in Nat /\ WilderSmooth(b, w)[i] \in Nat
      BY <1>4, <1>5, <2>2
    <3>. QED  BY <2>2, <3>1, DxIsPercentage
  <2>. QED  BY <2>1, <2>2
<1> DEFINE D == DxSeries(bars, n, w)
<1>8. \A i \in 1..k : D[i] \in {None} \cup 0..100 /\ (i < w => D[i] = None)
  <2>1. \A i \in 1..k : D[i] = DxOf(WilderSmooth(t, w)[i], WilderSmooth(a, w)[i], WilderSmooth(b, w)[i])
    BY <1>3
  <2> HIDE DEF D
  <2>. QED  BY <1>7, <2>1
<1>9. DOMAIN D = 1..k /\ D = [i \in 1..k |-> D[i]]
  BY <1>3
<1> HIDE DEF D
<1>10. \A x \in {None} \cup 0..100 : x \in Int \cup {None}
  <2>1. \A x \in 0..100 : x \in Int
    OBVIOUS
  <2>. QED  BY ONLY <2>1, Zenon
<1>11. D \in [1..k -> Int \cup {None}]
  BY <1>8, <1>9, <1>10
<1>. QED  BY <1>1, <1>8, <1>11 DEF D

LEMMA DxBegins ==
  ASSUME NEW n \in Nat, NEW bars \in [1..n -> Bars], NEW w \in Nat \ {0},
         \A i \in 1..n : bars[i].low <= bars[i].close /\ bars[i].close <= bars[i].high,
         NEW m \in Nat, 1 <= m, m <= n
  PROVE  DxSeries(UpTo(bars, m), m, w) = UpTo(DxSeries(bars, n, w), m - 1)
<1> DEFINE first == UpTo(bars, m)
<1>1. /\ first \in [1..m -> Bars] /\ Len(first) = m /\ \A i \in 1..m : first[i] = bars[i] /\ i \in 1..n
  BY BarsUpToIs
<1>2. TrueRange(first) = UpTo(TrueRange(bars), m - 1)
  BY TrueRangeBegins
<1> HIDE DEF first
<1>3. PICK k \in Nat : k = n - 1
  OBVIOUS
<1>4. PICK j \in Nat : j = m - 1 /\ j <= k
  BY <1>3
<1>5. \A i \in 1..j : i \in 1..m /\ i + 1 \in 1..m /\ i \in 1..k
  BY <1>3, <1>4
<1>6. PlusMoves(first, m) = UpTo(PlusMoves(bars, n), j) /\ MinusMoves(first, m) = UpTo(MinusMoves(bars, n), j)
  BY <1>1, <1>3, <1>4, <1>5 DEF PlusMoves, MinusMoves, Up, Down, UpTo
<1>7. /\ PlusMoves(bars, n) \in [1..k -> Nat] /\ MinusMoves(bars, n) \in [1..k -> Nat] /\ TrueRange(bars) \in [1..k -> Nat]
  BY <1>3, MovesAreBounded
<1>8. \A i \in 1..j : WilderSmooth(PlusMoves(first, m), w)[i] = WilderSmooth(PlusMoves(bars, n), w)[i]
  <2>1. PlusMoves(bars, n) \in [1..k -> Int]
    BY <1>7
  <2>2. \A i \in 1..j : WilderSmooth(UpTo(PlusMoves(bars, n), j), w)[i] = WilderSmooth(PlusMoves(bars, n), w)[i]
    BY <1>4, <2>1, WilderAgrees
  <2>. QED  BY <1>6, <2>2
<1>9. \A i \in 1..j : WilderSmooth(MinusMoves(first, m), w)[i] = WilderSmooth(MinusMoves(bars, n), w)[i]
  <2>1. MinusMoves(bars, n) \in [1..k -> Int]
    BY <1>7
  <2>2. \A i \in 1..j : WilderSmooth(UpTo(MinusMoves(bars, n), j), w)[i] = WilderSmooth(MinusMoves(bars, n), w)[i]
    BY <1>4, <2>1, WilderAgrees
  <2>. QED  BY <1>6, <2>2
<1>10. \A i \in 1..j : WilderSmooth(TrueRange(first), w)[i] = WilderSmooth(TrueRange(bars), w)[i]
  <2>1. TrueRange(bars) \in [1..k -> Int]
    BY <1>7
  <2>2. \A i \in 1..j : WilderSmooth(UpTo(TrueRange(bars), j), w)[i] = WilderSmooth(TrueRange(bars), w)[i]
    BY <1>4, <2>1, WilderAgrees
  <2>. QED  BY <1>2, <1>4, <2>2
<1>11. DxSeries(first, m, w) = UpTo(DxSeries(bars, n, w), m - 1)
  BY <1>3, <1>4, <1>5, <1>8, <1>9, <1>10 DEF DxSeries, UpTo
<1>. QED  BY <1>11 DEF first

AdxFrom(dxs, n, w) ==
  IF n < w + 1 \/ Len(Defined(dxs)) < w THEN Undefined(n)
  ELSE IF Len(Defined(dxs)) = n - w
  THEN [i \in 1..n |-> IF i <= w THEN None ELSE WilderSmooth(Defined(dxs), w)[i - w]]
  ELSE Raised

\* If the values are written back where they belong, they are those of every
\* bar from the window on: no bar in between has none.
LEMMA WrittenBack ==
  ASSUME NEW n \in Nat, NEW w \in Nat \ {0}, w + 1 <= n, NEW dxs \in [1..(n - 1) -> Int \cup {None}],
         \A i \in 1..(n - 1) : i < w => dxs[i] = None,
         Len(Defined(dxs)) = n - w
  PROVE  \A i \in 1..(n - 1) : dxs[i] # None <=> i > w - 1
<1>1. PICK k \in Nat : k = n - 1
  OBVIOUS
<1>2. DOMAIN dxs = 1..k
  BY <1>1
<1>3. /\ PlacesOf(dxs) \in SUBSET (1..k) /\ IsFiniteSet(PlacesOf(dxs)) /\ Cardinality(PlacesOf(dxs)) \in Nat
      /\ Len(Defined(dxs)) = Cardinality(PlacesOf(dxs))
  BY <1>2, DefinedCounts
<1>4. PlacesOf(dxs) \in SUBSET (w..k)
  BY <1>1, <1>2 DEF PlacesOf
<1>5. IsFiniteSet(w..k) /\ Cardinality(w..k) = n - w
  <2>1. w \in Int /\ k \in Int
    OBVIOUS
  <2>2. IsFiniteSet(w..k) /\ Cardinality(w..k) = IF w > k THEN 0 ELSE k - w + 1
    BY <2>1, FS_Interval
  <2>3. ~(w > k) /\ k - w + 1 = n - w
    BY <1>1
  <2>. QED  BY <2>2, <2>3
<1>6. PlacesOf(dxs) = w..k
  BY <1>3, <1>4, <1>5, FS_Subset
<1>. QED  BY <1>1, <1>2, <1>6 DEF PlacesOf

\* The realigned values of the first bars, provided those of all can be written
\* back.
LEMMA AdxFromBegins ==
  ASSUME NEW n \in Nat, NEW w \in Nat \ {0}, NEW m \in Nat, 1 <= m, m <= n,
         NEW dxs \in [1..(n - 1) -> Int \cup {None}], \A i \in 1..(n - 1) : i < w => dxs[i] = None,
         AdxFrom(dxs, n, w) # Raised
  PROVE  AdxFrom(UpTo(dxs, m - 1), m, w) = UpTo(AdxFrom(dxs, n, w), m)
<1>1. PICK k \in Nat : k = n - 1
  OBVIOUS
<1>2. PICK j \in Nat : j = m - 1 /\ j <= k
  BY <1>1
<1> DEFINE first == UpTo(dxs, j)
<1>3. dxs \in [1..k -> Int \cup {None}]
  BY <1>1
<1>4. /\ first \in [1..j -> Int \cup {None}] /\ DOMAIN first = 1..j
      /\ \A i \in 1..j : first[i] = dxs[i] /\ i \in 1..k
  BY <1>2, <1>3 DEF UpTo
<1> HIDE DEF first
<1>5. Len(Defined(dxs)) \in Nat /\ Len(Defined(first)) \in Nat /\ Len(Defined(first)) <= Len(Defined(dxs))
  <2>1. /\ IsFiniteSet(PlacesOf(dxs)) /\ Cardinality(PlacesOf(dxs)) \in Nat
        /\ Len(Defined(dxs)) = Cardinality(PlacesOf(dxs))
    <3>1. DOMAIN dxs = 1..k
      BY <1>3
    <3>. QED  BY <3>1, DefinedCounts
  <2>2. Cardinality(PlacesOf(first)) \in Nat /\ Len(Defined(first)) = Cardinality(PlacesOf(first))
    BY <1>4, DefinedCounts
  <2>3. PlacesOf(first) \in SUBSET PlacesOf(dxs)
    BY <1>3, <1>4 DEF PlacesOf
  <2>4. Cardinality(PlacesOf(first)) <= Cardinality(PlacesOf(dxs))
    BY <2>1, <2>3, FS_Subset
  <2>. QED  BY <2>1, <2>2, <2>4
<1>6. \A i \in 1..m : i \in 1..n
  OBVIOUS
<1>7. UpTo(Undefined(n), m) = Undefined(m)
  BY <1>6 DEF UpTo, Undefined
<1>8. CASE n < w + 1
  <2>1. m < w + 1
    BY <1>8
  <2>. QED  BY <1>2, <1>7, <1>8, <2>1 DEF AdxFrom
<1>9. CASE Len(Defined(dxs)) < w
  <2>1. Len(Defined(first)) < w
    BY <1>5, <1>9
  <2>2. UpTo(dxs, m - 1) = first
    BY <1>2 DEF first
  <2>. QED  BY <1>7, <1>9, <2>1, <2>2 DEF AdxFrom
<1>10. CASE ~(n < w + 1) /\ ~(Len(Defined(dxs)) < w)
  <2>1. Len(Defined(dxs)) = n - w
    BY <1>10 DEF AdxFrom
  <2>2. AdxFrom(dxs, n, w) = [i \in 1..n |-> IF i <= w THEN None ELSE WilderSmooth(Defined(dxs), w)[i - w]]
    BY <1>10, <2>1 DEF AdxFrom
  <2>3. \A i \in 1..k : dxs[i] # None <=> i > w - 1
    <3>1. w + 1 <= n
      BY <1>10
    <3>. QED  BY <1>1, <2>1, <3>1, WrittenBack
  <2>4. PICK z \in Nat : z = w - 1
    OBVIOUS
  <2>5. PICK c \in Nat : c = n - w /\ c = k - z
    BY <1>1, <1>10, <2>4
  <2>6. Defined(dxs) = [x \in 1..c |-> dxs[z + x]]
    <3>1. DOMAIN dxs = 1..k /\ z <= k /\ KnownAfter(dxs, k, z)
      BY <1>1, <1>3, <1>10, <2>3, <2>4 DEF KnownAfter
    <3>2. Defined(dxs) = [x \in 1..(k - z) |-> dxs[z + x]]
      BY ONLY <3>1, DefinedFrom
    <3>. QED  BY <2>5, <3>2
  <2>7. Defined(dxs) \in [1..c -> Int]
    <3>1. ASSUME NEW x \in 1..c PROVE dxs[z + x] \in Int
      <4>1. z + x \in 1..k /\ z + x > w - 1
        BY <2>4, <2>5
      <4>. QED  BY <1>3, <2>3, <4>1
    <3>. QED  BY <2>6, <3>1
  <2>8. \A i \in 1..c : IF i < w THEN WilderSmooth(Defined(dxs), w)[i] = None
                                  ELSE WilderSmooth(Defined(dxs), w)[i] \in Int
    BY <2>7, WilderIs
  <2>9. CASE m < w + 1
    <3>1. AdxFrom(first, m, w) = Undefined(m)
      BY <2>9 DEF AdxFrom
    <3>2. \A i \in 1..m : i <= w /\ i \in 1..n
      BY <2>9
    <3>3. UpTo(AdxFrom(dxs, n, w), m) = Undefined(m)
      BY <2>2, <3>2 DEF UpTo, Undefined
    <3>. QED  BY <1>2, <3>1, <3>3 DEF first
  <2>10. CASE ~(m < w + 1)
    <3>1. PICK d \in Nat : d = m - w /\ d = j - z /\ d <= c
      BY <1>2, <2>4, <2>5, <2>10
    <3>2. Defined(first) = [x \in 1..d |-> first[z + x]]
      <4>1. z <= j
        BY <1>2, <2>4, <2>10
      <4>2. DOMAIN first = 1..j /\ KnownAfter(first, j, z)
        BY <1>4, <2>3, <2>4 DEF KnownAfter
      <4>3. Defined(first) = [x \in 1..(j - z) |-> first[z + x]]
        BY ONLY <4>1, <4>2, DefinedFrom
      <4>. QED  BY <3>1, <4>3
    <3>3. Defined(first) = UpTo(Defined(dxs), d)
      <4>1. \A x \in 1..d : x \in 1..c /\ z + x \in 1..j
        BY <3>1
      <4>. QED  BY <1>4, <2>6, <3>2, <4>1 DEF UpTo
    <3>4. Len(Defined(first)) = d
      <4>1. /\ UpTo(Defined(dxs), d) \in [1..d -> Int] /\ Len(UpTo(Defined(dxs), d)) = d
            /\ \A i \in 1..d : UpTo(Defined(dxs), d)[i] = Defined(dxs)[i] /\ i \in 1..c
        BY <2>7, <3>1, UpToIs
      <4>. QED  BY <3>3, <4>1
    <3>5. \A i \in 1..d : WilderSmooth(Defined(first), w)[i] = WilderSmooth(Defined(dxs), w)[i]
      <4>1. \A i \in 1..d : WilderSmooth(UpTo(Defined(dxs), d), w)[i] = WilderSmooth(Defined(dxs), w)[i]
        BY <2>7, <3>1, WilderAgrees
      <4>. QED  BY <3>3, <4>1
    <3>6. UpTo(AdxFrom(dxs, n, w), m)
          = [i \in 1..m |-> IF i <= w THEN None ELSE WilderSmooth(Defined(dxs), w)[i - w]]
      BY <1>6, <2>2 DEF UpTo
    <3>7. \A i \in 1..m : ~(i <= w) => i - w \in 1..d /\ i - w \in 1..c
      BY <3>1
    <3>8. CASE d < w
      <4>1. AdxFrom(first, m, w) = Undefined(m)
        BY <3>4, <3>8 DEF AdxFrom
      <4>2. \A i \in 1..m : ~(i <= w) => i - w < w
        BY <3>1, <3>8
      <4>3. \A i \in 1..m : ~(i <= w) => WilderSmooth(Defined(dxs), w)[i - w] = None
        BY <2>8, <3>7, <4>2
      <4>4. UpTo(AdxFrom(dxs, n, w), m) = Undefined(m)
        BY <3>6, <4>3 DEF Undefined
      <4>. QED  BY <1>2, <4>1, <4>4 DEF first
    <3>9. CASE ~(d < w)
      <4>1. Len(Defined(first)) = m - w
        BY <3>1, <3>4
      <4>2. AdxFrom(first, m, w)
            = [i \in 1..m |-> IF i <= w THEN None ELSE WilderSmooth(Defined(first), w)[i - w]]
        BY <2>10, <3>4, <3>9, <4>1 DEF AdxFrom
      <4>3. \A i \in 1..m : ~(i <= w) => WilderSmooth(Defined(first), w)[i - w] = WilderSmooth(Defined(dxs), w)[i - w]
        BY <3>5, <3>7
      <4>4. AdxFrom(first, m, w) = UpTo(AdxFrom(dxs, n, w), m)
        BY <3>6, <4>2, <4>3
      <4>. QED  BY <1>2, <4>4 DEF first
    <3>. QED  BY <3>8, <3>9
  <2>. QED  BY <2>9, <2>10
<1>. QED  BY <1>8, <1>9, <1>10

LEMMA AdxBegins ==
  ASSUME NEW n \in Nat, NEW bars \in [1..n -> Bars], NEW w \in Nat \ {0},
         \A i \in 1..n : bars[i].low <= bars[i].close /\ bars[i].close <= bars[i].high,
         NEW m \in Nat, 1 <= m, m <= n, AdxSeries(bars, w).adx # Raised
  PROVE  AdxSeries(UpTo(bars, m), w).adx = UpTo(AdxSeries(bars, w).adx, m)
<1>1. Len(bars) = n /\ Len(UpTo(bars, m)) = m
  <2>1. Len(bars) = n
    BY ListOf
  <2>2. /\ UpTo(bars, m) \in [1..m -> Bars] /\ Len(UpTo(bars, m)) = m
        /\ \A i \in 1..m : UpTo(bars, m)[i] = bars[i] /\ i \in 1..n
    BY BarsUpToIs
  <2>. QED  BY <2>1, <2>2
<1>2. AdxSeries(bars, w).adx = AdxFrom(DxSeries(bars, n, w), n, w)
  BY <1>1, AdxIs DEF AdxFrom
<1>3. AdxSeries(UpTo(bars, m), w).adx = AdxFrom(DxSeries(UpTo(bars, m), m, w), m, w)
  BY <1>1, AdxIs DEF AdxFrom
<1>4. DxSeries(UpTo(bars, m), m, w) = UpTo(DxSeries(bars, n, w), m - 1)
  BY DxBegins
<1>5. /\ DxSeries(bars, n, w) \in [1..(n - 1) -> Int \cup {None}]
      /\ \A i \in 1..(n - 1) : /\ DxSeries(bars, n, w)[i] \in {None} \cup 0..100
                               /\ i < w => DxSeries(bars, n, w)[i] = None
  <2>1. 1 <= n
    OBVIOUS
  <2>. QED  BY <2>1, DxIs
<1> DEFINE dxs == DxSeries(bars, n, w)
<1>6. /\ dxs \in [1..(n - 1) -> Int \cup {None}] /\ \A i \in 1..(n - 1) : i < w => dxs[i] = None
      /\ AdxFrom(dxs, n, w) # Raised
  BY <1>2, <1>5
<1> HIDE DEF dxs
<1>7. AdxFrom(UpTo(dxs, m - 1), m, w) = UpTo(AdxFrom(dxs, n, w), m)
  BY <1>6, AdxFromBegins
<1>. QED  BY <1>2, <1>3, <1>4, <1>7 DEF dxs

LEMMA ClosesBegin ==
  ASSUME NEW n \in Nat, NEW bars \in [1..n -> Bars], NEW m \in Nat, m <= n
  PROVE  Closes(bars) \in [1..n -> Int] /\ Closes(UpTo(bars, m)) = UpTo(Closes(bars), m)
<1>1. \A x \in Bars : x.close \in Int
  BY DEF Bars
<1>2. Closes(bars) \in [1..n -> Int]
  BY <1>1 DEF Closes
<1>3. \A i \in 1..m : i \in 1..n
  OBVIOUS
<1>. QED  BY <1>2, <1>3 DEF Closes, UpTo

\* A pivot is a matter of the bars within reach.
LEMMA PivotsStay ==
  ASSUME NEW n \in Nat, NEW bars \in [1..n -> Bars], NEW reach \in Nat, NEW m \in Nat, m <= n
  PROVE  /\ SwingHighs(UpTo(bars, m), reach) \subseteq SwingHighs(bars, reach)
         /\ SwingLows(UpTo(bars, m), reach) \subseteq SwingLows(bars, reach)
<1> DEFINE first == UpTo(bars, m)
<1>1. /\ first \in [1..m -> Bars] /\ Len(first) = m /\ \A i \in 1..m : first[i] = bars[i] /\ i \in 1..n
  BY BarsUpToIs
<1>2. Len(bars) = n
  BY ListOf
<1> HIDE DEF first
<1>3. ASSUME NEW i \in (1 + reach)..(m - reach)
      PROVE  /\ i \in (1 + reach)..(n - reach) /\ first[i] = bars[i]
             /\ \A j \in (i - reach)..(i + reach) : first[j] = bars[j]
  <2>1. i \in (1 + reach)..(n - reach) /\ i \in 1..m
    OBVIOUS
  <2>2. \A j \in (i - reach)..(i + reach) : j \in 1..m
    OBVIOUS
  <2>. QED  BY <1>1, <2>1, <2>2
<1>4. ASSUME NEW i \in SwingHighs(first, reach) PROVE i \in SwingHighs(bars, reach)
  <2>1. /\ i \in (1 + reach)..(m - reach)
        /\ \A j \in ((i - reach)..(i + reach)) \ {i} : first[j].high < first[i].high
    BY <1>1, <1>4 DEF SwingHighs
  <2>2. /\ i \in (1 + reach)..(n - reach)
        /\ \A j \in ((i - reach)..(i + reach)) \ {i} : bars[j].high < bars[i].high
    BY <1>3, <2>1
  <2>. QED  BY <1>2, <2>2 DEF SwingHighs
<1>5. ASSUME NEW i \in SwingLows(first, reach) PROVE i \in SwingLows(bars, reach)
  <2>1. /\ i \in (1 + reach)..(m - reach)
        /\ \A j \in ((i - reach)..(i + reach)) \ {i} : first[j].low > first[i].low
    BY <1>1, <1>5 DEF SwingLows
  <2>2. /\ i \in (1 + reach)..(n - reach)
        /\ \A j \in ((i - reach)..(i + reach)) \ {i} : bars[j].low > bars[i].low
    BY <1>3, <2>1
  <2>. QED  BY <1>2, <2>2 DEF SwingLows
<1>. QED  BY <1>4, <1>5 DEF first

\* Whatever the bars, if they could have been traded, the indicators of a
\* session are those that later sessions show for it: compute_series may be
\* called again on a longer history.
THEOREM AnyIndicatorIgnoresTheFuture == Spec => []IndicatorsIgnoreTheFuture
<1>1. ASSUME InputOK, Is("bars") PROVE IndicatorsIgnoreTheFuture
  <2> DEFINE bars == input.value.bars
             w == Spans.wilder
             n == Len(bars)
  <2>1. Drawn(bars)
    BY <1>1, BarsAssumption DEF InputOK, Is, Idle
  <2>2. bars \in Seq(Bars) /\ n \in Nat /\ DOMAIN bars = 1..n
    BY <2>1 DEF Drawn, Bars
  <2>3. bars \in [1..n -> Bars]
    BY <2>2, LenProperties
  <2>4. \A i \in 1..n : bars[i].low <= bars[i].close /\ bars[i].close <= bars[i].high
    BY <2>1, <2>2 DEF Drawn
  <2>5. w \in Nat \ {0} /\ Spans.pivot \in Nat
    BY SpansAssumption
  <2> HIDE DEF bars, w, n
  <2>6. ASSUME NEW m \in DOMAIN bars
        PROVE  /\ RsiSeries(Closes(UpTo(bars, m)), w) = UpTo(RsiSeries(Closes(bars), w), m)
               /\ AtrSeries(UpTo(bars, m), w) = UpTo(AtrSeries(bars, w), m)
               /\ MacdSeries(Closes(UpTo(bars, m))).histogram = UpTo(MacdSeries(Closes(bars)).histogram, m)
               /\ AdxSeries(bars, w).adx # Raised => AdxSeries(UpTo(bars, m), w).adx = UpTo(AdxSeries(bars, w).adx, m)
               /\ SwingHighs(UpTo(bars, m), Spans.pivot) \subseteq SwingHighs(bars, Spans.pivot)
               /\ SwingLows(UpTo(bars, m), Spans.pivot) \subseteq SwingLows(bars, Spans.pivot)
    <3>1. m \in Nat /\ 1 <= m /\ m <= n
      BY <2>2
    <3>2. Closes(bars) \in [1..n -> Int] /\ Closes(UpTo(bars, m)) = UpTo(Closes(bars), m)
      BY <2>2, <2>3, <3>1, ClosesBegin
    <3>3. RsiSeries(UpTo(Closes(bars), m), w) = UpTo(RsiSeries(Closes(bars), w), m)
      BY <2>2, <2>5, <3>1, <3>2, RsiBegins
    <3>4. AtrSeries(UpTo(bars, m), w) = UpTo(AtrSeries(bars, w), m)
      BY <2>2, <2>3, <2>5, <3>1, AtrBegins
    <3>5. MacdSeries(UpTo(Closes(bars), m)).histogram = UpTo(MacdSeries(Closes(bars)).histogram, m)
      BY <2>2, <3>1, <3>2, MacdBegins
    <3>6. AdxSeries(bars, w).adx # Raised => AdxSeries(UpTo(bars, m), w).adx = UpTo(AdxSeries(bars, w).adx, m)
      BY <2>2, <2>3, <2>4, <2>5, <3>1, AdxBegins
    <3>7. /\ SwingHighs(UpTo(bars, m), Spans.pivot) \subseteq SwingHighs(bars, Spans.pivot)
          /\ SwingLows(UpTo(bars, m), Spans.pivot) \subseteq SwingLows(bars, Spans.pivot)
      BY <2>2, <2>3, <2>5, <3>1, PivotsStay
    <3>. QED  BY <3>2, <3>3, <3>4, <3>5, <3>6, <3>7
  <2>. QED  BY <1>1, <2>6 DEF IndicatorsIgnoreTheFuture, bars, w
<1>2. InputOK => IndicatorsIgnoreTheFuture
  BY <1>1 DEF IndicatorsIgnoreTheFuture
<1>. QED  BY <1>2, InputsAreGiven, PTL

-----------------------------------------------------------------------------
(* The scale of the oscillators.                                             *)

LEMMA LastIs ==
  ASSUME NEW n \in Nat, 1 <= n, NEW f, f = [i \in 1..n |-> f[i]]
  PROVE  LastOf(f) = f[n]
<1>1. f \in [1..n -> {f[i] : i \in 1..n}]
  OBVIOUS
<1>2. Len(f) = n
  BY <1>1, ListOf
<1>3. f # <<>>
  BY <1>2
<1>. QED  BY <1>2, <1>3 DEF LastOf

LEMMA WilderOfConstant ==
  ASSUME NEW n \in Nat, NEW c \in Nat, NEW w \in Nat \ {0}
  PROVE  \A i \in 1..n : i >= w => WilderSmooth([j \in 1..n |-> c], w)[i] = c
<1> DEFINE f == [j \in 1..n |-> c]
<1>0. f \in [1..n -> Int] /\ \A i \in 1..n : f[i] = c
  OBVIOUS
<1> HIDE DEF f
<1>1. PICK g \in [w..n -> Int] :
        /\ Smoothed(g, f, n, w)
        /\ WilderSmooth(f, w) = [i \in 1..n |-> IF i < w THEN None ELSE g[i]]
  BY <1>0, WilderUnfolds
<1>2. (w * c) \div w = c
  BY ProductDivides
<1> DEFINE h == [i \in w..n |-> c]
<1>3. SameSteps(g, h, w, n)
  <2>1. ASSUME w <= n PROVE g[w] = h[w]
    <3> DEFINE x == SubSeq(f, 1, w)
    <3>1. \A i \in 1..w : f[i] = c /\ f[i] \in Int
      BY <1>0, <2>1
    <3>2. x \in Seq(Int) /\ Len(x) = w /\ \A i \in 1..w : x[i] = c
      <4>1. /\ x \in Seq(Int) /\ Len(x) = IF 1 <= w THEN w - 1 + 1 ELSE 0
            /\ \A i \in 1..(w - 1 + 1) : x[i] = f[1 + i - 1]
        BY <3>1, SubSeqProperties
      <4>. QED  BY <3>1, <4>1
    <3> HIDE DEF x
    <3>3. DOMAIN x = 1..w
      BY <3>2
    <3>4. Sum(x, 1..w) = Cardinality(1..w) * c
      <4>1. IsFiniteSet(1..w) /\ c \in Int
        BY FS_Interval
      <4>. QED  BY <3>2, <4>1, SumOfConstant
    <3>5. Cardinality(1..w) = w
      BY FS_Interval
    <3>6. Total(x) = w * c
      BY <3>3, <3>4, <3>5, TotalIsSum
    <3>7. g[w] = Total(x) \div w
      BY <1>1, <2>1 DEF Smoothed, x
    <3>. QED  BY <1>2, <2>1, <3>6, <3>7
  <2>2. ASSUME NEW i \in (w + 1)..n, g[i - 1] = h[i - 1] PROVE g[i] = h[i]
    <3>1. i \in w..n /\ i # w /\ i - 1 \in w..n /\ i \in 1..n
      OBVIOUS
    <3>2. g[i - 1] = c
      BY <2>2, <3>1
    <3>3. g[i] = ((w - 1) * c + c) \div w
      BY <1>0, <1>1, <3>1, <3>2 DEF Smoothed
    <3>4. (w - 1) * c + c = w * c
      OBVIOUS
    <3>. QED  BY <1>2, <3>1, <3>3, <3>4
  <2>. QED  BY <2>1, <2>2 DEF SameSteps
<1>4. \A i \in w..n : g[i] = h[i]
  <2>1. w \in Int /\ n \in Int
    OBVIOUS
  <2> HIDE DEF h
  <2>. QED  BY <1>3, <2>1, StepsAgree
<1>5. \A i \in 1..n : i >= w => i \in w..n /\ ~(i < w)
  OBVIOUS
<1>. QED  BY <1>1, <1>4, <1>5 DEF f

\* What is smoothed stays within the scale of what is smoothed.
LEMMA WilderInScale ==
  ASSUME NEW n \in Nat, NEW c \in Nat, NEW a \in [1..n -> 0..c], NEW w \in Nat \ {0}
  PROVE  \A i \in 1..n : i >= w => WilderSmooth(a, w)[i] \in 0..c
<1> DEFINE f == [j \in 1..n |-> c]
<1>1. a \in [1..n -> Nat] /\ f \in [1..n -> Nat] /\ \A i \in 1..n : a[i] <= f[i]
  OBVIOUS
<1>2. \A i \in 1..n : i >= w => WilderSmooth(f, w)[i] = c
  BY WilderOfConstant
<1> HIDE DEF f
<1>3. \A i \in 1..n : i >= w => /\ WilderSmooth(a, w)[i] \in Nat /\ WilderSmooth(f, w)[i] \in Nat
                                /\ WilderSmooth(a, w)[i] <= WilderSmooth(f, w)[i]
  BY <1>1, WilderOrdered
<1>. QED  BY <1>2, <1>3

LEMMA RsiOfInScale ==
  ASSUME NEW g, NEW l, g = None \/ (g \in Nat /\ l \in Nat)
  PROVE  RsiOf(g, l) \in {None} \cup 0..100
<1>1. CASE g = None
  BY <1>1 DEF RsiOf
<1>2. CASE g \in Nat /\ l \in Nat
  <2>1. g + l \in Nat /\ g <= g + l
    BY <1>2
  <2>2. g + l # 0 => Percent(g, g + l) \in 0..100
    BY <1>2, <2>1, PercentOfPart
  <2>. QED  BY <2>1, <2>2 DEF RsiOf
<1>. QED  BY <1>1, <1>2

LEMMA RsiInScale ==
  ASSUME NEW n \in Nat, 1 <= n, NEW closes \in [1..n -> Int], NEW w \in Nat \ {0}
  PROVE  LastOf(RsiSeries(closes, w)) \in {None} \cup 0..100
<1> DEFINE a == Rises(closes, n)
           b == Falls(closes, n)
<1>1. /\ Rises(closes, n) \in [1..(n - 1) -> Nat] /\ Falls(closes, n) \in [1..(n - 1) -> Nat]
      /\ RsiSeries(closes, w)
         = [i \in 1..n |-> IF i = 1 THEN None
                           ELSE RsiOf(WilderSmooth(Rises(closes, n), w)[i - 1],
                                      WilderSmooth(Falls(closes, n), w)[i - 1])]
  BY RsiIs
<1>2. PICK k \in Nat : k = n - 1
  OBVIOUS
<1>3. a \in [1..k -> Nat] /\ b \in [1..k -> Nat]
  BY <1>1, <1>2
<1>4. LastOf(RsiSeries(closes, w)) = IF n = 1 THEN None ELSE RsiOf(WilderSmooth(a, w)[k], WilderSmooth(b, w)[k])
  <2>1. RsiSeries(closes, w) = [i \in 1..n |-> RsiSeries(closes, w)[i]]
    BY <1>1
  <2>2. LastOf(RsiSeries(closes, w)) = RsiSeries(closes, w)[n]
    BY <2>1, LastIs
  <2>. QED  BY <1>1, <1>2, <2>2
<1> HIDE DEF a, b
<1>5. CASE n = 1
  BY <1>4, <1>5
<1>6. CASE n # 1 /\ k < w
  <2>1. a \in [1..k -> Int] /\ k \in 1..k
    BY <1>2, <1>3, <1>6
  <2>2. \A i \in 1..k : IF i < w THEN WilderSmooth(a, w)[i] = None ELSE WilderSmooth(a, w)[i] \in Int
    BY <2>1, WilderIs
  <2>3. WilderSmooth(a, w)[k] = None
    BY <1>6, <2>1, <2>2
  <2>4. RsiOf(WilderSmooth(a, w)[k], WilderSmooth(b, w)[k]) \in {None} \cup 0..100
    BY <2>3, RsiOfInScale
  <2>. QED  BY <1>4, <1>6, <2>4
<1>7. CASE n # 1 /\ ~(k < w)
  <2>1. k \in 1..k /\ k >= w
    BY <1>2, <1>7
  <2>2. \A i \in 1..k : a[i] <= a[i] /\ b[i] <= b[i]
    BY <1>3
  <2>3. \A i \in 1..k : i >= w => /\ WilderSmooth(a, w)[i] \in Nat /\ WilderSmooth(a, w)[i] \in Nat
                                  /\ WilderSmooth(a, w)[i] <= WilderSmooth(a, w)[i]
    BY <1>3, <2>2, WilderOrdered
  <2>4. \A i \in 1..k : i >= w => /\ WilderSmooth(b, w)[i] \in Nat /\ WilderSmooth(b, w)[i] \in Nat
                                  /\ WilderSmooth(b, w)[i] <= WilderSmooth(b, w)[i]
    BY <1>3, <2>2, WilderOrdered
  <2>5. WilderSmooth(a, w)[k] \in Nat /\ WilderSmooth(b, w)[k] \in Nat
    BY <2>1, <2>3, <2>4
  <2>6. RsiOf(WilderSmooth(a, w)[k], WilderSmooth(b, w)[k]) \in {None} \cup 0..100
    BY <2>5, RsiOfInScale
  <2>. QED  BY <1>4, <1>7, <2>6
<1>. QED  BY <1>5, <1>6, <1>7

LEMMA AdxFromInScale ==
  ASSUME NEW n \in Nat, 1 <= n, NEW w \in Nat \ {0}, NEW dxs \in [1..(n - 1) -> Int \cup {None}],
         \A i \in 1..(n - 1) : dxs[i] \in {None} \cup 0..100 /\ (i < w => dxs[i] = None),
         AdxFrom(dxs, n, w) # Raised
  PROVE  LastOf(AdxFrom(dxs, n, w)) \in {None} \cup 0..100
<1>1. LastOf(Undefined(n)) = None
  <2>1. Undefined(n) = [i \in 1..n |-> Undefined(n)[i]] /\ Undefined(n)[n] = None
    BY DEF Undefined
  <2>2. LastOf(Undefined(n)) = Undefined(n)[n]
    BY <2>1, LastIs
  <2>. QED  BY <2>1, <2>2
<1>2. CASE n < w + 1 \/ Len(Defined(dxs)) < w
  BY <1>1, <1>2 DEF AdxFrom
<1>3. CASE ~(n < w + 1 \/ Len(Defined(dxs)) < w)
  <2>1. Len(Defined(dxs)) = n - w
    BY <1>3 DEF AdxFrom
  <2>2. AdxFrom(dxs, n, w) = [i \in 1..n |-> IF i <= w THEN None ELSE WilderSmooth(Defined(dxs), w)[i - w]]
    BY <1>3, <2>1 DEF AdxFrom
  <2>3. PICK k \in Nat : k = n - 1
    OBVIOUS
  <2>4. PICK z \in Nat : z = w - 1
    OBVIOUS
  <2>5. PICK c \in Nat : c = n - w /\ c = k - z /\ c >= 1
    BY <1>3, <2>3, <2>4
  <2>6. \A i \in 1..(n - 1) : dxs[i] # None <=> i > w - 1
    <3>1. w + 1 <= n /\ \A i \in 1..(n - 1) : i < w => dxs[i] = None
      BY <1>3
    <3>. QED  BY <2>1, <3>1, WrittenBack
  <2>7. Defined(dxs) = [x \in 1..c |-> dxs[z + x]]
    <3>1. DOMAIN dxs = 1..k /\ z <= k /\ KnownAfter(dxs, k, z)
      BY <2>3, <2>4, <2>5, <2>6 DEF KnownAfter
    <3>2. Defined(dxs) = [x \in 1..(k - z) |-> dxs[z + x]]
      BY ONLY <3>1, DefinedFrom
    <3>. QED  BY <2>5, <3>2
  <2>8. Defined(dxs) \in [1..c -> 0..100]
    <3>1. ASSUME NEW x \in 1..c PROVE dxs[z + x] \in 0..100
      <4>1. z + x \in 1..(n - 1) /\ z + x > w - 1
        BY <2>3, <2>4, <2>5
      <4>2. dxs[z + x] # None /\ dxs[z + x] \in {None} \cup 0..100
        BY <2>6, <4>1
      <4>. QED  BY ONLY <4>2, Zenon
    <3>. QED  BY <2>7, <3>1
  <2>9. \A i \in 1..c : i >= w => WilderSmooth(Defined(dxs), w)[i] \in 0..100
    <3>1. 100 \in Nat
      OBVIOUS
    <3>. QED  BY <2>8, <3>1, WilderInScale
  <2>10. c \in 1..c /\ c >= w /\ ~(n <= w)
    <3>1. Len(Defined(dxs)) = c
      BY <2>1, <2>5
    <3>. QED  BY <1>3, <2>5, <3>1
  <2>11. WilderSmooth(Defined(dxs), w)[c] \in 0..100
    BY <2>9, <2>10
  <2>12. LastOf(AdxFrom(dxs, n, w)) = AdxFrom(dxs, n, w)[n]
    <3>1. AdxFrom(dxs, n, w) = [i \in 1..n |-> AdxFrom(dxs, n, w)[i]]
      BY <2>2
    <3>. QED  BY <3>1, LastIs
  <2>13. AdxFrom(dxs, n, w)[n] = WilderSmooth(Defined(dxs), w)[c]
    BY <2>2, <2>5, <2>10
  <2>. QED  BY <2>11, <2>12, <2>13
<1>. QED  BY <1>2, <1>3

LEMMA AdxInScale ==
  ASSUME NEW n \in Nat, 1 <= n, NEW bars \in [1..n -> Bars], NEW w \in Nat \ {0},
         \A i \in 1..n : bars[i].low <= bars[i].close /\ bars[i].close <= bars[i].high,
         AdxSeries(bars, w).adx # Raised
  PROVE  LastOf(AdxSeries(bars, w).adx) \in {None} \cup 0..100
<1> DEFINE dxs == DxSeries(bars, n, w)
<1>1. Len(bars) = n
  BY ListOf
<1>2. AdxSeries(bars, w).adx = AdxFrom(dxs, n, w)
  BY <1>1, AdxIs DEF AdxFrom
<1>3. /\ DxSeries(bars, n, w) \in [1..(n - 1) -> Int \cup {None}]
      /\ \A i \in 1..(n - 1) : /\ DxSeries(bars, n, w)[i] \in {None} \cup 0..100
                               /\ i < w => DxSeries(bars, n, w)[i] = None
  BY DxIs
<1>4. /\ dxs \in [1..(n - 1) -> Int \cup {None}]
      /\ \A i \in 1..(n - 1) : dxs[i] \in {None} \cup 0..100 /\ (i < w => dxs[i] = None)
  BY <1>3
<1> HIDE DEF dxs
<1>5. AdxFrom(dxs, n, w) # Raised
  BY <1>2
<1>6. LastOf(AdxFrom(dxs, n, w)) \in {None} \cup 0..100
  BY <1>4, <1>5, AdxFromInScale
<1>. QED  BY <1>2, <1>6

ShareOf(moved, range) == IF range \in {None, 0} THEN None ELSE Percent(moved, range)

DirectionOf(moves, bars, n, w) ==
  IF n < w + 1 THEN Undefined(n)
  ELSE FromSecondBar(n, [i \in 1..(n - 1) |-> ShareOf(WilderSmooth(moves, w)[i], WilderSmooth(TrueRange(bars), w)[i])])

LEMMA DirectionsAre ==
  ASSUME NEW n \in Nat, NEW bars, Len(bars) = n, NEW w
  PROVE  /\ AdxSeries(bars, w).plus = DirectionOf(PlusMoves(bars, n), bars, n, w)
         /\ AdxSeries(bars, w).minus = DirectionOf(MinusMoves(bars, n), bars, n, w)
<1> DEFINE moves == DirectionalMoves(bars)
           plusMoves == [i \in DOMAIN moves |-> moves[i].plus]
           minusMoves == [i \in DOMAIN moves |-> moves[i].minus]
<1>1. /\ DOMAIN moves = 1..(n - 1)
      /\ \A i \in 1..(n - 1) : moves[i].plus = PlusMoves(bars, n)[i] /\ moves[i].minus = MinusMoves(bars, n)[i]
  BY DEF DirectionalMoves, PlusMoves, MinusMoves, Up, Down
<1>2. AdxSeries(bars, w).plus
      = IF n < w + 1 THEN Undefined(n)
        ELSE FromSecondBar(n, [i \in DOMAIN moves |-> ShareOf(WilderSmooth(plusMoves, w)[i], WilderSmooth(TrueRange(bars), w)[i])])
  BY DEF AdxSeries, ShareOf
<1>3. AdxSeries(bars, w).minus
      = IF n < w + 1 THEN Undefined(n)
        ELSE FromSecondBar(n, [i \in DOMAIN moves |-> ShareOf(WilderSmooth(minusMoves, w)[i], WilderSmooth(TrueRange(bars), w)[i])])
  BY DEF AdxSeries, ShareOf
<1> HIDE DEF moves
<1>4. plusMoves = PlusMoves(bars, n) /\ minusMoves = MinusMoves(bars, n)
  BY <1>1 DEF PlusMoves, MinusMoves
<1> HIDE DEF plusMoves, minusMoves
<1>. QED  BY <1>1, <1>2, <1>3, <1>4 DEF DirectionOf

LEMMA ShareInScale ==
  ASSUME NEW m, NEW r, r = None \/ (m \in Nat /\ r \in Nat /\ m <= r)
  PROVE  ShareOf(m, r) \in {None} \cup 0..100
<1>1. CASE r \in {None, 0}
  BY <1>1 DEF ShareOf
<1>2. CASE r \notin {None, 0}
  <2>1. m \in Nat /\ r \in Nat \ {0} /\ m <= r
    BY <1>2
  <2>2. Percent(m, r) \in 0..100
    BY <2>1, PercentOfPart
  <2>. QED  BY <1>2, <2>2 DEF ShareOf
<1>. QED  BY <1>1, <1>2

LEMMA DirectionInScale ==
  ASSUME NEW n \in Nat, 1 <= n, NEW bars, NEW moves \in [1..(n - 1) -> Nat],
         TrueRange(bars) \in [1..(n - 1) -> Nat], \A i \in 1..(n - 1) : moves[i] <= TrueRange(bars)[i],
         NEW w \in Nat \ {0}
  PROVE  LastOf(DirectionOf(moves, bars, n, w)) \in {None} \cup 0..100
<1> DEFINE t == TrueRange(bars)
           d == DirectionOf(moves, bars, n, w)
<1>1. d = [i \in 1..n |-> d[i]]
  <2>1. CASE n < w + 1
    BY <2>1 DEF DirectionOf, Undefined
  <2>2. CASE ~(n < w + 1)
    <3> DEFINE s == [i \in 1..(n - 1) |-> ShareOf(WilderSmooth(moves, w)[i], WilderSmooth(t, w)[i])]
    <3>1. d = FromSecondBar(n, s)
      BY <2>2 DEF DirectionOf
    <3> HIDE DEF d, s
    <3>. QED  BY <3>1 DEF FromSecondBar
  <2>. QED  BY <2>1, <2>2
<1>2. LastOf(d) = d[n]
  <2> HIDE DEF d
  <2>. QED  BY <1>1, LastIs
<1>3. PICK k \in Nat : k = n - 1
  OBVIOUS
<1>4. moves \in [1..k -> Nat] /\ t \in [1..k -> Nat] /\ \A i \in 1..k : moves[i] <= t[i]
  BY <1>3
<1>5. CASE n < w + 1
  BY <1>2, <1>5 DEF DirectionOf, Undefined
<1>6. CASE ~(n < w + 1)
  <2>1. k \in 1..k /\ k >= w /\ n # 1 /\ n - 1 = k
    BY <1>3, <1>6
  <2>2. d[n] = ShareOf(WilderSmooth(moves, w)[k], WilderSmooth(t, w)[k])
    BY <1>6, <2>1 DEF DirectionOf, FromSecondBar
  <2> HIDE DEF t, d
  <2>3. \A i \in 1..k : i >= w => /\ WilderSmooth(moves, w)[i] \in Nat /\ WilderSmooth(t, w)[i] \in Nat
                                  /\ WilderSmooth(moves, w)[i] <= WilderSmooth(t, w)[i]
    BY <1>4, WilderOrdered
  <2>4. /\ WilderSmooth(moves, w)[k] \in Nat /\ WilderSmooth(t, w)[k] \in Nat
        /\ WilderSmooth(moves, w)[k] <= WilderSmooth(t, w)[k]
    BY <2>1, <2>3
  <2>5. ShareOf(WilderSmooth(moves, w)[k], WilderSmooth(t, w)[k]) \in {None} \cup 0..100
    BY <2>4, ShareInScale
  <2>. QED  BY <1>2, <2>2, <2>5 DEF d
<1>. QED  BY <1>5, <1>6

LEMMA TailIs ==
  ASSUME NEW n \in Nat, NEW bars \in [1..n -> Bars], NEW k \in Nat, k <= n
  PROVE  /\ Tail0(bars, k) \in [1..k -> Bars] /\ Len(Tail0(bars, k)) = k
         /\ \A i \in 1..k : Tail0(bars, k)[i] = bars[n - k + i] /\ n - k + i \in 1..n
<1>1. Len(bars) = n
  BY ListOf
<1>2. PICK lo \in Int : lo = n - k + 1
  OBVIOUS
<1>3. Tail0(bars, k) = SubSeq(bars, lo, n)
  BY <1>1, <1>2 DEF Tail0
<1>4. SubSeq(bars, lo, n) = [i \in 1..(n - lo + 1) |-> bars[i + lo - 1]]
  BY <1>2
<1>5. n - lo + 1 = k /\ \A i \in 1..k : i + lo - 1 = n - k + i /\ n - k + i \in 1..n
  BY <1>2
<1>6. Tail0(bars, k) = [i \in 1..k |-> bars[n - k + i]]
  BY <1>3, <1>4, <1>5
<1>7. Tail0(bars, k) \in [1..k -> Bars]
  BY <1>5, <1>6
<1>. QED  BY <1>5, <1>6, <1>7, ListOf

LEMMA ExtremesAre ==
  ASSUME NEW k \in Nat, 1 <= k, NEW bars \in [1..k -> Bars]
  PROVE  /\ HighOf(bars) \in Int /\ LowOf(bars) \in Nat \ {0}
         /\ \A i \in 1..k : bars[i].high <= HighOf(bars) /\ LowOf(bars) <= bars[i].low
<1>1. \A x \in Bars : x.high \in Int /\ x.low \in Int /\ x.low \in Nat \ {0}
  BY DEF Bars
<1> DEFINE f == [i \in 1..k |-> bars[i].high]
           g == [i \in 1..k |-> bars[i].low]
           highs == {f[i] : i \in 1..k}
           lows == {g[i] : i \in 1..k}
<1>2. \A i \in 1..k : f[i] = bars[i].high /\ g[i] = bars[i].low
  OBVIOUS
<1>3. highs \in SUBSET Int /\ lows \in SUBSET Int /\ highs # {} /\ lows # {} /\ lows \in SUBSET (Nat \ {0})
  <2>1. 1 \in 1..k
    OBVIOUS
  <2> HIDE DEF f, g
  <2>. QED  BY <1>1, <1>2, <2>1
<1>4. HighOf(bars) = Max(highs) /\ LowOf(bars) = Min(lows)
  <2>1. DOMAIN bars = 1..k
    OBVIOUS
  <2>2. highs = {bars[i].high : i \in DOMAIN bars} /\ lows = {bars[i].low : i \in DOMAIN bars}
    BY <1>2, <2>1
  <2>. QED  BY <2>2 DEF HighOf, LowOf
<1> HIDE DEF f, g
<1>5. IsFiniteSet(highs) /\ IsFiniteSet(lows)
  <2>1. IsFiniteSet(1..k)
    BY FS_Interval
  <2>2. IsFiniteSet(highs)
    BY <2>1, FiniteImage
  <2>3. IsFiniteSet(lows)
    BY <2>1, FiniteImage
  <2>. QED  BY <2>2, <2>3
<1>6. /\ Max(highs) \in highs /\ \A x \in highs : x <= Max(highs)
      /\ Min(lows) \in lows /\ \A x \in lows : Min(lows) <= x
  <2> HIDE DEF highs, lows
  <2>. QED  BY <1>3, <1>5, FiniteSetHasBounds
<1>7. \A i \in 1..k : bars[i].high \in highs /\ bars[i].low \in lows
  BY <1>2
<1> HIDE DEF highs, lows
<1>. QED  BY <1>3, <1>4, <1>6, <1>7

Framed(bars) == \A i \in DOMAIN bars : bars[i].low <= bars[i].close /\ bars[i].close <= bars[i].high

\* Where the close lies within the extremes of the last bars.
LEMMA CloseIsWithin ==
  ASSUME NEW n \in Nat, NEW bars \in [1..n -> Bars], Framed(bars), NEW k \in Nat, 1 <= k, k <= n
  PROVE  LET close == LastClose(bars)
             high == HighOf(Tail0(bars, k))
             low == LowOf(Tail0(bars, k))
         IN  close \in Int /\ high \in Int /\ low \in Nat \ {0} /\ low <= close /\ close <= high
<1> DEFINE recent == Tail0(bars, k)
<1>1. /\ recent \in [1..k -> Bars] /\ Len(recent) = k
      /\ \A i \in 1..k : recent[i] = bars[n - k + i] /\ n - k + i \in 1..n
  BY TailIs
<1> HIDE DEF recent
<1>2. /\ HighOf(recent) \in Int /\ LowOf(recent) \in Nat \ {0}
      /\ \A i \in 1..k : recent[i].high <= HighOf(recent) /\ LowOf(recent) <= recent[i].low
  BY <1>1, ExtremesAre
<1>3. k \in 1..k /\ n - k + k = n /\ n \in 1..n
  OBVIOUS
<1>4. recent[k] = bars[n]
  BY <1>1, <1>3
<1>5. LastClose(bars) = bars[n].close
  <2>1. Len(bars) = n
    BY ListOf
  <2>2. bars # <<>>
    BY <2>1, <1>3
  <2>. QED  BY <2>1, <2>2 DEF LastClose, Latest
<1>6. bars[n].close \in Int /\ bars[n].high \in Int /\ bars[n].low \in Int
  <2>1. \A x \in Bars : x.close \in Int /\ x.high \in Int /\ x.low \in Int
    BY DEF Bars
  <2>. QED  BY <1>3, <2>1
<1>7. bars[n].low <= bars[n].close /\ bars[n].close <= bars[n].high
  BY <1>3 DEF Framed
<1>8. bars[n].high <= HighOf(recent) /\ LowOf(recent) <= bars[n].low
  BY <1>2, <1>3, <1>4
<1>9. LowOf(recent) <= bars[n].close /\ bars[n].close <= HighOf(recent)
  BY <1>2, <1>6, <1>7, <1>8
<1>. QED  BY <1>2, <1>5, <1>6, <1>9 DEF recent

\* From below and from above the percentages make up the whole.
AddUp(k, r) == k \in {None} \cup 0..100 /\ (k # None => r = k - 100)

LEMMA PercentsAddUp ==
  ASSUME NEW low \in Int, NEW close \in Int, NEW high \in Int, low <= close, close <= high
  PROVE  AddUp(Percent(close - low, high - low), Percent(close - high, high - low))
<1>1. PICK a \in Nat : a = close - low
  OBVIOUS
<1>2. PICK b \in Nat : b = high - low /\ a <= b /\ close - high = a - b
  BY <1>1
<1>3. CASE b = 0
  BY <1>1, <1>2, <1>3 DEF Percent, AddUp
<1>4. CASE b # 0
  <2>1. b \in Nat \ {0}
    BY <1>4
  <2>2. Percent(a, b) \in 0..100
    BY <1>2, <2>1, PercentOfPart
  <2> DEFINE q == (100 * a) \div b
             r == (100 * (a - b)) \div b
  <2>3. q \in Int /\ q * b <= 100 * a /\ 100 * a < q * b + b
    <3>1. 100 * a \in Int
      OBVIOUS
    <3>. QED  BY <2>1, <3>1, QuotientBounds
  <2>4. r \in Int /\ r * b <= 100 * (a - b) /\ 100 * (a - b) < r * b + b
    <3>1. 100 * (a - b) \in Int
      OBVIOUS
    <3>. QED  BY <2>1, <3>1, QuotientBounds
  <2> HIDE DEF q, r
  <2>5. 100 * (a - b) = 100 * a - 100 * b /\ (q - 100) * b = q * b - 100 * b
    BY <2>3
  <2>6. q * b \in Int /\ r * b \in Int /\ (q - 100) * b \in Int /\ q - 100 \in Int
    BY <2>3, <2>4
  <2>7. r <= q - 100
    <3>1. r * b < (q - 100) * b + b
      BY <2>3, <2>4, <2>5, <2>6
    <3>. QED  BY <2>1, <2>4, <2>6, <3>1, QuotientsOrdered
  <2>8. q - 100 <= r
    <3>1. (q - 100) * b < r * b + b
      BY <2>3, <2>4, <2>5, <2>6
    <3>. QED  BY <2>1, <2>4, <2>6, <3>1, QuotientsOrdered
  <2>9. r = q - 100
    BY <2>3, <2>4, <2>7, <2>8
  <2>10. Percent(a, b) = q /\ Percent(a - b, b) = r
    BY <1>4 DEF Percent, q, r
  <2>. QED  BY <1>1, <1>2, <1>4, <2>2, <2>9, <2>10 DEF AddUp
<1>. QED  BY <1>3, <1>4

LEMMA StochasticInScale ==
  ASSUME NEW n \in Nat, NEW bars \in [1..n -> Bars], Framed(bars), NEW w \in Nat, 1 <= w
  PROVE  AddUp(StochasticK(bars, w), WilliamsR(bars, w))
<1>1. Len(bars) = n
  BY ListOf
<1>2. CASE n < w
  BY <1>1, <1>2 DEF StochasticK, AddUp
<1>3. CASE ~(n < w)
  <2> DEFINE close == LastClose(bars)
             high == HighOf(Tail0(bars, w))
             low == LowOf(Tail0(bars, w))
  <2>1. close \in Int /\ high \in Int /\ low \in Nat \ {0} /\ low <= close /\ close <= high
    <3>1. w <= n
      BY <1>3
    <3>. QED  BY <3>1, CloseIsWithin
  <2>2. StochasticK(bars, w) = Percent(close - low, high - low) /\ WilliamsR(bars, w) = Percent(close - high, high - low)
    BY <1>1, <1>3 DEF StochasticK, WilliamsR
  <2> HIDE DEF close, high, low
  <2>3. PICK c \in Int, h \in Int, l \in Int : c = close /\ h = high /\ l = low /\ l <= c /\ c <= h
    BY <2>1
  <2>4. AddUp(Percent(c - l, h - l), Percent(c - h, h - l))
    BY <2>3, PercentsAddUp
  <2>. QED  BY <2>2, <2>3, <2>4
<1>. QED  BY <1>2, <1>3

LEMMA MeanInScale ==
  ASSUME NEW m \in Nat, 1 <= m, NEW f \in [1..m -> 0..100]
  PROVE  Total(f) \div m \in 0..100
<1> DEFINE g == [i \in 1..m |-> 100]
<1>1. f \in [1..m -> Nat] /\ g \in [1..m -> Int] /\ \A i \in 1..m : f[i] <= g[i]
  <2>1. \A x \in 0..100 : x \in Nat /\ x <= 100
    OBVIOUS
  <2>2. f = [i \in 1..m |-> f[i]] /\ \A i \in 1..m : f[i] \in 0..100
    OBVIOUS
  <2>3. \A i \in 1..m : f[i] \in Nat /\ f[i] <= 100
    BY ONLY <2>1, <2>2
  <2>4. f \in [1..m -> Nat]
    BY <2>2, <2>3
  <2>5. g \in [1..m -> Int]
    OBVIOUS
  <2>6. \A i \in 1..m : g[i] = 100
    OBVIOUS
  <2>. QED  BY <2>3, <2>4, <2>5, <2>6
<1>2. DOMAIN g = 1..m /\ \A i \in 1..m : g[i] = 100
  OBVIOUS
<1> HIDE DEF g
<1>3. Total(f) \in Nat /\ Total(g) \in Int /\ Total(f) <= Total(g)
  BY <1>1, TotalOrdered
<1>4. Total(g) = m * 100
  <2>1. IsFiniteSet(1..m) /\ Cardinality(1..m) = m
    BY FS_Interval
  <2>2. 100 \in Int
    OBVIOUS
  <2>3. Sum(g, 1..m) = Cardinality(1..m) * 100
    BY <1>2, <2>1, <2>2, SumOfConstant
  <2>. QED  BY <1>2, <2>1, <2>3, TotalIsSum
<1>5. m \in Nat \ {0}
  OBVIOUS
<1>6. (m * 100) \div m = 100
  <2>1. 100 \in Int
    OBVIOUS
  <2>. QED  BY <1>5, <2>1, ProductDivides
<1>7. Total(f) \div m <= Total(g) \div m
  <2>1. Total(f) \in Int
    BY <1>3
  <2>. QED  BY <1>3, <1>5, <2>1, QuotientsFollow
<1>8. Total(f) \div m \in Nat
  BY <1>3, <1>5, QuotientIsNat
<1>9. Total(f) \div m <= 100
  BY <1>4, <1>6, <1>7
<1>10. \A q \in Nat : q <= 100 => q \in 0..100
  OBVIOUS
<1>. QED  BY ONLY <1>8, <1>9, <1>10

LEMMA FirstBarsAre ==
  ASSUME NEW n \in Nat, NEW bars \in [1..n -> Bars], Framed(bars), NEW m \in Nat, m <= n
  PROVE  SubSeq(bars, 1, m) \in [1..m -> Bars] /\ Framed(SubSeq(bars, 1, m))
<1>1. SubSeq(bars, 1, m) = [i \in 1..m |-> bars[i]]
  OBVIOUS
<1>2. \A i \in 1..m : i \in 1..n
  OBVIOUS
<1>3. SubSeq(bars, 1, m) \in [1..m -> Bars]
  BY <1>1, <1>2
<1>4. DOMAIN SubSeq(bars, 1, m) = 1..m /\ \A i \in 1..m : SubSeq(bars, 1, m)[i] = bars[i]
  BY <1>1
<1>. QED  BY <1>2, <1>3, <1>4 DEF Framed

LEMMA MeanKInScale ==
  ASSUME NEW n \in Nat, NEW bars \in [1..n -> Bars], Framed(bars), NEW w \in Nat, 1 <= w, NEW s \in Nat, 1 <= s
  PROVE  Stochastic(bars, w, s).d \in {None} \cup 0..100
<1> DEFINE latest == [i \in 1..s |-> IF n - s + i < 1 THEN None ELSE StochasticK(SubSeq(bars, 1, n - s + i), w)]
<1>1. Len(bars) = n
  BY ListOf
<1>2. Stochastic(bars, w, s).d = IF None \in {latest[i] : i \in 1..s} THEN None ELSE Total(latest) \div s
  BY <1>1 DEF Stochastic
<1>3. ASSUME NEW i \in 1..s PROVE latest[i] \in {None} \cup 0..100
  <2>1. CASE n - s + i < 1
    BY <2>1
  <2>2. CASE ~(n - s + i < 1)
    <3>1. PICK m \in Nat : m = n - s + i /\ m <= n
      BY <2>2
    <3>2. SubSeq(bars, 1, m) \in [1..m -> Bars] /\ Framed(SubSeq(bars, 1, m))
      BY <3>1, FirstBarsAre
    <3>3. AddUp(StochasticK(SubSeq(bars, 1, m), w), WilliamsR(SubSeq(bars, 1, m), w))
      BY <3>2, StochasticInScale
    <3>. QED  BY <2>2, <3>1, <3>3 DEF AddUp
  <2>. QED  BY <2>1, <2>2
<1>4. DOMAIN latest = 1..s /\ latest = [i \in 1..s |-> latest[i]]
  OBVIOUS
<1> HIDE DEF latest
<1>5. CASE None \in {latest[i] : i \in 1..s}
  BY <1>2, <1>5
<1>6. CASE ~(None \in {latest[i] : i \in 1..s})
  <2>1. \A i \in 1..s : latest[i] # None
    BY <1>6
  <2>2. \A i \in 1..s : latest[i] \in 0..100
    BY <1>3, <2>1
  <2>3. latest \in [1..s -> 0..100]
    BY <1>4, <2>2
  <2>4. Total(latest) \div s \in 0..100
    BY <2>3, MeanInScale
  <2>. QED  BY <1>2, <1>6, <2>4
<1>. QED  BY <1>5, <1>6

ShareOfKnown(part, of) == IF of = None THEN None ELSE Percent(part, of)

LEMMA ExtremesInScale ==
  ASSUME NEW n \in Nat, NEW bars \in [1..n -> Bars], Framed(bars), NEW k \in Nat, 1 <= k
  PROVE  LET above == ShareOfKnown(LastClose(bars) - Extremes(bars, k).low, Extremes(bars, k).low)
             below == ShareOfKnown(Extremes(bars, k).high - LastClose(bars), Extremes(bars, k).high)
         IN  above # None => above >= 0 /\ below >= 0
<1>1. Len(bars) = n
  BY ListOf
<1>2. CASE n < k
  BY <1>1, <1>2 DEF Extremes, ShareOfKnown
<1>3. CASE ~(n < k)
  <2> DEFINE close == LastClose(bars)
             high == HighOf(Tail0(bars, k))
             low == LowOf(Tail0(bars, k))
  <2>1. close \in Int /\ high \in Int /\ low \in Nat \ {0} /\ low <= close /\ close <= high
    <3>1. k <= n
      BY <1>3
    <3>. QED  BY <3>1, CloseIsWithin
  <2>2. Extremes(bars, k).high = high /\ Extremes(bars, k).low = low
    BY <1>1, <1>3 DEF Extremes
  <2> HIDE DEF close, high, low
  <2>3. PICK a \in Nat, b \in Nat, h \in Nat \ {0}, l \in Nat \ {0} :
           a = close - low /\ b = high - close /\ h = high /\ l = low
    BY <2>1
  <2>4. (100 * a) \div l \in Nat /\ (100 * b) \div h \in Nat
    <3>1. 100 * a \in Nat /\ 100 * b \in Nat
      OBVIOUS
    <3>2. (100 * a) \div l \in Nat
      BY <3>1, QuotientIsNat
    <3>3. (100 * b) \div h \in Nat
      BY <3>1, QuotientIsNat
    <3>. QED  BY <3>2, <3>3
  <2>5. Percent(a, l) >= 0 /\ Percent(b, h) >= 0
    BY <2>4 DEF Percent
  <2>6. h # None /\ l # None
    BY NoneAssumption
  <2>. QED  BY <2>2, <2>3, <2>5, <2>6 DEF ShareOfKnown, close
<1>. QED  BY <1>2, <1>3

\* The figures of a snapshot.
LEMMA SnapshotHas ==
  ASSUME NEW frame, NEW config, frame # <<>>, AdxSeries(frame, Spans.wilder).adx # Raised
  PROVE  LET s == SnapshotOf(frame, config)
             e == Extremes(frame, config.highLow)
             direction == AdxSeries(frame, Spans.wilder)
         IN  /\ s.rsi = LastOf(RsiSeries(Closes(frame), Spans.wilder))
             /\ s.adx = LastOf(direction.adx) /\ s.plus = LastOf(direction.plus) /\ s.minus = LastOf(direction.minus)
             /\ s.stochastic = Stochastic(frame, Spans.wilder, Spans.smooth)
             /\ s.williams = WilliamsR(frame, Spans.wilder)
             /\ s.aboveLow = ShareOfKnown(LastClose(frame) - e.low, e.low)
             /\ s.belowHigh = ShareOfKnown(e.high - LastClose(frame), e.high)
BY DEF SnapshotOf, ShareOfKnown

LEMMA SnapshotWithout ==
  ASSUME NEW frame, NEW config, frame = <<>> \/ AdxSeries(frame, Spans.wilder).adx = Raised
  PROVE  SnapshotOf(frame, config) \in {<<>>, Raised}
BY DEF SnapshotOf

LEMMA SnapshotInScale ==
  ASSUME NEW n \in Nat, NEW bars \in [1..n -> Bars], Framed(bars), NEW config, config.highLow \in Nat \ {0}
  PROVE  InScale(SnapshotOf(bars, config))
<1> DEFINE w == Spans.wilder
           s == SnapshotOf(bars, config)
<1>1. w \in Nat \ {0} /\ w \in Nat /\ 1 <= w /\ Spans.smooth \in Nat /\ 1 <= Spans.smooth
  BY SpansAssumption
<1>2. CASE bars = <<>> \/ AdxSeries(bars, w).adx = Raised
  BY <1>2, SnapshotWithout DEF InScale
<1>3. CASE bars # <<>> /\ AdxSeries(bars, w).adx # Raised
  <2>0. 1 <= n
    BY <1>3
  <2>1. Len(bars) = n
    BY ListOf
  <2> DEFINE e == Extremes(bars, config.highLow)
  <2>2. /\ s.rsi = LastOf(RsiSeries(Closes(bars), w))
        /\ s.adx = LastOf(AdxSeries(bars, w).adx) /\ s.plus = LastOf(AdxSeries(bars, w).plus)
        /\ s.minus = LastOf(AdxSeries(bars, w).minus)
        /\ s.stochastic = Stochastic(bars, w, Spans.smooth)
        /\ s.williams = WilliamsR(bars, w)
        /\ s.aboveLow = ShareOfKnown(LastClose(bars) - e.low, e.low)
        /\ s.belowHigh = ShareOfKnown(e.high - LastClose(bars), e.high)
    BY <1>3, SnapshotHas
  <2> HIDE DEF s, w
  <2>3. \A i \in 1..n : bars[i].low <= bars[i].close /\ bars[i].close <= bars[i].high
    BY DEF Framed
  <2>4. s.rsi \in {None} \cup 0..100
    <3>1. Closes(bars) \in [1..n -> Int] /\ Closes(UpTo(bars, n)) = UpTo(Closes(bars), n)
      BY ClosesBegin
    <3>2. LastOf(RsiSeries(Closes(bars), w)) \in {None} \cup 0..100
      BY <1>1, <2>0, <3>1, RsiInScale
    <3>. QED  BY <2>2, <3>2
  <2>5. s.adx \in {None} \cup 0..100
    <3>1. AdxSeries(bars, w).adx # Raised
      BY <1>3
    <3>2. LastOf(AdxSeries(bars, w).adx) \in {None} \cup 0..100
      BY <1>1, <2>0, <2>3, <3>1, AdxInScale
    <3>. QED  BY <2>2, <3>2
  <2>6. s.plus \in {None} \cup 0..100 /\ s.minus \in {None} \cup 0..100
    <3>1. /\ PlusMoves(bars, n) \in [1..(n - 1) -> Nat] /\ MinusMoves(bars, n) \in [1..(n - 1) -> Nat]
          /\ TrueRange(bars) \in [1..(n - 1) -> Nat]
          /\ \A i \in 1..(n - 1) : /\ PlusMoves(bars, n)[i] <= TrueRange(bars)[i]
                                   /\ MinusMoves(bars, n)[i] <= TrueRange(bars)[i]
      BY <2>0, <2>3, MovesAreBounded
    <3>2. LastOf(DirectionOf(PlusMoves(bars, n), bars, n, w)) \in {None} \cup 0..100
      <4>1. \A i \in 1..(n - 1) : PlusMoves(bars, n)[i] <= TrueRange(bars)[i]
        BY <3>1
      <4>. QED  BY <1>1, <2>0, <3>1, <4>1, DirectionInScale
    <3>3. LastOf(DirectionOf(MinusMoves(bars, n), bars, n, w)) \in {None} \cup 0..100
      <4>1. \A i \in 1..(n - 1) : MinusMoves(bars, n)[i] <= TrueRange(bars)[i]
        BY <3>1
      <4>. QED  BY <1>1, <2>0, <3>1, <4>1, DirectionInScale
    <3>4. /\ AdxSeries(bars, w).plus = DirectionOf(PlusMoves(bars, n), bars, n, w)
          /\ AdxSeries(bars, w).minus = DirectionOf(MinusMoves(bars, n), bars, n, w)
      BY <2>1, DirectionsAre
    <3>. QED  BY <2>2, <3>2, <3>3, <3>4
  <2>7. AddUp(s.stochastic.k, s.williams)
    <3>1. AddUp(StochasticK(bars, w), WilliamsR(bars, w))
      BY <1>1, StochasticInScale
    <3>2. Stochastic(bars, w, Spans.smooth).k = StochasticK(bars, w)
      BY DEF Stochastic
    <3>. QED  BY <2>2, <3>1, <3>2
  <2>8. s.stochastic.d \in {None} \cup 0..100
    <3>1. Stochastic(bars, w, Spans.smooth).d \in {None} \cup 0..100
      BY <1>1, MeanKInScale
    <3>. QED  BY <2>2, <3>1
  <2>9. s.aboveLow # None => s.aboveLow >= 0 /\ s.belowHigh >= 0
    <3>1. config.highLow \in Nat /\ 1 <= config.highLow
      OBVIOUS
    <3>2. LET above == ShareOfKnown(LastClose(bars) - e.low, e.low)
              below == ShareOfKnown(e.high - LastClose(bars), e.high)
          IN  above # None => above >= 0 /\ below >= 0
      BY <3>1, ExtremesInScale
    <3>. QED  BY <2>2, <3>2
  <2>10. {s.rsi, s.adx, s.plus, s.minus, s.stochastic.k, s.stochastic.d} \subseteq {None} \cup 0..100
    BY <2>4, <2>5, <2>6, <2>7, <2>8 DEF AddUp
  <2>11. s.stochastic.k # None => s.williams = s.stochastic.k - 100
    BY <2>7 DEF AddUp
  <2>12. InScale(s)
    BY <2>9, <2>10, <2>11 DEF InScale
  <2>. QED  BY <2>12 DEF s
<1>. QED  BY <1>2, <1>3

-----------------------------------------------------------------------------
(* A split moves no indicator: adjusted, the bars are those without it.      *)

LEMMA RequiredBarsAre ==
  ASSUME NEW config, config.sma[3] \in Nat, config.slope \in Nat, config.volume \in Nat,
         config.highLow \in Nat, 1 <= config.highLow
  PROVE  RequiredMinBars(config) \in Nat /\ 1 <= RequiredMinBars(config)
<1>1. PICK a \in Nat : a = config.sma[3] + config.slope
  OBVIOUS
<1>2. PICK b \in Nat, c \in Nat : b = config.highLow /\ c = config.volume /\ 1 <= b
  OBVIOUS
<1>3. a \in Int /\ b \in Int /\ c \in Int
  OBVIOUS
<1>4. Max({a, b, c}) \in Int /\ a <= Max({a, b, c}) /\ b <= Max({a, b, c}) /\ c <= Max({a, b, c})
  BY <1>3, MaxOfThree
<1>5. PICK m \in Int : m = Max({a, b, c}) /\ b <= m
  BY <1>4
<1>6. Spans.buffer \in Nat
  BY SpansAssumption
<1>7. RequiredMinBars(config) = m + Spans.buffer
  BY <1>1, <1>2, <1>5 DEF RequiredMinBars
<1>. QED  BY <1>2, <1>5, <1>6, <1>7

\* Stored bars of the sessions 1 to n that are the bars given, once adjusted.
Shows(stored, bars, n) ==
  /\ stored = [i \in 1..n |-> stored[i]]
  /\ \A i \in 1..n : stored[i].date = i /\ Adjusted(stored[i]) = bars[i]

FrameOf(bars, date, required) ==
  IF date < required THEN <<>> ELSE [i \in 1..required |-> bars[date - required + i]]

LEMMA FrameIs ==
  ASSUME NEW n \in Nat, NEW bars, NEW stored, Shows(stored, bars, n),
         NEW date \in Nat, 1 <= date, date <= n, NEW config, NEW required \in Nat, 1 <= required,
         required = RequiredMinBars(config)
  PROVE  Frame(stored, date, config) = FrameOf(bars, date, required)
<1> DEFINE S == {stored[i] : i \in 1..n}
           upTo == Through(stored, date)
           lo == Max({1, date - required + 1})
           window == SubSeq(upTo, lo, date)
<1>1. stored \in [1..n -> S] /\ DOMAIN stored = 1..n
  BY DEF Shows
<1>2. CountThrough(stored, date) = date
  <2>1. {i \in DOMAIN stored : stored[i].date <= date} = 1..date
    <3>1. \A i \in 1..n : stored[i].date = i
      BY DEF Shows
    <3>2. {i \in DOMAIN stored : stored[i].date <= date} = {i \in 1..n : i <= date}
      BY <1>1, <3>1
    <3>. QED  BY <3>2
  <2>2. Cardinality(1..date) = date
    BY FS_Interval
  <2>. QED  BY <2>1, <2>2 DEF CountThrough
<1> HIDE DEF S
<1>3. upTo = [i \in 1..date |-> stored[i]]
  <2>1. SubSeq(stored, 1, date) = [i \in 1..date |-> stored[i]]
    BY <1>1
  <2>. QED  BY <1>2, <2>1 DEF Through
<1>4. upTo \in [1..date -> S]
  <2>1. \A i \in 1..date : i \in 1..n
    OBVIOUS
  <2>. QED  BY <1>1, <1>3, <2>1
<1>5. Len(upTo) = date /\ \A i \in 1..date : upTo[i] = stored[i]
  BY <1>3, <1>4, ListOf
<1> HIDE DEF upTo
<1>6. FetchBars(stored, date, required) = window
  BY <1>5 DEF FetchBars, upTo
<1>7. PICK a \in Int : a = date - required + 1
  OBVIOUS
<1>8. lo \in Int /\ lo \in {1, a} /\ 1 <= lo /\ a <= lo
  <2>1. 1 \in Int
    OBVIOUS
  <2>2. Max({1, a, a}) \in Int /\ 1 <= Max({1, a, a}) /\ a <= Max({1, a, a}) /\ a <= Max({1, a, a})
    BY <2>1, MaxOfThree
  <2>3. {1, a, a} = {1, a}
    OBVIOUS
  <2>4. lo = Max({1, a})
    BY <1>7
  <2>5. lo \in {1, a}
    <3>1. {1, a} \in SUBSET Int /\ {1, a} # {}
      OBVIOUS
    <3>2. {1, a} = {1} \cup {a} /\ IsFiniteSet({1}) /\ IsFiniteSet({a})
      BY FS_Singleton
    <3>3. IsFiniteSet({1, a})
      BY <3>2, FS_Union
    <3>4. Max({1, a}) \in {1, a}
      BY <3>1, <3>3, FiniteSetHasBounds
    <3>. QED  BY <2>4, <3>4
  <2>. QED  BY <2>2, <2>3, <2>4, <2>5
<1> HIDE DEF lo
<1>9. Frame(stored, date, config)
      = IF Len(window) < required THEN <<>> ELSE [i \in DOMAIN window |-> Adjusted(window[i])]
  BY <1>6 DEF Frame
<1>10. window = [i \in 1..(date - lo + 1) |-> upTo[i + lo - 1]]
  BY <1>4, <1>8
<1>11. CASE date < required
  <2>1. lo = 1
    BY <1>7, <1>8, <1>11
  <2>2. window = [i \in 1..date |-> upTo[i]]
    BY <1>10, <2>1
  <2>3. window \in [1..date -> S]
    BY <1>4, <2>2
  <2>4. Len(window) = date
    BY <2>3, ListOf
  <2>. QED  BY <1>9, <1>11, <2>4 DEF FrameOf
<1>12. CASE ~(date < required)
  <2>1. lo = a /\ date - lo + 1 = required
    BY <1>7, <1>8, <1>12
  <2>2. \A i \in 1..required : i + lo - 1 = date - required + i /\ date - required + i \in 1..date
                               /\ date - required + i \in 1..n
    BY <1>7, <1>12, <2>1
  <2>3. window = [i \in 1..required |-> upTo[date - required + i]]
    BY <1>10, <2>1, <2>2
  <2>4. window \in [1..required -> S]
    BY <1>4, <2>2, <2>3
  <2>5. Len(window) = required /\ DOMAIN window = 1..required
    BY <2>4, ListOf
  <2>6. \A i \in 1..required : Adjusted(window[i]) = bars[date - required + i]
    <3>1. \A i \in 1..required : window[i] = stored[date - required + i]
      BY <1>5, <2>2, <2>3
    <3>. QED  BY <2>2, <3>1 DEF Shows
  <2> HIDE DEF window
  <2>. QED  BY <1>9, <1>12, <2>5, <2>6 DEF FrameOf
<1>. QED  BY <1>11, <1>12

LEMMA FrameKeeps ==
  ASSUME NEW n \in Nat, NEW bars \in [1..n -> Bars], Framed(bars),
         NEW date \in Nat, date <= n, NEW required \in Nat
  PROVE  \E m \in Nat : FrameOf(bars, date, required) \in [1..m -> Bars]
                        /\ Framed(FrameOf(bars, date, required))
<1>1. CASE date < required
  <2>1. 1..0 = {} /\ FrameOf(bars, date, required) = <<>>
    BY <1>1 DEF FrameOf
  <2>2. <<>> \in [1..0 -> Bars] /\ DOMAIN (<<>>) = {}
    BY <2>1
  <2>. QED  BY <2>1, <2>2 DEF Framed
<1>2. CASE ~(date < required)
  <2>1. \A i \in 1..required : date - required + i \in 1..n
    BY <1>2
  <2>2. FrameOf(bars, date, required) = [i \in 1..required |-> bars[date - required + i]]
    BY <1>2 DEF FrameOf
  <2>3. FrameOf(bars, date, required) \in [1..required -> Bars]
    BY <2>1, <2>2
  <2>. QED  BY <2>1, <2>2, <2>3 DEF Framed
<1>. QED  BY <1>1, <1>2

LEMMA DoublesHalve ==
  ASSUME NEW x \in Int
  PROVE  (x * 2) \div 2 = x /\ x \div 1 = x /\ x * 1 = x /\ (x % 2 = 0 => (x \div 2) * 2 = x)
OBVIOUS

\* What is stored of a bar, by the divisor, is the bar once adjusted.
LEMMA AdjustedIs ==
  ASSUME NEW bar \in Bars, NEW by \in {1, 2}, by = 2 => bar.volume % 2 = 0, NEW i,
         NEW stored, stored = [date |-> i, divisor |-> IF by = 1 THEN None ELSE by, open |-> bar.open * by,
                               high |-> bar.high * by, low |-> bar.low * by, close |-> bar.close * by,
                               volume |-> bar.volume \div by]
  PROVE  stored.date = i /\ Adjusted(stored) = bar
<1>1. /\ bar.open \in Int /\ bar.high \in Int /\ bar.low \in Int /\ bar.close \in Int /\ bar.volume \in Int
      /\ bar = [open |-> bar.open, high |-> bar.high, low |-> bar.low, close |-> bar.close, volume |-> bar.volume]
  BY DEF Bars
<1>2. "divisor" \in DOMAIN stored /\ stored.divisor = IF by = 1 THEN None ELSE by
  OBVIOUS
<1>3. stored.open = bar.open * by /\ stored.high = bar.high * by /\ stored.low = bar.low * by
      /\ stored.close = bar.close * by /\ stored.volume = bar.volume \div by /\ stored.date = i
  OBVIOUS
<1>4. (IF "divisor" \notin DOMAIN stored THEN 1 ELSE IF stored.divisor = None THEN 1 ELSE stored.divisor) = by
  <2>1. 2 # None
    BY NoneAssumption
  <2>. QED  BY <1>2, <2>1
<1>5. Adjusted(stored) = [open |-> (bar.open * by) \div by, high |-> (bar.high * by) \div by,
                          low |-> (bar.low * by) \div by, close |-> (bar.close * by) \div by,
                          volume |-> (bar.volume \div by) * by]
  BY <1>3, <1>4 DEF Adjusted
<1>6. /\ (bar.open * by) \div by = bar.open /\ (bar.high * by) \div by = bar.high
      /\ (bar.low * by) \div by = bar.low /\ (bar.close * by) \div by = bar.close
      /\ (bar.volume \div by) * by = bar.volume
  <2>1. by = 1 \/ by = 2
    OBVIOUS
  <2>. QED  BY <1>1, <2>1, DoublesHalve
<1>. QED  BY <1>1, <1>3, <1>5, <1>6

LEMMA UnsplitIs ==
  ASSUME NEW bar \in Bars, NEW i, NEW stored, stored = Over([date |-> i, divisor |-> None], bar)
  PROVE  stored.date = i /\ Adjusted(stored) = bar
<1>1. /\ bar.open \in Int /\ bar.high \in Int /\ bar.low \in Int /\ bar.close \in Int /\ bar.volume \in Int
      /\ bar = [open |-> bar.open, high |-> bar.high, low |-> bar.low, close |-> bar.close, volume |-> bar.volume]
      /\ DOMAIN bar = {"open", "high", "low", "close", "volume"}
  BY DEF Bars
<1> DEFINE mark == [date |-> i, divisor |-> None]
<1>2. DOMAIN mark = {"date", "divisor"} /\ mark["date"] = i /\ mark["divisor"] = None
  OBVIOUS
<1> HIDE DEF mark
<1>3. stored = [x \in DOMAIN mark \cup DOMAIN bar |-> IF x \in DOMAIN mark THEN mark[x] ELSE bar[x]]
  BY DEF Over, mark
<1>4. /\ "divisor" \in DOMAIN stored /\ stored.divisor = None /\ stored.date = i
      /\ stored.open = bar.open /\ stored.high = bar.high /\ stored.low = bar.low
      /\ stored.close = bar.close /\ stored.volume = bar.volume
  BY <1>1, <1>2, <1>3
<1>5. Adjusted(stored) = [open |-> bar.open \div 1, high |-> bar.high \div 1, low |-> bar.low \div 1,
                          close |-> bar.close \div 1, volume |-> bar.volume * 1]
  BY <1>4 DEF Adjusted
<1>. QED  BY <1>1, <1>4, <1>5, DoublesHalve

\* Whatever the bars, the split and the windows, the indicators of every
\* session are those of the bars that were never split, and the oscillators
\* keep to their scale: the adjustment of indicator_pipeline.py is exact.
THEOREM AnySplitMovesNoIndicator == Spec => []SplitsDoNotMoveIndicators
<1>1. ASSUME InputOK, Is("bars") PROVE SplitsDoNotMoveIndicators
  <2> DEFINE v == input.value
             bars == v.bars
             n == Len(bars)
             config == v.config
             required == RequiredMinBars(config)
  <2>1. /\ Drawn(bars)
        /\ v.split \in Int /\ \A i \in DOMAIN bars : i < v.split => bars[i].volume % 2 = 0
        /\ {config.sma[3], config.slope, config.volume} \subseteq Nat /\ config.highLow \in Nat \ {0}
    BY <1>1, BarsAssumption DEF InputOK, Is, Idle
  <2>2. bars \in Seq(Bars) /\ n \in Nat /\ DOMAIN bars = 1..n
    BY <2>1 DEF Drawn, Bars
  <2>3. bars \in [1..n -> Bars]
    BY <2>2, LenProperties
  <2>4. Framed(bars)
    BY <2>1, <2>2 DEF Drawn, Framed
  <2>5. config.sma[3] \in Nat /\ config.slope \in Nat /\ config.volume \in Nat
        /\ config.highLow \in Nat /\ 1 <= config.highLow
    BY <2>1
  <2>6. required \in Nat /\ 1 <= required
    BY <2>5, RequiredBarsAre
  <2>7. Shows(Printed(v), bars, n)
    <3> DEFINE By(i) == IF i < v.split THEN 2 ELSE 1
               At(i) == [date |-> i, divisor |-> IF By(i) = 1 THEN None ELSE By(i), open |-> bars[i].open * By(i),
                         high |-> bars[i].high * By(i), low |-> bars[i].low * By(i), close |-> bars[i].close * By(i),
                         volume |-> bars[i].volume \div By(i)]
    <3>1. Printed(v) = [i \in 1..n |-> At(i)]
      BY <2>2 DEF Printed
    <3>2. ASSUME NEW i \in 1..n PROVE At(i).date = i /\ Adjusted(At(i)) = bars[i]
      <4>1. bars[i] \in Bars
        BY <2>3, <3>2
      <4>2. By(i) \in {1, 2} /\ (By(i) = 2 => bars[i].volume % 2 = 0)
        BY <2>1, <2>2, <3>2
      <4> HIDE DEF By, bars
      <4>. QED  BY <4>1, <4>2, AdjustedIs
    <3> HIDE DEF At
    <3>. QED  BY <3>1, <3>2 DEF Shows
  <2>8. Shows(Unsplit(v), bars, n)
    <3> DEFINE At(i) == Over([date |-> i, divisor |-> None], bars[i])
    <3>1. Unsplit(v) = [i \in 1..n |-> At(i)]
      BY <2>2 DEF Unsplit
    <3>2. ASSUME NEW i \in 1..n PROVE At(i).date = i /\ Adjusted(At(i)) = bars[i]
      <4>1. bars[i] \in Bars
        BY <2>3, <3>2
      <4> HIDE DEF bars
      <4>. QED  BY <4>1, UnsplitIs
    <3> HIDE DEF At
    <3>. QED  BY <3>1, <3>2 DEF Shows
  <2> HIDE DEF bars, config, required, n, v
  <2>9. ASSUME NEW date \in 1..n
        PROVE  /\ Snapshot(Printed(v), date, config) = Snapshot(Unsplit(v), date, config)
               /\ InScale(Snapshot(Printed(v), date, config))
    <3>1. date \in Nat /\ 1 <= date /\ date <= n
      BY <2>2
    <3>2. Frame(Printed(v), date, config) = FrameOf(bars, date, required)
      BY <2>2, <2>6, <2>7, <3>1, FrameIs DEF required
    <3>3. Frame(Unsplit(v), date, config) = FrameOf(bars, date, required)
      BY <2>2, <2>6, <2>8, <3>1, FrameIs DEF required
    <3>4. PICK m \in Nat : FrameOf(bars, date, required) \in [1..m -> Bars] /\ Framed(FrameOf(bars, date, required))
      BY <2>2, <2>3, <2>4, <2>6, <3>1, FrameKeeps
    <3>5. InScale(SnapshotOf(FrameOf(bars, date, required), config))
      <4>1. config.highLow \in Nat \ {0}
        BY <2>1
      <4>. QED  BY <3>4, <4>1, SnapshotInScale
    <3>. QED  BY <3>2, <3>3, <3>5 DEF Snapshot
  <2>. QED  BY <2>2, <2>9 DEF SplitsDoNotMoveIndicators, v, bars, config
<1>2. InputOK => SplitsDoNotMoveIndicators
  BY <1>1 DEF SplitsDoNotMoveIndicators
<1>. QED  BY <1>2, InputsAreGiven, PTL

-----------------------------------------------------------------------------
(* Missing indicators.                                                       *)

\* What the template needs to pass, rule by rule.
TemplatePasses(c) ==
  /\ CloseAboveSma150And200(c).passed /\ Sma150AboveSma200(c).passed /\ Sma200Uptrend(c).passed
  /\ SmaStack(c).passed /\ CloseAboveSma50(c).passed /\ Above52wLow(c).passed
  /\ Near52wHigh(c).passed /\ RsRatingMin(c).passed

LEMMA TemplatePassesIs ==
  ASSUME NEW c
  PROVE  AllPass(TrendTemplate(c)) <=> TemplatePasses(c)
BY DEF AllPass, TrendTemplate, TemplatePasses

\* A rule passes if its inputs are known and its verdict is.
LEMMA GivenPasses ==
  ASSUME NEW inputs, NEW verdict
  PROVE  Given(inputs, verdict).passed <=> None \notin inputs /\ verdict.passed
<1>1. Missing.passed = FALSE
  BY DEF Missing, Rule
<1>. QED  BY <1>1 DEF Given

LEMMA BinaryPasses ==
  ASSUME NEW passed
  PROVE  Binary(passed).passed = passed
BY DEF Binary, Rule

\* A distance in percent, rounded down, keeps to a limit if the distance does.
LEMMA PercentKeeps ==
  ASSUME NEW n \in Int, NEW of \in Nat \ {0}, NEW limit \in Int
  PROVE  /\ 100 * n >= limit * of => Percent(n, of) >= limit
         /\ 100 * n <= limit * of => Percent(n, of) <= limit
<1>1. PICK a \in Int : a = 100 * n
  OBVIOUS
<1>2. Percent(n, of) = a \div of
  BY <1>1 DEF Percent
<1>3. a \div of \in Int /\ (a \div of) * of <= a /\ a < (a \div of) * of + of
  BY QuotientBounds
<1>4. PICK q \in Int : q = a \div of /\ q * of <= a /\ a < q * of + of
  BY <1>3
<1>5. ASSUME a >= limit * of PROVE q >= limit
  <2>1. limit * of < q * of + of
    BY <1>4, <1>5
  <2>. QED  BY <2>1, QuotientsOrdered
<1>6. ASSUME a <= limit * of PROVE q <= limit
  <2>1. q * of < limit * of + of
    BY <1>4, <1>6
  <2>. QED  BY <2>1, QuotientsOrdered
<1>. QED  BY <1>1, <1>2, <1>4, <1>5, <1>6

\* The security as it is known without one of its figures.
Without(c, f) == [c EXCEPT ![f] = None]

LEMMA WithoutIs ==
  ASSUME NEW c, Observed(c), NEW f \in DOMAIN c \ {"bars"}
  PROVE  /\ Without(c, f).bars = c.bars
         /\ \A x \in DOMAIN c : Without(c, f)[x] = IF x = f THEN None ELSE c[x]
BY DEF Without, Observed

LEMMA RulesNeedTheirInputs ==
  ASSUME NEW c, Observed(c), NEW f \in DOMAIN c \ {"bars"}
  PROVE  LET d == Without(c, f)
         IN  /\ CloseAboveSma150And200(d).passed => CloseAboveSma150And200(c).passed
             /\ Sma150AboveSma200(d).passed => Sma150AboveSma200(c).passed
             /\ Sma200Uptrend(d).passed => Sma200Uptrend(c).passed
             /\ SmaStack(d).passed => SmaStack(c).passed
             /\ CloseAboveSma50(d).passed => CloseAboveSma50(c).passed
             /\ RsRatingMin(d).passed => RsRatingMin(c).passed
             /\ LiquidityMin(d).passed => LiquidityMin(c).passed
<1> DEFINE d == Without(c, f)
<1>1. d.bars = c.bars /\ LastClose(d.bars) = LastClose(c.bars)
  BY WithoutIs
<1>2. /\ d.sma50 \in {None, c.sma50} /\ d.sma150 \in {None, c.sma150} /\ d.sma200 \in {None, c.sma200}
      /\ d.slope \in {None, c.slope} /\ d.rs \in {None, c.rs} /\ d.avgVolume \in {None, c.avgVolume}
  <2>1. \A x \in DOMAIN c : d[x] \in {None, c[x]}
    BY WithoutIs
  <2>2. {"sma50", "sma150", "sma200", "slope", "rs", "avgVolume"} \subseteq DOMAIN c
    BY DEF Observed
  <2> HIDE DEF d
  <2>. QED  BY <2>1, <2>2
<1> HIDE DEF d
<1>3. CloseAboveSma150And200(d).passed => CloseAboveSma150And200(c).passed
  BY <1>1, <1>2, GivenPasses DEF CloseAboveSma150And200
<1>4. Sma150AboveSma200(d).passed => Sma150AboveSma200(c).passed
  BY <1>2, GivenPasses DEF Sma150AboveSma200
<1>5. Sma200Uptrend(d).passed => Sma200Uptrend(c).passed
  BY <1>2, GivenPasses DEF Sma200Uptrend
<1>6. SmaStack(d).passed => SmaStack(c).passed
  BY <1>2, GivenPasses DEF SmaStack
<1>7. CloseAboveSma50(d).passed => CloseAboveSma50(c).passed
  BY <1>1, <1>2, GivenPasses DEF CloseAboveSma50
<1>8. RsRatingMin(d).passed => RsRatingMin(c).passed
  BY <1>2, GivenPasses DEF RsRatingMin
<1>9. LiquidityMin(d).passed => LiquidityMin(c).passed
  BY <1>1, <1>2, GivenPasses DEF LiquidityMin
<1>. QED  BY <1>3, <1>4, <1>5, <1>6, <1>7, <1>8, <1>9 DEF d

\* The two rules that have a figure of the pipeline or work it out.
LEMMA DistancesAgree ==
  ASSUME NEW c, Observed(c), NEW f \in DOMAIN c \ {"bars"}
  PROVE  LET d == Without(c, f)
         IN  /\ Above52wLow(d).passed => Above52wLow(c).passed
             /\ Near52wHigh(d).passed => Near52wHigh(c).passed
<1> DEFINE d == Without(c, f)
           close == LastClose(c.bars)
<1>1. d.bars = c.bars
  BY WithoutIs
<1>2. /\ d.low52 \in {None, c.low52} /\ d.high52 \in {None, c.high52}
      /\ d.aboveLow \in {None, c.aboveLow} /\ d.belowHigh \in {None, c.belowHigh}
  <2>1. \A x \in DOMAIN c : d[x] \in {None, c[x]}
    BY WithoutIs
  <2>2. {"low52", "high52", "aboveLow", "belowHigh"} \subseteq DOMAIN c
    BY DEF Observed
  <2> HIDE DEF d
  <2>. QED  BY <2>1, <2>2
<1> HIDE DEF d
<1> DEFINE Above(e) == IF e.aboveLow # None THEN e.aboveLow >= 30 ELSE 100 * (close - e.low52) >= 30 * e.low52
           Near(e) == IF e.belowHigh # None THEN e.belowHigh <= 25 ELSE 100 * (e.high52 - close) <= 25 * e.high52
<1>3. /\ Above52wLow(d).passed <=> None \notin {close, d.low52} /\ Above(d)
      /\ Above52wLow(c).passed <=> None \notin {close, c.low52} /\ Above(c)
  <2> HIDE DEF Above
  <2>1. Binary(Above(d)).passed = Above(d) /\ Binary(Above(c)).passed = Above(c)
    BY BinaryPasses
  <2>2. /\ Above52wLow(d) = Given({close, d.low52}, Binary(Above(d)))
        /\ Above52wLow(c) = Given({close, c.low52}, Binary(Above(c)))
    BY <1>1 DEF Above52wLow, Above
  <2>. QED  BY <2>1, <2>2, GivenPasses
<1>4. /\ Near52wHigh(d).passed <=> None \notin {close, d.high52} /\ Near(d)
      /\ Near52wHigh(c).passed <=> None \notin {close, c.high52} /\ Near(c)
  <2> HIDE DEF Near
  <2>1. Binary(Near(d)).passed = Near(d) /\ Binary(Near(c)).passed = Near(c)
    BY BinaryPasses
  <2>2. /\ Near52wHigh(d) = Given({close, d.high52}, Binary(Near(d)))
        /\ Near52wHigh(c) = Given({close, c.high52}, Binary(Near(c)))
    BY <1>1 DEF Near52wHigh, Near
  <2>. QED  BY <2>1, <2>2, GivenPasses
<1>5. /\ close \in Int \cup {None} /\ c.low52 \in (Nat \ {0}) \cup {None} /\ c.high52 \in (Nat \ {0}) \cup {None}
      /\ c.aboveLow # None => c.aboveLow = Percent(close - c.low52, c.low52)
      /\ c.belowHigh # None => c.belowHigh = Percent(c.high52 - close, c.high52)
  BY DEF Observed
<1> HIDE DEF close
<1>6. ASSUME None \notin {close, d.low52}, Above(d) PROVE None \notin {close, c.low52} /\ Above(c)
  <2>1. d.low52 = c.low52 /\ close \in Int /\ c.low52 \in Nat \ {0}
    BY <1>2, <1>5, <1>6
  <2>2. CASE d.aboveLow = c.aboveLow
    BY <1>6, <2>1, <2>2
  <2>3. CASE d.aboveLow # c.aboveLow
    <3>1. 100 * (close - c.low52) >= 30 * c.low52
      BY <1>2, <1>6, <2>1, <2>3
    <3>2. close - c.low52 \in Int /\ 30 \in Int
      BY <2>1
    <3>3. Percent(close - c.low52, c.low52) >= 30
      BY <2>1, <3>1, <3>2, PercentKeeps
    <3>. QED  BY <1>2, <1>5, <1>6, <2>1, <2>3, <3>3
  <2>. QED  BY <2>2, <2>3
<1>7. ASSUME None \notin {close, d.high52}, Near(d) PROVE None \notin {close, c.high52} /\ Near(c)
  <2>1. d.high52 = c.high52 /\ close \in Int /\ c.high52 \in Nat \ {0}
    BY <1>2, <1>5, <1>7
  <2>2. CASE d.belowHigh = c.belowHigh
    BY <1>7, <2>1, <2>2
  <2>3. CASE d.belowHigh # c.belowHigh
    <3>1. 100 * (c.high52 - close) <= 25 * c.high52
      BY <1>2, <1>7, <2>1, <2>3
    <3>2. c.high52 - close \in Int /\ 25 \in Int
      BY <2>1
    <3>3. Percent(c.high52 - close, c.high52) <= 25
      BY <2>1, <3>1, <3>2, PercentKeeps
    <3>. QED  BY <1>2, <1>5, <1>7, <2>1, <2>3, <3>3
  <2>. QED  BY <2>2, <2>3
<1> HIDE DEF Above, Near
<1>. QED  BY <1>3, <1>4, <1>6, <1>7 DEF d

LEMMA MissingNeverQualifies ==
  ASSUME InputOK
  PROVE  MissingDataNeverQualifies
<1> SUFFICES ASSUME Is("context"), NEW f \in DOMAIN input.value \ {"bars"}, Qualifies(Without(input.value, f))
             PROVE  Qualifies(input.value)
  BY DEF MissingDataNeverQualifies, Without
<1>1. Observed(input.value)
  BY ContextsAssumption DEF InputOK, Is, Idle
<1>2. PICK c : c = input.value
  OBVIOUS
<1>3. Observed(c) /\ f \in DOMAIN c \ {"bars"}
  BY <1>1, <1>2
<1>4. TemplatePasses(Without(c, f)) /\ LiquidityMin(Without(c, f)).passed
  BY <1>2, TemplatePassesIs DEF Qualifies
<1>5. TemplatePasses(c) /\ LiquidityMin(c).passed
  BY <1>3, <1>4, RulesNeedTheirInputs, DistancesAgree DEF TemplatePasses
<1>. QED  BY <1>2, <1>5, TemplatePassesIs DEF Qualifies

-----------------------------------------------------------------------------
(* What the rules contribute.                                                *)

\* A weighted mean of percentages is one.
LEMMA SharesOfWeights ==
  ASSUME NEW S, IsFiniteSet(S), NEW f, NEW w, \A x \in S : w[x] \in Nat /\ f[x] \in Nat /\ f[x] <= 100 * w[x]
  PROVE  Sum(f, S) \in Nat /\ Sum(w, S) \in Nat /\ Sum(f, S) <= 100 * Sum(w, S)
<1> DEFINE T == {U \in SUBSET S : Sum(f, U) <= 100 * Sum(w, U)}
<1>1. /\ Summable(f, S) /\ Sum(f, S) \in Nat
      /\ Summable(w, S) /\ Sum(w, S) \in Nat
  BY SumOfNaturals
<1>2. /\ Sum(f, {}) = 0
      /\ \A U \in SUBSET S : Sum(f, U) \in Int
      /\ \A U \in SUBSET S : \A x \in S \ U : Sum(f, U \cup {x}) = f[x] + Sum(f, U)
  BY <1>1, SumOfPart
<1>3. /\ Sum(w, {}) = 0
      /\ \A U \in SUBSET S : Sum(w, U) \in Int
      /\ \A U \in SUBSET S : \A x \in S \ U : Sum(w, U \cup {x}) = w[x] + Sum(w, U)
  BY <1>1, SumOfPart
<1>4. {} \in T
  BY <1>2, <1>3
<1>5. \A U \in SUBSET S : \A x \in S \ U : U \in T => U \cup {x} \in T
  <2> SUFFICES ASSUME NEW U \in SUBSET S, NEW x \in S \ U, Sum(f, U) <= 100 * Sum(w, U)
               PROVE  Sum(f, U \cup {x}) <= 100 * Sum(w, U \cup {x})
    OBVIOUS
  <2>1. f[x] \in Int /\ w[x] \in Int /\ f[x] <= 100 * w[x] /\ Sum(f, U) \in Int /\ Sum(w, U) \in Int
    BY <1>2, <1>3
  <2>2. Sum(f, U \cup {x}) = f[x] + Sum(f, U) /\ Sum(w, U \cup {x}) = w[x] + Sum(w, U)
    BY <1>2, <1>3
  <2>. QED  BY <2>1, <2>2
<1> HIDE DEF T
<1>6. S \in T
  BY <1>4, <1>5, FiniteSetInduction
<1>. QED  BY <1>1, <1>6 DEF T

Fair(rules) == \A r \in DOMAIN rules : rules[r].part \in 0..100

LEMMA ScoreIsPercentage ==
  ASSUME NEW id, NEW rules, IsFiniteSet(DOMAIN rules), Fair(rules)
  PROVE  EngineScore(id, rules) \in 0..100
<1> DEFINE D == DOMAIN rules
           weight == [r \in D |-> IF id = "trend_template" THEN 1 ELSE RuleWeight(r)]
           Part(r) == IF id = "trend_template" THEN (IF rules[r].passed THEN 100 ELSE 0)
                      ELSE rules[r].part
           parts == [r \in D |-> weight[r] * Part(r)]
           total == Sum(weight, D)
<1>1. EngineScore(id, rules) = IF total = 0 THEN 0 ELSE Sum(parts, D) \div total
  <2>1. SumFunction(weight) = total /\ SumFunction(parts) = Sum(parts, D)
    BY SumFunctionIsSum
  <2>. QED  BY <2>1 DEF EngineScore
<1>2. \A r \in D : weight[r] \in Nat /\ Part(r) \in 0..100
  BY WeightsArePositive DEF Fair
<1>3. \A r \in D : parts[r] \in Nat /\ parts[r] <= 100 * weight[r]
  <2>1. \A w \in Nat : \A p \in 0..100 : w * p \in Nat /\ w * p <= 100 * w
    OBVIOUS
  <2>2. \A r \in D : parts[r] = weight[r] * Part(r)
    OBVIOUS
  <2> HIDE DEF weight, Part, parts
  <2>. QED  BY <1>2, <2>1, <2>2
<1> HIDE DEF weight, Part, parts, D
<1>4. Sum(parts, D) \in Nat /\ Sum(weight, D) \in Nat /\ Sum(parts, D) <= 100 * Sum(weight, D)
  BY <1>2, <1>3, SharesOfWeights DEF D
<1>5. PICK s \in Nat, t \in Nat : s = Sum(parts, D) /\ t = total /\ s <= 100 * t
  BY <1>4
<1>6. CASE t = 0
  BY <1>1, <1>5, <1>6
<1>7. CASE t # 0
  <2>1. t \in Nat \ {0} /\ 100 \in Int
    BY <1>7
  <2>2. (t * 100) \div t = 100
    BY <2>1, ProductDivides
  <2>3. s \div t <= (t * 100) \div t
    <3>1. s \in Int /\ t * 100 \in Int /\ s <= t * 100
      BY <1>5
    <3>. QED  BY <2>1, <3>1, QuotientsFollow
  <2>4. s \div t \in Nat
    BY <2>1, QuotientIsNat
  <2>5. EngineScore(id, rules) = s \div t
    BY <1>1, <1>5, <1>7
  <2>. QED  BY <2>2, <2>3, <2>4, <2>5
<1>. QED  BY <1>6, <1>7

LEMMA BinaryIsPart ==
  ASSUME NEW passed
  PROVE  Binary(passed).part \in 0..100
BY DEF Binary, Rule

LEMMA MissingIsPart == Missing.part \in 0..100
BY DEF Missing, Rule

LEMMA ClampIsPart ==
  ASSUME NEW n \in Int
  PROVE  Clamp(n) \in 0..100 /\ \A passed : Rule(passed, Clamp(n)).part \in 0..100
<1>1. Clamp(n) \in 0..100
  BY DEF Clamp
<1>. QED  BY <1>1 DEF Rule

LEMMA GivenIsPart ==
  ASSUME NEW inputs, NEW verdict, None \notin inputs => verdict.part \in 0..100
  PROVE  Given(inputs, verdict).part \in 0..100
BY MissingIsPart DEF Given

\* Bars as the exchange printed them are sound bars, too.
LEMMA PrintedBarsAre ==
  ASSUME NEW v, v.closes \in Seq(Nat \ {0}), v.volumes \in [DOMAIN v.closes -> Nat], v.split \in Int
  PROVE  PrintedBars(v) \in [1..Len(v.closes) -> Bars] /\ Framed(PrintedBars(v))
<1> DEFINE n == Len(v.closes)
           bars == BarsOf(v)
           printed == PrintedBars(v)
<1>1. n \in Nat /\ DOMAIN v.closes = 1..n /\ \A i \in 1..n : v.closes[i] \in Nat \ {0} /\ v.volumes[i] \in Nat
  OBVIOUS
<1>2. DOMAIN bars = 1..n
  BY <1>1 DEF BarsOf
<1>3. ASSUME NEW i \in 1..n
      PROVE  /\ bars[i].open \in Nat \ {0} /\ bars[i].close \in Nat \ {0}
             /\ bars[i].high \in Nat \ {0} /\ bars[i].low \in Nat \ {0} /\ bars[i].volume \in Nat
             /\ bars[i].low <= bars[i].close /\ bars[i].close <= bars[i].high
             /\ bars[i] = [open |-> bars[i].open, close |-> bars[i].close, volume |-> bars[i].volume,
                           high |-> bars[i].high, low |-> bars[i].low]
  <2> DEFINE open == IF i = 1 THEN v.closes[1] ELSE v.closes[i - 1]
             close == v.closes[i]
  <2>1. bars[i] = [open |-> open, close |-> close, volume |-> v.volumes[i],
                   high |-> IF open > close THEN open ELSE close, low |-> IF open < close THEN open ELSE close]
    BY <1>1 DEF BarsOf
  <2>2. open \in Nat \ {0} /\ close \in Nat \ {0} /\ v.volumes[i] \in Nat
    <3>1. 1 \in 1..n /\ (i # 1 => i - 1 \in 1..n)
      BY <1>1
    <3>. QED  BY <1>1, <3>1
  <2> HIDE DEF open, close, bars
  <2>. QED  BY <2>1, <2>2
<1>4. printed = [i \in 1..n |-> IF i >= v.split THEN bars[i]
                                ELSE [open |-> 2 * bars[i].open, close |-> 2 * bars[i].close,
                                      high |-> 2 * bars[i].high, low |-> 2 * bars[i].low,
                                      volume |-> bars[i].volume \div 2]]
  BY <1>2 DEF PrintedBars
<1> HIDE DEF bars, printed, n
<1>5. ASSUME NEW i \in 1..n
      PROVE  printed[i] \in Bars /\ printed[i].low <= printed[i].close /\ printed[i].close <= printed[i].high
  <2>1. CASE i >= v.split
    <3>1. printed[i] = bars[i]
      BY <1>4, <2>1
    <3>2. PICK a \in Nat \ {0}, b \in Nat \ {0}, c \in Nat \ {0}, d \in Nat \ {0}, e \in Nat :
            bars[i] = [open |-> a, close |-> b, high |-> c, low |-> d, volume |-> e]
      <4>1. PICK a \in Nat \ {0}, b \in Nat \ {0}, c \in Nat \ {0}, d \in Nat \ {0}, e \in Nat :
              /\ a = bars[i].open /\ b = bars[i].close /\ c = bars[i].high /\ d = bars[i].low
              /\ e = bars[i].volume
        BY <1>3
      <4>2. bars[i] = [open |-> a, close |-> b, high |-> c, low |-> d, volume |-> e]
        BY <1>3, <4>1
      <4>. QED  BY <4>2
    <3>3. bars[i] \in Bars
      BY <3>2 DEF Bars
    <3>. QED  BY <1>3, <3>1, <3>3
  <2>2. CASE ~(i >= v.split)
    <3>1. bars[i].volume \div 2 \in Nat
      <4>1. PICK m \in Nat : m = bars[i].volume
        BY <1>3
      <4>2. 2 \in Nat \ {0}
        OBVIOUS
      <4>. QED  BY <4>1, <4>2, QuotientIsNat
    <3>2. printed[i] = [open |-> 2 * bars[i].open, close |-> 2 * bars[i].close,
                        high |-> 2 * bars[i].high, low |-> 2 * bars[i].low,
                        volume |-> bars[i].volume \div 2]
      BY <1>4, <2>2
    <3>3. PICK a \in Nat \ {0}, b \in Nat \ {0}, c \in Nat \ {0}, d \in Nat \ {0} :
            /\ a = bars[i].open /\ b = bars[i].close /\ c = bars[i].high /\ d = bars[i].low
            /\ d <= b /\ b <= c
      BY <1>3
    <3>4. /\ printed[i].open = 2 * a /\ printed[i].close = 2 * b /\ printed[i].high = 2 * c
          /\ printed[i].low = 2 * d /\ printed[i].volume \in Nat
      BY <3>1, <3>2, <3>3
    <3>5. 2 * a \in Int /\ 2 * b \in Int /\ 2 * c \in Int /\ 2 * d \in Nat \ {0} /\ 2 * d <= 2 * b /\ 2 * b <= 2 * c
      <4>1. d <= b /\ b <= c
        BY <3>3
      <4>. QED  BY ONLY <4>1
    <3>6. printed[i] = [open |-> 2 * a, close |-> 2 * b, high |-> 2 * c, low |-> 2 * d,
                        volume |-> bars[i].volume \div 2]
      BY <3>2, <3>3
    <3>7. printed[i] \in Bars
      BY <3>1, <3>5, <3>6 DEF Bars
    <3>. QED  BY <3>4, <3>5, <3>7
  <2>. QED  BY <2>1, <2>2
<1>6. printed \in [1..n -> Bars]
  BY <1>4, <1>5
<1>7. Framed(printed)
  BY <1>5, <1>6 DEF Framed
<1>. QED  BY <1>6, <1>7 DEF printed, n

\* The last bars of a series, and their range.
LEMMA LastBarsAre ==
  ASSUME NEW n \in Nat, NEW bars \in [1..n -> Bars], Framed(bars), NEW k \in Nat, 1 <= k, k <= n
  PROVE  /\ Latest(bars).close \in Int /\ HighOf(Tail0(bars, k)) \in Int /\ LowOf(Tail0(bars, k)) \in Int
         /\ LowOf(Tail0(bars, k)) <= Latest(bars).close /\ Latest(bars).close <= HighOf(Tail0(bars, k))
         /\ LowOf(Tail0(bars, k)) > 0
<1>1. bars # <<>>
  <2>1. Len(bars) = n
    BY ListOf
  <2>. QED  BY <2>1
<1>2. Latest(bars).close = LastClose(bars)
  BY <1>1 DEF LastClose
<1>. QED  BY <1>2, CloseIsWithin

LEMMA LiquidityIsPart ==
  ASSUME NEW c, LastClose(c.bars) \in Int \cup {None}, c.avgVolume \in Int
  PROVE  LiquidityMin(c).part \in 0..100
<1> DEFINE turnover == c.avgVolume * LastClose(c.bars)
           verdict == Rule(turnover >= MinTurnover, Clamp((100 * turnover) \div MinTurnover))
<1>1. ASSUME None \notin {LastClose(c.bars), c.avgVolume} PROVE verdict.part \in 0..100
  <2>1. LastClose(c.bars) \in Int
    BY <1>1
  <2>2. PICK a \in Int, b \in Int : a = c.avgVolume /\ b = LastClose(c.bars)
    BY <2>1
  <2>3. PICK t \in Int : t = 100 * (a * b)
    OBVIOUS
  <2>4. MinTurnover \in Nat \ {0}
    BY EnginesAssumption
  <2>5. t \div MinTurnover \in Int
    BY <2>4, QuotientIsInt
  <2>6. verdict = Rule(turnover >= MinTurnover, Clamp(t \div MinTurnover))
    BY <2>2, <2>3
  <2>. QED  BY <2>5, <2>6, ClampIsPart
<1> HIDE DEF verdict
<1>2. LiquidityMin(c) = Given({LastClose(c.bars), c.avgVolume}, verdict)
  BY DEF LiquidityMin, verdict
<1>. QED  BY <1>1, <1>2, GivenIsPart

\* With an average volume above zero nothing but passing earns a share.
LEMMA AccumulationIsPart ==
  ASSUME NEW c, c.avgVolume # None, c.avgVolume > 0
  PROVE  AccumulationDays(c).part \in 0..100
<1>1. (100 * 0) \div AccumulationBars = 0
  <2>1. AccumulationBars \in Nat \ {0}
    BY EnginesAssumption
  <2>2. \A p \in Nat \ {0} : (100 * 0) \div p = 0
    OBVIOUS
  <2>. QED  BY <2>1, <2>2
<1>2. CASE Len(c.bars) < AccumulationBars
  BY <1>2, MissingIsPart DEF AccumulationDays
<1>3. CASE ~(Len(c.bars) < AccumulationBars)
  <2> DEFINE recent == Tail0(c.bars, AccumulationBars)
             Count(Day(_)) == Cardinality({i \in DOMAIN recent : Day(recent[i])})
             net == Count(LAMBDA b : b.close > b.open /\ b.volume > c.avgVolume)
                    - Count(LAMBDA b : b.close < b.open /\ b.volume > c.avgVolume)
  <2>1. AccumulationDays(c)
        = Rule(net > 0, IF net > 0 THEN 100 ELSE (100 * (IF net > 0 THEN net ELSE 0)) \div AccumulationBars)
    BY <1>3 DEF AccumulationDays
  <2> HIDE DEF net
  <2>2. AccumulationDays(c) = Rule(net > 0, IF net > 0 THEN 100 ELSE 0)
    BY <1>1, <2>1
  <2>. QED  BY <2>2 DEF Rule
<1>. QED  BY <1>2, <1>3

LEMMA BreakoutVolumeIsPart ==
  ASSUME NEW c, c.relVolume \in Int
  PROVE  BreakoutVolume(c).part \in 0..100
<1>1. PICK r \in Int : r = c.relVolume
  OBVIOUS
<1>2. (100 * r) \div 140 \in Int
  OBVIOUS
<1>3. Rule(r >= 140, Clamp((100 * r) \div 140)).part \in 0..100
  BY <1>2, ClampIsPart
<1>4. BreakoutVolume(c) = Given({r}, Rule(r >= 140, Clamp((100 * r) \div 140)))
  BY <1>1 DEF BreakoutVolume
<1>. QED  BY <1>3, <1>4, GivenIsPart

LEMMA PivotIsPart ==
  ASSUME NEW n \in Nat, NEW bars \in [1..n -> Bars], Framed(bars), NEW c, c.bars = bars
  PROVE  PivotBreakout(c).part \in 0..100
<1>1. Len(bars) = n
  BY ListOf
<1> DEFINE high == HighOf(Tail0(bars, RangeBars))
           low == LowOf(Tail0(bars, RangeBars))
           above == Latest(bars).close - low
<1>2. PivotBreakout(c) = IF n < RangeBars \/ high - low = 0 THEN Missing
                         ELSE Rule(100 * above >= 70 * (high - low), Clamp(2 * ((100 * above) \div (high - low) - 50)))
  BY <1>1 DEF PivotBreakout
<1>3. CASE n < RangeBars \/ high - low = 0
  BY <1>2, <1>3, MissingIsPart
<1>4. CASE ~(n < RangeBars \/ high - low = 0)
  <2>1. RangeBars \in Nat /\ 1 <= RangeBars /\ RangeBars <= n
    BY <1>4, EnginesAssumption
  <2>2. Latest(bars).close \in Int /\ high \in Int /\ low \in Int /\ low <= Latest(bars).close /\ Latest(bars).close <= high
    BY <2>1, LastBarsAre
  <2> HIDE DEF high, low
  <2>3. PICK range \in Nat \ {0}, a \in Int : range = high - low /\ a = above
    <3>1. PICK x \in Int, y \in Int, z \in Int : x = high /\ y = low /\ z = Latest(bars).close /\ y <= z /\ z <= x
      BY <2>2
    <3>2. x - y \in Nat \ {0} /\ z - y \in Int
      BY <1>4, <3>1
    <3>. QED  BY <3>1, <3>2
  <2>4. 100 * a \in Int
    OBVIOUS
  <2>5. (100 * a) \div range \in Int
    BY <2>4, QuotientIsInt
  <2>6. 2 * ((100 * a) \div range - 50) \in Int
    BY <2>5
  <2>7. PivotBreakout(c) = Rule(100 * a >= 70 * range, Clamp(2 * ((100 * a) \div range - 50)))
    BY <1>2, <1>4, <2>3
  <2>. QED  BY <2>6, <2>7, ClampIsPart
<1>. QED  BY <1>3, <1>4

LEMMA FollowthroughIsPart ==
  ASSUME NEW c
  PROVE  Followthrough(c).part \in 0..100
BY MissingIsPart, BinaryIsPart DEF Followthrough

LEMMA FalseBreakoutIsPart ==
  ASSUME NEW n \in Nat, NEW bars \in [1..n -> Bars], Framed(bars), NEW c, c.bars = bars
  PROVE  FalseBreakout(c).part \in 0..100
<1>1. Len(bars) = n
  BY ListOf
<1> DEFINE double == HighOf(Tail0(bars, RangeBars)) + LowOf(Tail0(bars, RangeBars))
           above == 2 * Latest(bars).close - double
<1>2. FalseBreakout(c) = IF n < FalseBreakBars THEN Missing
                         ELSE Rule(above >= 0, IF double > 0 THEN Clamp((1000 * above) \div double) ELSE 0)
  BY <1>1 DEF FalseBreakout
<1>3. CASE n < FalseBreakBars
  BY <1>2, <1>3, MissingIsPart
<1>4. CASE ~(n < FalseBreakBars)
  <2>1. RangeBars \in Nat /\ 1 <= RangeBars /\ RangeBars <= n
    BY <1>4, EnginesAssumption
  <2>2. Latest(bars).close \in Int /\ double \in Int
    BY <2>1, LastBarsAre
  <2> HIDE DEF double
  <2>3. PICK d \in Int, a \in Int : d = double /\ a = above
    BY <2>2
  <2>4. FalseBreakout(c) = Rule(a >= 0, IF d > 0 THEN Clamp((1000 * a) \div d) ELSE 0)
    BY <1>2, <1>4, <2>3
  <2>5. CASE d > 0
    <3>1. 1000 * a \in Int /\ d \in Nat \ {0}
      BY <2>5
    <3>2. (1000 * a) \div d \in Int
      BY <3>1, QuotientIsInt
    <3>3. PICK q \in Int : q = (1000 * a) \div d
      BY <3>2
    <3>4. Clamp(q) \in 0..100
      BY ClampIsPart
    <3>. QED  BY <2>4, <2>5, <3>3, <3>4 DEF Rule
  <2>6. CASE ~(d > 0)
    BY <2>4, <2>6 DEF Rule
  <2>. QED  BY <2>5, <2>6
<1>. QED  BY <1>3, <1>4

\* Days are counted among the last ones, no more than there are.
LEMMA PersistenceIsPart ==
  ASSUME NEW n \in Nat, NEW bars \in [1..n -> Bars], NEW c, c.bars = bars
  PROVE  TrendPersistence(c).part \in 0..100
<1>1. Len(bars) = n
  BY ListOf
<1>2. PersistBars \in Nat \ {0} /\ PersistAverage \in Nat \ {0}
  BY EnginesAssumption
<1> DEFINE p == Persistence(bars)
<1>3. TrendPersistence(c) = IF n < PersistBars + PersistAverage THEN Missing
                            ELSE Rule(10 * p.count >= 6 * p.days,
                                      IF 10 * p.count >= 6 * p.days THEN 100 ELSE (100 * p.count) \div p.days)
  BY <1>1 DEF TrendPersistence
<1>4. CASE n < PersistBars + PersistAverage
  BY <1>3, <1>4, MissingIsPart
<1>5. CASE ~(n < PersistBars + PersistAverage)
  <2>1. PICK both \in Nat : both = PersistBars + PersistAverage /\ both <= n
    BY <1>2, <1>5
  <2> DEFINE window == Tail0(bars, both)
             Above(i) == window[i].close * PersistAverage > SumCloses(SubSeq(window, i - PersistAverage + 1, i))
             counted == {i \in (both - PersistBars + 1)..both : Above(i)}
  <2>2. Len(window) = both
    BY <2>1, TailIs
  <2>3. p.days = PersistBars /\ p.count = Cardinality(counted)
    <3> HIDE DEF window
    <3>1. PersistBars < both - PersistAverage + 1
      BY <1>2, <2>1
    <3>2. Persistence(bars) = [days |-> PersistBars, count |-> Cardinality(counted)]
      BY <2>1, <2>2, <3>1 DEF Persistence, window
    <3>. QED  BY <3>2
  <2> HIDE DEF Above
  <2>4. Cardinality(counted) \in Nat /\ Cardinality(counted) <= PersistBars
    <3>1. PICK a \in Int : a = both - PersistBars + 1
      BY <1>2
    <3>2. IsFiniteSet(a..both) /\ Cardinality(a..both) = IF a > both THEN 0 ELSE both - a + 1
      BY FS_Interval
    <3>3. Cardinality(a..both) = PersistBars
      BY <1>2, <3>1, <3>2
    <3>4. counted \subseteq a..both
      BY <3>1
    <3> HIDE DEF counted
    <3>. QED  BY <3>2, <3>3, <3>4, FS_Subset, FS_CardinalityType
  <2> HIDE DEF counted, p
  <2>5. PICK d \in Nat \ {0}, k \in Nat : d = p.days /\ k = p.count /\ k <= d
    BY <1>2, <2>3, <2>4
  <2>6. (100 * k) \div d \in 0..100
    <3>1. (100 * k) \div d \in Nat
      BY QuotientIsNat
    <3>2. (d * 100) \div d = 100
      BY ProductDivides
    <3>3. (100 * k) \div d <= (d * 100) \div d
      <4>1. 100 * k \in Int /\ d * 100 \in Int /\ 100 * k <= d * 100
        BY <2>5
      <4>. QED  BY <4>1, QuotientsFollow
    <3>. QED  BY <3>1, <3>2, <3>3
  <2>7. TrendPersistence(c) = Rule(10 * k >= 6 * d, IF 10 * k >= 6 * d THEN 100 ELSE (100 * k) \div d)
    BY <1>2, <1>3, <1>5, <2>5
  <2>. QED  BY <2>6, <2>7 DEF Rule
<1>. QED  BY <1>4, <1>5

LEMMA ReturnIsInt ==
  ASSUME NEW n \in Nat, NEW bars \in [1..n -> Bars], Framed(bars), NEW k \in Nat \ {0}
  PROVE  PctReturn(bars, k) \in Int \cup {None}
<1>1. Len(bars) = n
  BY ListOf
<1>2. CASE n < k + 1
  BY <1>1, <1>2 DEF PctReturn
<1>3. CASE ~(n < k + 1)
  <2>1. PICK m \in 1..n : m = n - k
    BY <1>3
  <2>2. \A x \in Bars : x.close \in Int /\ x.low \in Nat \ {0}
    BY DEF Bars
  <2>3. bars[m] \in Bars /\ bars[n] \in Bars
    BY <1>3
  <2>4. bars[m].low <= bars[m].close
    BY <2>1 DEF Framed
  <2>5. PICK a \in Int, b \in Nat \ {0} : a = Latest(bars).close /\ b = bars[m].close
    BY <1>1, <2>2, <2>3, <2>4 DEF Latest
  <2>6. PctReturn(bars, k) = (100 * (a - b)) \div b
    BY <1>1, <1>3, <2>1, <2>5 DEF PctReturn
  <2>7. 100 * (a - b) \in Int
    OBVIOUS
  <2>8. (100 * (a - b)) \div b \in Int
    BY <2>7, QuotientIsInt
  <2>. QED  BY <2>6, <2>8
<1>. QED  BY <1>2, <1>3

LEMMA AccelerationIsPart ==
  ASSUME NEW n \in Nat, NEW bars \in [1..n -> Bars], Framed(bars), NEW c, c.bars = bars
  PROVE  Acceleration(c).part \in 0..100
<1> DEFINE recent == PctReturn(bars, RecentBars)
           longer == PctReturn(bars, LongerBars)
           passed == recent > longer /\ recent > 0
           verdict == Rule(passed, IF passed THEN Clamp(5 * (recent - longer)) ELSE 0)
<1>1. recent \in Int \cup {None} /\ longer \in Int \cup {None}
  <2>1. RecentBars \in Nat \ {0} /\ LongerBars \in Nat \ {0}
    BY EnginesAssumption
  <2>. QED  BY <2>1, ReturnIsInt
<1>2. Acceleration(c) = IF Len(bars) < LongerBars THEN Missing ELSE Given({recent, longer}, verdict)
  BY DEF Acceleration
<1> HIDE DEF recent, longer
<1>3. ASSUME None \notin {recent, longer} PROVE verdict.part \in 0..100
  <2>1. 5 * (recent - longer) \in Int
    BY <1>1, <1>3
  <2>2. Clamp(5 * (recent - longer)) \in 0..100
    BY <2>1, ClampIsPart
  <2>. QED  BY <2>2 DEF Rule
<1> HIDE DEF verdict
<1>. QED  BY <1>2, <1>3, GivenIsPart, MissingIsPart

LEMMA RatingIsPart ==
  ASSUME NEW c, c.rs \in Int
  PROVE  RsRating(c).part \in 0..100
<1>1. PICK r \in Int : r = c.rs
  OBVIOUS
<1>2. (100 * (r - 70)) \div 29 \in Int
  OBVIOUS
<1>3. Rule(r >= 70, Clamp((100 * (r - 70)) \div 29)).part \in 0..100
  BY <1>2, ClampIsPart
<1>4. RsRating(c) = Given({r}, Rule(r >= 70, Clamp((100 * (r - 70)) \div 29)))
  BY <1>1 DEF RsRating
<1>. QED  BY <1>3, <1>4, GivenIsPart

\* Every rule of the four engines on sound bars.
LEMMA EnginesAreFair ==
  ASSUME NEW n \in Nat, NEW bars \in [1..n -> Bars], Framed(bars), NEW c, c.bars = bars,
         c.avgVolume \in Nat \ {0}, c.relVolume \in Int, c.rs \in Int
  PROVE  \A e \in SeriesEngines(c) : IsFiniteSet(DOMAIN e[2]) /\ Fair(e[2])
<1>1. LastClose(bars) \in Int \cup {None}
  <2>1. CASE bars = <<>>
    BY <2>1 DEF LastClose
  <2>2. CASE bars # <<>>
    <3>1. Len(bars) = n
      BY ListOf
    <3>2. bars[n] \in Bars
      BY <2>2, <3>1
    <3>3. \A x \in Bars : x.close \in Int
      BY DEF Bars
    <3>. QED  BY <2>2, <3>1, <3>2, <3>3 DEF LastClose, Latest
  <2>. QED  BY <2>1, <2>2
<1>2. c.avgVolume \in Int /\ c.avgVolume # None /\ c.avgVolume > 0
  BY NoneAssumption
<1>0. /\ DOMAIN VolumeAccumulation(c) = {"vol_liquidity_min"} \cup ({"vol_accumulation_days"} \cup {"vol_breakout_confirm"})
      /\ DOMAIN Breakout(c) = {"bo_pivot_breakout"} \cup ({"bo_followthrough"} \cup {"bo_false_breakout"})
      /\ DOMAIN MomentumQuality(c) = {"mq_trend_persistence"} \cup {"mq_acceleration"}
      /\ DOMAIN RelativeStrength(c)
         = {"rs_rating"} \cup ({"rs_line_uptrend"} \cup ({"rs_sector_relative"} \cup {"rs_industry_relative"}))
  BY DEF VolumeAccumulation, Breakout, MomentumQuality, RelativeStrength
<1>3. Fair(VolumeAccumulation(c))
  <2>1. LiquidityMin(c).part \in 0..100
    BY <1>1, <1>2, LiquidityIsPart
  <2>2. AccumulationDays(c).part \in 0..100
    BY <1>2, AccumulationIsPart
  <2>3. BreakoutVolume(c).part \in 0..100
    BY BreakoutVolumeIsPart
  <2>4. /\ VolumeAccumulation(c)["vol_liquidity_min"] = LiquidityMin(c)
        /\ VolumeAccumulation(c)["vol_accumulation_days"] = AccumulationDays(c)
        /\ VolumeAccumulation(c)["vol_breakout_confirm"] = BreakoutVolume(c)
    BY DEF VolumeAccumulation
  <2>. QED  BY <1>0, <2>1, <2>2, <2>3, <2>4 DEF Fair
<1>4. Fair(Breakout(c))
  <2>1. PivotBreakout(c).part \in 0..100
    BY PivotIsPart
  <2>2. Followthrough(c).part \in 0..100
    BY FollowthroughIsPart
  <2>3. FalseBreakout(c).part \in 0..100
    BY FalseBreakoutIsPart
  <2>4. /\ Breakout(c)["bo_pivot_breakout"] = PivotBreakout(c)
        /\ Breakout(c)["bo_followthrough"] = Followthrough(c)
        /\ Breakout(c)["bo_false_breakout"] = FalseBreakout(c)
    BY DEF Breakout
  <2>. QED  BY <1>0, <2>1, <2>2, <2>3, <2>4 DEF Fair
<1>5. Fair(MomentumQuality(c))
  <2>1. TrendPersistence(c).part \in 0..100
    BY PersistenceIsPart
  <2>2. Acceleration(c).part \in 0..100
    BY AccelerationIsPart
  <2>. QED  BY <2>1, <2>2 DEF MomentumQuality, Fair
<1>6. Fair(RelativeStrength(c))
  <2>1. RsRating(c).part \in 0..100
    BY RatingIsPart
  <2>2. /\ RsLineUptrend(c).part \in 0..100 /\ RsSectorRelative(c).part \in 0..100
        /\ RsIndustryRelative(c).part \in 0..100
    BY GivenIsPart, BinaryIsPart DEF RsLineUptrend, RsSectorRelative, RsIndustryRelative
  <2>3. /\ RelativeStrength(c)["rs_rating"] = RsRating(c)
        /\ RelativeStrength(c)["rs_line_uptrend"] = RsLineUptrend(c)
        /\ RelativeStrength(c)["rs_sector_relative"] = RsSectorRelative(c)
        /\ RelativeStrength(c)["rs_industry_relative"] = RsIndustryRelative(c)
    BY DEF RelativeStrength
  <2>. QED  BY <1>0, <2>1, <2>2, <2>3 DEF Fair
<1>7. /\ IsFiniteSet(DOMAIN VolumeAccumulation(c)) /\ IsFiniteSet(DOMAIN Breakout(c))
      /\ IsFiniteSet(DOMAIN MomentumQuality(c)) /\ IsFiniteSet(DOMAIN RelativeStrength(c))
  <2>1. \A a : IsFiniteSet({a})
    BY FS_Singleton
  <2>2. \A a, b : IsFiniteSet({a} \cup {b})
    BY <2>1, FS_Union
  <2>3. \A a, b, d : IsFiniteSet({a} \cup ({b} \cup {d}))
    BY <2>1, <2>2, FS_Union
  <2>4. \A a, b, d, f : IsFiniteSet({a} \cup ({b} \cup ({d} \cup {f})))
    BY <2>1, <2>3, FS_Union
  <2>5. /\ IsFiniteSet({"vol_liquidity_min"} \cup ({"vol_accumulation_days"} \cup {"vol_breakout_confirm"}))
        /\ IsFiniteSet({"bo_pivot_breakout"} \cup ({"bo_followthrough"} \cup {"bo_false_breakout"}))
    BY ONLY <2>3
  <2>6. IsFiniteSet({"mq_trend_persistence"} \cup {"mq_acceleration"})
    BY ONLY <2>2
  <2>7. IsFiniteSet({"rs_rating"} \cup ({"rs_line_uptrend"} \cup ({"rs_sector_relative"} \cup {"rs_industry_relative"})))
    BY ONLY <2>4
  <2>. QED  BY ONLY <1>0, <2>5, <2>6, <2>7, Zenon
<1>. QED  BY <1>3, <1>4, <1>5, <1>6, <1>7 DEF SeriesEngines

LEMMA ScoresArePercentages ==
  ASSUME InputOK
  PROVE  EngineScoresArePercentages
<1> SUFFICES ASSUME Is("series"), NEW e \in SeriesEngines(Context(input.value, PrintedBars(input.value)))
             PROVE  Fair(e[2]) /\ EngineScore(e[1], e[2]) \in 0..100
  BY DEF EngineScoresArePercentages, Fair
<1> DEFINE v == input.value
           bars == PrintedBars(v)
           c == Context(v, bars)
<1>1. v.closes \in Seq(Nat \ {0}) /\ v.volumes \in [DOMAIN v.closes -> Nat] /\ v.split \in Int
  BY SeriesAssumption DEF InputOK, Is, Idle
<1>2. PICK n \in Nat : n = Len(v.closes)
  BY <1>1
<1> HIDE DEF v
<1>3. bars \in [1..n -> Bars] /\ Framed(bars)
  BY <1>1, <1>2, PrintedBarsAre
<1>4. c.bars = bars /\ c.avgVolume \in Nat \ {0} /\ c.relVolume \in Int /\ c.rs \in Int
  BY DEF Context
<1> HIDE DEF bars, c
<1>5. \A d \in SeriesEngines(c) : IsFiniteSet(DOMAIN d[2]) /\ Fair(d[2])
  BY <1>3, <1>4, EnginesAreFair
<1>6. IsFiniteSet(DOMAIN e[2]) /\ Fair(e[2])
  BY <1>5 DEF c, bars, v
<1>. QED  BY <1>6, ScoreIsPercentage

-----------------------------------------------------------------------------
(* Bases at twice the price.                                                 *)

\* A series of numbers and the same doubled.
Doubles(t, s, n) == s \in [1..n -> Int] /\ t \in [1..n -> Int] /\ \A i \in 1..n : t[i] = 2 * s[i]

\* A stretch of the places 1 to n that is not empty.
Stretch(from, to, n) == from \in Int /\ to \in Int /\ 1 <= from /\ from <= to /\ to <= n

LEMMA StretchIs ==
  ASSUME NEW n \in Nat, NEW s \in [1..n -> Int], NEW from, NEW to, Stretch(from, to, n)
  PROVE  LET S == {s[i] : i \in from..to}
         IN  S \in SUBSET Int /\ S # {} /\ IsFiniteSet(S) /\ \A i \in from..to : i \in 1..n /\ s[i] \in S
<1> DEFINE S == {s[i] : i \in from..to}
<1>1. from \in Int /\ to \in Int /\ from \in from..to /\ \A i \in from..to : i \in 1..n
  BY DEF Stretch
<1>2. IsFiniteSet(from..to)
  BY <1>1, FS_Interval
<1>3. IsFiniteSet(S)
  BY <1>2, FiniteImage
<1>. QED  BY <1>1, <1>3

LEMMA MaxInIs ==
  ASSUME NEW n \in Nat, NEW s \in [1..n -> Int], NEW from, NEW to, Stretch(from, to, n)
  PROVE  /\ MaxIn(s, from, to) \in Int /\ \E i \in from..to : s[i] = MaxIn(s, from, to)
         /\ \A i \in from..to : s[i] <= MaxIn(s, from, to)
<1> DEFINE S == {s[i] : i \in from..to}
<1>1. S \in SUBSET Int /\ S # {} /\ IsFiniteSet(S) /\ \A i \in from..to : s[i] \in S
  BY StretchIs
<1>2. \A x \in S : \E i \in from..to : s[i] = x
  OBVIOUS
<1> HIDE DEF S
<1>3. Max(S) \in S /\ \A x \in S : x <= Max(S)
  BY <1>1, FiniteSetHasBounds
<1>4. MaxIn(s, from, to) = Max(S)
  BY DEF MaxIn, S
<1>. QED  BY <1>1, <1>2, <1>3, <1>4

LEMMA MinInIs ==
  ASSUME NEW n \in Nat, NEW s \in [1..n -> Int], NEW from, NEW to, Stretch(from, to, n)
  PROVE  /\ MinIn(s, from, to) \in Int /\ \E i \in from..to : s[i] = MinIn(s, from, to)
         /\ \A i \in from..to : MinIn(s, from, to) <= s[i]
<1> DEFINE S == {s[i] : i \in from..to}
<1>1. S \in SUBSET Int /\ S # {} /\ IsFiniteSet(S) /\ \A i \in from..to : s[i] \in S
  BY StretchIs
<1>2. \A x \in S : \E i \in from..to : s[i] = x
  OBVIOUS
<1> HIDE DEF S
<1>3. Min(S) \in S /\ \A x \in S : Min(S) <= x
  BY <1>1, FiniteSetHasBounds
<1>4. MinIn(s, from, to) = Min(S)
  BY DEF MinIn, S
<1>. QED  BY <1>1, <1>2, <1>3, <1>4

LEMMA BoundsDouble ==
  ASSUME NEW n \in Nat, NEW s, NEW t, Doubles(t, s, n), NEW from, NEW to, Stretch(from, to, n)
  PROVE  MaxIn(t, from, to) = 2 * MaxIn(s, from, to) /\ MinIn(t, from, to) = 2 * MinIn(s, from, to)
<1>1. s \in [1..n -> Int] /\ t \in [1..n -> Int]
  BY DEF Doubles
<1>2. \A i \in from..to : s[i] \in Int /\ t[i] \in Int /\ t[i] = 2 * s[i]
  <2>1. \A i \in from..to : i \in 1..n
    BY DEF Stretch
  <2>. QED  BY <2>1 DEF Doubles
<1>3. MaxIn(t, from, to) = 2 * MaxIn(s, from, to)
  <2>1. PICK a \in Int : a = MaxIn(s, from, to) /\ (\E i \in from..to : s[i] = a) /\ \A i \in from..to : s[i] <= a
    BY <1>1, MaxInIs
  <2>2. PICK b \in Int : b = MaxIn(t, from, to) /\ (\E i \in from..to : t[i] = b) /\ \A i \in from..to : t[i] <= b
    BY <1>1, MaxInIs
  <2>3. 2 * a <= b /\ b <= 2 * a
    BY <1>2, <2>1, <2>2
  <2>. QED  BY <2>1, <2>2, <2>3
<1>4. MinIn(t, from, to) = 2 * MinIn(s, from, to)
  <2>1. PICK a \in Int : a = MinIn(s, from, to) /\ (\E i \in from..to : s[i] = a) /\ \A i \in from..to : a <= s[i]
    BY <1>1, MinInIs
  <2>2. PICK b \in Int : b = MinIn(t, from, to) /\ (\E i \in from..to : t[i] = b) /\ \A i \in from..to : b <= t[i]
    BY <1>1, MinInIs
  <2>3. 2 * a <= b /\ b <= 2 * a
    BY <1>2, <2>1, <2>2
  <2>. QED  BY <2>1, <2>2, <2>3
<1>. QED  BY <1>3, <1>4

\* The first place of a value is one of its places.
LEMMA FirstPlace ==
  ASSUME NEW n \in Nat, NEW s \in [1..n -> Int], NEW from \in Nat \ {0}, NEW value,
         NEW at \in 1..n, from <= at, s[at] = value
  PROVE  /\ IndexOf(s, value, from) \in Nat /\ from <= IndexOf(s, value, from) /\ IndexOf(s, value, from) <= at
         /\ s[IndexOf(s, value, from)] = value
<1> DEFINE S == {i \in from..n : s[i] = value}
<1>1. S \in SUBSET Nat /\ at \in S
  OBVIOUS
<1>2. \A i \in S : from <= i /\ s[i] = value
  OBVIOUS
<1>3. Len(s) = n
  BY ListOf
<1>4. IndexOf(s, value, from) = Min(S)
  BY <1>3 DEF IndexOf
<1> HIDE DEF S
<1>5. Min(S) \in S /\ \A i \in S : Min(S) <= i
  BY <1>1, NatSetHasMin
<1>. QED  BY <1>1, <1>2, <1>4, <1>5

LEMMA PlacesDouble ==
  ASSUME NEW n \in Nat, NEW s, NEW t, Doubles(t, s, n), NEW from \in Nat \ {0}, NEW value \in Int
  PROVE  IndexOf(t, 2 * value, from) = IndexOf(s, value, from)
<1>1. Len(s) = n /\ Len(t) = n
  BY ListOf DEF Doubles
<1>2. \A i \in from..n : s[i] = value <=> t[i] = 2 * value
  <2>1. ASSUME NEW i \in from..n PROVE s[i] = value <=> t[i] = 2 * value
    <3>1. i \in 1..n
      OBVIOUS
    <3>2. s[i] \in Int /\ t[i] = 2 * s[i]
      BY <3>1 DEF Doubles
    <3>. QED  BY <3>2
  <2>. QED  BY <2>1
<1>3. {i \in from..n : s[i] = value} = {i \in from..n : t[i] = 2 * value}
  BY <1>2
<1>. QED  BY <1>1, <1>3 DEF IndexOf

\* The same bars at twice the price.
Twice(b) == [b EXCEPT !.open = 2 * @, !.high = 2 * @, !.low = 2 * @, !.close = 2 * @]

AtTwice(twice, bars, n) ==
  /\ bars \in [1..n -> Bars] /\ Framed(bars)
  /\ twice = [i \in 1..n |-> twice[i]]
  /\ \A i \in 1..n : /\ twice[i].high = 2 * bars[i].high /\ twice[i].low = 2 * bars[i].low
                     /\ twice[i].close = 2 * bars[i].close /\ twice[i].volume = bars[i].volume

LEMMA TwiceIs ==
  ASSUME NEW b \in Bars
  PROVE  /\ Twice(b).high = 2 * b.high /\ Twice(b).low = 2 * b.low
         /\ Twice(b).close = 2 * b.close /\ Twice(b).volume = b.volume
BY DEF Twice, Bars

\* The latest bars, as many as a detector asks for.
LEMMA RecentAtTwice ==
  ASSUME NEW n \in Nat, NEW bars, NEW twice, AtTwice(twice, bars, n), NEW m \in Nat
  PROVE  \E k \in Nat : /\ k = IF n < m THEN n ELSE m
                        /\ Len(Recent(bars, m)) = k /\ Len(Recent(twice, m)) = k
                        /\ AtTwice(Recent(twice, m), Recent(bars, m), k)
<1> DEFINE S == {twice[i] : i \in 1..n}
<1>1. bars \in [1..n -> Bars] /\ Framed(bars) /\ twice \in [1..n -> S]
  BY DEF AtTwice
<1> HIDE DEF S
<1>2. Len(bars) = n /\ Len(twice) = n
  BY <1>1, ListOf
<1>3. PICK k \in Nat : k = (IF n < m THEN n ELSE m) /\ k <= n
  OBVIOUS
<1>4. Min({n, m}) = k
  <2>1. {n, m} \in SUBSET Nat /\ {n, m} # {}
    OBVIOUS
  <2>2. Min({n, m}) \in {n, m} /\ \A x \in {n, m} : Min({n, m}) <= x
    BY <2>1, NatSetHasMin
  <2>. QED  BY <1>3, <2>2
<1>5. Recent(bars, m) = Tail0(bars, k) /\ Recent(twice, m) = Tail0(twice, k)
  BY <1>2, <1>4 DEF Recent
<1>6. /\ Tail0(bars, k) \in [1..k -> Bars] /\ Len(Tail0(bars, k)) = k
      /\ \A i \in 1..k : Tail0(bars, k)[i] = bars[n - k + i] /\ n - k + i \in 1..n
  BY <1>1, <1>3, TailIs
<1>7. /\ Tail0(twice, k) = [i \in 1..k |-> twice[n - k + i]] /\ Len(Tail0(twice, k)) = k
  <2>1. PICK lo \in Int : lo = n - k + 1
    OBVIOUS
  <2>2. Tail0(twice, k) = SubSeq(twice, lo, n)
    BY <1>2, <2>1 DEF Tail0
  <2>3. SubSeq(twice, lo, n) = [i \in 1..(n - lo + 1) |-> twice[i + lo - 1]]
    BY <1>1, <2>1
  <2>4. n - lo + 1 = k /\ \A i \in 1..k : i + lo - 1 = n - k + i /\ n - k + i \in 1..n
    BY <1>3, <2>1
  <2>5. Tail0(twice, k) = [i \in 1..k |-> twice[n - k + i]]
    BY <2>2, <2>3, <2>4
  <2>6. Tail0(twice, k) \in [1..k -> S]
    BY <1>1, <2>4, <2>5
  <2>. QED  BY <2>5, <2>6, ListOf
<1>8. \A i \in 1..k : /\ Tail0(twice, k)[i].high = 2 * Tail0(bars, k)[i].high
                      /\ Tail0(twice, k)[i].low = 2 * Tail0(bars, k)[i].low
                      /\ Tail0(twice, k)[i].close = 2 * Tail0(bars, k)[i].close
                      /\ Tail0(twice, k)[i].volume = Tail0(bars, k)[i].volume
  <2>1. ASSUME NEW i \in 1..k
        PROVE  /\ Tail0(bars, k)[i] = bars[n - k + i] /\ Tail0(twice, k)[i] = twice[n - k + i]
               /\ n - k + i \in 1..n
    BY <1>6, <1>7
  <2>2. \A i \in 1..n : /\ twice[i].high = 2 * bars[i].high /\ twice[i].low = 2 * bars[i].low
                        /\ twice[i].close = 2 * bars[i].close /\ twice[i].volume = bars[i].volume
    BY DEF AtTwice
  <2>. QED  BY <2>1, <2>2
<1>9. Framed(Tail0(bars, k))
  BY <1>1, <1>6 DEF Framed
<1>10. AtTwice(Tail0(twice, k), Tail0(bars, k), k)
  BY <1>6, <1>7, <1>8, <1>9 DEF AtTwice
<1>. QED  BY <1>3, <1>5, <1>6, <1>7, <1>10

LEMMA HighsDouble ==
  ASSUME NEW n \in Nat, NEW bars, NEW twice, AtTwice(twice, bars, n)
  PROVE  /\ Doubles(Highs(twice), Highs(bars), n) /\ Doubles(Lows(twice), Lows(bars), n)
         /\ \A i \in 1..n : Highs(bars)[i] = bars[i].high /\ Lows(bars)[i] = bars[i].low
<1>1. \A x \in Bars : x.high \in Int /\ x.low \in Int
  BY DEF Bars
<1>2. DOMAIN bars = 1..n /\ DOMAIN twice = 1..n /\ \A i \in 1..n : bars[i] \in Bars
  BY DEF AtTwice
<1>3. \A i \in 1..n : /\ bars[i].high \in Int /\ bars[i].low \in Int
                      /\ twice[i].high = 2 * bars[i].high /\ twice[i].low = 2 * bars[i].low
  BY <1>1, <1>2 DEF AtTwice
<1>4. \A x \in Int : 2 * x \in Int
  OBVIOUS
<1>5. \A i \in 1..n : twice[i].high \in Int /\ twice[i].low \in Int
  BY <1>3, <1>4
<1>6. Highs(bars) = [i \in 1..n |-> bars[i].high] /\ Highs(twice) = [i \in 1..n |-> twice[i].high]
  BY <1>2 DEF Highs
<1>7. Lows(bars) = [i \in 1..n |-> bars[i].low] /\ Lows(twice) = [i \in 1..n |-> twice[i].low]
  BY <1>2 DEF Lows
<1>8. Highs(bars) \in [1..n -> Int] /\ Highs(twice) \in [1..n -> Int]
  BY <1>3, <1>5, <1>6
<1>9. Lows(bars) \in [1..n -> Int] /\ Lows(twice) \in [1..n -> Int]
  BY <1>3, <1>5, <1>7
<1>10. \A i \in 1..n : Highs(bars)[i] = bars[i].high /\ Highs(twice)[i] = 2 * Highs(bars)[i]
  BY <1>3, <1>6
<1>11. \A i \in 1..n : Lows(bars)[i] = bars[i].low /\ Lows(twice)[i] = 2 * Lows(bars)[i]
  BY <1>3, <1>7
<1>12. Doubles(Highs(twice), Highs(bars), n)
  BY <1>8, <1>10 DEF Doubles
<1>13. Doubles(Lows(twice), Lows(bars), n)
  BY <1>9, <1>11 DEF Doubles
<1>. QED  BY <1>10, <1>11, <1>12, <1>13

\* The highest high and the lowest low of a stretch.
LEMMA RangeAtTwice ==
  ASSUME NEW n \in Nat, NEW bars, NEW twice, AtTwice(twice, bars, n), NEW from, NEW to, Stretch(from, to, n)
  PROVE  \E h, l \in Nat \ {0} :
           /\ l <= h
           /\ MaxIn(Highs(bars), from, to) = h /\ MaxIn(Highs(twice), from, to) = 2 * h
           /\ MinIn(Lows(bars), from, to) = l /\ MinIn(Lows(twice), from, to) = 2 * l
<1>1. /\ Doubles(Highs(twice), Highs(bars), n) /\ Doubles(Lows(twice), Lows(bars), n)
      /\ \A i \in 1..n : Highs(bars)[i] = bars[i].high /\ Lows(bars)[i] = bars[i].low
  BY HighsDouble
<1>2. Highs(bars) \in [1..n -> Int] /\ Lows(bars) \in [1..n -> Int]
  BY <1>1 DEF Doubles
<1>3. \A x \in Bars : x.high \in Int /\ x.low \in Nat \ {0} /\ x.close \in Int
  BY DEF Bars
<1>4. bars \in [1..n -> Bars] /\ Framed(bars)
  BY DEF AtTwice
<1>5. \A i \in 1..n : /\ bars[i].high \in Int /\ bars[i].low \in Nat \ {0} /\ bars[i].close \in Int
                      /\ bars[i].low <= bars[i].close /\ bars[i].close <= bars[i].high
  BY <1>3, <1>4 DEF Framed
<1>6. from \in from..to /\ \A i \in from..to : i \in 1..n
  BY DEF Stretch
<1>7. PICK h \in Int : /\ h = MaxIn(Highs(bars), from, to)
                       /\ \A i \in from..to : Highs(bars)[i] <= h
  BY <1>2, MaxInIs
<1>8. PICK l \in Int : /\ l = MinIn(Lows(bars), from, to)
                       /\ \E i \in from..to : Lows(bars)[i] = l
                       /\ \A i \in from..to : l <= Lows(bars)[i]
  BY <1>2, MinInIs
<1>9. l \in Nat \ {0}
  BY <1>1, <1>5, <1>6, <1>8
<1>10. l <= h
  <2>1. Highs(bars)[from] = bars[from].high /\ Lows(bars)[from] = bars[from].low
    BY <1>1, <1>6
  <2>2. l <= bars[from].low /\ bars[from].high <= h
    BY <1>6, <1>7, <1>8, <2>1
  <2>. QED  BY <1>5, <1>6, <2>2
<1>11. MaxIn(Highs(twice), from, to) = 2 * h
  BY <1>1, <1>7, BoundsDouble
<1>12. MinIn(Lows(twice), from, to) = 2 * l
  BY <1>1, <1>8, BoundsDouble
<1>13. h \in Nat \ {0}
  BY <1>9, <1>10
<1>. QED  BY <1>7, <1>8, <1>9, <1>10, <1>11, <1>12, <1>13

LEMMA FallAtTwice ==
  ASSUME NEW h \in Nat \ {0}, NEW l \in Nat \ {0}, NEW percent \in Nat
  PROVE  FallAtMost(2 * h, 2 * l, percent) <=> FallAtMost(h, l, percent)
<1>1. percent * (2 * h) = 2 * (percent * h) /\ percent * h \in Int
  OBVIOUS
<1>2. 100 * (2 * h - 2 * l) = 2 * (100 * (h - l))
  OBVIOUS
<1>. QED  BY <1>1, <1>2 DEF FallAtMost

\* The volume traded is the same at any price.
LEMMA VolumesAtTwice ==
  ASSUME NEW n \in Nat, NEW bars, NEW twice, AtTwice(twice, bars, n),
         NEW from \in Int, NEW to \in Int, 1 <= from, to <= n
  PROVE  Volumes(twice, from, to) = Volumes(bars, from, to)
<1>1. \A i \in 1..n : twice[i].volume = bars[i].volume
  BY DEF AtTwice
<1>2. \A i \in 1..(to - from + 1) : from + i - 1 \in 1..n
  OBVIOUS
<1>3. \A i \in 1..(to - from + 1) : twice[from + i - 1].volume = bars[from + i - 1].volume
  BY <1>1, <1>2
<1>4. [i \in 1..(to - from + 1) |-> twice[from + i - 1].volume] = [i \in 1..(to - from + 1) |-> bars[from + i - 1].volume]
  BY <1>3
<1>. QED  BY <1>4 DEF Volumes

\* What a detector may answer.
Qualities == {None} \cup 0..100

-----------------------------------------------------------------------------

FlatQuality(len, n, start, high, low) ==
  IF \/ len < BaseBars.flatMin + BaseBars.flatExtra
     \/ n - start + 1 < BaseBars.flatMin \/ n - start + 1 > BaseBars.flatMax
     \/ ~FallAtMost(high, low, 15)
  THEN None
  ELSE (100 * (15 * high - 100 * (high - low))) \div (15 * high)

LEMMA FlatQualityAtTwice ==
  ASSUME NEW len, NEW n, NEW start, NEW h \in Nat \ {0}, NEW l \in Nat \ {0}, l <= h
  PROVE  /\ FlatQuality(len, n, start, h, l) \in Qualities
         /\ FlatQuality(len, n, start, 2 * h, 2 * l) = FlatQuality(len, n, start, h, l)
<1>1. FallAtMost(2 * h, 2 * l, 15) <=> FallAtMost(h, l, 15)
  BY FallAtTwice
<1>2. PICK a \in Int, p \in Nat \ {0} : a = 100 * (15 * h - 100 * (h - l)) /\ p = 15 * h
  OBVIOUS
<1>3. 2 * a = 100 * (15 * (2 * h) - 100 * (2 * h - 2 * l)) /\ 2 * p = 15 * (2 * h)
  BY <1>2
<1>4. (2 * a) \div (2 * p) = a \div p
  BY QuotientOfDoubles
<1>5. FallAtMost(h, l, 15) => a \div p \in 0..100
  <2> SUFFICES ASSUME FallAtMost(h, l, 15) PROVE a \div p \in 0..100
    OBVIOUS
  <2>1. 100 * (h - l) <= 15 * h
    BY DEF FallAtMost
  <2>2. a \in Nat /\ a <= p * 100
    BY <1>2, <2>1
  <2>3. a \div p \in Nat
    BY <2>2, QuotientIsNat
  <2>4. (p * 100) \div p = 100
    BY ProductDivides
  <2>5. p * 100 \in Int
    OBVIOUS
  <2>6. a \div p <= (p * 100) \div p
    BY <2>2, <2>5, QuotientsFollow
  <2>. QED  BY <2>3, <2>4, <2>6
<1>6. FlatQuality(len, n, start, h, l)
      = IF \/ len < BaseBars.flatMin + BaseBars.flatExtra
           \/ n - start + 1 < BaseBars.flatMin \/ n - start + 1 > BaseBars.flatMax
           \/ ~FallAtMost(h, l, 15)
        THEN None ELSE a \div p
  BY <1>2 DEF FlatQuality
<1>7. FlatQuality(len, n, start, 2 * h, 2 * l)
      = IF \/ len < BaseBars.flatMin + BaseBars.flatExtra
           \/ n - start + 1 < BaseBars.flatMin \/ n - start + 1 > BaseBars.flatMax
           \/ ~FallAtMost(2 * h, 2 * l, 15)
        THEN None ELSE (2 * a) \div (2 * p)
  BY <1>3 DEF FlatQuality
<1>. QED  BY <1>1, <1>4, <1>5, <1>6, <1>7 DEF Qualities

LEMMA LengthsAtTwice ==
  ASSUME NEW n \in Nat, NEW bars, NEW twice, AtTwice(twice, bars, n)
  PROVE  Len(bars) = n /\ Len(twice) = n
<1> DEFINE S == {twice[i] : i \in 1..n}
<1>1. bars \in [1..n -> Bars] /\ twice \in [1..n -> S]
  BY DEF AtTwice
<1> HIDE DEF S
<1>. QED  BY <1>1, ListOf

\* What a flat base is found from.
FlatParts(bars, len, recent, n, edge, peak, place, start, high, low) ==
  /\ len = Len(bars) /\ recent = Recent(bars, BaseBars.flatMax + BaseBars.flatExtra)
  /\ n = Len(recent) /\ edge = Max({n \div 10, BaseBars.flatEdge}) + 1
  /\ peak = MaxIn(Highs(recent), edge, n - BaseBars.flatEdge)
  /\ place = IndexOf(Highs(recent), peak, 1) /\ start = Max({place, edge})
  /\ high = MaxIn(Highs(recent), start, n) /\ low = MinIn(Lows(recent), start, n)

LEMMA FlatBaseIs ==
  ASSUME NEW bars, NEW len, NEW recent, NEW n, NEW edge, NEW peak, NEW place, NEW start, NEW high, NEW low,
         FlatParts(bars, len, recent, n, edge, peak, place, start, high, low)
  PROVE  FlatBase(bars) = FlatQuality(len, n, start, high, low)
BY DEF FlatParts, FlatBase, FlatQuality

\* The flat base of bars is the flat base of the same bars at twice the price.
LEMMA FlatBaseIsSound ==
  ASSUME NEW len \in Nat, NEW bars, NEW twice, AtTwice(twice, bars, len)
  PROVE  FlatBase(bars) \in Qualities /\ FlatBase(twice) = FlatBase(bars)
<1> DEFINE most == BaseBars.flatMax + BaseBars.flatExtra
           recent == Recent(bars, most)
           double == Recent(twice, most)
<1>1. /\ BaseBars.flatMin \in Nat /\ BaseBars.flatMax \in Nat /\ BaseBars.flatExtra \in Nat /\ BaseBars.flatEdge \in Nat
      /\ BaseBars.flatMin <= BaseBars.flatMax /\ 2 * BaseBars.flatEdge < BaseBars.flatMin + BaseBars.flatExtra
  BY BaseBarsAssumption
<1>2. Len(bars) = len /\ Len(twice) = len
  BY LengthsAtTwice
<1>3. CASE len < BaseBars.flatMin + BaseBars.flatExtra
  BY <1>2, <1>3 DEF FlatBase, Qualities
<1>4. CASE ~(len < BaseBars.flatMin + BaseBars.flatExtra)
  <2>1. most \in Nat
    BY <1>1
  <2>2. PICK n \in Nat : /\ n = (IF len < most THEN len ELSE most)
                         /\ Len(recent) = n /\ Len(double) = n /\ AtTwice(double, recent, n)
    BY <2>1, RecentAtTwice
  <2>3. 2 * BaseBars.flatEdge < n
    BY <1>1, <1>4, <2>2
  <2> HIDE DEF recent, double, most
  <2>4. PICK d \in Nat : d = n \div 10 /\ d + d <= n /\ (d + d = n => n = 0)
    OBVIOUS
  <2>5. PICK edge \in Nat : edge = Max({n \div 10, BaseBars.flatEdge}) + 1 /\ 1 <= edge /\ edge <= n - BaseBars.flatEdge
    <3>1. Max({d, BaseBars.flatEdge}) = IF d < BaseBars.flatEdge THEN BaseBars.flatEdge ELSE d
      BY <1>1, BoundsOfPair
    <3>. QED  BY <1>1, <2>3, <2>4, <3>1
  <2>6. Stretch(edge, n - BaseBars.flatEdge, n)
    BY <1>1, <2>5 DEF Stretch
  <2>7. PICK peak \in Nat \ {0} : /\ MaxIn(Highs(recent), edge, n - BaseBars.flatEdge) = peak
                                  /\ MaxIn(Highs(double), edge, n - BaseBars.flatEdge) = 2 * peak
    BY <2>2, <2>6, RangeAtTwice
  <2>8. Doubles(Highs(double), Highs(recent), n)
    BY <2>2, HighsDouble
  <2>9. IndexOf(Highs(double), 2 * peak, 1) = IndexOf(Highs(recent), peak, 1)
    BY <2>8, PlacesDouble
  <2>10. PICK at \in 1..n : Highs(recent)[at] = peak
    <3>1. Highs(recent) \in [1..n -> Int]
      BY <2>8 DEF Doubles
    <3>2. \E i \in edge..(n - BaseBars.flatEdge) : Highs(recent)[i] = peak
      BY <2>6, <2>7, <3>1, MaxInIs
    <3>. QED  BY <1>1, <2>5, <3>2
  <2>11. PICK place \in 1..n : place = IndexOf(Highs(recent), peak, 1)
    <3>1. Highs(recent) \in [1..n -> Int]
      BY <2>8 DEF Doubles
    <3>2. 1 \in Nat \ {0} /\ 1 <= at
      OBVIOUS
    <3>3. /\ IndexOf(Highs(recent), peak, 1) \in Nat /\ 1 <= IndexOf(Highs(recent), peak, 1)
          /\ IndexOf(Highs(recent), peak, 1) <= at
      BY <2>10, <3>1, <3>2, FirstPlace
    <3>. QED  BY <3>3
  <2>12. PICK start \in 1..n : start = Max({place, edge})
    <3>1. Max({place, edge}) = IF place < edge THEN edge ELSE place
      BY BoundsOfPair
    <3>. QED  BY <1>1, <2>5, <3>1
  <2>13. Stretch(start, n, n)
    BY DEF Stretch
  <2>14. PICK h, l \in Nat \ {0} : /\ l <= h
                                   /\ MaxIn(Highs(recent), start, n) = h /\ MaxIn(Highs(double), start, n) = 2 * h
                                   /\ MinIn(Lows(recent), start, n) = l /\ MinIn(Lows(double), start, n) = 2 * l
    BY <2>2, <2>13, RangeAtTwice
  <2>15. FlatBase(bars) = FlatQuality(len, n, start, h, l)
    <3>1. recent = Recent(bars, BaseBars.flatMax + BaseBars.flatExtra)
      BY DEF recent, most
    <3>2. FlatParts(bars, len, recent, n, edge, peak, place, start, h, l)
      BY <1>2, <2>2, <2>5, <2>7, <2>11, <2>12, <2>14, <3>1, Zenon DEF FlatParts
    <3>. QED  BY <3>2, FlatBaseIs
  <2>16. FlatBase(twice) = FlatQuality(len, n, start, 2 * h, 2 * l)
    <3>1. double = Recent(twice, BaseBars.flatMax + BaseBars.flatExtra)
      BY DEF double, most
    <3>2. place = IndexOf(Highs(double), 2 * peak, 1)
      BY <2>9, <2>11
    <3>3. FlatParts(twice, len, double, n, edge, 2 * peak, place, start, 2 * h, 2 * l)
      BY <1>2, <2>2, <2>5, <2>7, <2>12, <2>14, <3>1, <3>2, Zenon DEF FlatParts
    <3>. QED  BY <3>3, FlatBaseIs
  <2>. QED  BY <2>14, <2>15, <2>16, FlatQualityAtTwice
<1>. QED  BY <1>3, <1>4

\* The percentage a range leaves of its high.
LEMMA RangeShareAtTwice ==
  ASSUME NEW h \in Nat \ {0}, NEW l \in Nat \ {0}, l <= h, NEW c \in Nat
  PROVE  /\ (c * (2 * h - 2 * l)) \div (2 * h) = (c * (h - l)) \div h
         /\ (c * (h - l)) \div h \in Nat
<1>1. h - l \in Nat /\ c * (h - l) \in Nat /\ c * (2 * h - 2 * l) = 2 * (c * (h - l))
  <2>1. PICK d \in Nat : d = h - l
    OBVIOUS
  <2>2. 2 * h - 2 * l = 2 * d /\ c * (2 * d) = 2 * (c * d) /\ c * d \in Nat
    BY <2>1
  <2>. QED  BY <2>1, <2>2
<1>2. PICK a \in Nat : a = c * (h - l) /\ 2 * a = c * (2 * h - 2 * l)
  BY <1>1
<1>3. (2 * a) \div (2 * h) = a \div h
  BY QuotientOfDoubles
<1>4. a \div h \in Nat
  BY QuotientIsNat
<1>. QED  BY <1>2, <1>3, <1>4

AscendingQuality(len, higher, high, low) ==
  IF len < BaseBars.ascMin + BaseBars.ascExtra \/ higher < 2 \/ ~FallAtMost(high, low, 25) THEN None
  ELSE Min({100, 20 * higher + Max({0, 100 - (100 * (high - low)) \div high})})

LEMMA AscendingQualityAtTwice ==
  ASSUME NEW len, NEW higher \in Nat, NEW h \in Nat \ {0}, NEW l \in Nat \ {0}, l <= h
  PROVE  /\ AscendingQuality(len, higher, h, l) \in Qualities
         /\ AscendingQuality(len, higher, 2 * h, 2 * l) = AscendingQuality(len, higher, h, l)
<1>1. FallAtMost(2 * h, 2 * l, 25) <=> FallAtMost(h, l, 25)
  BY FallAtTwice
<1>2. /\ (100 * (2 * h - 2 * l)) \div (2 * h) = (100 * (h - l)) \div h
      /\ (100 * (h - l)) \div h \in Nat
  BY RangeShareAtTwice
<1>3. PICK q \in Nat : q = (100 * (h - l)) \div h /\ q = (100 * (2 * h - 2 * l)) \div (2 * h)
  BY <1>2
<1>4. PICK m \in Nat : m = Max({0, 100 - q})
  <2>1. Max({0, 100 - q}) = IF 0 < 100 - q THEN 100 - q ELSE 0
    BY BoundsOfPair
  <2>. QED  BY <2>1
<1>5. Min({100, 20 * higher + m}) \in 0..100
  <2>1. PICK x \in Nat : x = 20 * higher + m
    OBVIOUS
  <2>2. Min({100, x}) = IF 100 < x THEN 100 ELSE x
    BY BoundsOfPair
  <2>. QED  BY <2>1, <2>2
<1>6. AscendingQuality(len, higher, h, l)
      = IF len < BaseBars.ascMin + BaseBars.ascExtra \/ higher < 2 \/ ~FallAtMost(h, l, 25) THEN None
        ELSE Min({100, 20 * higher + m})
  BY <1>3, <1>4 DEF AscendingQuality
<1>7. AscendingQuality(len, higher, 2 * h, 2 * l)
      = IF len < BaseBars.ascMin + BaseBars.ascExtra \/ higher < 2 \/ ~FallAtMost(2 * h, 2 * l, 25) THEN None
        ELSE Min({100, 20 * higher + m})
  BY <1>3, <1>4 DEF AscendingQuality
<1>. QED  BY <1>1, <1>5, <1>6, <1>7 DEF Qualities

\* The segments' lows.
LEMMA SegmentLowsAtTwice ==
  ASSUME NEW n \in Nat, NEW bars, NEW twice, AtTwice(twice, bars, n), NEW size \in Nat \ {0}
  PROVE  \E count \in Nat : Doubles(SegmentLows(twice, size), SegmentLows(bars, size), count)
<1>1. Len(bars) = n /\ Len(twice) = n
  BY LengthsAtTwice
<1>2. Doubles(Lows(twice), Lows(bars), n)
  BY HighsDouble
<1>3. PICK count \in Nat : count = (n + size - 1) \div size /\ count * size <= n + size - 1
  <2>1. n + size - 1 \in Nat
    OBVIOUS
  <2>2. (n + size - 1) \div size \in Nat
    BY <2>1, QuotientIsNat
  <2>. QED  BY <2>1, <2>2, QuotientBounds
<1>4. ASSUME NEW k \in 1..count
      PROVE  \E from, to \in Int : /\ from = (k - 1) * size + 1 /\ to = Min({k * size, n})
                                   /\ Stretch(from, to, n)
  <2>1. PICK e \in Nat : e = k * size /\ (k - 1) * size = e - size /\ size <= e
    <3>1. PICK j \in Nat : k = j + 1
      <4>1. k - 1 \in Nat /\ k = (k - 1) + 1
        OBVIOUS
      <4>. QED  BY <4>1
    <3>2. k * size = j * size + size /\ j * size \in Nat /\ k - 1 = j
      BY <3>1
    <3>. QED  BY <3>2
  <2>2. e <= n + size - 1
    <3>1. k * size <= count * size
      <4>1. PICK d \in Nat : count = k + d
        <5>1. count - k \in Nat /\ count = k + (count - k)
          OBVIOUS
        <5>. QED  BY <5>1
      <4>2. count * size = k * size + d * size /\ d * size \in Nat /\ k * size \in Nat
        BY <4>1
      <4>. QED  BY <4>2
    <3>. QED  BY <1>3, <2>1, <3>1
  <2>3. Min({e, n}) = IF e < n THEN e ELSE n
    BY BoundsOfPair
  <2>4. PICK to \in Int : to = Min({e, n}) /\ to <= n /\ e - size + 1 <= to
    BY <2>2, <2>3
  <2>5. e - size + 1 \in Int /\ 1 <= e - size + 1
    BY <2>1
  <2>6. Stretch(e - size + 1, to, n)
    BY <2>4, <2>5 DEF Stretch
  <2>. QED  BY <2>1, <2>4, <2>5, <2>6
<1>5. /\ SegmentLows(bars, size) = [k \in 1..count |-> MinIn(Lows(bars), (k - 1) * size + 1, Min({k * size, n}))]
      /\ SegmentLows(twice, size) = [k \in 1..count |-> MinIn(Lows(twice), (k - 1) * size + 1, Min({k * size, n}))]
  BY <1>1, <1>3 DEF SegmentLows
<1>6. ASSUME NEW k \in 1..count
      PROVE  /\ SegmentLows(bars, size)[k] \in Int /\ SegmentLows(twice, size)[k] \in Int
             /\ SegmentLows(twice, size)[k] = 2 * SegmentLows(bars, size)[k]
  <2>1. PICK from \in Int, to \in Int : from = (k - 1) * size + 1 /\ to = Min({k * size, n}) /\ Stretch(from, to, n)
    BY <1>4
  <2>2. MinIn(Lows(twice), from, to) = 2 * MinIn(Lows(bars), from, to)
    BY <1>2, <2>1, BoundsDouble
  <2>3. MinIn(Lows(bars), from, to) \in Int
    <3>1. Lows(bars) \in [1..n -> Int]
      BY <1>2 DEF Doubles
    <3>. QED  BY <2>1, <3>1, MinInIs
  <2>4. SegmentLows(bars, size)[k] = MinIn(Lows(bars), from, to) /\ SegmentLows(twice, size)[k] = MinIn(Lows(twice), from, to)
    BY <1>5, <2>1
  <2>. QED  BY <2>2, <2>3, <2>4
<1>7. SegmentLows(bars, size) \in [1..count -> Int] /\ SegmentLows(twice, size) \in [1..count -> Int]
  <2>1. /\ SegmentLows(bars, size) = [k \in 1..count |-> SegmentLows(bars, size)[k]]
        /\ SegmentLows(twice, size) = [k \in 1..count |-> SegmentLows(twice, size)[k]]
    BY <1>5
  <2>2. \A k \in 1..count : SegmentLows(bars, size)[k] \in Int /\ SegmentLows(twice, size)[k] \in Int
    BY <1>6
  <2>. QED  BY <2>1, <2>2
<1>. QED  BY <1>6, <1>7 DEF Doubles

\* What an ascending base is found from.
RisingLows(lows) == {k \in 2..Len(lows) : lows[k] > lows[k - 1]}

AscendingParts(bars, len, recent, n, lows, high, low) ==
  /\ len = Len(bars) /\ recent = Recent(bars, BaseBars.ascMax + BaseBars.ascExtra)
  /\ n = Len(recent) /\ lows = SegmentLows(recent, Max({n \div 4, BaseBars.ascSegment}))
  /\ high = MaxIn(Highs(recent), 1, n) /\ low = MinIn(Lows(recent), 1, n)

LEMMA AscendingBaseIs ==
  ASSUME NEW bars, NEW len, NEW recent, NEW n, NEW lows, NEW high, NEW low,
         AscendingParts(bars, len, recent, n, lows, high, low)
  PROVE  AscendingBase(bars) = AscendingQuality(len, Cardinality(RisingLows(lows)), high, low)
BY DEF AscendingParts, AscendingBase, AscendingQuality, RisingLows

\* As many lows rise at twice the price.
LEMMA RisingLowsDouble ==
  ASSUME NEW n \in Nat, NEW s, NEW t, Doubles(t, s, n)
  PROVE  RisingLows(t) = RisingLows(s) /\ Cardinality(RisingLows(s)) \in Nat
<1>1. Len(s) = n /\ Len(t) = n
  BY ListOf DEF Doubles
<1>2. ASSUME NEW k \in 2..n PROVE t[k] > t[k - 1] <=> s[k] > s[k - 1]
  <2>1. k \in 1..n /\ k - 1 \in 1..n
    OBVIOUS
  <2>2. s[k] \in Int /\ s[k - 1] \in Int /\ t[k] = 2 * s[k] /\ t[k - 1] = 2 * s[k - 1]
    BY <2>1 DEF Doubles
  <2>. QED  BY <2>2
<1>3. RisingLows(t) = {k \in 2..n : t[k] > t[k - 1]} /\ RisingLows(s) = {k \in 2..n : s[k] > s[k - 1]}
  BY <1>1 DEF RisingLows
<1>4. RisingLows(t) = RisingLows(s) /\ RisingLows(s) \in SUBSET (2..n)
  BY <1>2, <1>3
<1>5. IsFiniteSet(2..n)
  BY FS_Interval
<1>6. IsFiniteSet(RisingLows(s))
  BY <1>4, <1>5, FS_Subset
<1>. QED  BY <1>4, <1>6, FS_CardinalityType

\* The ascending base of bars is that of the same bars at twice the price.
LEMMA AscendingBaseIsSound ==
  ASSUME NEW len \in Nat, NEW bars, NEW twice, AtTwice(twice, bars, len)
  PROVE  AscendingBase(bars) \in Qualities /\ AscendingBase(twice) = AscendingBase(bars)
<1> DEFINE most == BaseBars.ascMax + BaseBars.ascExtra
           recent == Recent(bars, most)
           double == Recent(twice, most)
<1>1. /\ BaseBars.ascMin \in Nat \ {0} /\ BaseBars.ascMax \in Nat \ {0} /\ BaseBars.ascExtra \in Nat
      /\ BaseBars.ascSegment \in Nat \ {0}
  BY BaseBarsAssumption
<1>2. Len(bars) = len /\ Len(twice) = len
  BY LengthsAtTwice
<1>3. CASE len < BaseBars.ascMin + BaseBars.ascExtra
  BY <1>2, <1>3 DEF AscendingBase, Qualities
<1>4. CASE ~(len < BaseBars.ascMin + BaseBars.ascExtra)
  <2>1. most \in Nat
    BY <1>1
  <2>2. PICK n \in Nat : /\ n = (IF len < most THEN len ELSE most)
                         /\ Len(recent) = n /\ Len(double) = n /\ AtTwice(double, recent, n)
    BY <2>1, RecentAtTwice
  <2>3. 1 <= n
    BY <1>1, <1>4, <2>2
  <2> HIDE DEF recent, double, most
  <2>4. PICK d \in Nat : d = n \div 4
    BY QuotientIsNat
  <2>5. PICK size \in Nat \ {0} : size = Max({n \div 4, BaseBars.ascSegment})
    <3>1. Max({d, BaseBars.ascSegment}) = IF d < BaseBars.ascSegment THEN BaseBars.ascSegment ELSE d
      BY <1>1, BoundsOfPair
    <3>. QED  BY <1>1, <2>4, <3>1
  <2>6. PICK count \in Nat : Doubles(SegmentLows(double, size), SegmentLows(recent, size), count)
    BY <2>2, SegmentLowsAtTwice
  <2>7. PICK higher \in Nat : /\ higher = Cardinality(RisingLows(SegmentLows(recent, size)))
                              /\ higher = Cardinality(RisingLows(SegmentLows(double, size)))
    BY <2>6, RisingLowsDouble
  <2>8. Stretch(1, n, n)
    BY <2>3 DEF Stretch
  <2>9. PICK h, l \in Nat \ {0} : /\ l <= h
                                  /\ MaxIn(Highs(recent), 1, n) = h /\ MaxIn(Highs(double), 1, n) = 2 * h
                                  /\ MinIn(Lows(recent), 1, n) = l /\ MinIn(Lows(double), 1, n) = 2 * l
    BY <2>2, <2>8, RangeAtTwice
  <2>10. AscendingBase(bars) = AscendingQuality(len, higher, h, l)
    <3>1. recent = Recent(bars, BaseBars.ascMax + BaseBars.ascExtra)
      BY DEF recent, most
    <3>2. AscendingParts(bars, len, recent, n, SegmentLows(recent, size), h, l)
      BY <1>2, <2>2, <2>5, <2>9, <3>1, Zenon DEF AscendingParts
    <3>. QED  BY <2>7, <3>2, AscendingBaseIs
  <2>11. AscendingBase(twice) = AscendingQuality(len, higher, 2 * h, 2 * l)
    <3>1. double = Recent(twice, BaseBars.ascMax + BaseBars.ascExtra)
      BY DEF double, most
    <3>2. AscendingParts(twice, len, double, n, SegmentLows(double, size), 2 * h, 2 * l)
      BY <1>2, <2>2, <2>5, <2>9, <3>1, Zenon DEF AscendingParts
    <3>. QED  BY <2>7, <3>2, AscendingBaseIs
  <2>. QED  BY <2>9, <2>10, <2>11, AscendingQualityAtTwice
<1>. QED  BY <1>3, <1>4

-----------------------------------------------------------------------------

CupQuality(len, n, rim, bottom, peak, low, confirming, handleHigh, handleLow) ==
  IF \/ len < BaseBars.cupWidth + BaseBars.cupExtra
     \/ 100 * (peak - low) < 15 * peak
     \/ ~FallAtMost(peak, low, 35)
     \/ bottom - rim < BaseBars.cupWidth
     \/ n - bottom + 1 < BaseBars.handle + BaseBars.handleExtra
     \/ ~FallAtMost(handleHigh, handleLow, 15)
  THEN None
  ELSE Min({100, Max({0, 100 - Abs(75 * peak - 100 * low) \div peak}) + IF confirming THEN 30 ELSE 0})

LEMMA CupQualityAtTwice ==
  ASSUME NEW len, NEW n, NEW rim, NEW bottom, NEW confirming,
         NEW h \in Nat \ {0}, NEW l \in Nat \ {0}, NEW handleHigh \in Nat \ {0}, NEW handleLow \in Nat \ {0}
  PROVE  /\ CupQuality(len, n, rim, bottom, h, l, confirming, handleHigh, handleLow) \in Qualities
         /\ CupQuality(len, n, rim, bottom, 2 * h, 2 * l, confirming, 2 * handleHigh, 2 * handleLow)
            = CupQuality(len, n, rim, bottom, h, l, confirming, handleHigh, handleLow)
<1> DEFINE Answer(deep, fall, handleFall, off) ==
             IF \/ len < BaseBars.cupWidth + BaseBars.cupExtra \/ deep \/ ~fall
                \/ bottom - rim < BaseBars.cupWidth
                \/ n - bottom + 1 < BaseBars.handle + BaseBars.handleExtra \/ ~handleFall
             THEN None ELSE Min({100, Max({0, 100 - off}) + IF confirming THEN 30 ELSE 0})
<1>1. FallAtMost(2 * h, 2 * l, 35) <=> FallAtMost(h, l, 35)
  BY FallAtTwice
<1>2. FallAtMost(2 * handleHigh, 2 * handleLow, 15) <=> FallAtMost(handleHigh, handleLow, 15)
  BY FallAtTwice
<1>3. 100 * (2 * h - 2 * l) < 15 * (2 * h) <=> 100 * (h - l) < 15 * h
  OBVIOUS
<1>4. PICK a \in Nat : a = Abs(75 * h - 100 * l) /\ 2 * a = Abs(75 * (2 * h) - 100 * (2 * l))
  <2>1. PICK x \in Int : x = 75 * h - 100 * l /\ 2 * x = 75 * (2 * h) - 100 * (2 * l)
    <3>1. 75 * h - 100 * l \in Int /\ 2 * (75 * h - 100 * l) = 75 * (2 * h) - 100 * (2 * l)
      OBVIOUS
    <3>. QED  BY <3>1
  <2>2. Abs(x) \in Nat /\ Abs(2 * x) = 2 * Abs(x)
    BY DEF Abs
  <2>. QED  BY <2>1, <2>2
<1>5. PICK q \in Nat : q = a \div h /\ q = (2 * a) \div (2 * h)
  <2>1. (2 * a) \div (2 * h) = a \div h
    BY QuotientOfDoubles
  <2>2. a \div h \in Nat
    BY QuotientIsNat
  <2>. QED  BY <2>1, <2>2
<1>6. PICK m \in Nat : m = Max({0, 100 - q})
  <2>1. Max({0, 100 - q}) = IF 0 < 100 - q THEN 100 - q ELSE 0
    BY BoundsOfPair
  <2>. QED  BY <2>1
<1>7. Min({100, m + IF confirming THEN 30 ELSE 0}) \in 0..100
  <2>1. PICK x \in Nat : x = m + IF confirming THEN 30 ELSE 0
    OBVIOUS
  <2>2. Min({100, x}) = IF 100 < x THEN 100 ELSE x
    BY BoundsOfPair
  <2>. QED  BY <2>1, <2>2
<1>8. CupQuality(len, n, rim, bottom, h, l, confirming, handleHigh, handleLow)
      = Answer(100 * (h - l) < 15 * h, FallAtMost(h, l, 35), FallAtMost(handleHigh, handleLow, 15), q)
  BY <1>4, <1>5 DEF CupQuality
<1>9. CupQuality(len, n, rim, bottom, 2 * h, 2 * l, confirming, 2 * handleHigh, 2 * handleLow)
      = Answer(100 * (2 * h - 2 * l) < 15 * (2 * h), FallAtMost(2 * h, 2 * l, 35),
               FallAtMost(2 * handleHigh, 2 * handleLow, 15), q)
  BY <1>4, <1>5 DEF CupQuality
<1>10. \A deep, fall, handleFall : Answer(deep, fall, handleFall, q) \in Qualities
  BY <1>6, <1>7 DEF Qualities
<1>11. Answer(100 * (2 * h - 2 * l) < 15 * (2 * h), FallAtMost(2 * h, 2 * l, 35),
              FallAtMost(2 * handleHigh, 2 * handleLow, 15), q)
       = Answer(100 * (h - l) < 15 * h, FallAtMost(h, l, 35), FallAtMost(handleHigh, handleLow, 15), q)
  BY <1>1, <1>2, <1>3
<1> HIDE DEF Answer
<1>12. CupQuality(len, n, rim, bottom, h, l, confirming, handleHigh, handleLow) \in Qualities
  BY <1>8, <1>10
<1>. QED  BY <1>8, <1>9, <1>11, <1>12

\* What a cup with a handle is found from.
Confirms(recent, n, reach) ==
  LET inHandle == Volumes(recent, n - reach + 1, n)
      before == Volumes(recent, Max({1, n - 2 * reach + 1}), n - reach)
  IN  before = 0 \/ 10 * inHandle <= 11 * before

CupParts(bars, len, recent, n, peak, rim, low, bottom, reach, handleHigh, handleLow) ==
  /\ len = Len(bars) /\ recent = Recent(bars, BaseBars.cupLook)
  /\ n = Len(recent) /\ peak = MaxIn(Highs(recent), 1, n \div 2)
  /\ rim = IndexOf(Highs(recent), peak, 1)
  /\ low = MinIn(Lows(recent), rim, n) /\ bottom = IndexOf(Lows(recent), low, rim)
  /\ reach = Min({n - bottom + 1, BaseBars.handle + BaseBars.handleReach})
  /\ handleHigh = MaxIn(Highs(recent), n - reach + 1, n) /\ handleLow = MinIn(Lows(recent), n - reach + 1, n)

LEMMA CupIs ==
  ASSUME NEW bars, NEW len, NEW recent, NEW n, NEW peak, NEW rim, NEW low, NEW bottom, NEW reach,
         NEW handleHigh, NEW handleLow,
         CupParts(bars, len, recent, n, peak, rim, low, bottom, reach, handleHigh, handleLow)
  PROVE  CupWithHandleBase(bars)
         = CupQuality(len, n, rim, bottom, peak, low, Confirms(recent, n, reach), handleHigh, handleLow)
BY DEF CupParts, CupWithHandleBase, CupQuality, Confirms

\* A handle is confirmed by the same volumes.
LEMMA ConfirmsAtTwice ==
  ASSUME NEW n \in Nat, NEW bars, NEW twice, AtTwice(twice, bars, n), NEW reach \in 1..n
  PROVE  Confirms(twice, n, reach) = Confirms(bars, n, reach)
<1>1. PICK from \in Int : from = Max({1, n - 2 * reach + 1}) /\ 1 <= from
  <2>1. Max({1, n - 2 * reach + 1}) = IF 1 < n - 2 * reach + 1 THEN n - 2 * reach + 1 ELSE 1
    BY BoundsOfPair
  <2>. QED  BY <2>1
<1>2. Volumes(twice, from, n - reach) = Volumes(bars, from, n - reach)
  <2>1. n - reach \in Int /\ n - reach <= n
    OBVIOUS
  <2>. QED  BY <1>1, <2>1, VolumesAtTwice
<1>3. Volumes(twice, n - reach + 1, n) = Volumes(bars, n - reach + 1, n)
  <2>1. n - reach + 1 \in Int /\ 1 <= n - reach + 1 /\ n \in Int /\ n <= n
    OBVIOUS
  <2>. QED  BY <2>1, VolumesAtTwice
<1>. QED  BY <1>1, <1>2, <1>3, Zenon DEF Confirms

\* The cup with a handle of bars is that of the same bars at twice the price.
LEMMA CupIsSound ==
  ASSUME NEW len \in Nat, NEW bars, NEW twice, AtTwice(twice, bars, len)
  PROVE  CupWithHandleBase(bars) \in Qualities /\ CupWithHandleBase(twice) = CupWithHandleBase(bars)
<1> DEFINE recent == Recent(bars, BaseBars.cupLook)
           double == Recent(twice, BaseBars.cupLook)
<1>1. /\ BaseBars.cupWidth \in Nat /\ BaseBars.cupExtra \in Nat /\ BaseBars.cupLook \in Nat
      /\ BaseBars.handle \in Nat \ {0} /\ BaseBars.handleReach \in Nat
      /\ 2 <= BaseBars.cupWidth + BaseBars.cupExtra /\ 2 <= BaseBars.cupLook
  BY BaseBarsAssumption
<1>2. Len(bars) = len /\ Len(twice) = len
  BY LengthsAtTwice
<1>3. CASE len < BaseBars.cupWidth + BaseBars.cupExtra
  BY <1>2, <1>3 DEF CupWithHandleBase, Qualities
<1>4. CASE ~(len < BaseBars.cupWidth + BaseBars.cupExtra)
  <2>2. PICK n \in Nat : /\ n = (IF len < BaseBars.cupLook THEN len ELSE BaseBars.cupLook)
                         /\ Len(recent) = n /\ Len(double) = n /\ AtTwice(double, recent, n)
    BY <1>1, RecentAtTwice
  <2>3. 2 <= n
    BY <1>1, <1>4, <2>2
  <2> HIDE DEF recent, double
  <2>4. PICK half \in Nat : half = n \div 2 /\ 1 <= half /\ half <= n
    BY <2>3
  <2>5. Doubles(Highs(double), Highs(recent), n) /\ Doubles(Lows(double), Lows(recent), n)
    BY <2>2, HighsDouble
  <2>6. Highs(recent) \in [1..n -> Int] /\ Lows(recent) \in [1..n -> Int]
    BY <2>5 DEF Doubles
  <2>7. Stretch(1, half, n)
    BY <2>4 DEF Stretch
  <2>8. PICK peak \in Nat \ {0} : MaxIn(Highs(recent), 1, half) = peak /\ MaxIn(Highs(double), 1, half) = 2 * peak
    BY <2>2, <2>7, RangeAtTwice
  <2>9. PICK at \in 1..n : Highs(recent)[at] = peak
    <3>1. \E i \in 1..half : Highs(recent)[i] = MaxIn(Highs(recent), 1, half)
      BY <2>6, <2>7, MaxInIs
    <3>. QED  BY <2>4, <2>8, <3>1
  <2>10. PICK rim \in 1..n : rim = IndexOf(Highs(recent), peak, 1) /\ rim = IndexOf(Highs(double), 2 * peak, 1)
    <3>1. 1 \in Nat \ {0} /\ 1 <= at
      OBVIOUS
    <3>2. /\ IndexOf(Highs(recent), peak, 1) \in Nat /\ 1 <= IndexOf(Highs(recent), peak, 1)
          /\ IndexOf(Highs(recent), peak, 1) <= at
      BY <2>6, <2>9, <3>1, FirstPlace
    <3>3. IndexOf(Highs(double), 2 * peak, 1) = IndexOf(Highs(recent), peak, 1)
      BY <2>5, PlacesDouble
    <3>. QED  BY <3>2, <3>3
  <2>11. Stretch(rim, n, n)
    BY DEF Stretch
  <2>12. PICK low \in Nat \ {0} : MinIn(Lows(recent), rim, n) = low /\ MinIn(Lows(double), rim, n) = 2 * low
    BY <2>2, <2>11, RangeAtTwice
  <2>13. PICK there \in 1..n : rim <= there /\ Lows(recent)[there] = low
    <3>1. PICK s \in [1..n -> Int] : s = Lows(recent)
      BY <2>6
    <3>2. PICK to \in Int : to = n /\ Stretch(rim, to, n)
      BY <2>11
    <3>3. \E i \in rim..to : s[i] = MinIn(s, rim, to)
      BY ONLY n \in Nat, s \in [1..n -> Int], <3>2, MinInIs
    <3>. QED  BY <2>12, <3>1, <3>2, <3>3
  <2>14. PICK bottom \in 1..n : bottom = IndexOf(Lows(recent), low, rim) /\ bottom = IndexOf(Lows(double), 2 * low, rim)
    <3>1. rim \in Nat \ {0}
      OBVIOUS
    <3>2. /\ IndexOf(Lows(recent), low, rim) \in Nat /\ rim <= IndexOf(Lows(recent), low, rim)
          /\ IndexOf(Lows(recent), low, rim) <= there
      BY <2>6, <2>13, <3>1, FirstPlace
    <3>3. IndexOf(Lows(double), 2 * low, rim) = IndexOf(Lows(recent), low, rim)
      BY <2>5, <3>1, PlacesDouble
    <3>. QED  BY <3>2, <3>3
  <2>15. PICK reach \in 1..n : reach = Min({n - bottom + 1, BaseBars.handle + BaseBars.handleReach})
    <3>1. PICK a \in Nat, b \in Nat : a = n - bottom + 1 /\ b = BaseBars.handle + BaseBars.handleReach
      <4>1. n - bottom + 1 \in Nat
        OBVIOUS
      <4>2. BaseBars.handle + BaseBars.handleReach \in Nat
        BY <1>1
      <4>. QED  BY <4>1, <4>2
    <3>2. Min({a, b}) = IF a < b THEN a ELSE b
      BY BoundsOfPair
    <3>. QED  BY <1>1, <3>1, <3>2
  <2>16. Stretch(n - reach + 1, n, n)
    BY DEF Stretch
  <2>17. PICK h, l \in Nat \ {0} :
           /\ MaxIn(Highs(recent), n - reach + 1, n) = h /\ MaxIn(Highs(double), n - reach + 1, n) = 2 * h
           /\ MinIn(Lows(recent), n - reach + 1, n) = l /\ MinIn(Lows(double), n - reach + 1, n) = 2 * l
    BY <2>2, <2>16, RangeAtTwice
  <2>18. Confirms(double, n, reach) = Confirms(recent, n, reach)
    BY <2>2, ConfirmsAtTwice
  <2>19. CupWithHandleBase(bars)
         = CupQuality(len, n, rim, bottom, peak, low, Confirms(recent, n, reach), h, l)
    <3>1. recent = Recent(bars, BaseBars.cupLook)
      BY DEF recent
    <3>2. CupParts(bars, len, recent, n, peak, rim, low, bottom, reach, h, l)
      BY <1>2, <2>2, <2>4, <2>8, <2>10, <2>12, <2>14, <2>15, <2>17, <3>1, Zenon DEF CupParts
    <3>. QED  BY <3>2, CupIs
  <2>20. CupWithHandleBase(twice)
         = CupQuality(len, n, rim, bottom, 2 * peak, 2 * low, Confirms(recent, n, reach), 2 * h, 2 * l)
    <3>1. double = Recent(twice, BaseBars.cupLook)
      BY DEF double
    <3>2. CupParts(twice, len, double, n, 2 * peak, rim, 2 * low, bottom, reach, 2 * h, 2 * l)
      BY <1>2, <2>2, <2>4, <2>8, <2>10, <2>12, <2>14, <2>15, <2>17, <3>1, Zenon DEF CupParts
    <3>3. CupWithHandleBase(twice)
          = CupQuality(len, n, rim, bottom, 2 * peak, 2 * low, Confirms(double, n, reach), 2 * h, 2 * l)
      BY <3>2, CupIs
    <3>. QED  BY <2>18, <3>3
  <2>. QED  BY <2>19, <2>20, CupQualityAtTwice
<1>. QED  BY <1>3, <1>4

-----------------------------------------------------------------------------

VcpQuality(len, contractions, declines, high, low) ==
  IF len < BaseBars.vcpLook \/ contractions < 3 \/ ~FallAtMost(high, low, 35) THEN None
  ELSE Min({100, Min({50, 15 * contractions}) + Min({30, 10 * declines})
                 + Max({0, 20 - (20 * (high - low)) \div high})})

LEMMA VcpQualityAtTwice ==
  ASSUME NEW len, NEW contractions \in Nat, NEW declines \in Nat, NEW h \in Nat \ {0}, NEW l \in Nat \ {0}, l <= h
  PROVE  /\ VcpQuality(len, contractions, declines, h, l) \in Qualities
         /\ VcpQuality(len, contractions, declines, 2 * h, 2 * l) = VcpQuality(len, contractions, declines, h, l)
<1>1. FallAtMost(2 * h, 2 * l, 35) <=> FallAtMost(h, l, 35)
  BY FallAtTwice
<1>2. PICK q \in Nat : q = (20 * (h - l)) \div h /\ q = (20 * (2 * h - 2 * l)) \div (2 * h)
  <2>1. 20 \in Nat
    OBVIOUS
  <2>2. /\ (20 * (2 * h - 2 * l)) \div (2 * h) = (20 * (h - l)) \div h
        /\ (20 * (h - l)) \div h \in Nat
    BY <2>1, RangeShareAtTwice
  <2>. QED  BY <2>2
<1>3. PICK m \in Nat : m = Max({0, 20 - q})
  <2>1. Max({0, 20 - q}) = IF 0 < 20 - q THEN 20 - q ELSE 0
    BY BoundsOfPair
  <2>. QED  BY <2>1
<1>4. PICK c \in Nat : c = Min({50, 15 * contractions})
  <2>1. PICK x \in Nat : x = 15 * contractions
    OBVIOUS
  <2>2. Min({50, x}) = IF 50 < x THEN 50 ELSE x
    BY BoundsOfPair
  <2>. QED  BY <2>1, <2>2
<1>5. PICK d \in Nat : d = Min({30, 10 * declines})
  <2>1. PICK x \in Nat : x = 10 * declines
    OBVIOUS
  <2>2. Min({30, x}) = IF 30 < x THEN 30 ELSE x
    BY BoundsOfPair
  <2>. QED  BY <2>1, <2>2
<1>6. Min({100, c + d + m}) \in 0..100
  <2>1. PICK x \in Nat : x = c + d + m
    OBVIOUS
  <2>2. Min({100, x}) = IF 100 < x THEN 100 ELSE x
    BY BoundsOfPair
  <2>. QED  BY <2>1, <2>2
<1>7. VcpQuality(len, contractions, declines, h, l)
      = IF len < BaseBars.vcpLook \/ contractions < 3 \/ ~FallAtMost(h, l, 35) THEN None ELSE Min({100, c + d + m})
  BY <1>2, <1>3, <1>4, <1>5 DEF VcpQuality
<1>8. VcpQuality(len, contractions, declines, 2 * h, 2 * l)
      = IF len < BaseBars.vcpLook \/ contractions < 3 \/ ~FallAtMost(2 * h, 2 * l, 35) THEN None
        ELSE Min({100, c + d + m})
  BY <1>2, <1>3, <1>4, <1>5 DEF VcpQuality
<1>. QED  BY <1>1, <1>6, <1>7, <1>8 DEF Qualities

\* What a volatility contraction is found from.
SegmentPlaces(k, size) == ((k - 1) * size + 1)..(k * size)

Narrower(recent, i, j) ==
  20 * (recent[i].high - recent[i].low) * recent[j].close <= 21 * (recent[j].high - recent[j].low) * recent[i].close

Contracting(recent, segments, size) ==
  {k \in 2..segments : \A i \in SegmentPlaces(k, size) : \E j \in SegmentPlaces(k - 1, size) : Narrower(recent, i, j)}

Declining(recent, segments, size) ==
  {k \in 2..segments : Volumes(recent, (k - 1) * size + 1, k * size)
                       <= Volumes(recent, (k - 1 - 1) * size + 1, (k - 1) * size)}

VcpParts(bars, len, recent, n, segments, size, high, low) ==
  /\ len = Len(bars) /\ recent = Recent(bars, BaseBars.vcpLook) /\ n = Len(recent)
  /\ segments = Min({8, BaseBars.vcpLook \div BaseBars.vcpSegment}) /\ size = BaseBars.vcpLook \div segments
  /\ high = MaxIn(Highs(recent), 1, n) /\ low = MinIn(Lows(recent), 1, n)

VcpOf(len, recent, segments, size) ==
  VcpQuality(len, Cardinality(Contracting(recent, segments, size)), Cardinality(Declining(recent, segments, size)),
             MaxIn(Highs(recent), 1, Len(recent)), MinIn(Lows(recent), 1, Len(recent)))

LEMMA VcpIs ==
  ASSUME NEW bars, NEW len, NEW recent, NEW n, NEW segments, NEW size, NEW high, NEW low,
         VcpParts(bars, len, recent, n, segments, size, high, low)
  PROVE  VCP(bars) = VcpQuality(len, Cardinality(Contracting(recent, segments, size)),
                                Cardinality(Declining(recent, segments, size)), high, low)
<1>1. VCP(bars) = VcpOf(Len(bars), Recent(bars, BaseBars.vcpLook),
                        Min({8, BaseBars.vcpLook \div BaseBars.vcpSegment}),
                        BaseBars.vcpLook \div Min({8, BaseBars.vcpLook \div BaseBars.vcpSegment}))
  BY DEF VCP, VcpOf, VcpQuality, Contracting, Declining, Narrower, SegmentPlaces
<1>2. VCP(bars) = VcpOf(len, recent, segments, size)
  BY <1>1 DEF VcpParts
<1>3. high = MaxIn(Highs(recent), 1, Len(recent)) /\ low = MinIn(Lows(recent), 1, Len(recent))
  BY DEF VcpParts
<1>. QED  BY <1>2, <1>3 DEF VcpOf

\* A range is as narrow at twice the price.
LEMMA NarrowerAtTwice ==
  ASSUME NEW n \in Nat, NEW bars, NEW twice, AtTwice(twice, bars, n), NEW i \in 1..n, NEW j \in 1..n
  PROVE  Narrower(twice, i, j) <=> Narrower(bars, i, j)
<1>1. \A x \in Bars : x.high \in Int /\ x.low \in Int /\ x.close \in Int
  BY DEF Bars
<1>2. bars[i] \in Bars /\ bars[j] \in Bars
  BY DEF AtTwice
<1>3. PICK a \in Int, b \in Int, c \in Int : a = bars[i].high /\ b = bars[i].low /\ c = bars[i].close
  BY <1>1, <1>2
<1>4. PICK d \in Int, e \in Int, f \in Int : d = bars[j].high /\ e = bars[j].low /\ f = bars[j].close
  BY <1>1, <1>2
<1>5. /\ twice[i].high = 2 * a /\ twice[i].low = 2 * b /\ twice[i].close = 2 * c
      /\ twice[j].high = 2 * d /\ twice[j].low = 2 * e /\ twice[j].close = 2 * f
  BY <1>3, <1>4 DEF AtTwice
<1>6. Narrower(bars, i, j) <=> 20 * (a - b) * f <= 21 * (d - e) * c
  BY <1>3, <1>4 DEF Narrower
<1>7. Narrower(twice, i, j) <=> 20 * (2 * a - 2 * b) * (2 * f) <= 21 * (2 * d - 2 * e) * (2 * c)
  BY <1>5 DEF Narrower
<1>8. PICK x \in Int, y \in Int : x = a - b /\ y = d - e /\ 2 * a - 2 * b = 2 * x /\ 2 * d - 2 * e = 2 * y
  <2>1. a - b \in Int /\ d - e \in Int /\ 2 * a - 2 * b = 2 * (a - b) /\ 2 * d - 2 * e = 2 * (d - e)
    OBVIOUS
  <2>. QED  BY <2>1
<1>9. /\ 20 * (2 * x) * (2 * f) = 4 * (20 * x * f) /\ 21 * (2 * y) * (2 * c) = 4 * (21 * y * c)
      /\ 20 * x * f \in Int /\ 21 * y * c \in Int
  OBVIOUS
<1>. QED  BY <1>6, <1>7, <1>8, <1>9

LEMMA ContractingAtTwice ==
  ASSUME NEW n \in Nat, NEW bars, NEW twice, AtTwice(twice, bars, n),
         NEW segments \in Nat, NEW size \in Nat, segments * size <= n
  PROVE  /\ Contracting(twice, segments, size) = Contracting(bars, segments, size)
         /\ Declining(twice, segments, size) = Declining(bars, segments, size)
         /\ Cardinality(Contracting(bars, segments, size)) \in Nat
         /\ Cardinality(Declining(bars, segments, size)) \in Nat
<1>1. ASSUME NEW k \in 1..segments
      PROVE  \E from, to \in Int : /\ from = (k - 1) * size + 1 /\ to = k * size /\ 1 <= from /\ to <= n
                                   /\ SegmentPlaces(k, size) = from..to
  <2>1. PICK j \in Nat, d \in Nat : k = j + 1 /\ segments = k + d
    <3>1. k - 1 \in Nat /\ segments - k \in Nat /\ k = (k - 1) + 1 /\ segments = k + (segments - k)
      OBVIOUS
    <3>. QED  BY <3>1
  <2>2. segments * size = k * size + d * size /\ d * size \in Nat /\ k * size \in Nat /\ j * size \in Nat /\ k - 1 = j
    BY <2>1
  <2>3. PICK from \in Int, to \in Int : from = (k - 1) * size + 1 /\ to = k * size /\ 1 <= from /\ to <= n
    BY <2>2
  <2>. QED  BY <2>3 DEF SegmentPlaces
<1>2. ASSUME NEW k \in 1..segments
      PROVE  /\ \A i \in SegmentPlaces(k, size) : i \in 1..n
             /\ Volumes(twice, (k - 1) * size + 1, k * size) = Volumes(bars, (k - 1) * size + 1, k * size)
  <2>1. PICK from \in Int, to \in Int : /\ from = (k - 1) * size + 1 /\ to = k * size /\ 1 <= from /\ to <= n
                                        /\ SegmentPlaces(k, size) = from..to
    BY <1>1
  <2>2. Volumes(twice, from, to) = Volumes(bars, from, to)
    BY <2>1, VolumesAtTwice
  <2>. QED  BY <2>1, <2>2
<1>3. ASSUME NEW k \in 2..segments
      PROVE  (\A i \in SegmentPlaces(k, size) : \E j \in SegmentPlaces(k - 1, size) : Narrower(twice, i, j))
             <=> (\A i \in SegmentPlaces(k, size) : \E j \in SegmentPlaces(k - 1, size) : Narrower(bars, i, j))
  <2>1. k \in 1..segments /\ k - 1 \in 1..segments
    OBVIOUS
  <2>2. (\A i \in SegmentPlaces(k, size) : i \in 1..n) /\ (\A i \in SegmentPlaces(k - 1, size) : i \in 1..n)
    BY <1>2, <2>1
  <2>3. \A i, j \in 1..n : Narrower(twice, i, j) <=> Narrower(bars, i, j)
    BY NarrowerAtTwice
  <2>. QED  BY <2>2, <2>3
<1>4. Contracting(twice, segments, size) = Contracting(bars, segments, size)
  BY <1>3 DEF Contracting
<1>5. ASSUME NEW k \in 2..segments
      PROVE  /\ Volumes(twice, (k - 1) * size + 1, k * size) = Volumes(bars, (k - 1) * size + 1, k * size)
             /\ Volumes(twice, (k - 1 - 1) * size + 1, (k - 1) * size)
                = Volumes(bars, (k - 1 - 1) * size + 1, (k - 1) * size)
  <2>1. k \in 1..segments
    OBVIOUS
  <2>2. PICK j \in 1..segments : j = k - 1
    OBVIOUS
  <2>3. Volumes(twice, (j - 1) * size + 1, j * size) = Volumes(bars, (j - 1) * size + 1, j * size)
    BY <1>2
  <2>4. Volumes(twice, (k - 1) * size + 1, k * size) = Volumes(bars, (k - 1) * size + 1, k * size)
    BY <1>2, <2>1
  <2>. QED  BY <2>2, <2>3, <2>4
<1>6. Declining(twice, segments, size) = Declining(bars, segments, size)
  BY <1>5 DEF Declining
<1>7. IsFiniteSet(2..segments)
  BY FS_Interval
<1>8. /\ Contracting(bars, segments, size) \in SUBSET (2..segments)
      /\ Declining(bars, segments, size) \in SUBSET (2..segments)
  BY DEF Contracting, Declining
<1>9. IsFiniteSet(Contracting(bars, segments, size)) /\ IsFiniteSet(Declining(bars, segments, size))
  BY <1>7, <1>8, FS_Subset
<1>. QED  BY <1>4, <1>6, <1>9, FS_CardinalityType

\* The contraction of bars is that of the same bars at twice the price.
LEMMA VcpIsSound ==
  ASSUME NEW len \in Nat, NEW bars, NEW twice, AtTwice(twice, bars, len)
  PROVE  VCP(bars) \in Qualities /\ VCP(twice) = VCP(bars)
<1> DEFINE look == BaseBars.vcpLook
           recent == Recent(bars, BaseBars.vcpLook)
           double == Recent(twice, BaseBars.vcpLook)
<1>1. look \in Nat /\ BaseBars.vcpSegment \in Nat \ {0} /\ BaseBars.vcpSegment <= look
  BY BaseBarsAssumption
<1>2. Len(bars) = len /\ Len(twice) = len
  BY LengthsAtTwice
<1>3. CASE len < look
  BY <1>2, <1>3 DEF VCP, Qualities
<1>4. CASE ~(len < look)
  <2>1. PICK n \in Nat : /\ n = (IF len < look THEN len ELSE look)
                         /\ Len(recent) = n /\ Len(double) = n /\ AtTwice(double, recent, n)
    BY <1>1, RecentAtTwice
  <2> HIDE DEF recent, double
  <2>2. n = look /\ 1 <= n
    BY <1>1, <1>4, <2>1
  <2>3. PICK segments \in Nat \ {0} : segments = Min({8, look \div BaseBars.vcpSegment})
    <3>1. PICK q \in Nat \ {0} : q = look \div BaseBars.vcpSegment
      <4>1. PICK x \in Nat, p \in Nat \ {0} : x = look /\ p = BaseBars.vcpSegment /\ p <= x
        BY <1>1
      <4>2. x \div p \in Nat /\ x < (x \div p) * p + p
        BY QuotientIsNat, QuotientBounds
      <4>3. x \div p # 0
        BY <4>1, <4>2
      <4>. QED  BY <4>1, <4>2, <4>3
    <3>2. Min({8, q}) = IF 8 < q THEN 8 ELSE q
      BY BoundsOfPair
    <3>. QED  BY <3>1, <3>2
  <2>4. PICK size \in Nat : size = look \div segments /\ segments * size <= n
    <3>1. PICK x \in Nat : x = look
      BY <1>1
    <3>2. PICK q \in Nat : q = x \div segments /\ q * segments <= x
      BY QuotientIsNat, QuotientBounds
    <3>3. segments * q = q * segments
      OBVIOUS
    <3>. QED  BY <2>2, <3>1, <3>2, <3>3
  <2>5. PICK c \in Nat, d \in Nat :
          /\ c = Cardinality(Contracting(recent, segments, size)) /\ c = Cardinality(Contracting(double, segments, size))
          /\ d = Cardinality(Declining(recent, segments, size)) /\ d = Cardinality(Declining(double, segments, size))
    <3>1. /\ Contracting(double, segments, size) = Contracting(recent, segments, size)
          /\ Declining(double, segments, size) = Declining(recent, segments, size)
          /\ Cardinality(Contracting(recent, segments, size)) \in Nat
          /\ Cardinality(Declining(recent, segments, size)) \in Nat
      <4>1. PICK m \in Nat : m = segments
        OBVIOUS
      <4>2. m * size <= n
        BY <2>4, <4>1
      <4>3. AtTwice(double, recent, n)
        BY <2>1
      <4>. QED  BY ONLY n \in Nat, m \in Nat, size \in Nat, <4>1, <4>2, <4>3, ContractingAtTwice, Zenon
    <3>. QED  BY <3>1
  <2>6. Stretch(1, n, n)
    BY <2>2 DEF Stretch
  <2>7. PICK h, l \in Nat \ {0} : /\ l <= h
                                  /\ MaxIn(Highs(recent), 1, n) = h /\ MaxIn(Highs(double), 1, n) = 2 * h
                                  /\ MinIn(Lows(recent), 1, n) = l /\ MinIn(Lows(double), 1, n) = 2 * l
    BY <2>1, <2>6, RangeAtTwice
  <2>8. VCP(bars) = VcpQuality(len, c, d, h, l)
    <3>1. recent = Recent(bars, BaseBars.vcpLook)
      BY DEF recent
    <3>2. VcpParts(bars, len, recent, n, segments, size, h, l)
      BY <1>2, <2>1, <2>3, <2>4, <2>7, <3>1, Zenon DEF VcpParts
    <3>. QED  BY <2>5, <3>2, VcpIs
  <2>9. VCP(twice) = VcpQuality(len, c, d, 2 * h, 2 * l)
    <3>1. double = Recent(twice, BaseBars.vcpLook)
      BY DEF double
    <3>2. VcpParts(twice, len, double, n, segments, size, 2 * h, 2 * l)
      BY <1>2, <2>1, <2>3, <2>4, <2>7, <3>1, Zenon DEF VcpParts
    <3>. QED  BY <2>5, <3>2, VcpIs
  <2>. QED  BY <2>7, <2>8, <2>9, VcpQualityAtTwice
<1>. QED  BY <1>3, <1>4

-----------------------------------------------------------------------------

LEMMA DetectorsAtTwice ==
  ASSUME NEW n \in Nat, NEW bars, NEW twice, AtTwice(twice, bars, n)
  PROVE  /\ Detectors(twice) = Detectors(bars) /\ IsFiniteSet(DOMAIN Detectors(bars))
         /\ \A p \in DOMAIN Detectors(bars) : Detectors(bars)[p] \in Qualities
<1>1. FlatBase(bars) \in Qualities /\ FlatBase(twice) = FlatBase(bars)
  BY FlatBaseIsSound
<1>2. AscendingBase(bars) \in Qualities /\ AscendingBase(twice) = AscendingBase(bars)
  BY AscendingBaseIsSound
<1>3. CupWithHandleBase(bars) \in Qualities /\ CupWithHandleBase(twice) = CupWithHandleBase(bars)
  BY CupIsSound
<1>4. VCP(bars) \in Qualities /\ VCP(twice) = VCP(bars)
  BY VcpIsSound
<1>5. Detectors(twice) = Detectors(bars)
  BY <1>1, <1>2, <1>3, <1>4 DEF Detectors
<1>6. DOMAIN Detectors(bars) = {"flat_base"} \cup ({"ascending_base"} \cup ({"cup_with_handle"} \cup {"vcp"}))
  BY DEF Detectors
<1>7. IsFiniteSet(DOMAIN Detectors(bars))
  <2>1. /\ IsFiniteSet({"flat_base"}) /\ IsFiniteSet({"ascending_base"})
        /\ IsFiniteSet({"cup_with_handle"}) /\ IsFiniteSet({"vcp"})
    BY FS_Singleton
  <2>2. IsFiniteSet({"cup_with_handle"} \cup {"vcp"})
    BY <2>1, FS_Union
  <2>3. IsFiniteSet({"ascending_base"} \cup ({"cup_with_handle"} \cup {"vcp"}))
    BY <2>1, <2>2, FS_Union
  <2>4. IsFiniteSet({"flat_base"} \cup ({"ascending_base"} \cup ({"cup_with_handle"} \cup {"vcp"})))
    BY <2>1, <2>3, FS_Union
  <2>. QED  BY <1>6, <2>4
<1>8. /\ Detectors(bars)["flat_base"] = FlatBase(bars) /\ Detectors(bars)["ascending_base"] = AscendingBase(bars)
      /\ Detectors(bars)["cup_with_handle"] = CupWithHandleBase(bars) /\ Detectors(bars)["vcp"] = VCP(bars)
  BY DEF Detectors
<1>9. \A p \in DOMAIN Detectors(bars) : Detectors(bars)[p] \in Qualities
  BY <1>1, <1>2, <1>3, <1>4, <1>6, <1>8
<1>. QED  BY <1>5, <1>7, <1>9

\* The pattern engine's rules.
LEMMA PatternIsFair ==
  ASSUME NEW n \in Nat, NEW bars, NEW twice, AtTwice(twice, bars, n)
  PROVE  Pattern(twice) = Pattern(bars) /\ Fair(Pattern(bars)) /\ EngineScore("pattern", Pattern(bars)) \in 0..100
<1> DEFINE detected == Detectors(bars)
<1>1. /\ Detectors(twice) = detected /\ IsFiniteSet(DOMAIN detected)
      /\ \A p \in DOMAIN detected : detected[p] \in Qualities
  BY DetectorsAtTwice
<1>2. Pattern(twice) = Pattern(bars)
  BY <1>1 DEF Pattern
<1>3. DOMAIN Pattern(bars) = DOMAIN detected
  BY DEF Pattern
<1>4. ASSUME NEW p \in DOMAIN detected
      PROVE  Pattern(bars)[p].part \in 0..100
  <2>1. Pattern(bars)[p] = IF detected[p] = None THEN Missing ELSE Rule(TRUE, detected[p])
    BY DEF Pattern
  <2>2. detected[p] # None => detected[p] \in 0..100
    BY <1>1 DEF Qualities
  <2>3. Rule(TRUE, detected[p]).part = detected[p]
    BY DEF Rule
  <2> HIDE DEF detected
  <2>. QED  BY <2>1, <2>2, <2>3, MissingIsPart
<1>5. Fair(Pattern(bars))
  BY <1>3, <1>4 DEF Fair
<1>6. IsFiniteSet(DOMAIN Pattern(bars))
  BY <1>1, <1>3
<1>7. EngineScore("pattern", Pattern(bars)) \in 0..100
  BY <1>5, <1>6, ScoreIsPercentage
<1>. QED  BY <1>2, <1>5, <1>7

LEMMA BasesSound ==
  ASSUME InputOK
  PROVE  BasesAreSound
<1> SUFFICES ASSUME Is("bases") PROVE BasesAreSound
  BY DEF BasesAreSound
<1> DEFINE bars == input.value
           twice == [i \in DOMAIN bars |-> Twice(bars[i])]
<1>1. Drawn(bars)
  BY BasesAssumption DEF InputOK, Is, Idle
<1> HIDE DEF bars
<1>2. bars \in Seq(Bars) /\ Framed(bars)
  BY <1>1 DEF Drawn, Bars, Framed
<1>3. PICK n \in Nat : bars \in [1..n -> Bars]
  BY <1>2
<1>4. DOMAIN bars = 1..n
  BY <1>3
<1>5. \A i \in 1..n : /\ twice[i].high = 2 * bars[i].high /\ twice[i].low = 2 * bars[i].low
                      /\ twice[i].close = 2 * bars[i].close /\ twice[i].volume = bars[i].volume
  <2>1. \A i \in 1..n : twice[i] = Twice(bars[i]) /\ bars[i] \in Bars
    BY <1>3, <1>4
  <2> HIDE DEF twice
  <2>. QED  BY <2>1, TwiceIs
<1>6. twice = [i \in 1..n |-> twice[i]]
  BY <1>4
<1>7. AtTwice(twice, bars, n)
  <2> HIDE DEF twice
  <2>. QED  BY <1>2, <1>3, <1>5, <1>6 DEF AtTwice
<1>8. Pattern(twice) = Pattern(bars) /\ Fair(Pattern(bars)) /\ EngineScore("pattern", Pattern(bars)) \in 0..100
  <2> HIDE DEF twice
  <2>. QED  BY <1>7, PatternIsFair
<1>9. \A p \in DOMAIN Pattern(bars) : Pattern(bars)[p].part \in 0..100
  BY <1>8 DEF Fair
<1>. QED  BY <1>8, <1>9 DEF BasesAreSound, bars, twice, Twice

\* No engine adds more than its weights or less than nothing, no base is another
\* at twice the price, and what is missing qualifies nobody (trend.py, volume.py,
\* momentum_quality.py, breakout.py, relative_strength.py, pattern.py).
THEOREM AnyEngineIsSound == Spec => []EnginesAreSound
<1>1. InputOK => EnginesAreSound
  BY ScoresArePercentages, BasesSound, MissingNeverQualifies DEF EnginesAreSound
<1>. QED  BY <1>1, InputsAreGiven, PTL

-----------------------------------------------------------------------------
(* Ratings.                                                                  *)

LEMMA ItemsAtIs ==
  ASSUME NEW n \in Nat, NEW at \in SUBSET (1..n)
  PROVE  /\ IsFiniteSet(at) /\ Cardinality(at) \in Nat
         /\ \E e : /\ Enumerates(e, at, Cardinality(at))
                   /\ \A s : ItemsAt(s, at) = [k \in 1..Cardinality(at) |-> s[e[k]]]
<1>1. \A i \in at : i \in Int
  OBVIOUS
<1>2. IsFiniteSet(at) /\ Cardinality(at) \in Nat
  <2>1. IsFiniteSet(1..n)
    BY FS_Interval
  <2>2. IsFiniteSet(at)
    BY <2>1, FS_Subset
  <2>. QED  BY <2>2, FS_CardinalityType
<1>3. /\ {Cardinality(PlacesTo(at, i)) : i \in at} = 1..Cardinality(at)
      /\ \A i, j \in at : i < j => Cardinality(PlacesTo(at, i)) < Cardinality(PlacesTo(at, j))
      /\ \A i \in at : Cardinality(PlacesTo(at, i)) \in Nat
  BY <1>1, <1>2, PlacesAreNumbered
<1> DEFINE c == Cardinality(at)
           e == [k \in 1..c |-> CHOOSE i \in at : Cardinality(PlacesTo(at, i)) = k]
<1>4. \A s : ItemsAt(s, at) = [k \in 1..c |-> s[e[k]]]
  BY DEF ItemsAt, PlacesTo
<1>5. \A k \in 1..c : e[k] \in at /\ Cardinality(PlacesTo(at, e[k])) = k
  <2>1. \A k \in 1..c : \E i \in at : Cardinality(PlacesTo(at, i)) = k
    BY <1>3
  <2>. QED  BY <2>1
<1>6. \A i \in at : Cardinality(PlacesTo(at, i)) \in 1..c
  BY <1>3
<1>7. e \in [1..c -> at]
  BY <1>5
<1> HIDE DEF e, c
<1>8. ASSUME NEW j \in 1..c, NEW k \in 1..c, j < k PROVE e[j] < e[k]
  <2>1. e[j] \in at /\ e[k] \in at /\ Cardinality(PlacesTo(at, e[j])) = j /\ Cardinality(PlacesTo(at, e[k])) = k
    BY <1>5
  <2>2. \A x, y \in at : Cardinality(PlacesTo(at, x)) = j /\ Cardinality(PlacesTo(at, y)) = k => x < y
    <3> SUFFICES ASSUME NEW x \in at, NEW y \in at, Cardinality(PlacesTo(at, x)) = j,
                        Cardinality(PlacesTo(at, y)) = k
                 PROVE  x < y
      OBVIOUS
    <3>1. x \in Int /\ y \in Int /\ j \in Int /\ k \in Int /\ x # y
      BY <1>1, <1>8
    <3>2. ~(y < x)
      BY <1>3, <1>8, <3>1
    <3>. QED  BY <3>1, <3>2
  <2>. QED  BY <2>1, <2>2
<1>9. ASSUME NEW i \in at PROVE \E k \in 1..c : e[k] = i
  <2>1. PICK k \in 1..c : k = Cardinality(PlacesTo(at, i))
    BY <1>6
  <2>2. e[k] \in at /\ Cardinality(PlacesTo(at, e[k])) = k
    BY <1>5
  <2>3. \A x \in at : Cardinality(PlacesTo(at, x)) = k => x = i
    <3> SUFFICES ASSUME NEW x \in at, Cardinality(PlacesTo(at, x)) = k PROVE x = i
      OBVIOUS
    <3>1. x \in Int /\ i \in Int /\ ~(x < i) /\ ~(i < x)
      BY <1>1, <1>3, <2>1
    <3>. QED  BY <3>1
  <2>. QED  BY <2>2, <2>3
<1>10. Enumerates(e, at, c)
  BY <1>7, <1>8, <1>9 DEF Enumerates
<1>. QED  BY <1>2, <1>4, <1>10 DEF c

-----------------------------------------------------------------------------
\* Rounding keeps the order.
Rounded(a, b, q, r) ==
  /\ q = a \div b /\ a = q * b + r /\ q * b \in Int /\ 0 <= r /\ r < b
  /\ RoundHalfEven(a, b) = IF 2 * r > b \/ (2 * r = b /\ q % 2 = 1) THEN q + 1 ELSE q

LEMMA RoundedIs ==
  ASSUME NEW a \in Int, NEW b \in Nat \ {0}
  PROVE  \E q \in Int, r \in Int : Rounded(a, b, q, r)
<1>1. PICK q \in Int : q = a \div b /\ q * b <= a /\ a < q * b + b
  BY QuotientBounds
<1>2. PICK r \in Int : r = a % b
  OBVIOUS
<1>3. a = (a \div b) * b + (a % b)
  OBVIOUS
<1>4. q * b \in Int /\ a = q * b + r
  BY <1>1, <1>2, <1>3
<1>5. RoundHalfEven(a, b) = IF 2 * r > b \/ (2 * r = b /\ q % 2 = 1) THEN q + 1 ELSE q
  BY <1>1, <1>2 DEF RoundHalfEven
<1>6. 0 <= r /\ r < b
  BY <1>1, <1>4
<1>7. Rounded(a, b, q, r)
  BY <1>1, <1>4, <1>5, <1>6 DEF Rounded
<1>. QED  BY <1>7

LEMMA RoundsFollow ==
  ASSUME NEW a \in Int, NEW c \in Int, NEW b \in Nat \ {0}, a <= c
  PROVE  RoundHalfEven(a, b) \in Int /\ RoundHalfEven(c, b) \in Int /\ RoundHalfEven(a, b) <= RoundHalfEven(c, b)
<1>1. PICK q \in Int, r \in Int : Rounded(a, b, q, r)
  BY RoundedIs
<1>2. PICK u \in Int, t \in Int : Rounded(c, b, u, t)
  BY RoundedIs
<1>3. q <= u
  BY <1>1, <1>2, QuotientsFollow DEF Rounded
<1>4. CASE q = u
  <2>1. r <= t
    BY <1>1, <1>2, <1>4 DEF Rounded
  <2>2. \A par : RoundHalfEven(a, b) = (IF 2 * r > b \/ (2 * r = b /\ par = 1) THEN q + 1 ELSE q)
               /\ RoundHalfEven(c, b) = (IF 2 * t > b \/ (2 * t = b /\ par = 1) THEN q + 1 ELSE q)
               => /\ RoundHalfEven(a, b) \in Int /\ RoundHalfEven(c, b) \in Int
                  /\ RoundHalfEven(a, b) <= RoundHalfEven(c, b)
    BY <2>1
  <2>. QED  BY <1>1, <1>2, <1>4, <2>2 DEF Rounded
<1>5. CASE q # u
  <2>1. q + 1 <= u
    BY <1>3, <1>5
  <2>. QED  BY <1>1, <1>2, <2>1 DEF Rounded
<1>. QED  BY <1>4, <1>5

LEMMA RoundsExactly ==
  ASSUME NEW k \in Int, NEW b \in Nat \ {0}
  PROVE  RoundHalfEven(k * b, b) = k
<1>1. PICK a \in Int : a = k * b
  OBVIOUS
<1>2. PICK q \in Int, r \in Int : Rounded(a, b, q, r)
  BY RoundedIs
<1>3. k * b \in Int /\ k * b < q * b + b /\ q * b < k * b + b
  BY <1>1, <1>2 DEF Rounded
<1>4. k <= q /\ q <= k
  BY <1>2, <1>3, QuotientsOrdered
<1>5. q = k
  BY <1>4
<1>6. q * b = k * b
  BY <1>5
<1>7. r = 0
  BY <1>1, <1>2, <1>6 DEF Rounded
<1>. QED  BY <1>1, <1>2, <1>5, <1>7 DEF Rounded

-----------------------------------------------------------------------------
\* A percentile: so many of so many are no greater.
PlaceOf(below, n) == Max({1, Min({99, RoundHalfEven(98 * below + n, n)})})

AtMost(s, value) == {i \in PlacesOf(s) : s[i] <= value}

LEMMA PercentileIs ==
  ASSUME NEW n \in Nat, NEW s, DOMAIN s = 1..n, NEW value
  PROVE  /\ IsFiniteSet(PlacesOf(s)) /\ Cardinality(PlacesOf(s)) \in Nat
         /\ IsFiniteSet(AtMost(s, value)) /\ Cardinality(AtMost(s, value)) \in Nat
         /\ PercentileRank(value, Defined(s)) =
              IF Cardinality(PlacesOf(s)) = 0 THEN 50
              ELSE PlaceOf(Cardinality(AtMost(s, value)), Cardinality(PlacesOf(s)))
<1>1. PlacesOf(s) \in SUBSET (1..n) /\ AtMost(s, value) \in SUBSET PlacesOf(s)
  BY DEF PlacesOf, AtMost
<1>0. IsFiniteSet(PlacesOf(s)) /\ \E c \in Nat : c = Cardinality(PlacesOf(s))
  BY <1>1, ItemsAtIs
<1>a. PICK c \in Nat : c = Cardinality(PlacesOf(s))
  BY <1>0
<1>b. PICK e : /\ Enumerates(e, PlacesOf(s), Cardinality(PlacesOf(s)))
               /\ \A x : ItemsAt(x, PlacesOf(s)) = [k \in 1..Cardinality(PlacesOf(s)) |-> x[e[k]]]
  BY <1>1, ItemsAtIs
<1>2. /\ IsFiniteSet(PlacesOf(s)) /\ Cardinality(PlacesOf(s)) = c /\ Enumerates(e, PlacesOf(s), c)
      /\ ItemsAt(s, PlacesOf(s)) = [k \in 1..c |-> s[e[k]]]
  BY <1>0, <1>a, <1>b
<1>3. Defined(s) = [k \in 1..c |-> s[e[k]]]
  BY <1>2 DEF Defined, PlacesOf
<1> DEFINE items == Defined(s)
           A == {k \in DOMAIN items : items[k] <= value}
<1>4. DOMAIN items = 1..c /\ Len(items) = c /\ \A k \in 1..c : items[k] = s[e[k]]
  <2>1. items \in [1..c -> {items[k] : k \in 1..c}]
    BY <1>3
  <2>2. Len(items) = c
    <3> HIDE DEF items
    <3>. QED  BY <2>1, ListOf
  <2>. QED  BY <1>3, <2>2
<1> HIDE DEF items
<1>5. items = <<>> <=> c = 0
  <2>1. items \in [1..c -> {items[k] : k \in 1..c}]
    BY <1>3 DEF items
  <2>2. items \in Seq({items[k] : k \in 1..c})
    BY <2>1
  <2>. QED  BY <1>4, <2>2
<1>6. A \in SUBSET (1..c) /\ \A k \in 1..c : k \in A <=> e[k] \in AtMost(s, value)
  <2>1. \A k \in 1..c : e[k] \in PlacesOf(s)
    BY <1>2 DEF Enumerates
  <2>. QED  BY <1>4, <2>1 DEF AtMost
<1> HIDE DEF A
<1>7. Cardinality(A) = Cardinality(AtMost(s, value)) /\ IsFiniteSet(AtMost(s, value)) /\ Cardinality(A) \in Nat
  <2>1. PICK B : B = AtMost(s, value)
    OBVIOUS
  <2>2. B \in SUBSET PlacesOf(s) /\ \A k \in 1..c : k \in A <=> e[k] \in B
    BY <1>1, <1>6, <2>1
  <2>3. IsFiniteSet(A) /\ IsFiniteSet(B) /\ Cardinality(A) \in Nat /\ Cardinality(A) = Cardinality(B)
    <3>1. Along(A, B, e, PlacesOf(s), c, n)
      BY <1>1, <1>2, <1>6, <2>2 DEF Along
    <3>. QED  BY <3>1, CountsAlong
  <2>. QED  BY <2>1, <2>3
<1>8. PercentileRank(value, items) = IF c = 0 THEN 50 ELSE PlaceOf(Cardinality(A), c)
  BY <1>4, <1>5 DEF PercentileRank, PlaceOf, A
<1>. QED  BY <1>2, <1>7, <1>8 DEF items

LEMMA PlacesFollow ==
  ASSUME NEW n \in Nat \ {0}, NEW b \in Nat, NEW c \in Nat, b <= c
  PROVE  PlaceOf(b, n) \in Int /\ PlaceOf(c, n) \in Int /\ PlaceOf(b, n) <= PlaceOf(c, n)
<1>1. PICK i \in Int, j \in Int : i = 98 * b + n /\ j = 98 * c + n /\ i <= j
  <2>1. 98 * b + n \in Int /\ 98 * c + n \in Int /\ 98 * b + n <= 98 * c + n
    OBVIOUS
  <2>. QED  BY <2>1
<1>a. RoundHalfEven(i, n) \in Int /\ RoundHalfEven(j, n) \in Int /\ RoundHalfEven(i, n) <= RoundHalfEven(j, n)
  BY <1>1, RoundsFollow
<1>2. PICK x \in Int, y \in Int : x = RoundHalfEven(98 * b + n, n) /\ y = RoundHalfEven(98 * c + n, n) /\ x <= y
  BY <1>1, <1>a
<1>3. /\ Min({99, x}) = (IF 99 < x THEN 99 ELSE x) /\ Min({99, y}) = (IF 99 < y THEN 99 ELSE y)
  <2>1. {99, x} = {99, x} /\ 99 \in Int
    OBVIOUS
  <2>. QED  BY <2>1, BoundsOfPair
<1>4. PICK z \in Int, w \in Int : z = Min({99, x}) /\ w = Min({99, y}) /\ z <= w
  BY <1>2, <1>3
<1>5. Max({1, z}) = (IF 1 < z THEN z ELSE 1) /\ Max({1, w}) = (IF 1 < w THEN w ELSE 1)
  <2>1. 1 \in Int
    OBVIOUS
  <2>. QED  BY <2>1, BoundsOfPair
<1>. QED  BY <1>2, <1>4, <1>5 DEF PlaceOf

-----------------------------------------------------------------------------
\* A universe.
Weighted(weights) ==
  /\ IsFiniteSet(DOMAIN weights) /\ DOMAIN weights \subseteq Nat
  /\ \A p \in DOMAIN weights : weights[p] \in Nat

LEMMA BlendedIsKnown ==
  ASSUME NEW closes \in Seq(Nat), NEW weights, Weighted(weights)
  PROVE  BlendedReturn(closes, weights) \in Int \cup {None}
<1> DEFINE n == Len(closes)
           Back(p) == Min({p, n - 1})
           usable == {p \in DOMAIN weights : n > 1 /\ closes[n - Back(p)] > 0}
           total == SumFunctionOnSet(weights, usable)
           weighed == [p \in usable |-> weights[p] * Percent(closes[n] - closes[n - Back(p)], closes[n - Back(p)])]
<1>1. BlendedReturn(closes, weights) = IF total <= 0 THEN None ELSE SumFunction(weighed) \div total
  BY DEF BlendedReturn
<1>2. IsFiniteSet(usable)
  <2>1. usable \subseteq DOMAIN weights
    OBVIOUS
  <2> HIDE DEF usable
  <2>. QED  BY <2>1, FS_Subset DEF Weighted
<1>3. total \in Nat
  <2>1. \A p \in usable : weights[p] \in Nat
    BY DEF Weighted
  <2>2. Sum(weights, usable) \in Nat
    <3> HIDE DEF usable
    <3>. QED  BY <1>2, <2>1, SumOfNaturals
  <2> HIDE DEF usable
  <2>. QED  BY <2>2 DEF Sum
<1>4. ASSUME NEW p \in usable PROVE weighed[p] \in Int
  <2>1. PICK k \in Nat : k = n /\ k > 1 /\ closes[k] \in Nat
    OBVIOUS
  <2>2. p \in Nat /\ p \in Int /\ k - 1 \in Int
    BY <2>1 DEF Weighted
  <2>3. Min({p, k - 1}) = IF p < k - 1 THEN p ELSE k - 1
    BY <2>2, BoundsOfPair
  <2>4. PICK i \in 1..k : i = n - Back(p)
    BY <2>1, <2>2, <2>3
  <2>5. PICK x \in Nat, y \in Nat : x = closes[k] /\ y = closes[i] /\ y > 0
    BY <2>1, <2>4
  <2>6. weighed[p] = weights[p] * Percent(x - y, y)
    BY <2>1, <2>4, <2>5
  <2>7. Percent(x - y, y) = (100 * (x - y)) \div y
    BY <2>5 DEF Percent
  <2>8. PICK z \in Int : z = 100 * (x - y)
    OBVIOUS
  <2>9. PICK r \in Int : r = z \div y
    <3>1. y \in Nat \ {0}
      BY <2>5
    <3>. QED  BY <3>1, QuotientBounds
  <2>10. weights[p] \in Nat
    BY DEF Weighted
  <2>11. weighed[p] = weights[p] * r
    BY <2>6, <2>7, <2>8, <2>9
  <2> HIDE DEF weighed
  <2>. QED  BY <2>10, <2>11
<1>5. SumFunction(weighed) \in Int
  <2>1. DOMAIN weighed = usable
    OBVIOUS
  <2> HIDE DEF weighed, usable
  <2>2. Summable(weighed, usable)
    BY <1>2, <1>4 DEF Summable
  <2>. QED  BY <2>1, <2>2, SumUnfolds, SumFunctionIsSum
<1> HIDE DEF total, weighed
<1>6. CASE total <= 0
  BY <1>1, <1>6
<1>7. CASE ~(total <= 0)
  <2>1. PICK x \in Int, y \in Nat \ {0} : x = SumFunction(weighed) /\ y = total
    BY <1>3, <1>5, <1>7
  <2>2. x \div y \in Int
    BY QuotientBounds
  <2>. QED  BY <1>1, <1>7, <2>1, <2>2
<1>. QED  BY <1>6, <1>7

\* Who is rated behind another.
AheadIn(b, i) == {j \in PlacesOf(b) : b[j] < b[i] \/ (b[j] = b[i] /\ j < i)}

RatingsOf(b) ==
  IF Cardinality(PlacesOf(b)) < 2 THEN <<>>
  ELSE [i \in PlacesOf(b) |->
          RoundHalfEven(98 * Cardinality(AheadIn(b, i)), Cardinality(PlacesOf(b)) - 1) + 1]

LEMMA UniverseRatingsAre ==
  ASSUME NEW universe, NEW weights, NEW b, b = [i \in DOMAIN universe |-> BlendedReturn(universe[i], weights)]
  PROVE  UniverseRatings(universe, weights) = RatingsOf(b)
<1>1. PlacesOf(b) = {i \in DOMAIN universe : b[i] # None}
  BY DEF PlacesOf
<1>2. UniverseRatings(universe, weights) =
        IF Cardinality(PlacesOf(b)) < 2 THEN <<>>
        ELSE [i \in PlacesOf(b) |->
                RoundHalfEven(98 * Cardinality({j \in PlacesOf(b) : b[j] < b[i] \/ (b[j] = b[i] /\ j < i)}),
                              Cardinality(PlacesOf(b)) - 1) + 1]
  BY <1>1 DEF UniverseRatings
<1>. QED  BY <1>2 DEF RatingsOf, AheadIn

\* Returns that are known are numbers.
Returns(b, n) == n \in Nat /\ DOMAIN b = 1..n /\ \A i \in 1..n : b[i] \in Int \cup {None}

LEMMA AheadIsFinite ==
  ASSUME NEW n, NEW b, Returns(b, n)
  PROVE  /\ PlacesOf(b) \in SUBSET (1..n) /\ IsFiniteSet(PlacesOf(b)) /\ Cardinality(PlacesOf(b)) \in Nat
         /\ \A i \in PlacesOf(b) : i \in Int /\ b[i] \in Int
         /\ \A i \in PlacesOf(b) : AheadIn(b, i) \subseteq PlacesOf(b) /\ IsFiniteSet(AheadIn(b, i))
                                  /\ Cardinality(AheadIn(b, i)) \in Nat
<1>1. n \in Nat /\ DOMAIN b = 1..n
  BY DEF Returns
<1>2. PlacesOf(b) \in SUBSET (1..n) /\ IsFiniteSet(PlacesOf(b)) /\ Cardinality(PlacesOf(b)) \in Nat
  BY <1>1, DefinedCounts
<1>3. \A i \in PlacesOf(b) : i \in Int /\ b[i] \in Int
  BY <1>2 DEF Returns, PlacesOf
<1>4. \A i \in PlacesOf(b) : AheadIn(b, i) \subseteq PlacesOf(b)
  BY DEF AheadIn
<1>. QED  BY <1>2, <1>3, <1>4, FS_Subset, FS_CardinalityType

LEMMA PlacesAreTaken ==
  ASSUME NEW n, NEW b, Returns(b, n)
  PROVE  {1 + Cardinality(AheadIn(b, i)) : i \in PlacesOf(b)} = 1..Cardinality(PlacesOf(b))
<1> DEFINE before == [i \in PlacesOf(b) |-> AheadIn(b, i)]
<1>1. /\ IsFiniteSet(PlacesOf(b)) /\ \A i \in PlacesOf(b) : i \in Int /\ b[i] \in Int
  BY AheadIsFinite
<1>2. /\ \A i \in PlacesOf(b) : before[i] \subseteq PlacesOf(b) \ {i}
      /\ \A i, j \in PlacesOf(b) : i # j => i \in before[j] \/ j \in before[i]
      /\ \A i, j \in PlacesOf(b) : i \in before[j] => before[i] \subseteq before[j]
  BY <1>1 DEF AheadIn
<1>3. {1 + Cardinality(before[i]) : i \in PlacesOf(b)} = 1..Cardinality(PlacesOf(b))
  <2> HIDE DEF before
  <2>. QED  BY <1>1, <1>2, PlacesAreDense
<1>4. \A i \in PlacesOf(b) : before[i] = AheadIn(b, i)
  OBVIOUS
<1> HIDE DEF before
<1>. QED  BY <1>3, <1>4

Follow(ratings, b, places) ==
  /\ DOMAIN ratings \in {{}, places}
  /\ \A i, j \in DOMAIN ratings : b[i] > b[j] => ratings[i] >= ratings[j]
  /\ DOMAIN ratings # {} => {1, 99} \subseteq {ratings[i] : i \in DOMAIN ratings}

LEMMA RatingsFollow ==
  ASSUME NEW n, NEW b, Returns(b, n)
  PROVE  Follow(RatingsOf(b), b, PlacesOf(b))
<1>1. CASE Cardinality(PlacesOf(b)) < 2
  <2>1. RatingsOf(b) = <<>>
    BY <1>1 DEF RatingsOf
  <2>2. DOMAIN RatingsOf(b) = {}
    BY <2>1
  <2>. QED  BY <2>2 DEF Follow
<1>2. CASE ~(Cardinality(PlacesOf(b)) < 2)
  <2>1. PICK c \in Nat : c = Cardinality(PlacesOf(b)) /\ c >= 2
    BY <1>2, AheadIsFinite
  <2>2. c - 1 \in Nat \ {0}
    BY <2>1
  <2>3. RatingsOf(b) = [i \in PlacesOf(b) |-> RoundHalfEven(98 * Cardinality(AheadIn(b, i)), c - 1) + 1]
    BY <1>2, <2>1 DEF RatingsOf
  <2>4. DOMAIN RatingsOf(b) = PlacesOf(b)
    BY <2>3
  <2>5. ASSUME NEW i \in PlacesOf(b), NEW j \in PlacesOf(b), b[i] > b[j]
        PROVE  RatingsOf(b)[i] >= RatingsOf(b)[j]
    <3>1. AheadIn(b, j) \subseteq AheadIn(b, i)
      <4>1. \A k \in PlacesOf(b) : b[k] \in Int
        BY AheadIsFinite
      <4>. QED  BY <2>5, <4>1 DEF AheadIn
    <3>2. Cardinality(AheadIn(b, j)) <= Cardinality(AheadIn(b, i))
      BY <3>1, AheadIsFinite, FS_Subset
    <3>3. PICK x \in Nat, y \in Nat : x = Cardinality(AheadIn(b, i)) /\ y = Cardinality(AheadIn(b, j)) /\ y <= x
      BY <3>2, AheadIsFinite
    <3>4. PICK p \in Int, q \in Int : p = 98 * x /\ q = 98 * y /\ q <= p
      <4>1. 98 * x \in Int /\ 98 * y \in Int /\ 98 * y <= 98 * x
        BY <3>3
      <4>. QED  BY <4>1
    <3>5. /\ RoundHalfEven(p, c - 1) \in Int /\ RoundHalfEven(q, c - 1) \in Int
          /\ RoundHalfEven(q, c - 1) <= RoundHalfEven(p, c - 1)
      BY <2>2, <3>4, RoundsFollow
    <3>6. RatingsOf(b)[i] = RoundHalfEven(p, c - 1) + 1 /\ RatingsOf(b)[j] = RoundHalfEven(q, c - 1) + 1
      BY <2>3, <3>3, <3>4
    <3>. QED  BY <3>5, <3>6
  <2>6. \A k \in {0, c - 1} : \E i \in PlacesOf(b) : Cardinality(AheadIn(b, i)) = k
    <3> SUFFICES ASSUME NEW k \in {0, c - 1} PROVE \E i \in PlacesOf(b) : Cardinality(AheadIn(b, i)) = k
      OBVIOUS
    <3>1. k + 1 \in 1..c /\ k \in Int
      BY <2>1
    <3>2. PICK i \in PlacesOf(b) : k + 1 = 1 + Cardinality(AheadIn(b, i))
      BY <2>1, <3>1, PlacesAreTaken
    <3>3. Cardinality(AheadIn(b, i)) \in Nat
      BY AheadIsFinite
    <3>. QED  BY <3>1, <3>2, <3>3
  <2>7. RoundHalfEven(98 * 0, c - 1) = 0 /\ RoundHalfEven(98 * (c - 1), c - 1) = 98
    <3>1. 0 * (c - 1) = 98 * 0
      BY <2>2
    <3>. QED  BY <2>2, <3>1, RoundsExactly
  <2>8. \E i \in PlacesOf(b) : RatingsOf(b)[i] = 1
    <3>1. PICK i \in PlacesOf(b) : Cardinality(AheadIn(b, i)) = 0
      BY <2>6
    <3>2. RatingsOf(b)[i] = RoundHalfEven(98 * 0, c - 1) + 1
      BY <2>3, <3>1
    <3>3. RatingsOf(b)[i] = 1
      BY <2>7, <3>2
    <3>. QED  BY <3>3
  <2>9. \E i \in PlacesOf(b) : RatingsOf(b)[i] = 99
    <3>1. PICK i \in PlacesOf(b) : Cardinality(AheadIn(b, i)) = c - 1
      BY <2>6
    <3>2. RatingsOf(b)[i] = RoundHalfEven(98 * (c - 1), c - 1) + 1
      BY <2>3, <3>1
    <3>3. RatingsOf(b)[i] = 99
      BY <2>7, <3>2
    <3>. QED  BY <3>3
  <2>. QED  BY <2>4, <2>5, <2>8, <2>9 DEF Follow
<1>. QED  BY <1>1, <1>2

\* What has no return moves the rating of no other.
LEMMA RatingsOfTheKept ==
  ASSUME NEW n, NEW b, Returns(b, n), NEW c, c = Cardinality(PlacesOf(b)), NEW e, Enumerates(e, PlacesOf(b), c),
         NEW k \in DOMAIN RatingsOf([i \in 1..c |-> b[e[i]]])
  PROVE  RatingsOf(b)[e[k]] = RatingsOf([i \in 1..c |-> b[e[i]]])[k]
<1> DEFINE kept == [i \in 1..c |-> b[e[i]]]
<1>1. /\ PlacesOf(b) \in SUBSET (1..n) /\ n \in Nat /\ c \in Nat /\ \A i \in PlacesOf(b) : i \in Int /\ b[i] \in Int
      /\ \A i \in 1..c : e[i] \in PlacesOf(b)
  BY AheadIsFinite DEF Returns, Enumerates
<1>2. PlacesOf(kept) = 1..c
  <2>1. \A i \in 1..c : b[e[i]] # None
    BY <1>1 DEF PlacesOf
  <2>. QED  BY <2>1 DEF PlacesOf
<1>3. Cardinality(PlacesOf(kept)) = c
  <2>1. Cardinality(1..c) = c
    BY <1>1, FS_Interval
  <2> HIDE DEF kept
  <2>. QED  BY <1>2, <2>1
<1>4. \A i \in 1..c : kept[i] = b[e[i]]
  OBVIOUS
<1>5. k \in DOMAIN RatingsOf(kept)
  OBVIOUS
<1> HIDE DEF kept
<1>6. ~(c < 2)
  <2> SUFFICES ASSUME c < 2 PROVE FALSE
    OBVIOUS
  <2>1. RatingsOf(kept) = <<>>
    BY <1>3 DEF RatingsOf
  <2>. QED  BY <1>5, <2>1
<1>7. /\ RatingsOf(kept) = [i \in 1..c |-> RoundHalfEven(98 * Cardinality(AheadIn(kept, i)), c - 1) + 1]
      /\ RatingsOf(b) = [i \in PlacesOf(b) |-> RoundHalfEven(98 * Cardinality(AheadIn(b, i)), c - 1) + 1]
  BY <1>2, <1>3, <1>6 DEF RatingsOf
<1>8. k \in 1..c
  BY <1>5, <1>7
<1>9. Cardinality(AheadIn(kept, k)) = Cardinality(AheadIn(b, e[k]))
  <2>1. AheadIn(kept, k) \in SUBSET (1..c) /\ AheadIn(b, e[k]) \in SUBSET PlacesOf(b)
    BY <1>2 DEF AheadIn
  <2>2. \A j \in 1..c : j < k <=> e[j] < e[k]
    <3> SUFFICES ASSUME NEW j \in 1..c PROVE j < k <=> e[j] < e[k]
      OBVIOUS
    <3>1. e[j] \in Int /\ e[k] \in Int /\ (j < k => e[j] < e[k]) /\ (k < j => e[k] < e[j])
      BY <1>1, <1>8 DEF Enumerates
    <3>2. j = k => e[j] = e[k]
      OBVIOUS
    <3>. QED  BY <1>8, <3>1, <3>2
  <2>3. \A j \in 1..c : j \in AheadIn(kept, k) <=> e[j] \in AheadIn(b, e[k])
    BY <1>1, <1>2, <1>4, <1>8, <2>2 DEF AheadIn
  <2>4. Along(AheadIn(kept, k), AheadIn(b, e[k]), e, PlacesOf(b), c, n)
    BY <1>1, <2>1, <2>3 DEF Along
  <2>. QED  BY <2>4, CountsAlong
<1>10. e[k] \in PlacesOf(b)
  BY <1>1, <1>8
<1>11. RatingsOf(b)[e[k]] = RatingsOf(kept)[k]
  BY <1>7, <1>8, <1>9, <1>10
<1>. QED  BY <1>11 DEF kept

Rates(universe, weights, b, kept, ratings, alone) ==
  /\ universe \in Seq(Seq(Nat)) /\ Weighted(weights)
  /\ b = [i \in DOMAIN universe |-> BlendedReturn(universe[i], weights)]
  /\ kept = ItemsAt([i \in DOMAIN b |-> i], {i \in DOMAIN b : b[i] # None})
  /\ ratings = UniverseRatings(universe, weights)
  /\ alone = UniverseRatings([k \in DOMAIN kept |-> universe[kept[k]]], weights)

LEMMA UniverseIsSound ==
  ASSUME NEW universe, NEW weights, NEW b, NEW kept, NEW ratings, NEW alone,
         Rates(universe, weights, b, kept, ratings, alone)
  PROVE  /\ Follow(ratings, b, ToSet(kept))
         /\ \A k \in DOMAIN alone : ratings[kept[k]] = alone[k]
<1>0. /\ universe \in Seq(Seq(Nat)) /\ Weighted(weights)
      /\ b = [i \in DOMAIN universe |-> BlendedReturn(universe[i], weights)]
      /\ kept = ItemsAt([i \in DOMAIN b |-> i], {i \in DOMAIN b : b[i] # None})
      /\ ratings = UniverseRatings(universe, weights)
      /\ alone = UniverseRatings([k \in DOMAIN kept |-> universe[kept[k]]], weights)
  BY DEF Rates
<1> USE <1>0
<1>1. PICK n \in Nat : n = Len(universe) /\ DOMAIN universe = 1..n
  OBVIOUS
<1>2. Returns(b, n)
  <2>1. \A i \in 1..n : universe[i] \in Seq(Nat)
    BY <1>1
  <2>2. \A i \in 1..n : BlendedReturn(universe[i], weights) \in Int \cup {None}
    BY <2>1, BlendedIsKnown
  <2>. QED  BY <1>1, <2>2 DEF Returns
<1>3. ratings = RatingsOf(b)
  BY UniverseRatingsAre
<1>4. DOMAIN b = 1..n /\ PlacesOf(b) = {i \in DOMAIN b : b[i] # None} /\ PlacesOf(b) \in SUBSET (1..n)
  BY <1>1 DEF PlacesOf
<1>5. PICK c \in Nat : c = Cardinality(PlacesOf(b))
  BY <1>2, AheadIsFinite
<1>6. PICK e : /\ Enumerates(e, PlacesOf(b), Cardinality(PlacesOf(b)))
               /\ \A s : ItemsAt(s, PlacesOf(b)) = [k \in 1..Cardinality(PlacesOf(b)) |-> s[e[k]]]
  BY <1>4, ItemsAtIs
<1>7. Enumerates(e, PlacesOf(b), c) /\ \A k \in 1..c : e[k] \in PlacesOf(b)
  BY <1>5, <1>6 DEF Enumerates
<1>8. kept = [k \in 1..c |-> e[k]]
  <2>0. PICK id : id = [i \in DOMAIN b |-> i]
    OBVIOUS
  <2>1. kept = ItemsAt(id, PlacesOf(b))
    BY <1>4, <2>0
  <2>2. kept = [k \in 1..c |-> id[e[k]]]
    BY <1>5, <1>6, <2>1
  <2>3. \A k \in 1..c : id[e[k]] = e[k]
    BY <1>4, <1>7, <2>0
  <2>. QED  BY <2>2, <2>3
<1>9. ToSet(kept) = PlacesOf(b)
  <2>1. DOMAIN kept = 1..c /\ \A k \in 1..c : kept[k] = e[k]
    BY <1>8
  <2>2. \A i \in PlacesOf(b) : \E k \in 1..c : e[k] = i
    BY <1>7 DEF Enumerates
  <2>3. ASSUME NEW x \in ToSet(kept) PROVE x \in PlacesOf(b)
    <3>1. PICK k \in DOMAIN kept : x = kept[k]
      BY DEF ToSet
    <3>. QED  BY <1>7, <2>1, <3>1
  <2>4. PlacesOf(b) \subseteq ToSet(kept)
    BY <2>1, <2>2 DEF ToSet
  <2>. QED  BY <2>3, <2>4
<1>10. ASSUME NEW k \in DOMAIN alone PROVE ratings[kept[k]] = alone[k]
  <2> DEFINE rest == [i \in DOMAIN kept |-> universe[kept[i]]]
             back == [i \in DOMAIN rest |-> BlendedReturn(rest[i], weights)]
             own == [i \in 1..c |-> b[e[i]]]
  <2>1. back = own
    <3>1. DOMAIN rest = 1..c /\ \A i \in 1..c : rest[i] = universe[e[i]]
      BY <1>8
    <3>2. \A i \in 1..c : e[i] \in DOMAIN universe
      BY <1>1, <1>4, <1>7
    <3>3. \A i \in 1..c : b[e[i]] = BlendedReturn(universe[e[i]], weights)
      BY <3>2
    <3>. QED  BY <3>1, <3>3
  <2>2. alone = RatingsOf(back)
    <3>1. alone = UniverseRatings(rest, weights)
      OBVIOUS
    <3> HIDE DEF rest
    <3>. QED  BY <3>1, UniverseRatingsAre
  <2>3. alone = RatingsOf(own) /\ k \in DOMAIN RatingsOf(own)
    <3> HIDE DEF back, own
    <3>. QED  BY <2>1, <2>2
  <2>4. RatingsOf(b)[e[k]] = RatingsOf(own)[k]
    BY ONLY <1>2, <1>5, <1>7, <2>3, RatingsOfTheKept
  <2>5. DOMAIN alone \subseteq 1..c
    <3>1. PlacesOf(own) \subseteq 1..c
      BY DEF PlacesOf
    <3>2. DOMAIN RatingsOf(own) \in {{}, PlacesOf(own)}
      <4> HIDE DEF own
      <4>1. CASE Cardinality(PlacesOf(own)) < 2
        <5>1. RatingsOf(own) = <<>>
          BY <4>1 DEF RatingsOf
        <5>. QED  BY <5>1
      <4>2. CASE ~(Cardinality(PlacesOf(own)) < 2)
        BY <4>2 DEF RatingsOf
      <4>. QED  BY <4>1, <4>2
    <3> HIDE DEF own
    <3>. QED  BY <2>3, <3>1, <3>2
  <2> HIDE DEF own
  <2>. QED  BY <1>3, <1>8, <2>3, <2>4, <2>5
<1>11. Follow(RatingsOf(b), b, PlacesOf(b))
  BY <1>2, RatingsFollow
<1>12. Follow(ratings, b, ToSet(kept))
  BY <1>3, <1>9, <1>11
<1>. QED  BY <1>10, <1>12

-----------------------------------------------------------------------------
\* Against a benchmark.
Priced(history) == Dated(history) /\ \A i \in 1..Len(history) : history[i].close \in Nat

LEMMA FetchedBarsAre ==
  ASSUME NEW history, Priced(history), NEW date \in Int
  PROVE  \E m \in Nat : /\ Len(BarsUpTo(history, date)) = m /\ DOMAIN BarsUpTo(history, date) = 1..m
                        /\ \A i \in 1..m : BarsUpTo(history, date)[i].close \in Nat
<1> DEFINE upTo == Through(history, date)
<1>1. /\ Len(history) \in Nat /\ CountThrough(history, date) \in 0..Len(history)
      /\ Len(upTo) = CountThrough(history, date)
      /\ \A i \in 1..CountThrough(history, date) : upTo[i] = history[i]
  <2>1. Dated(history)
    BY DEF Priced
  <2>2. CountThrough(history, date) \in 0..Len(history) /\ Len(history) \in Nat
    BY <2>1, CountSplits DEF Dated
  <2>. QED  BY <2>1, <2>2, Parts
<1>2. PICK c \in Nat : c = Len(upTo) /\ c <= Len(history) /\ \A i \in 1..c : upTo[i] = history[i]
  BY <1>1
<1> HIDE DEF upTo
<1>3. PICK f \in Int : f = Max({1, c - FetchLimit + 1}) /\ f >= 1
  <2>1. 1 \in Int /\ c - FetchLimit + 1 \in Int
    BY RatingsAssumption
  <2>2. Max({1, c - FetchLimit + 1}) = IF 1 < c - FetchLimit + 1 THEN c - FetchLimit + 1 ELSE 1
    BY <2>1, BoundsOfPair
  <2>. QED  BY <2>1, <2>2
<1>4. BarsUpTo(history, date) = SubSeq(upTo, f, c)
  BY <1>2, <1>3 DEF BarsUpTo, upTo
<1> DEFINE S == {upTo[i] : i \in f..c}
<1>5. \A i \in f..c : upTo[i] \in S
  OBVIOUS
<1>6. \A x \in S : x.close \in Nat
  <2>1. \A i \in f..c : i \in 1..c /\ i \in 1..Len(history)
    BY <1>1, <1>2, <1>3
  <2>. QED  BY <1>2, <2>1 DEF Priced
<1> HIDE DEF S
<1>7. SubSeq(upTo, f, c) \in Seq(S)
  <2>1. f \in Int /\ c \in Int /\ \A i \in f..c : upTo[i] \in S
    BY <1>5
  <2>. QED  BY <2>1, SubSeqProperties
<1>8. PICK bars \in Seq(S) : bars = BarsUpTo(history, date)
  BY <1>4, <1>7
<1>9. Len(bars) \in Nat /\ DOMAIN bars = 1..Len(bars) /\ \A i \in 1..Len(bars) : bars[i].close \in Nat
  BY <1>6, <1>8
<1>. QED  BY <1>8, <1>9

\* The closes on the dates in common are closes of the security.
LEMMA AlignedIs ==
  ASSUME NEW history, Priced(history), NEW bench, NEW date \in Int
  PROVE  Aligned(history, bench, date).stock \in Seq(Nat)
<1> DEFINE mine == BarsUpTo(history, date)
           theirs == BarsUpTo(bench, date)
           dates == {theirs[i].date : i \in DOMAIN theirs}
           at == {i \in DOMAIN mine : mine[i].date \in dates}
           stock == Closes(ItemsAt(mine, at))
<1>1. PICK m \in Nat : DOMAIN mine = 1..m /\ \A i \in 1..m : mine[i].close \in Nat
  BY FetchedBarsAre
<1>2. Aligned(history, bench, date).stock \in {<<>>, stock}
  BY DEF Aligned
<1> HIDE DEF mine, dates
<1>3. at \in SUBSET (1..m)
  BY <1>1
<1> HIDE DEF at
<1>4. PICK c \in Nat : c = Cardinality(at)
  BY <1>3, ItemsAtIs
<1>5. PICK e : /\ Enumerates(e, at, Cardinality(at))
               /\ \A s : ItemsAt(s, at) = [k \in 1..Cardinality(at) |-> s[e[k]]]
  BY <1>3, ItemsAtIs
<1>6. \A k \in 1..c : e[k] \in 1..m
  BY <1>3, <1>4, <1>5 DEF Enumerates
<1>7. ItemsAt(mine, at) = [k \in 1..c |-> mine[e[k]]]
  BY <1>4, <1>5
<1>8. stock = [k \in 1..c |-> mine[e[k]].close]
  BY <1>7 DEF Closes
<1>9. \A k \in 1..c : mine[e[k]].close \in Nat
  BY <1>1, <1>6
<1> HIDE DEF stock
<1>10. stock \in [1..c -> Nat]
  BY <1>8, <1>9
<1>11. stock \in Seq(Nat) /\ <<>> \in Seq(Nat)
  BY <1>10
<1>. QED  BY <1>2, <1>11

LEMMA CompositeIsInt ==
  ASSUME NEW prices \in Seq(Nat)
  PROVE  IbdComposite(prices) \in Int
<1> DEFINE n == Len(prices)
           At(back) == prices[n - back * Quarter]
           Q(from) == IF At(from) = 0 THEN 0 ELSE Percent(At(from - 1) - At(from), At(from))
<1>1. IbdComposite(prices) = IF n < Year + 1 THEN 0 ELSE (2 * Q(1) + Q(2) + Q(3) + Q(4)) \div 5
  BY DEF IbdComposite
<1>2. CASE n < Year + 1
  BY <1>1, <1>2
<1>3. CASE ~(n < Year + 1)
  <2>1. \A back \in 0..4 : At(back) \in Nat
    <3> SUFFICES ASSUME NEW back \in 0..4 PROVE At(back) \in Nat
      OBVIOUS
    <3>1. PICK q \in Nat : q = Quarter
      BY RatingsAssumption
    <3>2. back * q \in Nat /\ back * q <= 4 * q
      OBVIOUS
    <3>3. n \in Nat /\ n >= 4 * q + 1
      BY <1>3, <3>1 DEF Year
    <3>4. n - back * q \in 1..n
      BY <3>2, <3>3
    <3>. QED  BY <3>1, <3>4
  <2> HIDE DEF At
  <2>2. \A from \in 1..4 : Q(from) \in Int
    <3> SUFFICES ASSUME NEW from \in 1..4 PROVE Q(from) \in Int
      OBVIOUS
    <3>1. from \in 0..4 /\ from - 1 \in 0..4
      OBVIOUS
    <3>2. PICK x \in Nat, y \in Nat : x = At(from - 1) /\ y = At(from)
      BY <2>1, <3>1
    <3>3. CASE y = 0
      BY <3>2, <3>3
    <3>4. CASE y # 0
      <4>1. PICK z \in Int : z = 100 * (x - y)
        OBVIOUS
      <4>2. z \div y \in Int
        <5>1. y \in Nat \ {0}
          BY <3>4
        <5>. QED  BY <5>1, QuotientBounds
      <4>3. Q(from) = z \div y
        BY <3>2, <3>4, <4>1 DEF Percent
      <4>. QED  BY <4>2, <4>3
    <3>. QED  BY <3>3, <3>4
  <2>3. Q(1) \in Int /\ Q(2) \in Int /\ Q(3) \in Int /\ Q(4) \in Int
    BY <2>2
  <2> HIDE DEF Q
  <2>4. PICK z \in Int : z = 2 * Q(1) + Q(2) + Q(3) + Q(4)
    BY <2>3
  <2>5. z \div 5 \in Int
    BY QuotientBounds
  <2>. QED  BY <1>1, <1>3, <2>4, <2>5
<1>. QED  BY <1>2, <1>3

LEMMA CompositeIs ==
  ASSUME NEW security, Priced(security.history), NEW bench, NEW date \in Int, NEW least
  PROVE  Composite(security, bench, date, least) \in Int \cup {None}
<1>1. PICK prices \in Seq(Nat) : prices = Aligned(security.history, bench, date).stock
  BY AlignedIs
<1>2. IbdComposite(prices) \in Int
  BY CompositeIsInt
<1>. QED  BY <1>1, <1>2 DEF Composite

\* Who has the bars for a rating of its own is a peer to others.
LEMMA CompositeStays ==
  ASSUME NEW security, Priced(security.history), NEW bench, NEW date \in Int,
         Composite(security, bench, date, MinBars) # None
  PROVE  Composite(security, bench, date, Year) = Composite(security, bench, date, MinBars)
<1>1. PICK m \in Nat : m = Len(BarsUpTo(security.history, date))
  BY FetchedBarsAre
<1>2. ~(m < MinBars)
  BY <1>1 DEF Composite
<1>3. ~(m < Year)
  <2>1. Year \in Nat /\ MinBars \in Nat /\ Year <= MinBars
    BY RatingsAssumption DEF Year
  <2>. QED  BY <1>2, <2>1
<1>. QED  BY <1>1, <1>2, <1>3 DEF Composite

\* Rated among others, the better of two is rated no worse: as many are
\* compared with either, and whoever is no better than the worse is no better
\* than the better.
Among(securities, i, bench, date) ==
  [j \in DOMAIN securities |->
     IF j \in DOMAIN securities \ {i} THEN Composite(securities[j], bench, date, Year) ELSE None]

AllPriced(securities, n) ==
  /\ n \in Nat /\ DOMAIN securities = 1..n
  /\ \A j \in 1..n : Priced(securities[j].history)

LEMMA BetterAmongOthers ==
  ASSUME NEW securities, NEW n, AllPriced(securities, n), NEW bench, NEW date \in Int,
         NEW i \in 1..n, NEW j \in 1..n, NEW x \in Int, NEW y \in Int, y < x,
         x = Composite(securities[i], bench, date, MinBars), y = Composite(securities[j], bench, date, MinBars)
  PROVE  PercentileRank(y, Defined(Among(securities, j, bench, date)))
           <= PercentileRank(x, Defined(Among(securities, i, bench, date)))
<1> DEFINE c == [k \in 1..n |-> Composite(securities[k], bench, date, Year)]
           s == Among(securities, i, bench, date)
           t == Among(securities, j, bench, date)
           all == PlacesOf(c)
<1>1. n \in Nat /\ DOMAIN securities = 1..n /\ DOMAIN c = 1..n /\ DOMAIN s = 1..n /\ DOMAIN t = 1..n
  BY DEF AllPriced, Among
<1>2. c[i] = x /\ c[j] = y /\ i # j
  <2>1. Priced(securities[i].history) /\ Priced(securities[j].history)
    BY DEF AllPriced
  <2>2. x # None /\ y # None
    BY NoneAssumption
  <2>. QED  BY <2>1, <2>2, CompositeStays
<1>3. \A k \in 1..n : /\ c[k] \in Int \cup {None}
                      /\ s[k] = (IF k = i THEN None ELSE c[k]) /\ t[k] = (IF k = j THEN None ELSE c[k])
  <2>1. \A k \in 1..n : c[k] \in Int \cup {None}
    BY CompositeIs DEF AllPriced
  <2>. QED  BY <1>1, <2>1 DEF Among
<1> HIDE DEF c, s, t
<1>4. all \in SUBSET (1..n) /\ IsFiniteSet(all)
  BY <1>1, DefinedCounts
<1>5. i \in all /\ j \in all
  BY <1>1, <1>2, NoneAssumption DEF PlacesOf
<1>6. PlacesOf(s) = all \ {i} /\ PlacesOf(t) = all \ {j}
  BY <1>1, <1>3 DEF PlacesOf
<1> HIDE DEF all
<1>7. PICK m \in Nat : m = Cardinality(all \ {i}) /\ m = Cardinality(all \ {j})
  <2>1. Cardinality(all \ {i}) = Cardinality(all) - 1 /\ Cardinality(all \ {j}) = Cardinality(all) - 1
    BY <1>4, <1>5, FS_RemoveElement
  <2>2. IsFiniteSet(all \ {i})
    BY <1>4, FS_Subset
  <2>. QED  BY <2>1, <2>2, FS_CardinalityType
<1>8. m # 0
  <2>1. j \in all \ {i} /\ IsFiniteSet(all \ {i})
    BY <1>2, <1>4, <1>5, FS_Subset
  <2>. QED  BY <1>7, <2>1, FS_EmptySet
<1>9. AtMost(t, y) \subseteq AtMost(s, x)
  <2> SUFFICES ASSUME NEW k \in AtMost(t, y) PROVE k \in AtMost(s, x)
    OBVIOUS
  <2>1. k \in all /\ k # j /\ t[k] <= y
    BY <1>6 DEF AtMost
  <2>2. k \in 1..n /\ c[k] \in Int /\ t[k] = c[k]
    <3>1. k \in 1..n /\ c[k] # None
      BY <1>1, <2>1 DEF all, PlacesOf
    <3>. QED  BY <1>3, <2>1, <3>1
  <2>3. k # i
    BY <1>2, <2>1, <2>2
  <2>4. s[k] = c[k] /\ c[k] <= x /\ k \in all \ {i}
    BY <1>3, <2>1, <2>2, <2>3
  <2>. QED  BY <1>6, <2>4 DEF AtMost
<1>10. /\ IsFiniteSet(AtMost(s, x)) /\ Cardinality(AtMost(s, x)) \in Nat /\ Cardinality(AtMost(t, y)) \in Nat
       /\ PercentileRank(x, Defined(s)) = IF Cardinality(PlacesOf(s)) = 0 THEN 50
                                          ELSE PlaceOf(Cardinality(AtMost(s, x)), Cardinality(PlacesOf(s)))
       /\ PercentileRank(y, Defined(t)) = IF Cardinality(PlacesOf(t)) = 0 THEN 50
                                          ELSE PlaceOf(Cardinality(AtMost(t, y)), Cardinality(PlacesOf(t)))
  BY <1>1, PercentileIs
<1>11. Cardinality(AtMost(t, y)) <= Cardinality(AtMost(s, x))
  BY <1>9, <1>10, FS_Subset
<1>12. PlaceOf(Cardinality(AtMost(t, y)), m) <= PlaceOf(Cardinality(AtMost(s, x)), m)
  <2>1. PICK a \in Nat, b \in Nat : a = Cardinality(AtMost(t, y)) /\ b = Cardinality(AtMost(s, x)) /\ a <= b
    BY <1>10, <1>11
  <2>2. m \in Nat \ {0}
    BY <1>8
  <2>. QED  BY <2>1, <2>2, PlacesFollow
<1>13. PercentileRank(y, Defined(t)) <= PercentileRank(x, Defined(s))
  BY <1>6, <1>7, <1>8, <1>10, <1>12
<1>. QED  BY <1>13 DEF s, t

\* The same in a batch, where everyone is rated among the same ones.
LEMMA BetterInBatch ==
  ASSUME NEW s, NEW n \in Nat, DOMAIN s = 1..n, \A k \in 1..n : s[k] \in Int \cup {None},
         NEW i \in PlacesOf(s), NEW j \in PlacesOf(s), s[j] < s[i]
  PROVE  PercentileRank(s[j], Defined(s)) <= PercentileRank(s[i], Defined(s))
<1>1. PICK x \in Int, y \in Int : x = s[i] /\ y = s[j] /\ y < x
  BY DEF PlacesOf
<1>2. AtMost(s, y) \subseteq AtMost(s, x)
  BY <1>1 DEF AtMost, PlacesOf
<1>3. /\ IsFiniteSet(AtMost(s, x)) /\ Cardinality(AtMost(s, x)) \in Nat /\ Cardinality(AtMost(s, y)) \in Nat
      /\ IsFiniteSet(PlacesOf(s)) /\ Cardinality(PlacesOf(s)) \in Nat
      /\ PercentileRank(x, Defined(s)) = IF Cardinality(PlacesOf(s)) = 0 THEN 50
                                         ELSE PlaceOf(Cardinality(AtMost(s, x)), Cardinality(PlacesOf(s)))
      /\ PercentileRank(y, Defined(s)) = IF Cardinality(PlacesOf(s)) = 0 THEN 50
                                         ELSE PlaceOf(Cardinality(AtMost(s, y)), Cardinality(PlacesOf(s)))
  BY PercentileIs
<1>4. PICK a \in Nat, b \in Nat, m \in Nat : /\ a = Cardinality(AtMost(s, y)) /\ b = Cardinality(AtMost(s, x))
                                             /\ m = Cardinality(PlacesOf(s)) /\ a <= b
  BY <1>2, <1>3, FS_Subset
<1>5. m # 0
  BY <1>3, <1>4, FS_EmptySet
<1>6. PlaceOf(a, m) <= PlaceOf(b, m)
  <2>1. m \in Nat \ {0}
    BY <1>5
  <2>. QED  BY <1>4, <2>1, PlacesFollow
<1>. QED  BY <1>1, <1>3, <1>4, <1>5, <1>6

\* Later sessions are not read.
LEMMA FetchedAgain ==
  ASSUME NEW history, Priced(history), NEW last \in Int, NEW date \in Int, date <= last
  PROVE  BarsUpTo(Through(history, last), date) = BarsUpTo(history, date)
<1>1. Dated(history) /\ Dated(Through(history, last))
  <2>1. Dated(history)
    BY DEF Priced
  <2>. QED  BY <2>1, Parts
<1>2. PICK c \in Nat, n \in Nat : /\ c = Len(Through(history, last)) /\ n = Len(history) /\ c <= n
                                  /\ \A i \in 1..c : Through(history, last)[i] = history[i]
                                  /\ \A i \in 1..n : history[i].date \in Nat /\ (history[i].date <= last <=> i <= c)
  <2>1. /\ CountThrough(history, last) \in 0..Len(history)
        /\ \A i \in 1..Len(history) : history[i].date <= last <=> i <= CountThrough(history, last)
    BY <1>1, CountSplits
  <2>2. /\ Len(Through(history, last)) = CountThrough(history, last)
        /\ \A i \in 1..CountThrough(history, last) : Through(history, last)[i] = history[i]
    BY <1>1, Parts
  <2>3. Len(history) \in Nat /\ \A i \in 1..Len(history) : history[i].date \in Nat
    BY <1>1 DEF Dated
  <2>. QED  BY <2>1, <2>2, <2>3
<1>3. Begins(Through(history, last), history)
  BY <1>2 DEF Begins
<1>4. \A i \in 1..Len(history) : history[i].date <= date => i <= Len(Through(history, last))
  <2> SUFFICES ASSUME NEW i \in 1..n, history[i].date <= date PROVE i <= c
    BY <1>2
  <2>1. history[i].date \in Nat /\ (history[i].date <= last <=> i <= c)
    BY <1>2
  <2>2. PICK t \in Nat : t = history[i].date
    BY <2>1
  <2>3. t <= last
    BY <2>2
  <2>. QED  BY <2>1, <2>2, <2>3
<1>5. Through(Through(history, last), date) = Through(history, date)
  BY <1>1, <1>3, <1>4, ThroughStays
<1>. QED  BY <1>5 DEF BarsUpTo

SameBars(securities, others, last) ==
  /\ DOMAIN others = DOMAIN securities
  /\ \A j \in DOMAIN securities :
       /\ others[j].sector = securities[j].sector
       /\ \A date \in Int : date <= last =>
            BarsUpTo(others[j].history, date) = BarsUpTo(securities[j].history, date)

LEMMA SameBarsSameRs ==
  ASSUME NEW securities, NEW others, NEW last \in Int, SameBars(securities, others, last),
         NEW bench, NEW i \in DOMAIN securities
  PROVE  ComputeRs(others, i, bench, last) = ComputeRs(securities, i, bench, last)
<1>1. DOMAIN others = DOMAIN securities
  BY DEF SameBars
<1>2. \A j \in DOMAIN securities, date \in Int : date <= last =>
        Aligned(others[j].history, bench, date) = Aligned(securities[j].history, bench, date)
  <2> SUFFICES ASSUME NEW j \in DOMAIN securities, NEW date \in Int, date <= last
               PROVE  Aligned(others[j].history, bench, date) = Aligned(securities[j].history, bench, date)
    OBVIOUS
  <2>1. BarsUpTo(others[j].history, date) = BarsUpTo(securities[j].history, date)
    BY DEF SameBars
  <2>. QED  BY <2>1 DEF Aligned
<1>3. \A j \in DOMAIN securities, date \in Int : \A least : date <= last =>
        Composite(others[j], bench, date, least) = Composite(securities[j], bench, date, least)
  BY <1>2 DEF SameBars, Composite
<1>4. \A date \in Int : \A js : date <= last => Peers(others, js, bench, date) = Peers(securities, js, bench, date)
  <2> SUFFICES ASSUME NEW date \in Int, NEW js, date <= last
               PROVE  Peers(others, js, bench, date) = Peers(securities, js, bench, date)
    OBVIOUS
  <2>1. \A j \in DOMAIN securities : Composite(others[j], bench, date, Year) = Composite(securities[j], bench, date, Year)
    BY <1>3
  <2>2. [j \in DOMAIN others |-> IF j \in js THEN Composite(others[j], bench, date, Year) ELSE None]
          = [j \in DOMAIN securities |-> IF j \in js THEN Composite(securities[j], bench, date, Year) ELSE None]
    BY <1>1, <2>1
  <2>. QED  BY <2>2 DEF Peers
<1>5. ASSUME NEW date \in Int, date <= last
      PROVE  RatingOn(others, i, bench, date) = RatingOn(securities, i, bench, date)
  <2>1. /\ Composite(others[i], bench, date, MinBars) = Composite(securities[i], bench, date, MinBars)
        /\ Peers(others, DOMAIN others \ {i}, bench, date) = Peers(securities, DOMAIN securities \ {i}, bench, date)
    BY <1>1, <1>3, <1>4, <1>5
  <2>. QED  BY <2>1 DEF RatingOn
<1>6. SectorPercentile(others, i, bench, last) = SectorPercentile(securities, i, bench, last)
  <2> DEFINE Whole(x, j) == Len(Aligned(x[j].history, bench, last).stock) > Year
             Same(x) == {j \in DOMAIN x \ {i} : x[j].sector = x[i].sector /\ Whole(x, j)}
  <2>1. \A j \in DOMAIN securities : Whole(others, j) <=> Whole(securities, j)
    BY <1>2
  <2>2. \A j \in DOMAIN securities : others[j].sector = securities[j].sector
    BY DEF SameBars
  <2>3. Same(others) = Same(securities)
    <3> HIDE DEF Whole
    <3>. QED  BY <1>1, <2>1, <2>2
  <2>4. Peers(others, Same(others), bench, last) = Peers(securities, Same(securities), bench, last)
    <3> HIDE DEF Same
    <3>. QED  BY <1>4, <2>3
  <2>5. Composite(others[i], bench, last, MinBars) = Composite(securities[i], bench, last, MinBars)
    BY <1>3
  <2> DEFINE Placed(x) == IF Peers(x, Same(x), bench, last) = <<>> THEN None
                          ELSE PercentileRank(Composite(x[i], bench, last, MinBars), Peers(x, Same(x), bench, last))
  <2>6. \A x : SectorPercentile(x, i, bench, last) = IF x[i].sector = None \/ ~Whole(x, i) THEN None ELSE Placed(x)
    BY DEF SectorPercentile
  <2>7. Placed(others) = Placed(securities)
    <3> HIDE DEF Same
    <3>. QED  BY <2>4, <2>5
  <2> HIDE DEF Placed, Whole
  <2>. QED  BY <2>1, <2>2, <2>6, <2>7
<1>7. \A m \in {0, 1, 3} : RatingOn(others, i, bench, last - m * MonthDays) = RatingOn(securities, i, bench, last - m * MonthDays)
  <2> SUFFICES ASSUME NEW m \in {0, 1, 3}
               PROVE  RatingOn(others, i, bench, last - m * MonthDays) = RatingOn(securities, i, bench, last - m * MonthDays)
    OBVIOUS
  <2>1. PICK d \in Nat : d = MonthDays
    BY RatingsAssumption
  <2>2. PICK date \in Int : date = last - m * d /\ date <= last
    <3>1. last - m * d \in Int /\ last - m * d <= last
      BY <2>1
    <3>. QED  BY <3>1
  <2>. QED  BY <1>5, <2>1, <2>2
<1>8. Aligned(others[i].history, bench, last) = Aligned(securities[i].history, bench, last)
  BY <1>2
<1>. QED  BY <1>6, <1>7, <1>8 DEF ComputeRs

LEMMA PercentileIsInt ==
  ASSUME NEW n \in Nat, NEW s, DOMAIN s = 1..n, NEW value
  PROVE  PercentileRank(value, Defined(s)) \in Int
<1>1. /\ Cardinality(PlacesOf(s)) \in Nat /\ Cardinality(AtMost(s, value)) \in Nat
      /\ PercentileRank(value, Defined(s)) = IF Cardinality(PlacesOf(s)) = 0 THEN 50
                                             ELSE PlaceOf(Cardinality(AtMost(s, value)), Cardinality(PlacesOf(s)))
  BY PercentileIs
<1>2. PICK a \in Nat, m \in Nat : a = Cardinality(AtMost(s, value)) /\ m = Cardinality(PlacesOf(s))
  BY <1>1
<1>3. CASE m = 0
  BY <1>1, <1>2, <1>3
<1>4. CASE m # 0
  <2>1. m \in Nat \ {0} /\ a <= a
    BY <1>4
  <2>2. PlaceOf(a, m) \in Int
    BY <2>1, PlacesFollow
  <2>. QED  BY <1>1, <1>2, <1>4, <2>2
<1>. QED  BY <1>3, <1>4

\* What a batch, and what a computation for one, rates with.
LEMMA BatchIs ==
  ASSUME NEW securities, NEW n, AllPriced(securities, n), NEW bench, NEW date \in Int,
         NEW c, c = [k \in DOMAIN securities |-> Composite(securities[k], bench, date, MinBars)],
         NEW i \in DOMAIN ComputeRsBatch(securities, bench, date)
  PROVE  /\ i \in PlacesOf(c) /\ Len(BarsUpTo(bench, date)) # 0
         /\ ComputeRsBatch(securities, bench, date)[i].rating = PercentileRank(c[i], Defined(c))
<1> DEFINE batch == ComputeRsBatch(securities, bench, date)
           OrZero(r) == IF r = None THEN 0 ELSE r
           Row(rating, both) ==
             [rating |-> rating,
              slope |-> LineSlope(RsLine(both.stock, both.bench), SlopeBars),
              raw |-> <<OrZero(TotalReturn(both.stock, Month)), OrZero(TotalReturn(both.stock, Year))>>]
<1>1. batch = IF Len(BarsUpTo(bench, date)) < MinBars THEN <<>>
              ELSE [k \in PlacesOf(c) |-> Row(PercentileRank(c[k], Defined(c)), Aligned(securities[k].history, bench, date))]
  BY DEF ComputeRsBatch, PlacesOf
<1>2. \A rating, both : Row(rating, both).rating = rating
  OBVIOUS
<1> HIDE DEF batch, Row
<1>3. ~(Len(BarsUpTo(bench, date)) < MinBars)
  <2> SUFFICES ASSUME Len(BarsUpTo(bench, date)) < MinBars PROVE FALSE
    OBVIOUS
  <2>1. batch = <<>> /\ i \in DOMAIN batch
    BY <1>1 DEF batch
  <2>. QED  BY <2>1
<1>4. i \in PlacesOf(c) /\ batch[i] = Row(PercentileRank(c[i], Defined(c)), Aligned(securities[i].history, bench, date))
  <2>1. i \in DOMAIN batch
    BY DEF batch
  <2>. QED  BY <1>1, <1>3, <2>1
<1>5. Len(BarsUpTo(bench, date)) # 0
  <2>1. 0 < MinBars
    <3>1. PICK q \in Nat \ {0} : q = Quarter
      BY RatingsAssumption
    <3>. QED  BY <3>1, RatingsAssumption DEF Year
  <2>. QED  BY <1>3, <2>1
<1>6. batch[i].rating = PercentileRank(c[i], Defined(c))
  BY <1>2, <1>4
<1>. QED  BY <1>4, <1>5, <1>6 DEF batch

LEMMA SingleIs ==
  ASSUME NEW securities, NEW n, AllPriced(securities, n), NEW bench, NEW date \in Int, NEW i \in 1..n,
         Composite(securities[i], bench, date, MinBars) # None, Len(BarsUpTo(bench, date)) # 0
  PROVE  ComputeRs(securities, i, bench, date).rating
           = PercentileRank(Composite(securities[i], bench, date, MinBars), Defined(Among(securities, i, bench, date)))
<1> DEFINE rating == PercentileRank(Composite(securities[i], bench, date, MinBars), Defined(Among(securities, i, bench, date)))
<1>1. rating \in Int
  <2>1. n \in Nat /\ DOMAIN Among(securities, i, bench, date) = 1..n
    BY DEF AllPriced, Among
  <2>. QED  BY <2>1, PercentileIsInt
<1>2. rating # None
  <2> HIDE DEF rating
  <2>. QED  BY <1>1, NoneAssumption
<1>3. RatingOn(securities, i, bench, date) = rating
  BY DEF RatingOn, Peers, Among
<1>4. date - 0 * MonthDays = date
  BY RatingsAssumption
<1> HIDE DEF rating
<1>5. ComputeRs(securities, i, bench, date).rating = rating
  BY <1>2, <1>3, <1>4 DEF ComputeRs
<1>. QED  BY <1>5 DEF rating

Rated(securities, n, bench, date, others, batch) ==
  /\ AllPriced(securities, n) /\ date \in Int
  /\ others = [j \in DOMAIN securities |-> [securities[j] EXCEPT !.history = Through(@, date)]]
  /\ \A j \in 1..n : securities[j] = [history |-> securities[j].history, sector |-> securities[j].sector]
  /\ batch = ComputeRsBatch(securities, bench, date)

FollowsAmong(i, securities, bench, date, others, batch) ==
  /\ ComputeRs(securities, i, bench, date) = ComputeRs(others, i, bench, date)
  /\ \A j \in DOMAIN batch :
       Composite(securities[i], bench, date, MinBars) > Composite(securities[j], bench, date, MinBars) =>
         /\ batch[i].rating >= batch[j].rating
         /\ ComputeRs(securities, i, bench, date).rating >= ComputeRs(securities, j, bench, date).rating

LEMMA HistoriesAreSound ==
  ASSUME NEW securities, NEW n, NEW bench, NEW date, NEW others, NEW batch,
         Rated(securities, n, bench, date, others, batch), NEW i \in DOMAIN batch
  PROVE  FollowsAmong(i, securities, bench, date, others, batch)
<1>0. /\ AllPriced(securities, n) /\ date \in Int
      /\ others = [j \in DOMAIN securities |-> [securities[j] EXCEPT !.history = Through(@, date)]]
      /\ \A j \in 1..n : securities[j] = [history |-> securities[j].history, sector |-> securities[j].sector]
      /\ batch = ComputeRsBatch(securities, bench, date)
  BY DEF Rated
<1> USE <1>0
<1> DEFINE c == [k \in DOMAIN securities |-> Composite(securities[k], bench, date, MinBars)]
<1>1. n \in Nat /\ DOMAIN securities = 1..n /\ DOMAIN c = 1..n
  BY DEF AllPriced
<1>2. \A k \in 1..n : c[k] = Composite(securities[k], bench, date, MinBars) /\ c[k] \in Int \cup {None}
  <2>1. \A k \in 1..n : Composite(securities[k], bench, date, MinBars) \in Int \cup {None}
    BY CompositeIs DEF AllPriced
  <2>. QED  BY <1>1, <2>1
<1>3. PICK s : s = c
  OBVIOUS
<1>4. \A k \in DOMAIN batch : /\ k \in PlacesOf(s) /\ Len(BarsUpTo(bench, date)) # 0
                              /\ batch[k].rating = PercentileRank(s[k], Defined(s))
  BY <1>3, BatchIs
<1> HIDE DEF c
<1>5. PlacesOf(s) \subseteq 1..n /\ \A k \in PlacesOf(s) : s[k] \in Int /\ s[k] # None
  BY <1>1, <1>2, <1>3 DEF PlacesOf
<1>6. ASSUME NEW j \in DOMAIN batch, s[i] > s[j]
      PROVE  /\ batch[i].rating >= batch[j].rating
             /\ ComputeRs(securities, i, bench, date).rating >= ComputeRs(securities, j, bench, date).rating
  <2>1. i \in PlacesOf(s) /\ j \in PlacesOf(s) /\ i \in 1..n /\ j \in 1..n /\ s[j] < s[i]
    BY <1>4, <1>5, <1>6
  <2>2. DOMAIN s = 1..n /\ \A k \in 1..n : s[k] \in Int \cup {None}
    BY <1>1, <1>2, <1>3
  <2>3. PercentileRank(s[j], Defined(s)) <= PercentileRank(s[i], Defined(s))
    BY <1>1, <2>1, <2>2, BetterInBatch
  <2>4. PercentileRank(s[j], Defined(s)) \in Int /\ PercentileRank(s[i], Defined(s)) \in Int
    BY <1>1, <2>2, PercentileIsInt
  <2>5. batch[i].rating >= batch[j].rating
    BY <1>4, <2>3, <2>4
  <2>6. PICK x \in Int, y \in Int : /\ x = Composite(securities[i], bench, date, MinBars) /\ y < x
                                    /\ y = Composite(securities[j], bench, date, MinBars)
    BY <1>2, <1>3, <1>5, <2>1
  <2>7. PercentileRank(y, Defined(Among(securities, j, bench, date)))
          <= PercentileRank(x, Defined(Among(securities, i, bench, date)))
    BY <2>1, <2>6, BetterAmongOthers
  <2>8. /\ PercentileRank(y, Defined(Among(securities, j, bench, date))) \in Int
        /\ PercentileRank(x, Defined(Among(securities, i, bench, date))) \in Int
    <3>1. \A k : DOMAIN Among(securities, k, bench, date) = 1..n
      BY <1>1 DEF Among
    <3>. QED  BY <1>1, <3>1, PercentileIsInt
  <2>9. /\ ComputeRs(securities, i, bench, date).rating = PercentileRank(x, Defined(Among(securities, i, bench, date)))
        /\ ComputeRs(securities, j, bench, date).rating = PercentileRank(y, Defined(Among(securities, j, bench, date)))
    <3>1. x # None /\ y # None
      BY NoneAssumption
    <3>. QED  BY <1>4, <2>1, <2>6, <3>1, SingleIs
  <2>. QED  BY <2>5, <2>7, <2>8, <2>9
<1>7. SameBars(securities, others, date)
  <2>1. DOMAIN others = DOMAIN securities
    OBVIOUS
  <2>2. ASSUME NEW j \in 1..n
        PROVE  /\ others[j].sector = securities[j].sector
               /\ others[j].history = Through(securities[j].history, date)
    <3>1. others[j] = [securities[j] EXCEPT !.history = Through(securities[j].history, date)]
      BY <1>1
    <3>2. securities[j] = [history |-> securities[j].history, sector |-> securities[j].sector]
      OBVIOUS
    <3>. QED  BY <3>1, <3>2
  <2>3. \A j \in 1..n, day \in Int : day <= date =>
          BarsUpTo(others[j].history, day) = BarsUpTo(securities[j].history, day)
    BY <2>2, FetchedAgain DEF AllPriced
  <2>. QED  BY <1>1, <2>1, <2>2, <2>3 DEF SameBars
<1>8. i \in 1..n /\ ComputeRs(securities, i, bench, date) = ComputeRs(others, i, bench, date)
  <2>1. i \in 1..n
    BY <1>4, <1>5
  <2>. QED  BY <1>1, <1>7, <2>1, SameBarsSameRs
<1>9. \A j \in DOMAIN batch : j \in 1..n
  BY <1>4, <1>5
<1>. QED  BY <1>2, <1>3, <1>6, <1>8, <1>9 DEF FollowsAmong

\* Whatever the universe and the histories, a better return has no worse a
\* rating: what has none moves no other, the best has 99 and the worst 1
\* (rs_ratings.py), and the pipeline rates by composite, in a batch or one by
\* one, from nothing later than the day.
THEOREM AnyRatingFollowsReturns == Spec => []RatingsFollowReturns
<1>1. ASSUME InputOK, Is("universe")
      PROVE  LET v == input.value
                 blended == [i \in DOMAIN v.universe |-> BlendedReturn(v.universe[i], v.weights)]
                 kept == ItemsAt([i \in DOMAIN blended |-> i], {i \in DOMAIN blended : blended[i] # None})
                 ratings == UniverseRatings(v.universe, v.weights)
                 alone == UniverseRatings([k \in DOMAIN kept |-> v.universe[kept[k]]], v.weights)
             IN  Follow(ratings, blended, ToSet(kept)) /\ \A k \in DOMAIN alone : ratings[kept[k]] = alone[k]
  <2> DEFINE v == input.value
             b == [i \in DOMAIN v.universe |-> BlendedReturn(v.universe[i], v.weights)]
             kept == ItemsAt([i \in DOMAIN b |-> i], {i \in DOMAIN b : b[i] # None})
             ratings == UniverseRatings(v.universe, v.weights)
             alone == UniverseRatings([k \in DOMAIN kept |-> v.universe[kept[k]]], v.weights)
  <2>1. "universe" \in DOMAIN Inputs /\ v \in Inputs["universe"]
    BY <1>1 DEF InputOK, Is, Idle
  <2> HIDE DEF v
  <2>2. v.universe \in Seq(Seq(Nat)) /\ Weighted(v.weights)
    BY <2>1, UniversesAssumption DEF Weighted
  <2>3. /\ b = [i \in DOMAIN v.universe |-> BlendedReturn(v.universe[i], v.weights)]
        /\ kept = ItemsAt([i \in DOMAIN b |-> i], {i \in DOMAIN b : b[i] # None})
        /\ ratings = UniverseRatings(v.universe, v.weights)
        /\ alone = UniverseRatings([k \in DOMAIN kept |-> v.universe[kept[k]]], v.weights)
    OBVIOUS
  <2> HIDE DEF b, kept, ratings, alone
  <2>4. Follow(ratings, b, ToSet(kept)) /\ \A k \in DOMAIN alone : ratings[kept[k]] = alone[k]
    <3>1. Rates(v.universe, v.weights, b, kept, ratings, alone)
      BY <2>2, <2>3 DEF Rates
    <3>. QED  BY <3>1, UniverseIsSound
  <2>. QED  BY <2>4 DEF v, b, kept, ratings, alone
<1>2. ASSUME InputOK, Is("histories")
      PROVE  LET v == input.value
                 others == [j \in DOMAIN v.securities |-> [v.securities[j] EXCEPT !.history = Through(@, v.date)]]
                 batch == ComputeRsBatch(v.securities, v.bench, v.date)
             IN  \A i \in DOMAIN batch : FollowsAmong(i, v.securities, v.bench, v.date, others, batch)
  <2> DEFINE v == input.value
             securities == v.securities
             n == Len(securities)
             others == [j \in DOMAIN securities |-> [securities[j] EXCEPT !.history = Through(@, v.date)]]
             batch == ComputeRsBatch(securities, v.bench, v.date)
  <2>1. "histories" \in DOMAIN Inputs /\ v \in Inputs["histories"]
    BY <1>2 DEF InputOK, Is, Idle
  <2> HIDE DEF v
  <2>2. /\ v.date \in Int /\ DOMAIN securities = 1..n /\ n \in Nat
        /\ \A j \in DOMAIN securities :
             /\ securities[j] = [history |-> securities[j].history, sector |-> securities[j].sector]
             /\ Dated(securities[j].history)
             /\ \A i \in DOMAIN securities[j].history : securities[j].history[i].close \in Nat
    BY <2>1, HistoriesAssumption
  <2>3. others = [j \in DOMAIN securities |-> [securities[j] EXCEPT !.history = Through(@, v.date)]]
    OBVIOUS
  <2> HIDE DEF securities, n, others, batch
  <2>4. AllPriced(securities, n)
    <3>1. ASSUME NEW j \in 1..n PROVE Priced(securities[j].history)
      <4>1. PICK h : h = securities[j].history
        OBVIOUS
      <4>2. Dated(h) /\ \A i \in DOMAIN h : h[i].close \in Nat
        BY <2>2, <4>1
      <4>3. DOMAIN h = 1..Len(h)
        BY <4>2 DEF Dated
      <4>. QED  BY <4>1, <4>2, <4>3 DEF Priced
    <3>. QED  BY <2>2, <3>1 DEF AllPriced
  <2>5. \A i \in DOMAIN batch : FollowsAmong(i, securities, v.bench, v.date, others, batch)
    <3>1. Rated(securities, n, v.bench, v.date, others, batch)
      BY <2>2, <2>3, <2>4 DEF batch, Rated
    <3>. QED  BY <3>1, HistoriesAreSound
  <2>. QED  BY <2>5 DEF v, securities, others, batch
<1>3. InputOK => RatingsFollowReturns
  BY <1>1, <1>2 DEF RatingsFollowReturns, Follow, FollowsAmong
<1>. QED  BY <1>3, InputsAreGiven, PTL
=============================================================================
