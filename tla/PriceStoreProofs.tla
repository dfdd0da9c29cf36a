-------------------------- MODULE PriceStoreProofs --------------------------
(***************************************************************************)
(* Theorems about the adjustment columns of the bars, for any securities,  *)
(* writers, refreshes, ex-dates and errors.                                *)
(***************************************************************************)
EXTENDS PriceStore, TLAPS

(* A refresh adjusts by the actions that were stored when it read them and *)
(* those it stores in the same transaction.                                *)
ViewIsStored ==
    \A r \in Refreshers :
        refresher[r].sec # Nobody =>
            refresher[r].view \subseteq known[refresher[r].sec] \cup refresher[r].saved

IInv == TypeOK /\ ColumnsAgree /\ OnlyLaterActions /\ ViewIsStored

(* The bars of one security, and what the two properties say of them. *)
IsHistory(f) == DOMAIN f \subseteq Days /\ f \in [DOMAIN f -> Bar]

Agrees(bar) == bar.factor = IF bar.adjClose = NoAdjClose THEN {} ELSE bar.adjClose

AdjustedWithin(f, actions) ==
    \A d \in DOMAIN f : Agrees(f[d]) /\ f[d].factor \subseteq {e \in actions : e > d}

StoreIsSound ==
    \A s \in Securities : IsHistory(bars[s]) /\ AdjustedWithin(bars[s], known[s])

LEMMA StoreIsSoundDef ==
    ASSUME DOMAIN bars = Securities
    PROVE  /\ (\A s \in Securities : IsHistory(bars[s]))
              /\ ColumnsAgree /\ OnlyLaterActions => StoreIsSound
           /\ StoreIsSound => ColumnsAgree /\ OnlyLaterActions
BY DEF StoreIsSound, ColumnsAgree, OnlyLaterActions, Later, AdjustedWithin, Agrees

-----------------------------------------------------------------------------
(* The statements of the repository on one security's bars. *)

LEMMA NoFactorIsNull == ASSUME NEW F \in SUBSET ExDates PROVE F # NoAdjClose
BY StoreAssumption DEF NoAdjClose, NoDay

(* The upsert gives an adj_close to a bar that is there, none to a new one, *)
(* and changes no factor.                                                   *)
LEMMA UpsertIsSound ==
    ASSUME NEW f, NEW actions, IsHistory(f), AdjustedWithin(f, actions),
           NEW sessions \in SUBSET Days, NEW t \in BOOLEAN
    PROVE  LET g == Upserted(f, sessions, t)
           IN  IsHistory(g) /\ AdjustedWithin(g, actions)
<1> DEFINE g == Upserted(f, sessions, t)
<1>1. DOMAIN g = DOMAIN f \cup sessions
  BY DEF Upserted
<1>2. ASSUME NEW d \in DOMAIN g
      PROVE  /\ g[d] \in Bar /\ Agrees(g[d])
             /\ g[d].factor \subseteq {e \in actions : e > d}
  <2>1. CASE d \notin sessions
    BY <2>1, <1>1 DEF Upserted, IsHistory, AdjustedWithin
  <2>2. CASE d \in sessions /\ d \notin DOMAIN f
    <3>1. g[d] = [factor |-> {}, adjClose |-> NoAdjClose, turnover |-> t]
      BY <2>2, <1>1 DEF Upserted, NewBar
    <3>2. g[d] \in Bar
      BY <3>1 DEF Bar
    <3>3. g[d].factor = {} /\ g[d].adjClose = NoAdjClose
      BY <3>1
    <3>4. Agrees(g[d])
      BY <3>3 DEF Agrees
    <3> QED BY <3>2, <3>3, <3>4
  <2>3. CASE d \in sessions /\ d \in DOMAIN f
    <3>1. g[d] = [f[d] EXCEPT !.adjClose = f[d].factor, !.turnover = t]
      BY <2>3, <1>1 DEF Upserted
    <3>2. f[d] \in Bar
      BY <2>3 DEF IsHistory
    <3>3. g[d] = [factor |-> f[d].factor, adjClose |-> f[d].factor, turnover |-> t]
      BY <3>1, <3>2 DEF Bar
    <3>4. f[d].factor \in SUBSET ExDates
      BY <3>2 DEF Bar
    <3>5. g[d] \in Bar
      BY <3>3, <3>4 DEF Bar
    <3>6. Agrees(g[d])
      BY <3>3, <3>4, NoFactorIsNull DEF Agrees
    <3> QED BY <2>3, <3>3, <3>5, <3>6 DEF AdjustedWithin
  <2> QED BY <1>1, <2>1, <2>2, <2>3
<1>3. g \in [DOMAIN g -> Bar]
  BY <1>1, <1>2 DEF Upserted
<1> QED BY <1>1, <1>2, <1>3 DEF IsHistory, AdjustedWithin

(* The UPDATE writes both columns of the sessions it has, from actions that *)
(* are stored with it.                                                      *)
LEMMA AdjustmentIsSound ==
    ASSUME NEW f, NEW actions, IsHistory(f), AdjustedWithin(f, actions),
           NEW view \in SUBSET ExDates, view \subseteq actions, NEW sessions
    PROVE  LET g == Adjusted(f, sessions, view)
           IN  IsHistory(g) /\ AdjustedWithin(g, actions)
<1> DEFINE g == Adjusted(f, sessions, view)
<1>1. DOMAIN g = DOMAIN f
  BY DEF Adjusted
<1>2. ASSUME NEW d \in DOMAIN g
      PROVE  /\ g[d] \in Bar /\ Agrees(g[d])
             /\ g[d].factor \subseteq {e \in actions : e > d}
  <2>1. CASE d \notin sessions
    BY <2>1, <1>1 DEF Adjusted, IsHistory, AdjustedWithin
  <2>2. CASE d \in sessions
    <3>1. g[d] = [f[d] EXCEPT !.factor = Factor(view, d), !.adjClose = Factor(view, d)]
      BY <2>2, <1>1 DEF Adjusted
    <3>2. f[d] \in Bar
      BY <1>1 DEF IsHistory
    <3>3. g[d] = [factor |-> Factor(view, d), adjClose |-> Factor(view, d),
                  turnover |-> f[d].turnover]
      BY <3>1, <3>2 DEF Bar
    <3>4. Factor(view, d) \in SUBSET ExDates
      BY DEF Factor
    <3>5. g[d] \in Bar
      BY <3>2, <3>3, <3>4 DEF Bar
    <3>6. Agrees(g[d])
      BY <3>3, <3>4, NoFactorIsNull DEF Agrees
    <3> QED BY <3>3, <3>5, <3>6 DEF Factor
  <2> QED BY <2>1, <2>2
<1>3. g \in [DOMAIN g -> Bar]
  BY <1>1, <1>2 DEF Adjusted
<1> QED BY <1>1, <1>2, <1>3 DEF IsHistory, AdjustedWithin

(* Storing another action takes none from the bars that are adjusted. *)
LEMMA MoreActionsAreSound ==
    ASSUME NEW f, NEW A, NEW B, AdjustedWithin(f, A), A \subseteq B
    PROVE  AdjustedWithin(f, B)
BY DEF AdjustedWithin

(* The transaction's end, whatever remains of the refresh. *)
LEMMA TransactionEnds ==
    ASSUME TypeOK, NEW r \in Refreshers, NEW left \in SUBSET Securities
    PROVE  /\ WithoutTransaction(r, left) \in Refresher
           /\ WithoutTransaction(r, left).sec = Nobody
<1>1. NoRefresh \in Refresher
  BY DEF NoRefresh, Refresher
<1>2. refresher[r].asOf \in Days \cup {NoDay}
  BY DEF TypeOK, Refresher
<1> QED BY <1>1, <1>2 DEF WithoutTransaction, NoRefresh, Refresher

-----------------------------------------------------------------------------

LEMMA InitEstablishes == Init => IInv
<1> SUFFICES ASSUME Init PROVE IInv
  OBVIOUS
<1>1. \A s \in Securities : bars[s] = [d \in {} |-> NoDay]
  BY DEF Init
<1>2. \A s \in Securities : DOMAIN bars[s] = {} /\ bars[s] \in [DOMAIN bars[s] -> Bar]
  BY <1>1
<1>3. NoRefresh \in Refresher
  BY DEF NoRefresh, Refresher
<1>4. 1 \in Days /\ 0 \in 0 .. MaxDbErrors
  BY StoreAssumption DEF Days
<1>5. /\ known \in [Securities -> SUBSET ExDates]
      /\ published \in [Securities -> SUBSET ExDates]
      /\ rows \in [Writers -> SUBSET (Securities \X Days)]
      /\ full \in [Writers -> BOOLEAN]
      /\ refresher \in [Refreshers -> Refresher]
  BY <1>3 DEF Init
<1>6. TypeOK
  BY <1>2, <1>4, <1>5 DEF Init, TypeOK
<1>7. ColumnsAgree /\ OnlyLaterActions
  BY <1>2 DEF ColumnsAgree, OnlyLaterActions
<1>8. ViewIsStored
  BY DEF Init, ViewIsStored, NoRefresh
<1> QED BY <1>6, <1>7, <1>8 DEF IInv

(* The parts of the invariant, by the variables they speak of. *)
BarsPart == DOMAIN bars = Securities /\ StoreIsSound
ActionsPart ==
    /\ known \in [Securities -> SUBSET ExDates]
    /\ published \in [Securities -> SUBSET ExDates]
RefreshPart == refresher \in [Refreshers -> Refresher] /\ ViewIsStored
RestPart ==
    /\ today \in Days
    /\ rows \in [Writers -> SUBSET (Securities \X Days)]
    /\ full \in [Writers -> BOOLEAN]
    /\ dbErrors \in 0 .. MaxDbErrors

LEMMA PartsOfIInv == IInv <=> BarsPart /\ ActionsPart /\ RefreshPart /\ RestPart
BY StoreIsSoundDef
   DEF IInv, TypeOK, BarsPart, ActionsPart, RefreshPart, RestPart, StoreIsSound, IsHistory

LEMMA NextPartsOfIInv == IInv' <=> BarsPart' /\ ActionsPart' /\ RefreshPart' /\ RestPart'
BY PartsOfIInv, PTL

(* Fetching changes only what the writer has in its hands. *)
LEMMA FetchPreserves ==
    ASSUME IInv, NEW w \in Writers, NEW got \in SUBSET (Securities \X Days),
           NEW t \in BOOLEAN, Fetched(w, got, t)
    PROVE  IInv'
<1>1. RestPart'
  BY DEF Fetched, IInv, TypeOK, RestPart
<1>2. BarsPart' /\ ActionsPart' /\ RefreshPart'
  BY PartsOfIInv DEF Fetched, BarsPart, StoreIsSound, ActionsPart, RefreshPart, ViewIsStored
<1> QED BY <1>1, <1>2, PartsOfIInv, NextPartsOfIInv

LEMMA WritersPreserve == ASSUME IInv, NEW w \in Writers, Write(w) PROVE IInv'
<1>1. CASE FetchEodRange(w)
  <2>a. PICK start \in Days :
          \E newest \in start .. today, traded \in SUBSET Securities \ {{}} :
             \E earlier \in SUBSET (traded \X (start .. newest - 1)) :
                Fetched(w, (traded \X {newest}) \cup earlier, TRUE)
    BY <1>1 DEF FetchEodRange
  <2>b. PICK newest \in start .. today, traded \in SUBSET Securities :
          \E earlier \in SUBSET (traded \X (start .. newest - 1)) :
             Fetched(w, (traded \X {newest}) \cup earlier, TRUE)
    BY <2>a
  <2>1. PICK earlier \in SUBSET (traded \X (start .. newest - 1)) :
          Fetched(w, (traded \X {newest}) \cup earlier, TRUE)
    BY <2>b
  <2>2. newest \in Days /\ start .. newest - 1 \subseteq Days
    BY StoreAssumption DEF IInv, TypeOK, Days
  <2>3. (traded \X {newest}) \cup earlier \in SUBSET (Securities \X Days)
    BY <2>2
  <2> QED BY <2>1, <2>3, FetchPreserves
<1>2. CASE FetchLatestSession(w)
  <2>1. PICK traded \in SUBSET Securities : Fetched(w, traded \X {today - 1}, TRUE)
    BY <1>2 DEF FetchLatestSession
  <2>2. today - 1 \in Days
    BY <1>2, StoreAssumption DEF FetchLatestSession, IInv, TypeOK, Days
  <2>3. traded \X {today - 1} \in SUBSET (Securities \X Days)
    BY <2>2
  <2> QED BY <2>1, <2>3, FetchPreserves
<1>3. CASE FetchHistoricalBars(w)
  <2>1. PICK s \in Securities, sessions \in SUBSET (1 .. today) :
             Fetched(w, {s} \X sessions, FALSE)
    BY <1>3 DEF FetchHistoricalBars
  <2>2. 1 .. today \subseteq Days
    BY StoreAssumption DEF IInv, TypeOK, Days
  <2>3. {s} \X sessions \in SUBSET (Securities \X Days)
    BY <2>2
  <2> QED BY <2>1, <2>3, FetchPreserves
<1>4. CASE StoreBars(w)
  <2>1. BarsPart'
    <3>1. \A s \in Securities : bars'[s] = Upserted(bars[s], Sessions(w, s), full[w])
      BY <1>4 DEF StoreBars
    <3>2. \A s \in Securities : Sessions(w, s) \in SUBSET Days
      BY DEF Sessions
    <3>3. full[w] \in BOOLEAN
      BY DEF IInv, TypeOK
    <3>4. ASSUME NEW s \in Securities
          PROVE  IsHistory(bars'[s]) /\ AdjustedWithin(bars'[s], known[s])
      <4>1. IsHistory(bars[s]) /\ AdjustedWithin(bars[s], known[s])
        BY PartsOfIInv DEF BarsPart, StoreIsSound
      <4> QED BY <3>1, <3>2, <3>3, <4>1, UpsertIsSound
    <3>5. DOMAIN bars' = Securities
      BY <1>4 DEF StoreBars
    <3> QED BY <1>4, <3>4, <3>5 DEF BarsPart, StoreIsSound, StoreBars
  <2>2. RestPart'
    BY <1>4 DEF StoreBars, IInv, TypeOK, RestPart
  <2>3. ActionsPart' /\ RefreshPart'
    BY <1>4, PartsOfIInv DEF StoreBars, ActionsPart, RefreshPart, ViewIsStored
  <2> QED BY <2>1, <2>2, <2>3, PartsOfIInv, NextPartsOfIInv
<1>5. CASE Abandon(w)
  <2>1. RestPart'
    BY <1>5 DEF Abandon, IInv, TypeOK, RestPart
  <2>2. BarsPart' /\ ActionsPart' /\ RefreshPart'
    BY <1>5, PartsOfIInv
       DEF Abandon, BarsPart, StoreIsSound, ActionsPart, RefreshPart, ViewIsStored
  <2> QED BY <2>1, <2>2, PartsOfIInv, NextPartsOfIInv
<1> QED BY <1>1, <1>2, <1>3, <1>4, <1>5 DEF Write

(* A refresher's step keeps the others' views: no action is ever deleted.  *)
LEMMA ViewsAreKept ==
    ASSUME IInv, NEW r \in Refreshers, NEW me \in Refresher,
           me.sec # Nobody => me.view \subseteq known'[me.sec] \cup me.saved,
           refresher' = [refresher EXCEPT ![r] = me],
           \A s \in Securities : known[s] \subseteq known'[s]
    PROVE  RefreshPart'
<1>1. refresher' \in [Refreshers -> Refresher]
  BY DEF IInv, TypeOK
<1>2. ASSUME NEW u \in Refreshers, refresher'[u].sec # Nobody
      PROVE  refresher'[u].view \subseteq known'[refresher'[u].sec] \cup refresher'[u].saved
  <2>1. CASE u = r
    BY <1>2, <2>1 DEF IInv, TypeOK
  <2>2. CASE u # r
    <3>1. refresher'[u] = refresher[u] /\ refresher[u].sec \in Securities \cup {Nobody}
      BY <2>2 DEF IInv, TypeOK, Refresher
    <3> QED BY <1>2, <3>1 DEF IInv, ViewIsStored
  <2> QED BY <2>1, <2>2
<1> QED BY <1>1, <1>2 DEF RefreshPart, ViewIsStored

LEMMA RefreshersPreserve ==
    ASSUME IInv, NEW r \in Refreshers,
           \/ \E asOf \in 1 .. today : BeginRefresh(r, asOf)
           \/ Proceed(r) \/ FailSecurity(r)
    PROVE  IInv'
<1> USE DEF Proceed
<1>a. /\ refresher[r] \in Refresher
      /\ BarsPart /\ ActionsPart /\ RefreshPart /\ RestPart
  BY PartsOfIInv DEF IInv, TypeOK
<1>b. TypeOK
  BY DEF IInv
<1>1. ASSUME NEW asOf \in 1 .. today, BeginRefresh(r, asOf) PROVE IInv'
  <2>1. [NoRefresh EXCEPT !.todo = Securities, !.asOf = asOf] \in Refresher
    <3>1. asOf \in Days
      BY <1>b, StoreAssumption DEF TypeOK, Days
    <3> QED BY <3>1 DEF NoRefresh, Refresher
  <2>2. [NoRefresh EXCEPT !.todo = Securities, !.asOf = asOf].sec = Nobody
    BY DEF NoRefresh
  <2>3. RefreshPart'
    BY <1>1, <2>1, <2>2, ViewsAreKept DEF BeginRefresh
  <2>4. BarsPart' /\ ActionsPart' /\ RestPart'
    BY <1>1, <1>a DEF BeginRefresh, BarsPart, StoreIsSound, ActionsPart, RestPart, writerVars
  <2> QED BY <2>3, <2>4, PartsOfIInv, NextPartsOfIInv
<1>2. ASSUME NEW s \in Securities, ReadActions(r, s) PROVE IInv'
  <2> DEFINE sessions == {d \in DOMAIN bars[s] : d <= refresher[r].asOf}
  <2>1. PICK got \in SUBSET published[s] :
          LET view == known[s] \cup got
          IN IF view = {} \/ sessions = {}
             THEN /\ known' = [known EXCEPT ![s] = view]
                  /\ refresher' = [refresher EXCEPT ![r] =
                                      WithoutTransaction(r, refresher[r].todo \ {s})]
             ELSE /\ refresher' = [refresher EXCEPT ![r] =
                                      [@ EXCEPT !.sec = s, !.saved = got,
                                                !.view = view, !.sessions = sessions]]
                  /\ UNCHANGED known
    BY <1>2 DEF ReadActions
  <2>2. got \in SUBSET ExDates /\ known[s] \in SUBSET ExDates
    BY <1>b DEF TypeOK
  <2>3. refresher[r].todo \ {s} \in SUBSET Securities
    BY <1>a DEF Refresher
  <2>4. RestPart' /\ bars' = bars /\ published' = published
    BY <1>2, <1>a DEF ReadActions, RestPart, writerVars
  <2>5. CASE known[s] \cup got = {} \/ sessions = {}
    <3>1. known' = [known EXCEPT ![s] = known[s] \cup got]
      BY <2>1, <2>5
    <3>2. ActionsPart' /\ \A t \in Securities : known[t] \subseteq known'[t]
      BY <1>a, <2>2, <2>4, <3>1 DEF ActionsPart
    <3>3. RefreshPart'
      BY <2>1, <2>3, <2>5, <3>2, <1>b, TransactionEnds, ViewsAreKept
    <3>4. BarsPart'
      BY <1>a, <2>4, <3>2, MoreActionsAreSound DEF BarsPart, StoreIsSound
    <3> QED BY <2>4, <3>2, <3>3, <3>4, PartsOfIInv, NextPartsOfIInv
  <2>6. CASE ~(known[s] \cup got = {} \/ sessions = {})
    <3> DEFINE me == [refresher[r] EXCEPT !.sec = s, !.saved = got,
                          !.view = known[s] \cup got, !.sessions = sessions]
    <3>1. refresher' = [refresher EXCEPT ![r] = me] /\ known' = known
      BY <2>1, <2>6, <1>b DEF TypeOK
    <3>2. sessions \in SUBSET Days
      BY <1>b DEF TypeOK
    <3>3. me.sec = s /\ me.saved = got /\ me.view = known[s] \cup got
      BY <1>a DEF Refresher
    <3> HIDE DEF sessions
    <3>4. me \in Refresher
      BY <1>a, <2>2, <3>2, <3>3 DEF Refresher
    <3>5. me.view \subseteq known'[me.sec] \cup me.saved
      BY <3>1, <3>3
    <3> HIDE DEF me
    <3>6. RefreshPart'
      BY <3>1, <3>4, <3>5, ViewsAreKept
    <3>7. BarsPart' /\ ActionsPart'
      BY <1>a, <2>4, <3>1 DEF BarsPart, StoreIsSound, ActionsPart
    <3> QED BY <2>4, <3>6, <3>7, PartsOfIInv, NextPartsOfIInv
  <2> QED BY <2>5, <2>6
<1>3. CASE UpdateFactors(r)
  <2> DEFINE me == refresher[r]
  <2>1. /\ me.sec \in Securities /\ me.view \in SUBSET ExDates /\ me.saved \in SUBSET ExDates
        /\ me.view \subseteq known[me.sec] \cup me.saved
        /\ me.todo \ {me.sec} \in SUBSET Securities
    BY <1>3, <1>a DEF UpdateFactors, Refresher, RefreshPart, ViewIsStored
  <2>2. /\ bars' = [bars EXCEPT ![me.sec] = Adjusted(bars[me.sec], me.sessions, me.view)]
        /\ known' = [known EXCEPT ![me.sec] = known[me.sec] \cup me.saved]
        /\ refresher' = [refresher EXCEPT ![r] =
                            WithoutTransaction(r, me.todo \ {me.sec})]
        /\ published' = published
    BY <1>3 DEF UpdateFactors
  <2>3. ActionsPart' /\ \A t \in Securities : known[t] \subseteq known'[t]
    BY <1>a, <2>1, <2>2 DEF ActionsPart
  <2>4. RefreshPart'
    BY <2>1, <2>2, <2>3, <1>b, TransactionEnds, ViewsAreKept
  <2>5. ASSUME NEW s \in Securities
        PROVE  IsHistory(bars'[s]) /\ AdjustedWithin(bars'[s], known'[s])
    <3>1. IsHistory(bars[s]) /\ AdjustedWithin(bars[s], known'[s])
      BY <1>a, <2>3, MoreActionsAreSound DEF BarsPart, StoreIsSound
    <3>2. CASE s = me.sec
      <4>1. me.view \subseteq known'[s]
        BY <1>a, <2>1, <2>2, <3>2 DEF ActionsPart
      <4>2. bars'[s] = Adjusted(bars[s], me.sessions, me.view)
        BY <1>a, <2>1, <2>2, <3>2 DEF BarsPart
      <4> QED BY <2>1, <3>1, <4>1, <4>2, AdjustmentIsSound
    <3>3. CASE s # me.sec
      <4>1. bars'[s] = bars[s]
        BY <1>a, <2>2, <3>3 DEF BarsPart
      <4> QED BY <3>1, <4>1
    <3> QED BY <3>2, <3>3
  <2>6. BarsPart'
    BY <1>a, <2>2, <2>5 DEF BarsPart, StoreIsSound
  <2>7. RestPart'
    BY <1>3, <1>a DEF UpdateFactors, RestPart, writerVars
  <2> QED BY <2>3, <2>4, <2>6, <2>7, PartsOfIInv, NextPartsOfIInv
<1>4. CASE FailSecurity(r)
  <2>1. PICK left \in {{}, refresher[r].todo \ {refresher[r].sec}} :
          refresher' = [refresher EXCEPT ![r] = WithoutTransaction(r, left)]
    BY <1>4 DEF FailSecurity
  <2>2. left \in SUBSET Securities
    BY <1>a DEF Refresher
  <2>3. known' = known
    BY <1>4 DEF FailSecurity
  <2>4. RefreshPart'
    BY <2>1, <2>2, <2>3, <1>b, TransactionEnds, ViewsAreKept
  <2>5. dbErrors' \in 0 .. MaxDbErrors
    BY <1>4, <1>b, StoreAssumption DEF FailSecurity, TypeOK
  <2>6. BarsPart' /\ ActionsPart' /\ RestPart'
    BY <1>4, <1>a, <2>5
       DEF FailSecurity, BarsPart, StoreIsSound, ActionsPart, RestPart, writerVars
  <2> QED BY <2>4, <2>6, PartsOfIInv, NextPartsOfIInv
<1> QED BY <1>1, <1>2, <1>3, <1>4

LEMMA MarketPreserves ==
    ASSUME IInv, NextDay \/ (\E s \in Securities, e \in ExDates : Publish(s, e))
    PROVE  IInv'
<1>a. BarsPart /\ ActionsPart /\ RefreshPart /\ RestPart
  BY PartsOfIInv
<1>1. CASE NextDay
  <2>1. today' \in Days
    BY <1>1, <1>a, StoreAssumption DEF NextDay, RestPart, Days
  <2> QED
    BY <1>1, <1>a, <2>1, PartsOfIInv, NextPartsOfIInv
       DEF NextDay, BarsPart, StoreIsSound, ActionsPart, RefreshPart, ViewIsStored,
           RestPart, writerVars
<1>2. ASSUME NEW s \in Securities, NEW e \in ExDates, Publish(s, e) PROVE IInv'
  <2>1. ActionsPart'
    BY <1>2, <1>a DEF Publish, ActionsPart
  <2> QED
    BY <1>2, <1>a, <2>1, PartsOfIInv, NextPartsOfIInv
       DEF Publish, BarsPart, StoreIsSound, RefreshPart, ViewIsStored, RestPart, writerVars
<1> QED BY <1>1, <1>2

-----------------------------------------------------------------------------
(* In every reachable state the columns of the bars are sound, and every   *)
(* refresh that is under way knows only actions that are or will be stored *)
(* with its factors.                                                       *)
THEOREM StoreInvariance == Spec => []IInv
<1>1. Init => IInv
  BY InitEstablishes
<1>2. IInv /\ [Next]_vars => IInv'
  <2>1. IInv /\ Next => IInv'
    BY WritersPreserve, RefreshersPreserve, MarketPreserves DEF Next
  <2>2. IInv /\ UNCHANGED vars => IInv'
    BY PartsOfIInv, NextPartsOfIInv
       DEF vars, writerVars, BarsPart, StoreIsSound, ActionsPart, RefreshPart,
           ViewIsStored, RestPart
  <2> QED BY <2>1, <2>2
<1> QED BY <1>1, <1>2, PTL DEF Spec

(* Every variable keeps its type, for any securities, writers and refreshes. *)
THEOREM TypeCorrect == Spec => []TypeOK
<1>1. IInv => TypeOK
  BY DEF IInv
<1>. QED  BY <1>1, StoreInvariance, PTL

(* adj_close and adj_factor give every reader the same price. *)
THEOREM BothPricesAgree == Spec => []ColumnsAgree
<1>1. IInv => ColumnsAgree
  BY DEF IInv
<1> QED BY <1>1, StoreInvariance, PTL

(* No bar is adjusted for an action that is not stored, or not after it. *)
THEOREM AdjustedForStoredActions == Spec => []OnlyLaterActions
<1>1. IInv => OnlyLaterActions
  BY DEF IInv
<1> QED BY <1>1, StoreInvariance, PTL
=============================================================================
