----------------------------- MODULE PriceStore -----------------------------
(***************************************************************************)
(* The daily bars (ohlcv_daily) and the corporate actions that adjust      *)
(* them.  Three use cases write bars, each knowing nothing of the others:  *)
(* the incremental ingestion of ExecuteScreening, the refresh of the       *)
(* latest session, and the live refresh of one symbol.  A fourth, run on   *)
(* its own schedule, fetches corporate actions and writes the adjustment   *)
(* factors of the bars it has read.                                        *)
(*                                                                         *)
(* A price is not modelled, an adjustment factor is the set of ex-dates    *)
(* whose ratios are multiplied in it.  Every day is a trading session.     *)
(***************************************************************************)
EXTENDS Integers

CONSTANTS
    Securities,
    Writers,        \* calls that store bars, one after the other
    Refreshers,     \* calls of RefreshCorporateActions
    Nobody,         \* no security
    MaxDay,         \* the clock stops there
    ExDates,        \* of the actions NSE may list, also ahead of the clock
    MaxDbErrors     \* securities whose refresh fails, in all

ASSUME StoreAssumption ==
    /\ Nobody \notin Securities
    /\ MaxDay \in Nat \ {0}
    /\ ExDates \subseteq Nat \ {0}
    /\ MaxDbErrors \in Nat

Days == 1 .. MaxDay
NoDay == 0
NoAdjClose == {NoDay}       \* adj_close IS NULL

(* Columns of a bar that depend on more than its own session. *)
Bar == [factor   : SUBSET ExDates,
        adjClose : (SUBSET ExDates) \cup {NoAdjClose},
        turnover : BOOLEAN]

VARIABLES
    today,
    bars,       \* of each security, by session
    known,      \* ex-dates of its stored actions
    published,  \* ex-dates NSE lists
    rows, full, \* what each writer has fetched, and whether it has turnover
    refresher,
    dbErrors

writerVars == <<rows, full>>
vars == <<today, bars, known, published, writerVars, refresher, dbErrors>>

(* The security whose transaction a refresher is in, the actions it saved, *)
(* the actions and the sessions it read.                                   *)
Refresher == [todo : SUBSET Securities, asOf : Days \cup {NoDay},
              sec : Securities \cup {Nobody}, saved : SUBSET ExDates,
              view : SUBSET ExDates, sessions : SUBSET Days]

NoRefresh == [todo |-> {}, asOf |-> NoDay, sec |-> Nobody,
              saved |-> {}, view |-> {}, sessions |-> {}]

Init ==
    /\ today = 1
    /\ bars = [s \in Securities |-> [d \in {} |-> NoDay]]
    /\ known = [s \in Securities |-> {}]
    /\ published = [s \in Securities |-> {}]
    /\ rows = [w \in Writers |-> {}]
    /\ full = [w \in Writers |-> FALSE]
    /\ refresher = [r \in Refreshers |-> NoRefresh]
    /\ dbErrors = 0

-----------------------------------------------------------------------------
(* SqlOHLCVRepository. *)

Stored == UNION {DOMAIN bars[s] : s \in Securities}
IsLatest(d) == d \in Stored \cup {NoDay} /\ \A e \in Stored : e <= d

NewBar(hasTurnover) ==
    [factor |-> {}, adjClose |-> NoAdjClose, turnover |-> hasTurnover]

(* Slip: adj_close is taken from the incoming bar, which has none. *)
UpsertedRaw(old, sessions, hasTurnover) ==
    [d \in DOMAIN old \cup sessions |->
        IF d \notin sessions THEN old[d]
        ELSE IF d \notin DOMAIN old THEN NewBar(hasTurnover)
        ELSE [old[d] EXCEPT !.adjClose = NoAdjClose, !.turnover = hasTurnover]]

(* INSERT ... ON CONFLICT DO UPDATE: a bar that is there keeps its factor, *)
(* which gives it its adj_close; a new one has the defaults.               *)
Upserted(old, sessions, hasTurnover) ==
    [d \in DOMAIN old \cup sessions |->
        IF d \notin sessions THEN old[d]
        ELSE IF d \notin DOMAIN old THEN NewBar(hasTurnover)
        ELSE [old[d] EXCEPT !.adjClose = old[d].factor, !.turnover = hasTurnover]]

(* Slip: the bar of the ex-date is adjusted too. *)
FactorFromExDate(actions, d) == {e \in actions : e >= d}

(* compute_adjustment_factors: the bars before the ex-date are adjusted. *)
Factor(actions, d) == {e \in actions : e > d}

(* update_adjustment_factors *)
Adjusted(old, sessions, actions) ==
    [d \in DOMAIN old |->
        IF d \in sessions
        THEN [old[d] EXCEPT !.factor = Factor(actions, d),
                            !.adjClose = Factor(actions, d)]
        ELSE old[d]]

-----------------------------------------------------------------------------
(* The writers.  What a provider answers does not depend on the store, so  *)
(* reading latest_date() and fetching what is asked for are one step.      *)

Fetched(w, got, hasTurnover) ==
    /\ rows[w] = {}
    /\ rows' = [rows EXCEPT ![w] = got]
    /\ full' = [full EXCEPT ![w] = hasTurnover]
    /\ UNCHANGED <<today, bars, known, published, refresher, dbErrors>>

(* ExecuteScreening: the sessions after the newest stored one, of any      *)
(* security, or all with force.  A session whose fetch fails is empty, and *)
(* only the securities that trade on the newest one are kept.              *)
FetchEodRange(w) ==
    \E start \in Days :
        /\ start = 1 \/ IsLatest(start - 1)
        /\ \E newest \in start .. today, traded \in SUBSET Securities \ {{}} :
              \E earlier \in SUBSET (traded \X (start .. newest - 1)) :
                 Fetched(w, (traded \X {newest}) \cup earlier, TRUE)

(* RefreshLatestMarketData: yesterday's session. *)
FetchLatestSession(w) ==
    /\ today > 1
    /\ \E traded \in SUBSET Securities \ {{}} :
          Fetched(w, traded \X {today - 1}, TRUE)

(* GetLiveStockAnalysis with refresh: the history of one symbol, without   *)
(* turnover.                                                               *)
FetchHistoricalBars(w) ==
    \E s \in Securities, sessions \in SUBSET (1 .. today) \ {{}} :
        Fetched(w, {s} \X sessions, FALSE)

Sessions(w, s) == {d \in Days : <<s, d>> \in rows[w]}

StoreBars(w) ==
    /\ rows[w] # {}
    /\ bars' = [s \in Securities |-> Upserted(bars[s], Sessions(w, s), full[w])]
    /\ rows' = [rows EXCEPT ![w] = {}]
    /\ full' = [full EXCEPT ![w] = FALSE]
    /\ UNCHANGED <<today, known, published, refresher, dbErrors>>

(* The call ends before it has committed. *)
Abandon(w) ==
    /\ rows[w] # {}
    /\ rows' = [rows EXCEPT ![w] = {}]
    /\ full' = [full EXCEPT ![w] = FALSE]
    /\ UNCHANGED <<today, bars, known, published, refresher, dbErrors>>

-----------------------------------------------------------------------------
(* RefreshCorporateActions: the active securities, one transaction each.   *)

BeginRefresh(r, asOf) ==
    /\ refresher[r] = NoRefresh
    /\ refresher' = [refresher EXCEPT ![r] =
                        [NoRefresh EXCEPT !.todo = Securities, !.asOf = asOf]]
    /\ UNCHANGED <<today, bars, known, published, writerVars, dbErrors>>

(* What is left to do once the transaction of a security has ended. *)
WithoutTransaction(r, left) ==
    IF left = {} THEN NoRefresh
    ELSE [NoRefresh EXCEPT !.todo = left, !.asOf = refresher[r].asOf]

(* Of what NSE lists, rows that do not parse and a failed call are missing *)
(* from the answer.  The upsert of an action waits for the transaction     *)
(* that has saved it already.  The reads that follow see this session's    *)
(* actions and the bars committed until now.                               *)
ReadActions(r, s) ==
    /\ refresher[r].sec = Nobody
    /\ s \in refresher[r].todo
    /\ \E got \in SUBSET published[s] :
         /\ \A u \in Refreshers : refresher[u].sec = s => refresher[u].saved \cap got = {}
         /\ LET view == known[s] \cup got
                sessions == {d \in DOMAIN bars[s] : d <= refresher[r].asOf}
            IN IF view = {} \/ sessions = {}
               THEN /\ known' = [known EXCEPT ![s] = view]
                    /\ refresher' = [refresher EXCEPT ![r] =
                                        WithoutTransaction(r, refresher[r].todo \ {s})]
               ELSE /\ refresher' = [refresher EXCEPT ![r] =
                                        [@ EXCEPT !.sec = s, !.saved = got,
                                                  !.view = view, !.sessions = sessions]]
                    /\ UNCHANGED known
    /\ UNCHANGED <<today, bars, published, writerVars, dbErrors>>

(* Slip: the security is not committed, the session's end rolls it back. *)
UpdateFactorsUncommitted(r) ==
    /\ refresher[r].sec # Nobody
    /\ refresher' = [refresher EXCEPT ![r] =
                        WithoutTransaction(r, refresher[r].todo \ {refresher[r].sec})]
    /\ UNCHANGED <<today, bars, known, published, writerVars, dbErrors>>

(* The UPDATE by session, and the commit of the security. *)
UpdateFactors(r) ==
    LET me == refresher[r] IN
    /\ me.sec # Nobody
    /\ bars' = [bars EXCEPT ![me.sec] = Adjusted(@, me.sessions, me.view)]
    /\ known' = [known EXCEPT ![me.sec] = @ \cup me.saved]
    /\ refresher' = [refresher EXCEPT ![r] = WithoutTransaction(r, me.todo \ {me.sec})]
    /\ UNCHANGED <<today, published, writerVars, dbErrors>>

(* An error rolls the security back and the loop goes on, or the whole     *)
(* call ends with its process.                                             *)
FailSecurity(r) ==
    /\ refresher[r].sec # Nobody
    /\ dbErrors < MaxDbErrors
    /\ dbErrors' = dbErrors + 1
    /\ \E left \in {{}, refresher[r].todo \ {refresher[r].sec}} :
         refresher' = [refresher EXCEPT ![r] = WithoutTransaction(r, left)]
    /\ UNCHANGED <<today, bars, known, published, writerVars>>

-----------------------------------------------------------------------------
(* The market. *)

NextDay ==
    /\ today < MaxDay
    /\ today' = today + 1
    /\ UNCHANGED <<bars, known, published, writerVars, refresher, dbErrors>>

(* NSE lists an action, before its ex-date or after it. *)
Publish(s, e) ==
    /\ e \notin published[s]
    /\ published' = [published EXCEPT ![s] = @ \cup {e}]
    /\ UNCHANGED <<today, bars, known, writerVars, refresher, dbErrors>>

Write(w) ==
    \/ FetchEodRange(w) \/ FetchLatestSession(w) \/ FetchHistoricalBars(w)
    \/ StoreBars(w) \/ Abandon(w)

Proceed(r) == UpdateFactors(r) \/ \E s \in Securities : ReadActions(r, s)

Next ==
    \/ \E w \in Writers : Write(w)
    \/ \E r \in Refreshers :
          \/ \E asOf \in 1 .. today : BeginRefresh(r, asOf)
          \/ Proceed(r)
          \/ FailSecurity(r)
    \/ NextDay
    \/ \E s \in Securities, e \in ExDates : Publish(s, e)

Spec == Init /\ [][Next]_vars

(* The operator's schedule runs the refresh again and again as of today,   *)
(* and a refresh that has begun goes on.                                   *)
FairSpec ==
    /\ Spec
    /\ \A r \in Refreshers : WF_vars(Proceed(r)) /\ SF_vars(BeginRefresh(r, today))

-----------------------------------------------------------------------------
(* PROPERTIES                                                              *)

TypeOK ==
    /\ today \in Days
    /\ DOMAIN bars = Securities
    /\ \A s \in Securities :
          DOMAIN bars[s] \subseteq Days /\ bars[s] \in [DOMAIN bars[s] -> Bar]
    /\ known \in [Securities -> SUBSET ExDates]
    /\ published \in [Securities -> SUBSET ExDates]
    /\ rows \in [Writers -> SUBSET (Securities \X Days)]
    /\ full \in [Writers -> BOOLEAN]
    /\ refresher \in [Refreshers -> Refresher]
    /\ dbErrors \in 0 .. MaxDbErrors

(* Whoever reads adj_close, or close where it is NULL, and whoever reads   *)
(* close * adj_factor see the same price, whatever is ingested again,      *)
(* refreshed, failed and interleaved.                                      *)
ColumnsAgree ==
    \A s \in Securities : \A d \in DOMAIN bars[s] :
        bars[s][d].factor =
            IF bars[s][d].adjClose = NoAdjClose THEN {} ELSE bars[s][d].adjClose

Later(s, d) == {e \in known[s] : e > d}

(* A bar is adjusted only for stored actions whose ex-date is after it:    *)
(* never for an action of a transaction that was rolled back, never for    *)
(* one its own price reflects already.                                     *)
OnlyLaterActions ==
    \A s \in Securities : \A d \in DOMAIN bars[s] :
        bars[s][d].factor \subseteq Later(s, d)

(* Once the days end and NSE lists nothing new, every bar is and stays     *)
(* adjusted for all stored actions that come after it, whatever writers    *)
(* and overlapping refreshes did before.                                   *)
FactorsCatchUp ==
    <>[](\A s \in Securities : \A d \in DOMAIN bars[s] :
            bars[s][d].factor = Later(s, d))

(* The claims of documents and comments that the code refutes. *)

(* "Fetching the lean variant would blank out the turnover the liquidity   *)
(* gate reads": a bar that has its turnover keeps it.                      *)
TurnoverIsKept ==
    [][\A s \in Securities : \A d \in DOMAIN bars[s] :
          bars[s][d].turnover => bars'[s][d].turnover]_vars

(* "Report whether persisted market data is current": the session that the *)
(* report and the next ingestion take for the newest stored one was stored *)
(* for the market, with turnover, not for one symbol that was looked up.   *)
FreshnessTracksIngestion ==
    [][\A d \in Stored' \ Stored :
          IsLatest(d)' => \E s \in Securities :
                            d \in DOMAIN bars'[s] /\ bars'[s][d].turnover]_vars
=============================================================================
