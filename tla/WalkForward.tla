---------------------------- MODULE WalkForward ----------------------------
(* One walk-forward backtest: a momentum portfolio rebalanced on the first   *)
(* session of each month over point-in-time data, whose result is not the    *)
(* NAV the loop kept but one replayed from its log of trades.                *)
(*                                                                           *)
(* Time is a number of days. Money, prices and quantities are integers: the  *)
(* instance chooses powers of two so that every division of the code is      *)
(* exact. A price of 0 is what the parser stores for a close it cannot read. *)
EXTENDS Integers, FiniteSets, FiniteSetsExt, Functions

CONSTANTS
  Securities,
  Histories,    \* what the database may hold of a security: [close, listed, delisted]
  MonthStart,   \* month -> its first day, over consecutive months from 1
  Sessions,     \* the days the trading calendar calls sessions
  Start, End,   \* the requested range
  Lookbacks,    \* the set of momentum horizons: 3, 6 and 12 months
  LoadDays,     \* _PRICE_LOOKBACK_DAYS
  MinListing,   \* _MIN_LISTING_DAYS
  PortfolioSize,
  Unit,         \* a multiple of every price: returns are counted in 1 / Unit
  CostDivisor,  \* one over COST_BPS
  Capital,
  None

BufferRank == (3 * PortfolioSize) \div 2

ASSUME SizeAssumption == PortfolioSize \in Nat \ {0}
ASSUME SecuritiesAssumption == IsFiniteSet(Securities)

\* Dates are counted from a first day.
ASSUME CalendarAssumption ==
  Sessions \subseteq Nat /\ Start \in Nat /\ End \in Nat /\ LoadDays \in Nat

\* A close is a price, or None on the days without a row: every history has an
\* entry for the same days. The price column takes no negative number.
ASSUME HistoriesAssumption ==
  /\ \A h \in Histories : /\ DOMAIN h.close \subseteq Nat
                          /\ \A d \in DOMAIN h.close : h.close[d] \in Nat \cup {None}
  /\ \A g, h \in Histories : DOMAIN g.close = DOMAIN h.close

ASSUME MoneyAssumption == Capital \in Int /\ CostDivisor \in Nat \ {0}

VARIABLES
  history,    \* the rows of the database this backtest reads
  todo,       \* the fill dates still to come
  positions,  \* security -> quantity, of the securities held
  cash,
  trades,     \* the trade log
  last,       \* the latest rebalance: its dates, ranking, target and cost
  skipped,    \* a holding or a planned trade found no price to be filled at
  status,     \* "running", "done" or "failed"
  finalNav

vars == <<history, todo, positions, cash, trades, last, skipped, status, finalNav>>

Abs(n) == IF n < 0 THEN -n ELSE n

-----------------------------------------------------------------------------
(* The calendar.                                                             *)

MonthOf(d) ==
  CHOOSE m \in DOMAIN MonthStart : MonthStart[m] <= d /\ d < MonthStart[m + 1]

\* The day k months before d, clamped to the end of a shorter month.
MonthsBefore(d, k) ==
  LET m == MonthOf(d) - k
      length == MonthStart[m + 1] - MonthStart[m]
      day == d - MonthStart[MonthOf(d)]
  IN  MonthStart[m] + IF day < length THEN day ELSE length - 1

FirstSessionOfEachMonth ==
  LET inRange == {d \in Sessions : Start <= d /\ d <= End}
  IN  {d \in inRange : \A e \in inRange : MonthOf(e) = MonthOf(d) => d <= e}

HasPriorSession(d) == \E e \in Sessions : e < d

PriorSession(d) == Max({e \in Sessions : e < d})

-----------------------------------------------------------------------------
(* Point-in-time data.                                                       *)

\* Slip: the bar that a bisection finds, without the step back.
PriceAfter(h, target, asOf) ==
  LET known == {d \in DOMAIN h.close : d > target /\ h.close[d] # None}
  IN  IF known = {} THEN None ELSE h.close[Min(known)]

\* The latest close on or before both target and asOf, among the rows loaded.
PriceOnOrBefore(h, target, asOf) ==
  LET known == {d \in DOMAIN h.close :
                  /\ Start - LoadDays <= d /\ d <= End
                  /\ d <= target /\ d <= asOf
                  /\ h.close[d] # None}
  IN  IF known = {} THEN None ELSE h.close[Max(known)]

Price(h, d) == PriceOnOrBefore(h, d, d)

\* Listed by the decision date and not yet delisted.
FactsAsOf(hs, d) ==
  {s \in Securities : /\ hs[s].listed <= d
                      /\ hs[s].delisted = None \/ d <= hs[s].delisted}

\* Membership and surveillance have no source of data: the provider calls
\* every security a clean constituent, and only its age decides.
IsEligible(h, d) == d - h.listed >= MinListing

Eligible(hs, d) == {s \in FactsAsOf(hs, d) : IsEligible(hs[s], d)}

-----------------------------------------------------------------------------
(* Signals and ranking.                                                      *)

PricesFor(h, d) ==
  {Price(h, d)} \cup {PriceOnOrBefore(h, MonthsBefore(d, k), d) : k \in Lookbacks}

\* A security that misses one of its prices is dropped, not scored.
Scored(hs, d) == {s \in Eligible(hs, d) : None \notin PricesFor(hs[s], d)}

\* compute_return raises ValueError for a price that is not positive.
Unscorable(hs, d) == \E s \in Scored(hs, d) : 0 \in PricesFor(hs[s], d)

Return(h, d, k) ==
  (Price(h, d) * Unit) \div PriceOnOrBefore(h, MonthsBefore(d, k), d) - Unit

Signals(hs, d) ==
  [s \in Scored(hs, d) |-> [k \in Lookbacks |-> Return(hs[s], d, k)]]

\* By composite score; ties by the longer horizons first.
Ahead(f, g) ==
  LET Decides(k) == f[k] > g[k] /\ \A j \in Lookbacks : j > k => f[j] = g[j]
  IN  \/ SumFunction(f) > SumFunction(g)
      \/ SumFunction(f) = SumFunction(g) /\ \E k \in Lookbacks : Decides(k)

\* Securities equal in all of it keep the order of an unordered query.
RankSignals(signals) ==
  LET scored == DOMAIN signals
      ahead == {p \in scored \X scored : Ahead(signals[p[1]], signals[p[2]])}
  IN  {r \in [scored -> 1..Cardinality(scored)] :
         IsInjective(r) /\ \A p \in ahead : r[p[1]] < r[p[2]]}

\* Slip: a holding is sold as soon as it leaves the top of the ranking.
KeptInTop(rank, held) == {s \in held : s \in DOMAIN rank /\ rank[s] <= PortfolioSize}

\* Holdings survive down to BufferRank; one that is not ranked is never held.
Kept(rank, held) == {s \in held : s \in DOMAIN rank /\ rank[s] <= BufferRank}

\* Slip: the free slots are counted from the holdings before the rebalance.
SelectForOldSlots(rank, held) ==
  LET kept == Kept(rank, held)
      candidates == {s \in DOMAIN rank : rank[s] <= PortfolioSize} \ kept
      Before(s) == {t \in candidates : rank[t] < rank[s]}
  IN  kept \cup {s \in candidates :
                   Cardinality(Before(s)) < PortfolioSize - Cardinality(held)}

\* The best candidates, as many as the kept holdings leave room for.
SelectPortfolio(rank, held) ==
  LET kept == Kept(rank, held)
      candidates == {s \in DOMAIN rank : rank[s] <= PortfolioSize} \ kept
      Before(s) == {t \in candidates : rank[t] < rank[s]}
  IN  kept \cup {s \in candidates :
                   Cardinality(Before(s)) < PortfolioSize - Cardinality(kept)}

-----------------------------------------------------------------------------
(* One rebalance.                                                            *)

MarkToMarket(d) ==
  [s \in DOMAIN positions |->
     LET p == Price(history[s], d) IN IF p = None THEN 0 ELSE positions[s] * p]

NavOf(money, mark) == money + SumFunction(mark)

TargetValue(target, nav) == nav \div Cardinality(target)

\* Planned trades: security -> signed notional. An unchanged one is no trade.
PlanEqualWeight(target, mark, nav) ==
  LET Delta(s) == (IF s \in target THEN TargetValue(target, nav) ELSE 0)
                  - (IF s \in DOMAIN mark THEN mark[s] ELSE 0)
  IN  [s \in {t \in target \cup DOMAIN mark : Delta(t) # 0} |-> Delta(s)]

Cost(notional) == Abs(notional) \div CostDivisor

TotalCost(plan) == SumFunction([s \in DOMAIN plan |-> Cost(plan[s])])

Fillable(s, d) == Price(history[s], d) \notin {None, 0}

\* A trade without a price is left out of the log.
Apply(plan, d) ==
  {[security |-> s, quantity |-> plan[s] \div Price(history[s], d),
    notional |-> plan[s], fill |-> d, cost |-> Cost(plan[s])] :
     s \in {t \in DOMAIN plan : Fillable(t, d)}}

\* Slip: the costs are only written in the log.
SettleFree(target, nav, cost, d) ==
  LET filled == {s \in target : Fillable(s, d)}
  IN  [positions |-> [s \in filled |-> TargetValue(target, nav) \div Price(history[s], d)],
       cash |-> nav - (IF target = {} THEN 0
                       ELSE Cardinality(filled) * TargetValue(target, nav))]

\* The positions after the rebalance come from the target, not from the trades.
Settle(target, nav, cost, d) ==
  LET filled == {s \in target : Fillable(s, d)}
  IN  [positions |-> [s \in filled |-> TargetValue(target, nav) \div Price(history[s], d)],
       cash |-> nav - cost
                - (IF target = {} THEN 0 ELSE Cardinality(filled) * TargetValue(target, nav))]

Init ==
  /\ history \in [Securities -> Histories]
  /\ todo = {d \in FirstSessionOfEachMonth : HasPriorSession(d)}
  /\ positions = <<>>
  /\ cash = Capital
  /\ trades = {}
  /\ last = None
  /\ skipped = FALSE
  /\ status = "running"
  /\ finalNav = None

NextFill == Min(todo)

\* Decide on the session before, fill on the first session of the month.
Rebalance ==
  /\ status = "running" /\ todo # {}
  /\ LET fill == NextFill
         decision == PriorSession(fill)
         mark == MarkToMarket(fill)
         nav == NavOf(cash, mark)
     IN  /\ ~Unscorable(history, decision)
         /\ \E rank \in RankSignals(Signals(history, decision)) :
              LET target == SelectPortfolio(rank, DOMAIN positions)
                  plan == PlanEqualWeight(target, mark, nav)
                  cost == TotalCost(plan)
                  after == Settle(target, nav, cost, fill)
              IN  /\ positions' = after.positions
                  /\ cash' = after.cash
                  /\ trades' = trades \cup Apply(plan, fill)
                  /\ skipped' = (\/ skipped
                                 \/ \E s \in DOMAIN plan \cup DOMAIN positions :
                                      ~Fillable(s, fill))
                  /\ last' = [decision |-> decision, fill |-> fill, rank |-> rank,
                              target |-> target, nav |-> nav, cost |-> cost]
  /\ todo' = todo \ {NextFill}
  /\ UNCHANGED <<history, status, finalNav>>

\* A price of 0 among those of a scored security ends the run with an error.
Fail ==
  /\ status = "running" /\ todo # {}
  /\ Unscorable(history, PriorSession(NextFill))
  /\ status' = "failed"
  /\ UNCHANGED <<history, todo, positions, cash, trades, last, skipped, finalNav>>

\* Quantities, money and value again, from the trade log alone.
Bought(log, s) ==
  SumFunction([t \in {u \in log : u.security = s} |-> t.quantity])

Spent(log) == SumFunction([t \in log |-> t.notional + t.cost])

Replayed(log, day) ==
  LET Value(s) == LET p == Price(history[s], day)
                  IN  IF p = None THEN 0 ELSE Bought(log, s) * p
      held == {s \in Securities : Bought(log, s) # 0}
  IN  Capital - Spent(log) + SumFunction([s \in held |-> Value(s)])

Finish ==
  /\ status = "running" /\ todo = {}
  /\ finalNav' = Replayed(trades, End)
  /\ status' = "done"
  /\ UNCHANGED <<history, todo, positions, cash, trades, last, skipped>>

Next == Rebalance \/ Fail \/ Finish

Spec == Init /\ [][Next]_vars

-----------------------------------------------------------------------------
(* Correctness.                                                              *)

TypeOK ==
  /\ history \in [Securities -> Histories]
  /\ todo \subseteq Sessions
  /\ DOMAIN positions \subseteq Securities
  /\ cash \in Int
  /\ status \in {"running", "done", "failed"}

\* The two bookkeepings agree: unless a holding or a planned trade had no price
\* to be filled at, the NAV replayed from the trade log is what the loop's own
\* positions and cash are worth at the end. walk_forward.py keeps them
\* independent on purpose. The exception is real: a holding whose price is zero
\* on the day it leaves the target has no trade planned at all, so that the log
\* goes on holding what _settle has dropped.
ReplayAgreesWithLoop ==
  status = "done" /\ ~skipped => finalNav = NavOf(cash, MarkToMarket(End))

\* The buffer never leaves a slot empty nor fills one too many: whatever was
\* held, a rebalance targets as many securities as it ranked, up to the size.
PortfolioIsFull ==
  last # None =>
    LET ranked == Cardinality(DOMAIN last.rank)
    IN  Cardinality(last.target) = IF ranked < PortfolioSize THEN ranked ELSE PortfolioSize

\* Hysteresis: between two rebalances, a security is sold only if it fell past
\* the buffer (or off the ranking, or had no price to be bought at again), and
\* none is bought unless it is in the top of the ranking, nor while a better
\* ranked one is left out.
BufferIsHonoured ==
  [][last' # last =>
       LET rank == last'.rank
           held == DOMAIN positions
           bought == last'.target \ held
       IN  /\ \A s \in held \ last'.target : s \in DOMAIN rank => rank[s] > BufferRank
           /\ \A s \in bought :
                /\ rank[s] <= PortfolioSize
                /\ \A t \in DOMAIN rank : rank[t] < rank[s] => t \in last'.target]_vars

\* No look-ahead: a security whose rows differ only after the decision date
\* would have given the same signals, on which alone the rankings depend. The
\* runner re-checks dates; this is about values.
DecisionsIgnoreTheFuture ==
  last # None =>
    \A s \in Securities : \A h \in Histories :
      LET d == last.decision
          other == [history EXCEPT ![s] = h]
          SamePast == /\ h.listed = history[s].listed
                      /\ \A e \in DOMAIN h.close : e <= d => h.close[e] = history[s].close[e]
                      /\ \A e \in {h.delisted, history[s].delisted} : e # None => d <= e
      IN  SamePast => Signals(other, d) = Signals(history, d)
=============================================================================
