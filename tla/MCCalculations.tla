---------------------------- MODULE MCCalculations ----------------------------
(* Inputs of every calculation, kind by kind, small enough to take all and    *)
(* large enough for each branch.                                             *)
EXTENDS Analysis, Studies, Charts, Shapes, RateLimiter

-----------------------------------------------------------------------------
(* Screening: short series of prices, indicators around their thresholds, the *)
(* shapes of the strategies shipped in docs/architecture/strategies.         *)

MCSeries ==
  {[closes |-> c, volumes |-> [i \in DOMAIN c |-> IF i % 2 = h THEN 4 ELSE 2], split |-> k] :
     c \in UNION {[1..n -> {2, 4, 6, 8}] : n \in 0..4} \cup [1..5 -> {4, 6, 8}], h \in {0, 1}, k \in {1, 2, 4}}

BarAt(close) == <<[open |-> close, high |-> close, low |-> close, close |-> close, volume |-> 1]>>

MCContexts ==
  {[bars |-> IF p = 0 THEN <<>> ELSE BarAt(p), sma50 |-> a, sma150 |-> b, sma200 |-> c,
    slope |-> s, low52 |-> l, high52 |-> 10,
    aboveLow |-> IF known /\ p > 0 /\ l # None THEN (100 * (p - l)) \div l ELSE None,
    belowHigh |-> None, rs |-> r, avgVolume |-> v] :
     p \in {0, 7, 8}, a \in {None, 5, 7}, b \in {None, 5, 6}, c \in {None, 4, 5},
     s \in {None, 0, 1}, l \in {None, 5, 6}, known \in BOOLEAN, r \in {None, 69, 70},
     v \in {None, 1}}

Engine(id, gate, rules, gates) == [id |-> id, gate |-> gate, rules |-> rules, ruleGates |-> gates]

Template(rules) == Engine("trend_template", TRUE, rules, {})
Volume(rules) == Engine("volume_accumulation", FALSE, rules, {"vol_liquidity_min"})
Rating == Engine("relative_strength", FALSE, {"rs_rating"}, {})
RiskAll == Engine("risk", FALSE, {"risk_atr", "risk_rr"}, {})

TrendRules == {"tt_sma150_above_sma200", "tt_sma_stack", "tt_rs_rating_min"}
VolumeRules == {"vol_liquidity_min", "vol_accumulation_days"}

Shipped ==
  {<<Template(TrendRules), Rating, Volume(VolumeRules), RiskAll>>,
   <<Volume(VolumeRules), Rating>>,
   <<Template({"tt_sma150_above_sma200"}), Volume({"vol_liquidity_min"})>>}

MCResults ==
  {[e \in {"trend_template", "volume_accumulation", "relative_strength", "risk"} |->
      CASE e = "trend_template" -> [r \in TrendRules |-> Binary(r \in ok)]
        [] e = "volume_accumulation" -> [r \in VolumeRules |-> Binary(r \in ok)]
        [] e = "relative_strength" -> [r \in {"rs_rating"} |-> Rule(part > 0, part)]
        [] e = "risk" -> [r \in {"risk_atr", "risk_rr"} |-> Binary(r \in ok)]] :
     ok \in SUBSET (TrendRules \cup VolumeRules \cup {"risk_rr"}), part \in {0, 40, 100}}

MCGates == [strategy : Shipped, results : MCResults]

Passing == {r \in MCResults : r["volume_accumulation"]["vol_liquidity_min"].passed
                              /\ r["trend_template"]["tt_sma_stack"].passed
                              /\ r["trend_template"]["tt_rs_rating_min"].passed}

MCResultPairs == [strategy : Shipped, one : Passing, two : Passing]

MCScores ==
  {[i \in 1..3 |-> [security |-> p[i], momentum |-> m[i], setup |-> s[i], rs |-> 0, passed |-> i # f]] :
     p \in {q \in [1..3 -> 1..3] : \A i, j \in 1..3 : q[i] = q[j] => i = j},
     m \in [1..3 -> 0..1], s \in [1..3 -> 0..1], f \in 0..3}

-----------------------------------------------------------------------------
(* Studies: up to three runs on two dates, returns in multiples of twelve, so *)
(* that the means of up to four of them are whole.                           *)

Pick(rank, return, bench) == [security |-> rank, rank |-> rank, momentum |-> 60,
                              return |-> return, bench |-> bench]

MCRankedPicks ==
  {<<>>} \cup {<<Pick(1, r, b)>> : r \in {None, -12, 0, 12}, b \in {None, 0, 12}}
         \cup {<<Pick(1, r, 0), Pick(2, q, None), Pick(3, 24, 24)>> : r \in {None, 12}, q \in {None, 0}}

MCRun(date) == [date : {date}, evaluated : {4}, passed : {0, 2}, rankings : MCRankedPicks]

MCRuns ==
  {<<>>} \cup {<<r>> : r \in MCRun(1)}
         \cup {<<r, q>> : r \in MCRun(2), q \in MCRun(1) \cup MCRun(2)}
         \cup {<<r, q, p>> : r \in MCRun(2), q \in {x \in MCRun(2) : x.passed = 2},
                             p \in {x \in MCRun(1) : Len(x.rankings) = 1}}

MCWindows ==
  {[calendar |-> [i \in 1..n |-> i + 1], label |-> w, existing |-> e, execute |-> x, fails |-> f] :
     n \in 1..5, w \in {"1Y", "3Y"}, e \in SUBSET (1..7), x \in BOOLEAN, f \in SUBSET {2, 4, 6}}

MCReturns ==
  {[strategy |-> s] : s \in UNION {[1..n -> -1..2] : n \in 1..5}}

MCEval == [passed : BOOLEAN, return : {None, -12, 0, 24}]

MCScore == [score : {0, 1}, return : {None, -12, 0, 24}]

MCEvals ==
  {[rule |-> r, engines |-> [e \in {"breakout", "risk"} |-> IF e = "breakout" THEN a ELSE b]] :
     r \in {<<>>}, a \in [1..2 -> MCScore], b \in [1..2 -> MCScore]}
  \cup {[rule |-> r, engines |-> [e \in {"breakout"} |-> <<>>]] :
          r \in UNION {[1..n -> MCEval] : n \in 0..4}}

MCSnaps == [rank : {None, 1, 2}, momentum : {50, 60}, buy : {50},
            rules : {[r \in {"rs"} |-> [passed |-> p, raw |-> None]] : p \in BOOLEAN}]

MCSnapshotPairs ==
  {[a |-> a, b |-> b] : a \in UNION {[u -> MCSnaps] : u \in {{}, {1}, {2}}},
                        b \in UNION {[u -> MCSnaps] : u \in {{1}, {1, 2}}}}
  \cup {[a |-> [s \in 1..3 |-> [rank |-> p[s], momentum |-> 50, buy |-> 50, rules |-> <<>>]],
         b |-> [s \in 1..3 |-> [rank |-> q[s], momentum |-> 50, buy |-> 50, rules |-> <<>>]]] :
          p \in {t \in [1..3 -> {None, 1, 2, 3}] : t[1] # t[2]}, q \in [1..3 -> {None, 1, 2, 3}]}

MCConfig == [own |-> <<"w", "a">> :> 0 @@ <<"w", "b">> :> 0,
             engines |-> [e \in {"risk", "pattern"} |->
               [own |-> <<"w", "a">> :> 0, rules |-> [r \in {"atr", "stop"} |-> <<"w", "a">> :> 0]]]]

MCOverride == [engine : {None, "risk", "none"}, rule : {None, "*", "atr"},
               path : {<<"w", "a">>, <<"w", "c">>}, value : {1, 2}]

MCOverrides == {[config |-> MCConfig, overrides |-> <<o, q>>] : o \in MCOverride, q \in MCOverride}

MCRow == [rule : {"rs", "vol"}, engine : {"rs"}, run : {1}, security : {1, 2},
          passed : BOOLEAN, contribution : {1, 2}, raw : {None}]

MCRows == UNION {[1..n -> {r \in MCRow : r.security = 1 => r.contribution = 2}] : n \in 1..3}

MCWindowSizes == [w \in {"1Y", "3Y"} |-> IF w = "1Y" THEN 2 ELSE 4]

-----------------------------------------------------------------------------
(* Charts: six bars with and without wicks, universes of three, histories of  *)
(* a year of four sessions, two days of trading after a signal.              *)

MCSpans == [wilder |-> 2, emas |-> <<2, 3>>, adr |-> 2, fast |-> 1, slow |-> 3, signal |-> 1,
            pivot |-> 1, smooth |-> 2, cci |-> 2, roc |-> 1, buffer |-> 1]

MCBars(closes, wick) ==
  [i \in DOMAIN closes |->
     LET open == closes[Max({1, i - 1})]
     IN  [open |-> open, close |-> closes[i], high |-> Max({open, closes[i]}) + wick,
          low |-> Min({open, closes[i]}) - wick, volume |-> IF i % 2 = 0 THEN 4 ELSE 2]]

MCConfig1 == [sma |-> <<1, 2, 2>>, slope |-> 1, highLow |-> 2, volume |-> 2]

MCBarInputs ==
  {[bars |-> MCBars(c, w), split |-> k, config |-> MCConfig1] :
     c \in [1..6 -> {12, 16, 24}], w \in {0, 4}, k \in {3, 5}}

MCCloses == UNION {[1..n -> {4, 6}] : n \in 0..3}

MCUniverses ==
  {[universe |-> u, weights |-> w] : u \in [1..3 -> MCCloses], w \in {1 :> 1, 1 :> 1 @@ 2 :> 3}}

MCHistory(dates, closes) ==
  [i \in 1..Cardinality(dates) |->
     LET d == CHOOSE x \in dates : Cardinality({y \in dates : y <= x}) = i IN [date |-> d, close |-> closes[d]]]

MCHistories ==
  {[securities |-> <<[history |-> MCHistory(1..8, h), sector |-> "x"], [history |-> k, sector |-> "x"],
                     [history |-> MCHistory(3..8, [d \in 3..8 |-> 4]), sector |-> None]>>,
    bench |-> MCHistory(b, [d \in b |-> 4]), date |-> 7] :
     h \in [1..8 -> {4, 8}],
     k \in {MCHistory(1..7, [d \in 1..7 |-> d]), MCHistory(2..7, [d \in 2..7 |-> 9 - d]),
            MCHistory(1..4, [d \in 1..4 |-> d])},
     b \in {1..8, 1..8 \ {3}}}

MCTradeBar == {b \in [open : {80, 100, 120}, high : {80, 100, 120}, low : {80, 100, 120},
                      close : {80, 100, 120}] :
                 b.low <= b.open /\ b.low <= b.close /\ b.open <= b.high /\ b.close <= b.high}

MCEntry == [open |-> 100, high |-> 100, low |-> 100, close |-> 100]

\* The third bar is one after the holding period.
MCTrades ==
  {[bars |-> [i \in DOMAIN b |-> [date |-> i] @@ b[i]], atr |-> a, resistance |-> r, ratio |-> m] :
     b \in {<<MCEntry>> \o c : c \in UNION {[1..n -> MCTradeBar] : n \in 0..2}} \cup
           {<<MCEntry, c, MCEntry, d>> : c \in MCTradeBar, d \in MCTradeBar},
     a \in {None, 5}, r \in {None, 104, 90}, m \in {None, 1}}

MCForward ==
  {[run |-> [date |-> 2, picks |-> {1}], bench |-> [d \in n |-> d],
    bars |-> <<SelectSeq([d \in 1..5 |-> [date |-> d, close |-> c[d],
                                          adj |-> IF s /\ d < 4 THEN c[d] \div 2 ELSE None]],
                         LAMBDA x : x.date \in p)>>] :
     c \in [1..5 -> {4, 6}], p \in SUBSET (1..5), s \in BOOLEAN, n \in {1..5, {2, 5}, {}}}

MCArchived ==
  {[bars |-> [i \in 1..4 |-> [date |-> i + (IF i > g THEN 1 ELSE 0), close |-> c[i], turnover |-> t[i]]],
    start |-> s, end |-> 5] :
     c \in [1..4 -> {10, 20}], t \in [1..4 -> {None, 5, 20}], g \in {2, 4}, s \in {1, 2, 3}}

MCListing == [symbol : {"A", "B", "C"}, isin : {None, 1, 2}, series : {"x", "y"}]

MCExchange == {l \in UNION {[1..n -> MCListing] : n \in 0..2} :
                 \A i, j \in DOMAIN l : i # j => l[i].symbol # l[j].symbol /\ (l[i].isin = None \/ l[i].isin # l[j].isin)}

MCListings == {[nse |-> n, bse |-> b, admitted |-> {"x"}] :
                 n \in {l \in MCExchange : \A i \in DOMAIN l : l[i].series = "x"}, b \in MCExchange}

-----------------------------------------------------------------------------
(* Shapes: turns of the price with a bar halfway between two, so that each is *)
(* confirmed.                                                                *)

MCTurns == {t \in [1..6 -> {44, 60, 80, 120}] : \A i \in 1..5 : t[i] # t[i + 1]}

\* Advances of five waves, whole and overlapping, up to a correction.
MCAdvances ==
  {<<40, a, b, c, d, e, f>> : a \in {60, 70}, b \in {48, 55}, c \in {90, 110}, d \in {62, 75, 80},
                                  e \in {84, 120, 200}, f \in {60, 70, 100}}

\* A rest after a steep rise; a cup and its handle; swings of two sizes.
MCRests == {<<120, 110, 100, a, b, c>> : a \in {118, 140}, b \in {110, 132, 135}, c \in {130, 137}}
MCCups == {<<80, 120, a, b, c, 112>> : a \in {90, 108}, b \in {110, 118}, c \in {95, 106}}
MCSmallSwings ==
  {<<a, 40, 48, 43, 120, 107, 126, b, 80>> : a \in {60, 46}, b \in {60, 70}}
  \cup {<<a, 60, 90, 62, b, 64, 98, 66>> : a \in {100, 110}, b \in {88, 94}}

MCSwingBar(turns, spread, i) ==
  LET price == IF i % 2 = 1 THEN turns[(i + 1) \div 2] ELSE (turns[i \div 2] + turns[i \div 2 + 1]) \div 2
      reach == spread * Max({0, 11 - i})
  IN  [date |-> i, high |-> price + reach, low |-> price - reach, close |-> price,
       volume |-> IF i < 6 THEN 4 ELSE i % 3,
       adx |-> IF i < 4 THEN None ELSE 20 + (i % 4), rsi |-> IF i < 3 THEN None ELSE 50 - i]

MCSwings ==
  {[bars |-> [i \in 1..(2 * Len(t[1]) - 1) |-> MCSwingBar(t[1], t[2], i)], percent |-> p, measured |-> m] :
     t \in ((MCTurns \cup MCAdvances \cup MCCups \cup MCSmallSwings) \X {0}) \cup (MCRests \X {0, 1}),
     p \in {5, 15}, m \in BOOLEAN}

MCLengths == [shoulders |-> 6, tops |-> 3, search |-> 8, pole |-> 4, restMin |-> 2, restMax |-> 4,
              cup |-> 3, handle |-> 1]

MCDegreeBands == <<4, 8>>

MCBaseBars == [flatMin |-> 3, flatMax |-> 6, flatExtra |-> 2, flatEdge |-> 1, ascMin |-> 3, ascMax |-> 5,
               ascExtra |-> 2, ascSegment |-> 1, cupWidth |-> 2, cupExtra |-> 4, cupLook |-> 8, handle |-> 1,
               handleExtra |-> 1, handleReach |-> 1, vcpLook |-> 8, vcpSegment |-> 2]

MCBaseInputs ==
  {[i \in DOMAIN c |-> [open |-> c[i], high |-> c[i] + (i % 3), low |-> c[i] - (i % 2), close |-> c[i],
                        volume |-> (i * i) % 5]] : c \in [1..8 -> {80, 90, 100}] \cup [1..5 -> {70, 80, 90, 100}]}

-----------------------------------------------------------------------------

(* Requests of two addresses over twice the window, in the order of their     *)
(* times.                                                                    *)

MCRequests ==
  {r \in UNION {[1..n -> [ip : {"a", "b"}, at : 1..7, exempt : {FALSE}]] : n \in 0..3}
        \cup [1..5 -> [ip : {"a", "b"}, at : {1, 3, 4, 6}, exempt : {FALSE}]]
        \cup [1..3 -> [ip : {"a"}, at : 1..5, exempt : BOOLEAN]] :
     \A i \in 2..Len(r) : r[i - 1].at <= r[i].at}

-----------------------------------------------------------------------------

MCRunInputs == [kind \in {"runs"} |-> MCRuns]

MCInputs ==
  [series |-> MCSeries, context |-> MCContexts, gate |-> MCGates, pair |-> MCResultPairs, ranking |-> MCScores,
   runs |-> MCRuns, window |-> MCWindows, returns |-> MCReturns, evals |-> MCEvals,
   snapshots |-> MCSnapshotPairs, overrides |-> MCOverrides, rows |-> MCRows,
   bars |-> MCBarInputs, universe |-> MCUniverses, histories |-> MCHistories, trade |-> MCTrades,
   forward |-> MCForward, archive |-> MCArchived, listings |-> MCListings,
   requests |-> MCRequests, swings |-> MCSwings, bases |-> MCBaseInputs]
=============================================================================
