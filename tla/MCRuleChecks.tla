---------------------------- MODULE MCRuleChecks ----------------------------
(***************************************************************************)
(* Fills: five prices with gaps between them, levels on, between and       *)
(* beyond them, quantities on both sides of the brokerage's minimum and    *)
(* cap.  Setups: a flat, a breakout, a pullback, a falling and a bursting  *)
(* candle around the previous day's levels.  Ranking: three stocks, one of *)
(* nine kinds each, at five times of day and in four markets.  News: what  *)
(* the rules tell apart, on both sides of each window.  History: a market  *)
(* in which one stock misses a day that others trade on and another        *)
(* several, and one with holidays in which a stock never trades.  Study:   *)
(* days on which the one group leads, or the other, or only one of them    *)
(* has rows.                                                               *)
(***************************************************************************)
EXTENDS RuleChecks

MCRates == [flat |-> 40, min |-> 10, pct |-> 10, stt |-> 2, stamp |-> 1,
            txn |-> 3, sebi |-> 1, ipft |-> 1, gst |-> 180]

MCOrb == [SCALP |-> 2, DAY |-> 2]
MCExtAtr == [SCALP |-> 15, DAY |-> 30]
Candle(o, h, l, c, v) == [open |-> o, high |-> h, low |-> l, close |-> c, volume |-> v]
MCShapes == {Candle(1000, 1004, 996, 1000, 10), Candle(1000, 1014, 1000, 1012, 30),
             Candle(1012, 1016, 1006, 1008, 10), Candle(1008, 1010, 994, 996, 10),
             Candle(1006, 1032, 1004, 1030, 40)}
MCPrep == [prev_high |-> 1010, prev_close |-> 990, cpr_top |-> 1001, cpr_bottom |-> 998,
           cpr_width |-> 20, atr |-> 40]
MCIndexBars == <<Candle(1000, 1000, 1000, 1000, 0)>>

MCWeights == [setup |-> 25, volume |-> 20, movement |-> 15, momentum |-> 15, sector |-> 10,
              market |-> 10, liquidity |-> 5]
MCStatePoints ==
    [TRIGGERED |-> 10000, FORMING |-> 6000, EXTENDED |-> 3000, FAILED |-> 0, NONE |-> 0]
MCBonus == (2 :> 200) @@ (3 :> 300) @@ (4 :> 500)
MCFloors == [STRONG_CANDIDATE |-> 8000, CANDIDATE |-> 6500, WATCH |-> 5000, NEUTRAL |-> 3500]
MCInPlay == [rvol |-> 35, gap |-> 15, atr |-> 15, range |-> 15, rs |-> 20]
MCFilters == [min_price |-> 250, max_price |-> 2500, min_volume |-> 5, min_value |-> 5,
              max_spread |-> 50]
MCPolicy == [max_rank |-> 2, minimum_category |-> "CANDIDATE", minimum_score |-> 6500,
             require_triggered |-> TRUE, require_in_play |-> FALSE, no_entry_after |-> 345,
             max_open |-> 1, max_trades |-> 1]

Both(x) == [SCALP |-> x, DAY |-> x]
Setups(a, b) == Both(<<Signal("VWAP_RECLAIM", a), Signal("RS_VS_NIFTY", b)>>)
Usual ==
    [fetched |-> TRUE, raises |-> FALSE, age |-> 0, prep |-> TRUE, price |-> 500,
     news |-> "PENDING", bank |-> FALSE,
     liquidity |-> [volume |-> 9, value |-> 9, score |-> 6000], feed |-> None,
     rvol |-> 200, gap |-> 100, atr |-> 200, range |-> 60, rs |-> 100, change |-> 150,
     position |-> 90, vwap |-> 50, structure |-> "above_range", accel |-> 150, since_open |-> 80,
     momentum |-> Both([roc |-> 60, accel |-> 30, ema |-> 100, rsi |-> 6500, adx |-> 3000,
                        uptrend |-> TRUE]),
     signals |-> Setups("TRIGGERED", "FORMING")]
Strong == [Usual EXCEPT !.rvol = 400, !.change = 300, !.range = 100, !.position = 100,
                        !.vwap = 100, !.accel = 300, !.structure = "above_prev_high"]
Book == [bid |-> 4995, ask |-> 5000, bids |-> 60, asks |-> 40]
Ticking == [age |-> 0, depth |-> Book, depth_age |-> 0, observed |-> 5, ticks |-> 20,
            average |-> 10]
Kinds ==
    { Usual, Strong,
      [Strong EXCEPT !.signals = Setups("FAILED", "NONE")],
      [Usual EXCEPT !.rvol = None, !.change = 0, !.position = 40, !.vwap = -20, !.accel = 50,
                    !.structure = "below", !.since_open = -40, !.signals = Setups("NONE", "EXTENDED"),
                    !.momentum = Both([roc |-> -20, accel |-> -10, ema |-> 0, rsi |-> 4000,
                                       adx |-> 2000, uptrend |-> FALSE])],
      [Usual EXCEPT !.feed = Ticking, !.bank = TRUE, !.momentum = Both([@["DAY"] EXCEPT !.rsi = 8500])],
      [Usual EXCEPT !.feed = [Ticking EXCEPT !.depth.ask = 5100]],
      [Usual EXCEPT !.age = 5],
      [Usual EXCEPT !.raises = TRUE],
      [Usual EXCEPT !.fetched = FALSE, !.age = None, !.since_open = None] }

Index(last, age) ==
    [last |-> last, open |-> 10000, ref |-> 10000, prev_close |-> 9990, age |-> age, regime |-> 10000]
Rising == [nifty |-> Index(10030, 0), bank |-> Index(10020, 0), index |-> Index(10060, 0)]
Falling == [nifty |-> Index(9960, 0), bank |-> Index(9970, 0), index |-> Index(9930, 0)]
Quiet == [nifty |-> Index(10010, 0), bank |-> None, index |-> Index(10020, 0)]
Stale == [nifty |-> Index(10010, 5), bank |-> Index(9980, 0), index |-> None]
Moments ==
    {<<3, Rising>>, <<60, Rising>>, <<60, Falling>>, <<150, Quiet>>, <<335, Rising>>,
     <<350, Falling>>, <<350, Stale>>}
MCWorlds ==
    {[as_of |-> m[1], stock |-> kinds] @@ m[2] : m \in Moments, kinds \in [Stocks -> Kinds]}

MCEntry ==
    LET common == [target_r |-> 2, max_per_symbol |-> 1, max_per_day |-> 2, first |-> 4, last |-> 13,
                   stop_atr |-> 100, min_stop |-> 50, atr_bars |-> 4, structure_lookback |-> 10]
    IN  [SCALP |-> [risk_per_trade |-> 200, max_position_value |-> 9825, reward_cost |-> 70,
                    max_per_day |-> 1] @@ common,
         TREND |-> [risk_per_trade |-> 300, max_position_value |-> 12055, reward_cost |-> 100,
                    max_per_symbol |-> 2] @@ common]
MCScalp == [consolidation |-> 2, range_lookback |-> 4, min_bars |-> 4, swing_bars |-> 8, tight |-> 250,
            body |-> 60, zone |-> 30, expansion |-> 120, swing_lookback |-> 9, buffer |-> 10,
            max_risk |-> 400]
MCTrend == [timeframe |-> 2, orb_minutes |-> 4, adx_period |-> 2, rsi_period |-> 2, st_period |-> 2,
            st_mult |-> 3, adx_min |-> 2000, rsi_min |-> 5000, rsi_max |-> 9800, min_candles |-> 2,
            atr_candles |-> 3, ext |-> 100, stop |-> 200]
MCOrbRules == [minutes |-> 4, max_range |-> 300, risk_per_trade |-> 200, max_position_value |-> 9990,
               last |-> 12, allow_short |-> TRUE]

\* A path of closes from 1000 as candles: each opens where the last closed, its
\* low is `dip` below the body and its high `top` above it.
Walk(closes, top, dip) ==
    [i \in DOMAIN closes |->
        LET start == IF i = 1 THEN 1000 ELSE closes[i-1]
        IN  [at |-> i - 1, volume |-> 10, open |-> start, close |-> closes[i],
             high |-> Max({start, closes[i]}) + top[i], low |-> Min({start, closes[i]}) - dip[i]]]
Ones == [i \in 1..20 |-> 1]
Base == Walk(<<1004, 1006, 1004, 1006, 1004, 1006, 1017, 1018, 1012, 1008>>, [Ones EXCEPT ![7] = 0], Ones)
Stairs == Walk(<<1006, 1012, 1020, 1012, 1006, 1014, 1026, 1022, 1018, 1025, 1034, 1030>>,
               [Ones EXCEPT ![3] = 3, ![7] = 3], [Ones EXCEPT ![5] = 6])
Reclaim == Walk(<<1004, 1002, 1006, 1003, 1004, 1009, 1014, 1016, 1013, 1021, 1026, 1024>>, Ones, Ones)
Fall(closes) == [i \in DOMAIN closes |-> MirrorBar(closes[i], 1000)]
Without(path, m) == SelectSeq(path, LAMBDA b : b.at # m)
NoPrep == [n \in {1, 2} |-> None]
Level == [n \in {1, 2} |-> [prev_high |-> 1010, prev_low |-> 990]]
TradeDay(a, b, prep) == [bars |-> <<a, b>>, k |-> <<1000, 1000>>, prep |-> prep]
GapUp(d) == [d EXCEPT !.k = <<970, 970>>]
MCNifty == {None, 30, -30}
MCTradeDays ==
    { TradeDay(Base, Stairs, NoPrep), TradeDay(Fall(Base), Fall(Stairs), Level),
      TradeDay(Reclaim, Fall(Reclaim), Level), TradeDay(Base, Fall(Stairs), NoPrep),
      TradeDay(Without(Reclaim, 6), Without(Stairs, 0), Level),
      GapUp(TradeDay(Fall(Base), Base, NoPrep)) }

MCQualifying == [min_move |-> 50, min_volume_change |-> 150, require_rs |-> TRUE]
MCPreWeights == [movement |-> 15, volume |-> 20, liquidity |-> 5]
MCCurve == <<1000, 4000, 7000>>
MCSides == <<"LONG", "SHORT">>
MCIndexTape == <<Candle(1000, 1003, 999, 1002, 0), Candle(1002, 1004, 1000, 1001, 0)>>
Up == Candle(1000, 1012, 1000, 1010, 30)
Back == Candle(1010, 1011, 1002, 1004, 10)
Down == Candle(1004, 1004, 980, 985, 40)
MCMinutes == {Up, Back, Down}
MCSessions == {<<Up, Back, Down>>, <<None, Up, None>>, <<None, None, None>>, <<Down, None, Up>>,
               <<Back, Back, Back>>, <<Up, Up, None>>}
MCMornings == {<< << <<Up, Back, Down>>, <<Back, Back, Back>> >>,
                  << <<Down, None, Up>>, <<None, None, None>>, <<Back, Back, Back>> >> >>,
               << << <<None, Up, None>> >>, <<>> >>}
MCPasts == MCMornings \cup {<<p, p>> : p \in UNION {[1..n -> MCSessions] : n \in 1..4}}

Says1(words) == [head |-> words, tail |-> <<>>]
MCLexicon ==
    [subject |-> "A", company |-> [Acme |-> "A", Bolt |-> "B", Cato |-> "C"],
     look_alikes |-> {Says1(<<"Acme", "Power">>)}, roundup |-> {Says1(<<"stocks">>)},
     speculation |-> {Says1(<<"should">>)}, negations |-> {Says1(<<"not">>)},
     upward |-> <<Says1(<<"rises">>), [head |-> <<"lifts">>, tail |-> <<"target">>]>>,
     downward |-> <<Says1(<<"falls">>), [head |-> <<"cuts">>, tail |-> <<"target">>]>>]
MCOpposite == [rises |-> "falls", falls |-> "rises", lifts |-> "cuts", cuts |-> "lifts"]
Item(title, source, at) ==
    [title |-> title, source |-> source, at |-> at, page |-> FALSE, question |-> FALSE]
MCPublished ==
    { Item(<<"Acme", "rises", "today">>, "X", 9), Item(<<"Acme", "rises", "5%">>, "Y", 9),
      Item(<<"Acme", "falls", "today">>, "Y", 8), Item(<<"Acme", "falls", "on", "fraud">>, "X", 8),
      Item(<<"Bolt", "cuts", "Acme", "target", ";", "Acme", "rises">>, "X", 7),
      Item(<<"Acme", "not", "so", "weak", ";", "Bolt", "falls">>, "Y", 9),
      Item(<<"falls", "not", "Acme", "rises">>, "X", 8), Item(<<"Acme", "does", "not", "lifts">>, "X", 9),
      Item(<<"Bolt", "not", "cuts", "the", "Acme", "target">>, "X", 9),
      Item(<<"Acme", "Power", "falls">>, "X", 9), Item(<<"Acme", "Bolt", "Cato", "falls">>, "X", 9),
      Item(<<"Acme", "falls">>, "X", 3), Item(<<"Acme", "should", "rises">>, "Y", 6),
      Item(<<"rises", "Bolt", "not", "falls", "Acme">>, "Y", 8),
      \* a chain: the second tells the story of the others, which tell two
      Item(<<"Acme", "rises", "record", "profit", "order">>, "X", 9),
      Item(<<"Acme", "rises", "order", "export", "plant">>, "Y", 9),
      Item(<<"Acme", "rises", "plant", "union", "talks">>, "X", 9) }

EveryDay == <<2, 2, 2, 2, 2, 2>>
NoDay == <<0, 0, 0, 0, 0, 0>>
Market(first, second, third, index) ==
    (1 :> first) @@ (2 :> second) @@ (3 :> third) @@ (9 :> index)
MCMarkets == { Market(<<2, 2, 2, 2, 0, 2>>, EveryDay, <<1, 2, 0, 2, 0, 1>>, EveryDay),
               Market(<<2, 0, 2, 2, 0, 0>>, NoDay, <<0, 0, 2, 0, 0, 0>>, <<2, 0, 2, 2, 0, 0>>) }

DayRows(sum, n) == [sum |-> sum, n |-> n]
MCDayShapes == { [a |-> <<DayRows(2, 2), DayRows(2, 2)>>, b |-> <<DayRows(0, 2), DayRows(0, 2)>>],
                 [a |-> <<DayRows(-2, 2), DayRows(-2, 2)>>, b |-> <<DayRows(0, 2), DayRows(0, 2)>>],
                 [a |-> <<DayRows(1, 1), DayRows(0, 0)>>, b |-> <<DayRows(2, 2), DayRows(1, 1)>>],
                 [a |-> <<DayRows(3, 1), DayRows(-1, 1)>>, b |-> <<DayRows(1, 1), DayRows(0, 0)>>],
                 [a |-> <<DayRows(2, 1), DayRows(-2, 1)>>, b |-> <<DayRows(0, 1), DayRows(0, 1)>>] }
=============================================================================
