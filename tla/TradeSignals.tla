---------------------------- MODULE TradeSignals ----------------------------
(***************************************************************************)
(* What the paper strategies make of the candles of a stock: the mirrored  *)
(* chart on which a short is read like a long (strategies/common.py), the  *)
(* price-action setups of the scalp (scalp.py), the confirmed setups of    *)
(* the trend (trend.py) and the opening range (orb.py), the size of a      *)
(* trade and the rules that veto it.                                       *)
(*                                                                         *)
(* Stops and risks are distances in steps of 1/Scale (Fine); multiples are *)
(* in hundredths.                                                          *)
(***************************************************************************)
EXTENDS Indicators, FillRules

CONSTANTS
    Entry,              \* strategy |-> the shared settings, see EntryFields
    Scalp, Trend, Orb   \* the settings of each strategy's own rules

EntryFields == {"target_r", "risk_per_trade", "max_position_value", "max_per_symbol", "max_per_day",
                "first", "last", "stop_atr", "min_stop", "reward_cost", "atr_bars",
                "structure_lookback"}

ASSUME EntryAssumption == \A name \in {"SCALP", "TREND"} : DOMAIN Entry[name] = EntryFields

LastN(seq, n) == SubSeq(seq, Max({1, Len(seq) - n + 1}), Len(seq))
Highest(bars) == Max({b.high : b \in ToSet(bars)})
Lowest(bars) == Min({b.low : b \in ToSet(bars)})

------------------------------------------------------------------------------
(* Orientation: around the previous close k a price p becomes 2k - p.      *)

MirrorBar(b, k) ==
    [b EXCEPT !.open = 2*k - @, !.high = 2*k - b.low, !.low = 2*k - b.high, !.close = 2*k - @]

MirrorPrep(prep, k) ==
    [prep EXCEPT !.prev_high = 2*k - prep.prev_low, !.prev_low = 2*k - prep.prev_high]

Oriented(bars, k, direction) ==
    IF direction = "LONG" THEN bars ELSE [i \in DOMAIN bars |-> MirrorBar(bars[i], k)]

------------------------------------------------------------------------------
(* Swings and ranges *)

AroundIt(i) == {i - 2, i - 1, i + 1, i + 2}
SwingHighs(bars) ==
    {i \in 3..Len(bars)-2 : \A j \in AroundIt(i) : bars[i].high > bars[j].high}
SwingLows(bars) ==
    {i \in 3..Len(bars)-2 : \A j \in AroundIt(i) : bars[i].low < bars[j].low}

LowerHighs(bars, lookback) ==
    LET window == LastN(bars, lookback)
        highs == SwingHighs(window)
        latest == Max(highs)
    IN  Cardinality(highs) >= 2 /\ window[latest].high < window[Max(highs \ {latest})].high

AverageRange(bars) ==
    IF bars = <<>> THEN 0
    ELSE Fine(FoldLeft(LAMBDA sum, b : sum + b.high - b.low, 0, bars)) \div Len(bars)

AverageTrueRange(bars, n) ==
    LET ranges == LastN(TrueRange(bars), n)
    IN  IF ranges = <<>> THEN 0 ELSE FoldLeft(+, 0, ranges) \div Len(ranges)

------------------------------------------------------------------------------
(* Scalp.  A setup gives the level of its stop, None when it is not there. *)

TightBreakout(bars) ==
    LET sig == Last(bars)
        before == Front(bars)
        base == LastN(before, Scalp.consolidation)
        average == AverageRange(LastN(before, Scalp.range_lookback))
        range == sig.high - sig.low
    IN  IF Len(bars) < Max({Scalp.min_bars, Scalp.consolidation + 2}) THEN None
        ELSE IF /\ average > 0 /\ range > 0
                /\ 100 * Fine(Highest(base) - Lowest(base)) <= Scalp.tight * average
                /\ sig.close > Highest(base) /\ sig.close > sig.open
                /\ 100 * (sig.close - sig.open) >= Scalp.body * range
                /\ 100 * (sig.high - sig.close) <= Scalp.zone * range
                /\ 100 * Fine(range) >= Scalp.expansion * average
                /\ sig.close > bars[1].open
                /\ sig.close >= Highest(LastN(before, Scalp.swing_lookback))
             THEN Fine(Lowest(base)) - (Scalp.buffer * average) \div 100
             ELSE None

HigherLow(bars) ==
    LET window == LastN(Front(bars), Scalp.swing_lookback)
        highs == SwingHighs(window)
        top == Max(highs)
        lows == {i \in SwingLows(window) : i < top}
        pullback == SubSeq(window, top + 1, Len(window))
        sig == Last(bars)
        prev == bars[Len(bars) - 1]
    IN  IF Len(bars) < Max({Scalp.min_bars, Scalp.swing_bars}) THEN None
        ELSE IF Cardinality(highs) < 2 \/ lows = {} THEN None
        ELSE IF /\ window[top].high > window[Max(highs \ {top})].high
                /\ Len(pullback) >= 2
                /\ Lowest(pullback) > window[Max(lows)].low
                /\ sig.close > prev.high /\ sig.close > sig.open /\ sig.high > sig.low
                /\ 2 * (sig.close - sig.low) >= sig.high - sig.low
             THEN Fine(Lowest(pullback)) - (Scalp.buffer * AverageRange(window)) \div 100
             ELSE None

\* The first setup with a stop that is not too wide, and its risk.
ScalpSignal(bars) ==
    LET average == AverageRange(LastN(Front(bars), Scalp.range_lookback))
        risk(stop) == Fine(Last(bars).close) - stop
        fits(stop) == /\ stop # None
                      /\ risk(stop) > 0
                      /\ average > 0 => 100 * risk(stop) <= Scalp.max_risk * average
        tight == TightBreakout(bars)
        higher == HigherLow(bars)
    IN  IF fits(tight) THEN [setup |-> "TIGHT_BREAKOUT", risk |-> risk(tight)]
        ELSE IF fits(higher) THEN [setup |-> "HIGHER_LOW", risk |-> risk(higher)]
        ELSE None

------------------------------------------------------------------------------
(* Trend.  The setups are read on the closed candles of its timeframe.     *)

BucketCloses(bars) == (Last(bars).at + 1) % Trend.timeframe = 0
TrendCandles(bars) == Resample(bars, Trend.timeframe, Last(bars).at + 1)

IndicatorsAgree(bars) ==
    LET closes == Closes(bars)
        last == Last(closes)
        fast == Last(Ema(closes, EmaFast))
        slow == Last(Ema(closes, EmaSlow))
        adx == Last(Adx(bars, Trend.adx_period))
        rsi == Last(Rsi(closes, Trend.rsi_period))
        up == Supertrend(bars, Trend.st_period, Trend.st_mult)
        vwap == Last(Vwap(bars))
    IN  IF None \in {fast, slow, adx, rsi, vwap} \/ Len(bars) <= Trend.st_period THEN FALSE
        ELSE /\ last > vwap /\ fast > slow /\ adx >= Trend.adx_min
             /\ Trend.rsi_min <= rsi /\ rsi <= Trend.rsi_max /\ up

TrendSetups == <<"ORB15", "VWAP_RECLAIM", "VWAP_PULLBACK", "EMA_PULLBACK", "PDH">>

\* prep is mirrored with the chart, and None when the stock has none.
TrendStates(candles, ext, prep) ==
    << OpeningRangeBreakout(candles, Trend.orb_minutes, Trend.timeframe, ext),
       VwapReclaim(candles, ext), VwapPullback(candles, ext), EmaPullback(candles, ext) >>
    \o IF prep = None THEN <<>> ELSE <<PdhBreakout(candles, prep, ext)>>

\* None unless the last candle has just closed, and there are enough of them.
TrendCheck(bars, prep) ==
    LET candles == TrendCandles(bars)
        atr == AverageTrueRange(candles, Trend.atr_candles)
    IN  IF ~BucketCloses(bars) \/ Len(candles) < Trend.min_candles \/ atr <= 0 THEN None
        ELSE [states |-> TrendStates(candles, (Trend.ext * atr) \div 100, prep),
              risk |-> (Trend.stop * atr) \div 100]

\* The setups that trigger and had not at the previous check; before is None when
\* there was none.
FreshSetups(states, before) ==
    LET had(k) == IF before = None THEN FALSE ELSE before[k] = "TRIGGERED"
    IN  {k \in DOMAIN states : states[k] = "TRIGGERED" /\ ~had(k)}

------------------------------------------------------------------------------
(* Size and vetoes, on the oriented chart *)

WidenedRisk(name, risk, bars) ==
    Max({risk, (Entry[name].stop_atr * AverageTrueRange(bars, Entry[name].atr_bars)) \div 100,
         (Entry[name].min_stop * Fine(Last(bars).close)) \div 10000})

\* The risk budget over the distance of the stop, within the position's value.
SizeOf(budget, value, risk, price) ==
    IF risk <= 0 THEN 0 ELSE Min({Fine(budget) \div risk, value \div price})

RoundTrip(qty, price) == Charges("BUY", qty, price) + Charges("SELL", qty, price)
WorthIt(name, qty, risk, price) ==
    100 * qty * Entry[name].target_r * risk >= Fine(Entry[name].reward_cost * RoundTrip(qty, price))

\* The entry a setup with this risk would be: None when it is too small, against
\* the swings of its timeframe, or not worth its charges.
EntryOf(name, bars, risk, k) ==
    LET wide == WidenedRisk(name, risk, bars)
        price == Last(bars).close
        qty == SizeOf(Entry[name].risk_per_trade, Entry[name].max_position_value, wide, price)
        structure == IF name = "TREND" THEN TrendCandles(bars) ELSE bars
    IN  IF qty < 1 THEN None
        ELSE IF LowerHighs(structure, Entry[name].structure_lookback) \/ ~WorthIt(name, qty, wide, price)
        THEN None
        ELSE [qty |-> qty, risk |-> wide, strength |-> Pct(price, k)]

\* Nor is it taken without more strength than NIFTY's; None: not known.
BeatsNifty(strength, direction, nifty) ==
    nifty # None => strength > IF direction = "LONG" THEN nifty ELSE -nifty

------------------------------------------------------------------------------
(* Opening range: a close beyond it, on either side.                       *)

OrbRange(bars) == SelectSeq(bars, LAMBDA b : b.at < Orb.minutes)

\* None: the range is incomplete or too wide, and the day is over for it.
OrbLevels(bars) ==
    LET range == OrbRange(bars)
        hi == Highest(range)
        lo == Lowest(range)
    IN  IF range = <<>> THEN None
        ELSE IF range[1].at # 0 \/ 10000 * (hi - lo) > Orb.max_range * hi THEN None
        ELSE [hi |-> hi, lo |-> lo]

OrbBreak(bar, levels) ==
    IF bar.close > levels.hi THEN [side |-> "BUY", risk |-> bar.close - levels.lo]
    ELSE IF Orb.allow_short /\ bar.close < levels.lo
         THEN [side |-> "SELL", risk |-> levels.hi - bar.close]
    ELSE None
=============================================================================
