----------------------------- MODULE SetupRules -----------------------------
(***************************************************************************)
(* The setup detectors and the indicators under them (setups.py,           *)
(* indicators/core.py, candles.py): what a signal says of the candles of   *)
(* the day so far.                                                         *)
(*                                                                         *)
(* Prices are integers.  A computed level (VWAP, EMA) is an integer in     *)
(* steps of 1/Scale of a price step, rounded down.  Candles are closed:    *)
(* every detector drops the forming one before anything else.              *)
(***************************************************************************)
EXTENDS Points

CONSTANTS
    Scale,              \* steps of a level per step of a price
    DayMinutes,         \* length of the candles of DAY mode
    OrbMinutes,         \* mode |-> length of the opening range
    ExtAtr,             \* mode |-> "extended" distance, in hundredths of the ATR
    ExtFallback,        \* and in hundredths of a percent without an ATR
    EmaFast, EmaSlow,   \* periods of the two EMAs
    ReclaimLookback, PullbackLookback, TrendLookback,
    BurstLookback, BurstHold

ASSUME ScaleAssumption ==
    /\ Scale \in Nat \ {0} /\ DayMinutes \in Nat \ {0}
    /\ EmaFast \in Nat \ {0} /\ EmaSlow \in Nat \ {0}

Mode == {"SCALP", "DAY"}
SetupState == {"NONE", "FORMING", "TRIGGERED", "EXTENDED", "FAILED"}
Active == {"TRIGGERED", "FORMING"}

Fine(price) == Scale * price
Closes(bars) == [i \in DOMAIN bars |-> Fine(bars[i].close)]

------------------------------------------------------------------------------
(* Candles and indicators *)

\* The first `count` buckets of n minutes from the session's open, without the
\* empty ones.
Buckets(bars, n, count) ==
    LET startOf(b) == (b.at \div n) * n
        all == [k \in 1..count |-> (k - 1) * n]
        starts == SelectSeq(all, LAMBDA s : \E b \in ToSet(bars) : startOf(b) = s)
    IN  [k \in DOMAIN starts |->
            MergedBar(SelectSeq(bars, LAMBDA b : startOf(b) = starts[k]), starts[k])]

\* The buckets that `now` has closed.
MutResample(bars, n, now) == Buckets(bars, n, (now + n - 1) \div n)   \* and the open one
Resample(bars, n, now) == Buckets(bars, n, now \div n)

Vwap(bars) ==
    [i \in DOMAIN bars |->
        LET vol == MapThenSumSet(LAMBDA j : bars[j].volume, 1..i)
            pv == MapThenSumSet(LAMBDA j :
                      (bars[j].high + bars[j].low + bars[j].close) * bars[j].volume, 1..i)
        IN  IF vol = 0 THEN None ELSE (Scale * pv) \div (3 * vol)]

Ema(values, period) ==
    LET smooth[i \in period..Len(values)] ==
            IF i = period THEN MapThenSumSet(LAMBDA j : values[j], 1..period) \div period
            ELSE (2 * values[i] + (period - 1) * smooth[i - 1]) \div (period + 1)
    IN  [i \in DOMAIN values |-> IF i < period THEN None ELSE smooth[i]]

------------------------------------------------------------------------------
(* The two shapes most detectors share *)

\* An upward cross of `levels` by `closes`, no earlier than the last `lookback`
\* closes; ref stands before the first close.
CrossState(closes, levels, ext, ref, lookback) ==
    LET n == Len(closes)
        before(s, i, first) == IF i = 1 THEN first ELSE s[i - 1]
        crossed == \E i \in Max({1, n - lookback + 1})..n :
                       /\ levels[i] # None /\ before(levels, i, levels[1]) # None
                       /\ closes[i] > levels[i]
                       /\ before(closes, i, ref) <= before(levels, i, levels[1])
        last == closes[n]
        level == levels[n]
    IN  IF n = 0 THEN "NONE"
        ELSE IF level = None THEN "NONE"
        ELSE IF crossed THEN IF last < level THEN "FAILED"
                             ELSE IF last - level > ext THEN "EXTENDED" ELSE "TRIGGERED"
        ELSE IF level * 9925 <= last * 10000 /\ last <= level THEN "FORMING" ELSE "NONE"

\* The latest candle that tagged `touch` and closed at or above `support`, in a
\* trend: then a close above its high triggers and a close below support fails.
PullbackState(bars, touch, support, trend, ext) ==
    LET n == Len(bars)
        tagged == {i \in Max({1, n - PullbackLookback + 1})..n :
                      IF touch[i] = None \/ support[i] = None THEN FALSE
                      ELSE /\ Fine(bars[i].low) * 1000 <= touch[i] * 1001
                           /\ Fine(bars[i].close) >= support[i]}
        t == Max(tagged)
        lost(i) == IF support[i] = None THEN FALSE ELSE Fine(bars[i].close) < support[i]
    IN  IF tagged = {} THEN "NONE"
        ELSE IF ~trend[t] THEN "NONE"
        ELSE IF \E i \in t+1..n : lost(i) THEN "FAILED"
        ELSE IF \A i \in t+1..n : bars[i].close <= bars[t].high THEN "FORMING"
        ELSE IF Fine(bars[n].close - bars[t].high) > ext THEN "EXTENDED" ELSE "TRIGGERED"

------------------------------------------------------------------------------
(* The detectors *)

AllOf(n, level) == [i \in 1..n |-> level]

OpeningRangeBreakout(bars, minutes, length, ext) ==
    LET range == SelectSeq(bars, LAMBDA b : b.at < minutes)
        after == SelectSeq(bars, LAMBDA b : b.at >= minutes)
        level == Fine(Max({b.high : b \in ToSet(range)}))
        closes == Closes(IF after = <<>> THEN <<Last(range)>> ELSE after)
    IN  IF range = <<>> THEN "NONE"
        ELSE IF Last(range).at + length < minutes THEN "NONE"
        ELSE CrossState(closes, AllOf(Len(closes), level), ext, level, Len(closes))

PdhBreakout(bars, prep, ext) ==
    IF bars = <<>> THEN "NONE"
    ELSE CrossState(Closes(bars), AllOf(Len(bars), Fine(prep.prev_high)), ext,
                    Fine(bars[1].open), Len(bars))

VwapReclaim(bars, ext) ==
    IF bars = <<>> THEN "NONE"
    ELSE CrossState(Closes(bars), Vwap(bars), ext, Fine(bars[1].open), ReclaimLookback)

VwapPullback(bars, ext) ==
    LET vw == Vwap(bars)
        prior(t) == Max({1, t - TrendLookback})..t-1
        above(t) == {i \in prior(t) : IF vw[i] = None THEN FALSE ELSE Fine(bars[i].close) > vw[i]}
        trend == [t \in DOMAIN bars |->
                     prior(t) # {} /\ 10 * Cardinality(above(t)) >= 6 * Cardinality(prior(t))]
    IN  PullbackState(bars, vw, vw, trend, ext)

EmaPullback(bars, ext) ==
    LET fast == Ema(Closes(bars), EmaFast)
        slow == Ema(Closes(bars), EmaSlow)
        trend == [t \in DOMAIN bars |->
                     IF fast[t] = None \/ slow[t] = None THEN FALSE ELSE fast[t] > slow[t]]
    IN  PullbackState(bars, fast, slow, trend, ext)

NarrowCprTrend(bars, prep, ext) ==
    LET last == Last(bars).close
        wasAbove == \E i \in 1..Len(bars)-1 : bars[i].close > prep.cpr_top
    IN  IF bars = <<>> \/ prep.cpr_width > 25 THEN "NONE"
        ELSE IF last > prep.cpr_top
             THEN IF Fine(last - prep.cpr_top) > ext THEN "EXTENDED" ELSE "TRIGGERED"
        ELSE IF last >= prep.cpr_bottom THEN IF wasAbove THEN "FAILED" ELSE "FORMING"
        ELSE "NONE"

GapAndGo(bars, prep, ext) ==
    LET rest == Tail(bars)
        state == CrossState(Closes(rest), AllOf(Len(rest), Fine(bars[1].high)), ext,
                            Fine(bars[1].close), Len(rest))
    IN  IF bars = <<>> THEN "NONE"
        ELSE IF Pct(bars[1].open, prep.prev_close) < 100 THEN "NONE"
        ELSE IF Last(bars).close <= prep.prev_close THEN "FAILED"
        ELSE IF rest = <<>> \/ state = "NONE" THEN "FORMING"
        ELSE state

RelativeStrength(bars, index) ==
    LET stock == Pct(Last(bars).close, bars[1].open)
        rs == stock - Pct(Last(index).close, index[1].open)
    IN  IF bars = <<>> \/ index = <<>> THEN "NONE"
        ELSE IF stock <= 0 \/ rs <= 0 THEN "NONE"
        ELSE IF rs >= 50 THEN "TRIGGERED" ELSE "FORMING"

\* A bullish candle with twice the average body and volume of those before it,
\* closing in the top quarter of its range.
IsBurst(bars, b) ==
    LET c == bars[b]
        body(i) == IF bars[i].close > bars[i].open THEN bars[i].close - bars[i].open
                                                   ELSE bars[i].open - bars[i].close
        total(f(_)) == MapThenSumSet(f, b-BurstLookback..b-1)
    IN  /\ c.close > c.open /\ c.high > c.low
        /\ 4 * (c.close - c.low) >= 3 * (c.high - c.low)
        /\ (c.close - c.open) * BurstLookback >= 2 * total(body)
        /\ c.volume * BurstLookback >= 2 * total(LAMBDA i : bars[i].volume)

MomentumBurst(bars) ==
    LET n == Len(bars)
        bursts == {b \in Max({BurstLookback + 1, n - BurstHold + 1})..n : IsBurst(bars, b)}
        b == Max(bursts)
    IN  IF bursts = {} THEN "NONE"
        ELSE IF 2 * bars[n].close < bars[b].high + bars[b].low THEN "FAILED" ELSE "TRIGGERED"

------------------------------------------------------------------------------
(* What a mode looks at *)

Extension(mode, prep) ==
    IF prep.atr # None THEN (ExtAtr[mode] * Fine(prep.atr)) \div 100
                       ELSE (Fine(prep.prev_close) * ExtFallback) \div 10000

Signal(name, state) == [name |-> name, state |-> state]

RunSetups(mode, bars, prep, index, now) ==
    LET ext == Extension(mode, prep)
        orb == OrbMinutes[mode]
        c == Resample(bars, DayMinutes, now)
    IN  IF mode = "SCALP"
        THEN << Signal("ORB5", OpeningRangeBreakout(bars, orb, 1, ext)),
                Signal("VWAP_RECLAIM", VwapReclaim(bars, ext)),
                Signal("VWAP_PULLBACK", VwapPullback(bars, ext)),
                Signal("EMA_PULLBACK", EmaPullback(bars, ext)),
                Signal("MOMENTUM_BURST", MomentumBurst(bars)),
                Signal("RS_VS_NIFTY", RelativeStrength(bars, index)) >>
        ELSE << Signal("ORB15", OpeningRangeBreakout(c, orb, DayMinutes, ext)),
                Signal("PDH", PdhBreakout(c, prep, ext)),
                Signal("VWAP_RECLAIM", VwapReclaim(c, ext)),
                Signal("VWAP_PULLBACK", VwapPullback(c, ext)),
                Signal("EMA_PULLBACK", EmaPullback(c, ext)),
                Signal("NARROW_CPR", NarrowCprTrend(c, prep, ext)),
                Signal("GAP_AND_GO", GapAndGo(c, prep, ext)),
                Signal("RS_VS_NIFTY", RelativeStrength(c, index)) >>
=============================================================================
