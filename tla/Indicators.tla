----------------------------- MODULE Indicators -----------------------------
(***************************************************************************)
(* The indicators the trend strategy confirms an entry with                *)
(* (indicators/core.py): true range, RSI, ADX and Supertrend.  VWAP and    *)
(* EMA are in SetupRules.                                                  *)
(*                                                                         *)
(* Prices are in steps of 1/Scale (Fine), percentages in hundredths; a     *)
(* value that is still warming up is None.                                 *)
(***************************************************************************)
EXTENDS SetupRules

Distance(a, b) == IF a >= b THEN a - b ELSE b - a
SumOver(values, from, to) == FoldLeft(+, 0, SubSeq(values, from, to))

TrueRange(bars) ==
    [i \in DOMAIN bars |->
        LET b == bars[i]
        IN  Fine(IF i = 1 THEN b.high - b.low
                 ELSE Max({b.high - b.low, Distance(b.high, bars[i-1].close),
                           Distance(b.low, bars[i-1].close)}))]

\* Wilder's smoothing of all but the first `start` values.
Wilder(values, period, start) ==
    LET seed == start + period
        smooth[i \in seed..Len(values)] ==
            IF i = seed THEN SumOver(values, start + 1, seed) \div period
            ELSE ((period - 1) * smooth[i-1] + values[i]) \div period
    IN  [i \in DOMAIN values |-> IF i < seed THEN None ELSE smooth[i]]

Rsi(closes, period) ==
    LET gains == [i \in DOMAIN closes |-> IF i = 1 THEN 0 ELSE Max({closes[i] - closes[i-1], 0})]
        losses == [i \in DOMAIN closes |-> IF i = 1 THEN 0 ELSE Max({closes[i-1] - closes[i], 0})]
        up == Wilder(gains, period, 1)
        down == Wilder(losses, period, 1)
    IN  [i \in DOMAIN closes |->
            IF up[i] = None THEN None
            ELSE IF down[i] = 0 THEN 10000 ELSE (10000 * up[i]) \div (up[i] + down[i])]

\* How much of the range was movement in one direction, smoothed twice.
Adx(bars, period) ==
    LET up(i) == Fine(bars[i].high - bars[i-1].high)
        down(i) == Fine(bars[i-1].low - bars[i].low)
        plus == [i \in DOMAIN bars |->
                    IF i = 1 THEN 0 ELSE IF up(i) > down(i) /\ up(i) > 0 THEN up(i) ELSE 0]
        minus == [i \in DOMAIN bars |->
                    IF i = 1 THEN 0 ELSE IF down(i) > up(i) /\ down(i) > 0 THEN down(i) ELSE 0]
        range == Wilder(TrueRange(bars), period, 1)
        p == Wilder(plus, period, 1)
        m == Wilder(minus, period, 1)
        dx == [i \in DOMAIN bars |->
                  IF i <= period THEN 0
                  ELSE IF range[i] = 0 \/ p[i] + m[i] = 0 THEN 0
                  ELSE (10000 * Distance(p[i], m[i])) \div (p[i] + m[i])]
    IN  IF Len(bars) < 2 * period THEN [i \in DOMAIN bars |-> None]
                                  ELSE Wilder(dx, period, period)

\* Whether the last close is in an uptrend: the bands only tighten while the
\* closes stay within them, and the trend turns at a close beyond its band.
Supertrend(bars, period, multiplier) ==
    LET range == Wilder(TrueRange(bars), period, 1)
        middle(i) == Fine(bars[i].high + bars[i].low) \div 2
        close(i) == Fine(bars[i].close)
        trend[i \in period+1..Len(bars)] ==
            LET high == middle(i) + multiplier * range[i]
                low == middle(i) - multiplier * range[i]
                was == trend[i-1]
                upper == IF high < was.upper \/ close(i-1) > was.upper THEN high ELSE was.upper
                lower == IF low > was.lower \/ close(i-1) < was.lower THEN low ELSE was.lower
            IN  IF i = period + 1
                THEN [upper |-> high, lower |-> low, up |-> close(i) >= middle(i)]
                ELSE [upper |-> upper, lower |-> lower,
                      up |-> IF was.up THEN close(i) >= lower ELSE close(i) > upper]
    IN  IF Len(bars) <= period THEN None ELSE trend[Len(bars)].up
=============================================================================
