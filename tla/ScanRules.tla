------------------------------ MODULE ScanRules ------------------------------
(***************************************************************************)
(* The scan of the whole market (volume_scan.py): which stocks move with   *)
(* the market on unusual volume, and in which order.  Ratios are in        *)
(* hundredths; a share of the day's volume is in hundredths of a percent.  *)
(* The points of a traded value, a logarithm in the code, are the number   *)
(* of steps it has passed.                                                 *)
(***************************************************************************)
EXTENDS DayHistory

CONSTANTS
    Filters,            \* min_price, max_price, min_volume, min_value
    Qualifying,         \* QualifyRules: min_move, min_volume_change, require_rs
    LongOnly,           \* ScanFilters.long_only
    MarketCurve,        \* share of a normal day's volume traded by each minute
    PreWeights,         \* PRESCORE_WEIGHTS
    ValueSteps          \* traded values that earn points

ExpectedFraction(m) == IF m >= SessionMinutes THEN 10000 ELSE MarketCurve[m + 1]

PriceOk(price) == Filters.min_price <= price /\ price <= Filters.max_price
Liquid(stats) == stats.volume >= Filters.min_volume /\ stats.value >= Filters.min_value
InPool(stats) == stats # None /\ PriceOk(stats.prev_close) /\ Liquid(stats)

Toward(direction) == IF direction = "SHORT" THEN -1 ELSE 1

MovesWith(change, direction, index) ==
    /\ Toward(direction) * change >= Qualifying.min_move
    /\ Qualifying.require_rs /\ index # None => Toward(direction) * (change - index) > 0

VolumeChange(q, stats, m) == (q.volume * 1000000) \div (stats.volume * ExpectedFraction(m))

\* Today's pace since the quote before, against the pace of the day so far.
Acceleration(q) ==
    IF q.prev_at = None \/ q.volume = 0 THEN None
    ELSE IF q.at <= q.prev_at THEN None
         ELSE ((q.volume - q.prev_volume) * q.at * 100) \div ((q.at - q.prev_at) * q.volume)

\* Where the price is within the range of the day, seen from the direction's side.
InRange(q, direction) ==
    IF q.high = None THEN None
    ELSE IF q.high = q.low THEN None
         ELSE LET up == ((q.last - q.low) * 100) \div (q.high - q.low)
              IN  IF direction = "SHORT" THEN 100 - up ELSE up

Parts(q, stats, direction) ==
    [movement |->
        [change |-> Ramp(Toward(direction) * Pct(q.last, stats.prev_close), 0, 300),
         range |-> IF q.high = None \/ stats.atr = 0 THEN None
                   ELSE Ramp(((q.high - q.low) * 10000) \div stats.atr, 30, 100),
         position |-> Ramp(InRange(q, direction), 50, 100),
         vwap |-> IF q.vwap = None THEN None
                  ELSE Ramp(Toward(direction) * Pct(q.last, q.vwap), 0, 100)],
     volume |->
        [volume_change |-> Ramp(VolumeChange(q, stats, q.at), 100, 400),
         acceleration |-> Ramp(Acceleration(q), 100, 300)],
     liquidity |->
        [value |-> IF q.volume = 0 THEN None
                   ELSE (10000 * Cardinality({v \in ValueSteps : v <= q.volume * q.last}))
                            \div Cardinality(ValueSteps)]]

Prescore(parts) ==
    LET group == [g \in DOMAIN PreWeights |-> Average(parts[g])]
        used == {g \in DOMAIN PreWeights : group[g] # None}
        weighed == [g \in used |-> group[g] * PreWeights[g]]
    IN  IF used = {} THEN 0
        ELSE SumFunctionOnSet(weighed, used) \div SumFunctionOnSet(PreWeights, used)

Candidate(s, q, stats, direction, m) ==
    LET parts == Parts(q, stats, direction)
    IN  [symbol |-> s, direction |-> direction, change |-> Pct(q.last, stats.prev_close),
         volume_change |-> VolumeChange(q, stats, m), parts |-> parts, score |-> Prescore(parts)]

Ahead(a, b) ==
    \/ a.score > b.score
    \/ a.score = b.score /\ a.volume_change > b.volume_change
    \/ a.score = b.score /\ a.volume_change = b.volume_change /\ a.symbol < b.symbol
Ordered(candidates) == SetToSortSeq(candidates, Ahead)

Considered(quotes, stats) ==
    {s \in DOMAIN quotes : quotes[s] # None /\ stats[s] # None}
Filtered(quotes, stats) ==
    {s \in Considered(quotes, stats) : PriceOk(quotes[s].last) /\ Liquid(stats[s])}

\* The direction, of those the market allows, a stock moves in; None: in none.
DirectionOf(change, directions, index) ==
    LET fits == SelectSeq(directions, LAMBDA d : MovesWith(change, d, index))
    IN  IF fits = <<>> THEN None ELSE Head(fits)

\* The live scan: qualify.
Qualify(quotes, stats, m, directions, index) ==
    LET side == [s \in Filtered(quotes, stats) |->
                    DirectionOf(Pct(quotes[s].last, stats[s].prev_close), directions, index)]
        moving == {s \in DOMAIN side : side[s] # None}
    IN  Ordered({c \in {Candidate(s, quotes[s], stats[s], side[s], m) : s \in moving} :
                    c.volume_change >= Qualifying.min_volume_change})

\* The replay of history: rank_volume_change, for the long side.
RankVolumeChange(quotes, stats, m) ==
    Ordered({c \in {Candidate(s, quotes[s], stats[s], "LONG", m) : s \in Filtered(quotes, stats)} :
                LongOnly => c.change > 0})
=============================================================================
