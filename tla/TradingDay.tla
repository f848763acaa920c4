----------------------------- MODULE TradingDay -----------------------------
(***************************************************************************)
(* A day of one strategy: each minute it reads the candles of the stocks   *)
(* on the side the market leans to, and places its entries                 *)
(* (strategies/common.py on_bars, orb.py on_bars).  Of the broker there is *)
(* what a strategy sees: an entry is refused or waits, is filled, and the  *)
(* position is closed.  The worker may be restarted at any time, and then  *)
(* knows of the day what on_resume finds in the ledger.                    *)
(*                                                                         *)
(* The rules are functions of the day's candles: what they say of every    *)
(* minute is tabulated with the day, and looked up when the minute comes.  *)
(***************************************************************************)
EXTENDS TradeSignals, MarketViews

CONSTANTS
    Names,              \* the stocks, as numbers: their order breaks ties
    TradeDays,          \* candles, previous close and prep of every stock
    Biases, NiftyMoves  \* what a minute's sentiment may say

\* The limits are numbers (no limit on the day is one that is never reached), and so
\* are prices; no stock closed at 0 the day before.
ASSUME TradeAssumption ==
    /\ IsFiniteSet(Names) /\ Names \subseteq Nat
    /\ \A name \in {"SCALP", "TREND"} :
           Entry[name].max_per_symbol \in Nat /\ Entry[name].max_per_day \in Nat
    /\ \A d \in TradeDays, s \in Names :
           /\ d.k[s] \in Nat \ {0} /\ d.bars[s] \in Seq([at : Nat, volume : Nat, open : Nat,
                                                         high : Nat, low : Nat, close : Nat])

VARIABLES
    trader,             \* the strategy: SCALP, TREND or ORB
    day, minute,        \* its day; minutes closed
    says,               \* stock, minute, side |-> what the rules say, see Reading
    checked,            \* IntradayTrend._prev_state
    waiting, holding,   \* stocks with an entry open, with a position
    count,              \* DirectionalStrategy._trades; ORB: entries in the ledger
    finished,           \* OpeningRangeBreakout._done
    placed              \* the orders of the last minute
tradeVars == <<trader, day, says, minute, checked, waiting, holding, count, finished, placed>>

Direction == {"LONG", "SHORT"}
Unchecked == [s \in Names |-> [d \in Direction |-> None]]

\* Today's closed candles, the first ones of the day; those that closed with this minute.
CandlesAt(s, m) ==
    SubSeq(day.bars[s], 1, Cardinality({i \in DOMAIN day.bars[s] : day.bars[s][i].at < m}))
ClosedIn(m) == {s \in Names : \E b \in ToSet(day.bars[s]) : b.at = m - 1}

LastMinute == Max({b.at + 1 : b \in UNION {ToSet(day.bars[s]) : s \in Names}})

OnChart(s, m, direction) == Oriented(CandlesAt(s, m), day.k[s], direction)
PrepOf(s, direction) ==
    IF day.prep[s] = None \/ direction = "LONG" THEN day.prep[s]
                                                ELSE MirrorPrep(day.prep[s], day.k[s])

\* moves: with the market; states: of the trend's setups, None when there is no
\* check; setup: the scalp's; entry: what a setup would be, None when there is none to take.
Reading(s, m, direction) ==
    LET bars == OnChart(s, m, direction)
        check == TrendCheck(bars, PrepOf(s, direction))
        signal == ScalpSignal(bars)
        entry(risk) == EntryOf(trader, bars, risk, day.k[s])
    IN  [moves |-> Last(bars).close > day.k[s],
         states |-> IF trader = "SCALP" \/ check = None THEN None ELSE check.states,
         setup |-> IF signal = None THEN None ELSE signal.setup,
         entry |-> IF trader = "SCALP" THEN IF signal = None THEN None ELSE entry(signal.risk)
                   ELSE IF check = None THEN None
                   ELSE IF IndicatorsAgree(bars) THEN entry(check.risk) ELSE None]

TradeInit ==
    /\ trader \in {"SCALP", "TREND", "ORB"} /\ day \in TradeDays
    /\ says = [s \in Names |-> [m \in 1..LastMinute |->
                  IF trader = "ORB" \/ s \notin ClosedIn(m) THEN None
                  ELSE [d \in Direction |-> Reading(s, m, d)]]]
    /\ minute = 0 /\ checked = Unchecked
    /\ waiting = {} /\ holding = {} /\ placed = {}
    /\ count = [s \in Names |-> 0] /\ finished = {}

------------------------------------------------------------------------------
(* DirectionalStrategy.on_bars *)

MutConsidered(m, direction) ==      \* a stock may move against the market
    {s \in ClosedIn(m) \ (waiting \cup holding) : count[s] < Entry[trader].max_per_symbol}
Considered(m, direction) ==
    {s \in ClosedIn(m) \ (waiting \cup holding) :
        count[s] < Entry[trader].max_per_symbol /\ says[s][m][direction].moves}

\* A trend's entry needs a setup that triggers now.
FreshNow(s, direction, states) ==
    IF states = None THEN {} ELSE FreshSetups(states, checked[s][direction])

Candidate(s, m, direction, nifty) ==
    LET said == says[s][m][direction]
        fresh == FreshNow(s, direction, said.states)
        named(setup) == [symbol |-> s, direction |-> direction, setup |-> setup, qty |-> said.entry.qty,
                         risk |-> said.entry.risk, strength |-> said.entry.strength]
    IN  IF said.entry = None THEN None
        ELSE IF ~BeatsNifty(said.entry.strength, direction, nifty) THEN None
        ELSE IF trader = "SCALP" THEN named(said.setup)
        ELSE IF fresh = {} THEN None ELSE named(TrendSetups[Min(fresh)])

Stronger(a, b) ==
    \/ a.strength > b.strength
    \/ a.strength = b.strength /\ a.symbol < b.symbol

\* The strongest first, until the day has its trades; a refused one does not count.
Total(counts) == SumFunction(counts)
PlacedInTurn(candidates, refused) ==
    {c \in candidates :
        LET taken == {b \in candidates : Stronger(b, c) /\ b.symbol \notin refused}
        IN  Total(count) + Cardinality(taken) < Entry[trader].max_per_day}

InHours(m) == Entry[trader].first <= m /\ m <= Entry[trader].last

NoEntries ==       \* no side to trade, or not the time for it
    /\ placed' = {} /\ UNCHANGED <<checked, waiting, count>>

OnBars(m, direction, nifty, refused) ==
    LET considered == Considered(m, direction)
        candidates == {Candidate(s, m, direction, nifty) : s \in considered} \ {None}
        orders == PlacedInTurn(candidates, refused)
        accepted == {c.symbol : c \in orders} \ refused
    IN  /\ placed' = orders /\ waiting' = waiting \cup accepted
        /\ count' = [s \in Names |-> IF s \in accepted THEN count[s] + 1 ELSE count[s]]
        /\ checked' = [s \in Names |->
              IF s \notin considered THEN checked[s]
              ELSE IF says[s][m][direction].states = None THEN checked[s]
              ELSE [checked[s] EXCEPT ![direction] = says[s][m][direction].states]]

------------------------------------------------------------------------------
(* OpeningRangeBreakout.on_bars: one attempt a day.                        *)

OrbDue(m) == IF m > Orb.last THEN {}
             ELSE {s \in ClosedIn(m) \ finished : Last(CandlesAt(s, m)).at >= Orb.minutes}

OrbAttempt(s, m) ==
    LET bar == Last(CandlesAt(s, m))
        levels == OrbLevels(CandlesAt(s, m))
        break == OrbBreak(bar, levels)
        qty == SizeOf(Orb.risk_per_trade, Orb.max_position_value, Fine(break.risk), bar.close)
    IN  IF levels = None THEN [over |-> TRUE, order |-> None]
        ELSE IF break = None THEN [over |-> FALSE, order |-> None]
        ELSE [over |-> TRUE,
              order |-> IF qty < 1 THEN None
                        ELSE [symbol |-> s, setup |-> "ORB", qty |-> qty,
                              direction |-> IF break.side = "BUY" THEN "LONG" ELSE "SHORT",
                              risk |-> Fine(break.risk), strength |-> 0]]

OrbOnBars(m, refused) ==
    LET attempts == [s \in OrbDue(m) |-> OrbAttempt(s, m)]
        orders == {attempts[s].order : s \in OrbDue(m)} \ {None}
    IN  /\ placed' = orders
        /\ finished' = finished \cup {s \in OrbDue(m) : attempts[s].over}
        /\ count' = [s \in Names |-> IF \E o \in orders : o.symbol = s THEN count[s] + 1
                                                                      ELSE count[s]]
        /\ waiting' = waiting \cup ({o.symbol : o \in orders} \ refused)
        /\ UNCHANGED checked

------------------------------------------------------------------------------

MinuteOf(bias, nifty, refused) ==
    /\ minute < LastMinute
    /\ minute' = minute + 1
    /\ IF trader = "ORB" THEN OrbOnBars(minute', refused)
       ELSE /\ UNCHANGED finished
            /\ IF TradeDirection(bias) = None \/ ~InHours(minute') THEN NoEntries
               ELSE OnBars(minute', TradeDirection(bias), nifty, refused)
    /\ UNCHANGED <<trader, day, says, holding>>

\* The broker executes an entry; the position ends, at its stop or otherwise.
Executed(s) ==
    /\ s \in waiting /\ waiting' = waiting \ {s} /\ holding' = holding \cup {s}
    /\ UNCHANGED <<trader, day, says, minute, checked, count, finished, placed>>
Ended(s) ==
    /\ s \in holding /\ holding' = holding \ {s}
    /\ UNCHANGED <<trader, day, says, minute, checked, waiting, count, finished, placed>>

\* resume cancels the entries that wait, and on_resume counts those that were
\* executed; the ORB finds every entry, executed or not.
FinishedAfter == {s \in Names : count[s] > 0}
Restarted ==
    /\ minute > 0
    /\ checked' = Unchecked /\ waiting' = {} /\ placed' = {}
    /\ count' = IF trader = "ORB" THEN count
                ELSE [s \in Names |-> IF s \in waiting THEN count[s] - 1 ELSE count[s]]
    /\ finished' = IF trader = "ORB" THEN FinishedAfter ELSE {}
    /\ UNCHANGED <<trader, day, says, minute, holding>>

TradeNext ==
    \/ \E bias \in Biases, nifty \in NiftyMoves, refused \in SUBSET Names :
           MinuteOf(bias, nifty, refused)
    \/ \E s \in Names : Executed(s) \/ Ended(s)
    \/ Restarted

TradeSpec == TradeInit /\ [][TradeNext]_tradeVars

------------------------------------------------------------------------------
(* Properties: what an order means on the chart everybody else sees.       *)

Budget == IF trader = "ORB" THEN Orb.risk_per_trade ELSE Entry[trader].risk_per_trade
ValueCap == IF trader = "ORB" THEN Orb.max_position_value ELSE Entry[trader].max_position_value
PriceNow(o) == Last(CandlesAt(o.symbol, minute)).close

\* What is lost at the stop and what the position is worth stay within their
\* budgets at the price of the market, although a short is sized at the price
\* of the mirrored chart (common.py:13, 185-194).
WithinBudget(o) == /\ o.qty * o.risk <= Fine(Budget)
                   /\ o.qty * PriceNow(o) <= ValueCap

\* A trade that reaches its target earns its charges several times.
EarnsItsCharges(o) ==
    o.setup # "ORB" => WorthIt(trader, o.qty, o.risk, PriceNow(o))

\* A long is bought above, a short sold below what it breaks, and the stop is
\* on the far side of the structure the setup stands on (scalp.py:7-16).
BreaksOut(o) ==
    LET real == CandlesAt(o.symbol, minute)
        base == LastN(Front(real), Scalp.consolidation)
        beyond(level, bars) ==      \* the stop, past the other end of the bars
            IF o.direction = "LONG" THEN level <= Fine(Lowest(bars)) ELSE level >= Fine(Highest(bars))
        stop == IF o.direction = "LONG" THEN Fine(PriceNow(o)) - o.risk
                                        ELSE Fine(PriceNow(o)) + o.risk
        clears(bars) == IF o.direction = "LONG" THEN PriceNow(o) > Highest(bars)
                                                ELSE PriceNow(o) < Lowest(bars)
    IN  /\ o.setup = "TIGHT_BREAKOUT" => clears(base) /\ beyond(stop, base)
        /\ o.setup = "HIGHER_LOW" =>
              clears(LastN(Front(real), 1)) /\ beyond(stop, LastN(Front(real), 2))
        /\ o.setup = "ORB" => clears(OrbRange(real)) /\ beyond(stop, OrbRange(real))
        /\ o.setup = "PDH" => IF o.direction = "LONG" THEN PriceNow(o) >= day.prep[o.symbol].prev_high
                                                      ELSE PriceNow(o) <= day.prep[o.symbol].prev_low

\* No entry against the structure: a long after falling swing highs, a short
\* after rising swing lows (common.py:16-18).
HigherLows(bars) ==
    LET window == LastN(bars, Entry[trader].structure_lookback)
        lows == SwingLows(window)
        latest == Max(lows)
    IN  Cardinality(lows) >= 2 /\ window[latest].low > window[Max(lows \ {latest})].low
AgainstStructure(o) ==
    LET real == CandlesAt(o.symbol, minute)
        read == IF trader = "TREND" THEN TrendCandles(real) ELSE real
    IN  IF trader = "ORB" THEN FALSE
        ELSE IF o.direction = "LONG" THEN LowerHighs(read, Entry[trader].structure_lookback)
        ELSE HigherLows(read)

OrdersAreSound ==
    \A o \in placed :
        WithinBudget(o) /\ EarnsItsCharges(o) /\ BreaksOut(o) /\ ~AgainstStructure(o)

\* A day's limits hold however often the worker restarts: a stock has one entry or
\* position at a time, each is counted, and no stock and no day has more than it may;
\* the opening range is attempted once (common.py:156-161, 179-180, 213; orb.py:69-70).
LimitsHold ==
    /\ waiting \cap holding = {} /\ \A s \in waiting \cup holding : count[s] > 0
    /\ \A s \in Names : count[s] <= IF trader = "ORB" THEN 1 ELSE Entry[trader].max_per_symbol
    /\ trader # "ORB" => Total(count) <= Entry[trader].max_per_day
=============================================================================
