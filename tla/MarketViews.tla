----------------------------- MODULE MarketViews ----------------------------
(***************************************************************************)
(* What the minute's run thinks of the market around a stock: the indices  *)
(* (context.py), the side of the market to trade (sentiment.py), the       *)
(* stock's sector (sector.py) and its order book (microstructure.py).      *)
(*                                                                         *)
(* None is a value nobody has.                                             *)
(***************************************************************************)
EXTENDS Points

CONSTANTS
    TooOldAfter,        \* age at which candles and quotes are too old
    WarmAfter,          \* ticks observed for as long as the velocity's average
    MarketRamp,         \* half-width of NIFTY's and a sector's ramp
    DeadBand,           \* a smaller move does not vote
    MinIndexScore, MinTotalScore,
    ConfirmRs, ConfirmPeers, WeakPeers,     \* a sector's thresholds; shares in percent
    MinPeers,
    Members             \* the stocks of the sector

Share(count, total) == (100 * count) \div total

------------------------------------------------------------------------------
(* An index: None without candles, or its last price, the day's open, the  *)
(* price the trend is measured from, the previous close (None if unknown)  *)
(* and the age of its last candle.                                         *)

Fresh(age) == IF age = None THEN FALSE ELSE age <= TooOldAfter

Change(index) == Pct(index.last, index.open)

\* nifty_context: the score, or None when the index is unavailable.
IndexAvailable(index) == IF index = None THEN FALSE ELSE Fresh(index.age)
IndexScore(index) ==
    IF IndexAvailable(index) THEN Ramp(Change(index), -MarketRamp, MarketRamp) ELSE None

Vote(price, ref) ==
    IF (price - ref) * 10000 >= DeadBand * ref THEN 1
    ELSE IF (ref - price) * 10000 >= DeadBand * ref THEN -1 ELSE 0

\* index_view: the votes of the day, of the session and of the last minutes.
VotesOf(index) ==
    LET since == IF index.prev_close = None THEN index.open ELSE index.prev_close
    IN  Vote(index.last, since) + Vote(index.last, index.open) + Vote(index.last, index.ref)

\* Every index with candles leans one way, and together far enough.
Bias(scores) ==
    LET total == FoldFunction(+, 0, scores)
    IN  IF DOMAIN scores = {} THEN "NEUTRAL"
        ELSE IF total >= MinTotalScore /\ \A n \in DOMAIN scores : scores[n] >= MinIndexScore
             THEN "BULLISH"
        ELSE IF total <= -MinTotalScore /\ \A n \in DOMAIN scores : scores[n] <= -MinIndexScore
             THEN "BEARISH"
        ELSE "NEUTRAL"

MarketSentiment(indices) ==
    Bias([n \in {m \in DOMAIN indices : indices[m] # None} |-> VotesOf(indices[n])])

Directions(bias) ==
    CASE bias = "BULLISH" -> {"LONG"} [] bias = "BEARISH" -> {"SHORT"}
      [] OTHER -> {"LONG", "SHORT"}

TradeDirection(bias) ==
    CASE bias = "BULLISH" -> "LONG" [] bias = "BEARISH" -> "SHORT" [] OTHER -> None

------------------------------------------------------------------------------
(* The sector of a stock, from the changes of its fresh members            *)

NoSector == [status |-> "unavailable", score |-> None, verdict |-> "UNAVAILABLE",
             stock_vs_sector |-> None]

MutPeers(s, changes) == DOMAIN changes      \* the stock confirms itself
Peers(s, changes) == DOMAIN changes \ {s}

\* `changes` has the members with fresh candles; `own` is the stock's change,
\* fresh or not; `index` and `nifty` are changes, None when unavailable.
StockContext(s, changes, own, index, nifty) ==
    LET peers == Peers(s, changes)
        up == {m \in peers : changes[m] > 0}
        rs == index - nifty
        share == IF Cardinality(peers) >= MinPeers
                 THEN Share(Cardinality(up), Cardinality(peers)) ELSE None
        strong == IF share = None THEN TRUE ELSE share >= ConfirmPeers
        weak == IF share = None THEN FALSE ELSE share <= WeakPeers
        ramp == Ramp(rs, -MarketRamp, MarketRamp)
    IN  IF s \notin Members \/ index = None \/ nifty = None THEN NoSector
        ELSE [status |-> "available",
              score |-> IF share = None THEN ramp ELSE (6 * ramp + 400 * share) \div 10,
              verdict |-> IF rs >= ConfirmRs /\ strong THEN "CONFIRMED"
                          ELSE IF rs <= -ConfirmRs \/ weak THEN "WEAK" ELSE "NEUTRAL",
              stock_vs_sector |-> IF own = None THEN None ELSE own - index]

------------------------------------------------------------------------------
(* The live feed's view of a stock: ages in the unit of TooOldAfter, the   *)
(* order book's best prices and total quantities, ticks per minute.        *)

SpreadPct(book) ==
    IF book.bid <= 0 \/ book.ask <= 0 \/ book.ask < book.bid THEN None
    ELSE (20000 * (book.ask - book.bid)) \div (book.ask + book.bid)

Imbalance(book) ==
    LET total == book.bids + book.asks
    IN  IF total <= 0 THEN None ELSE (100 * (book.bids - book.asks)) \div total

TickVelocity(ticks, average) == (100 * ticks) \div Max({average, 1})

MicroScore(imbalance, velocity) ==
    LET bids == Ramp(imbalance, 0, 40)
        speed == Ramp(velocity, 100, 250)
    IN  IF imbalance = None THEN speed
        ELSE IF velocity = None THEN bids
        ELSE (6 * bids + 4 * speed) \div 10

\* None when the stock does not tick; the book counts while it is fresh, the
\* velocity once its five-minute average is one.
SymbolFeed(st) ==
    LET fresh == st.depth # None /\ Fresh(st.depth_age)
        spread == IF fresh THEN SpreadPct(st.depth) ELSE None
        imbalance == IF fresh THEN Imbalance(st.depth) ELSE None
        velocity == IF st.observed >= WarmAfter THEN TickVelocity(st.ticks, st.average) ELSE None
    IN  [spread |-> spread, micro |-> MicroScore(imbalance, velocity)]

FeedOf(st) == IF st = None THEN None ELSE IF Fresh(st.age) THEN SymbolFeed(st) ELSE None
=============================================================================
