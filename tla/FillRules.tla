------------------------------ MODULE FillRules ------------------------------
(***************************************************************************)
(* The pure rules of the simulated broker: where an order fills against a  *)
(* market event (paper/fills.py), the exit levels of a bracket             *)
(* (paper/orders.py) and the charges of one execution (paper/costs.py).    *)
(*                                                                         *)
(* Money and prices are integers in the program's smallest unit (it rounds *)
(* every price and charge to 4 decimals).  Rates are integers over the     *)
(* denominators SlipDen and RateDen.  A rounding is to the nearest unit;   *)
(* an exact tie goes up here, where Python rounds a float to even.         *)
(***************************************************************************)
EXTENDS Values

CONSTANTS
    SlipNum, SlipDen,   \* slippage_bps / 10_000
    RateDen,            \* every rate below is a numerator over RateDen
    Rates               \* the costs.yaml rates, see CostRates

CostRates ==
    [flat : Nat, min : Nat, pct : Nat, stt : Nat, stamp : Nat,
     txn : Nat, sebi : Nat, ipft : Nat, gst : Nat]

ASSUME SlipAssumption == SlipNum \in Nat /\ SlipDen \in Nat \ {0}
ASSUME RateAssumption == RateDen \in Nat \ {0} /\ Rates \in CostRates

Side == {"BUY", "SELL"}
OrderType == {"MARKET", "LIMIT", "STOP"}

Sign(side) == IF side = "BUY" THEN 1 ELSE -1
Opposite(side) == IF side = "BUY" THEN "SELL" ELSE "BUY"

Lower(a, b) == IF a <= b THEN a ELSE b
Higher(a, b) == IF a <= b THEN b ELSE a

\* round(a / b) for b > 0.
RoundDiv(a, b) == (2 * a + b) \div (2 * b)

(***************************************************************************)
(* Market events: a 1-minute bar, or a live tick (open = high = low =      *)
(* close).                                                                 *)
(***************************************************************************)
Bar(P) == {b \in [open : P, high : P, low : P, close : P] :
              /\ b.low <= b.open /\ b.open <= b.high
              /\ b.low <= b.close /\ b.close <= b.high}

TickBar(p) == [open |-> p, high |-> p, low |-> p, close |-> p]

(***************************************************************************)
(* fills.py.  `level' is the limit_price of a LIMIT order and the          *)
(* trigger_price of a STOP order.                                          *)
(***************************************************************************)
Slip(price, side) == price + Sign(side) * RoundDiv(price * SlipNum, SlipDen)

\* A limit needs price to trade through it, a stop only to touch it.
MutTouched(side, type, level, bar) ==   \* a limit looks at the close only
    \/ type = "MARKET"
    \/ type = "LIMIT" /\ IF side = "BUY" THEN bar.close < level ELSE bar.close > level
    \/ type = "STOP" /\ IF side = "BUY" THEN bar.high >= level ELSE bar.low <= level
Touched(side, type, level, bar) ==
    \/ type = "MARKET"
    \/ type = "LIMIT" /\ side = "BUY" /\ bar.low < level
    \/ type = "LIMIT" /\ side = "SELL" /\ bar.high > level
    \/ type = "STOP" /\ side = "BUY" /\ bar.high >= level
    \/ type = "STOP" /\ side = "SELL" /\ bar.low <= level

\* The price of the market before our own slippage.
RawPrice(side, type, level, bar) ==
    CASE type = "MARKET" -> bar.open
      [] type = "LIMIT" /\ side = "BUY" -> Lower(bar.open, level)
      [] type = "LIMIT" /\ side = "SELL" -> Higher(bar.open, level)
      [] type = "STOP" /\ side = "BUY" -> Higher(bar.open, level)
      [] type = "STOP" /\ side = "SELL" -> Lower(bar.open, level)

\* Where a touched order fills: a limit at its price, the others slipped.
FillPrice(side, type, level, bar) ==
    LET raw == RawPrice(side, type, level, bar)
    IN  IF type = "LIMIT" THEN raw ELSE Slip(raw, side)

(***************************************************************************)
(* orders.py: the exit levels of a bracket, mirrored for a short entry.    *)
(* The distances are in price units (`pct' is False for every strategy     *)
(* run live; a percentage is the same rule with a scaled distance).        *)
(***************************************************************************)
StopLevel(bracket, fill, side) == fill - Sign(side) * bracket.stop
TargetLevel(bracket, fill, side) == fill + Sign(side) * bracket.target

(***************************************************************************)
(* costs.py: the charges of one execution.  The percentages are taken of   *)
(* the turnover; GST is taken of the unrounded fees and each component is  *)
(* rounded on its own.                                                     *)
(***************************************************************************)
Turnover(qty, price) == qty * price

\* brokerage * RateDen
BrokerageNum(t) ==
    Higher(Rates.min * RateDen, Lower(Rates.flat * RateDen, t * Rates.pct))

GstNum(t) == (BrokerageNum(t) + t * (Rates.txn + Rates.sebi + Rates.ipft)) * Rates.gst

Charges(side, qty, price) ==
    LET t == Turnover(qty, price)
    IN  RoundDiv(BrokerageNum(t), RateDen)
        + (IF side = "SELL" THEN RoundDiv(t * Rates.stt, RateDen)
                            ELSE RoundDiv(t * Rates.stamp, RateDen))
        + RoundDiv(t * Rates.txn, RateDen)
        + RoundDiv(t * Rates.sebi, RateDen)
        + RoundDiv(t * Rates.ipft, RateDen)
        + RoundDiv(GstNum(t), RateDen * RateDen)
==============================================================================
