----------------------------- MODULE FillChecks -----------------------------
(***************************************************************************)
(* One minute of the market, tick by tick, against the fill rules.  The    *)
(* live broker is offered the ticks; a backtest is offered the bar they    *)
(* make.  The rules are pure, so a behaviour only grows the minute, and    *)
(* the invariants compare the two for every order and every level.         *)
(***************************************************************************)
EXTENDS FillRules, Sequences, FiniteSetsExt

CONSTANTS
    Prices, Levels,     \* prices the market may print, levels orders may have
    Quantities,         \* quantities for the charges
    MaxTicks            \* ticks in the minute

ASSUME InputAssumption ==
    Prices \subseteq Nat \ {0} /\ Levels \subseteq Nat \ {0} /\ Quantities \subseteq Nat \ {0}

VARIABLE ticks          \* the prices of the minute so far

Init == ticks = <<>>
Next == \E p \in Prices : Len(ticks) < MaxTicks /\ ticks' = Append(ticks, p)
Spec == Init /\ [][Next]_ticks

------------------------------------------------------------------------------

Printed == {ticks[k] : k \in DOMAIN ticks}
MinuteBar == [open |-> ticks[1], high |-> Max(Printed), low |-> Min(Printed),
              close |-> ticks[Len(ticks)]]

Kind == Side \X {"LIMIT", "STOP"} \X Levels
TickTouches(k, o) == Touched(o[1], o[2], o[3], TickBar(ticks[k]))
BarTouches(o) == Touched(o[1], o[2], o[3], MinuteBar)

\* A minute bar is a bar: high and low bound the open and the close.
TypeOK == ticks # <<>> => MinuteBar \in Bar(Prices)

\* A backtest fills the orders that the ticks would have filled, no more and
\* no fewer (fills.py:27-43, broker.py:172-173: a tick is a bar of one price).
SameFillsOnTicksAndBar ==
    \A o \in Kind : BarTouches(o) <=> \E k \in DOMAIN ticks : TickTouches(k, o)

\* Before slippage a fill is at a price between the bar's low and its high:
\* nobody trades where the market was not (fills.py:34-43).
FillsInsideTheBar ==
    \A o \in Kind :
        BarTouches(o) => LET raw == RawPrice(o[1], o[2], o[3], MinuteBar)
                         IN  MinuteBar.low <= raw /\ raw <= MinuteBar.high

\* A limit fills at its price or better, a stop at its trigger or worse, gaps
\* and slippage included (fills.py:9-15).
NoGiftFromTheBar ==
    \A o \in Kind :
        LET price == FillPrice(o[1], o[2], o[3], MinuteBar)
            worse(a, b) == IF o[1] = "BUY" THEN a >= b ELSE a <= b
        IN  BarTouches(o) => IF o[2] = "LIMIT" THEN worse(o[3], price)
                                               ELSE worse(price, o[3])

\* A limit never fills better on the bar than at the first tick that fills it.
BarLimitIsConservative ==
    \A o \in Kind :
        o[2] = "LIMIT" /\ BarTouches(o) =>
            LET k == Min({j \in DOMAIN ticks : TickTouches(j, o)})
                live == FillPrice(o[1], "LIMIT", o[3], TickBar(ticks[k]))
                bar == FillPrice(o[1], "LIMIT", o[3], MinuteBar)
            IN  IF o[1] = "BUY" THEN live <= bar ELSE bar <= live

\* A backtest fills what live would fill, at prices that were there, and no
\* kinder than the market was.
BarIsHonest ==
    /\ SameFillsOnTicksAndBar /\ FillsInsideTheBar
    /\ NoGiftFromTheBar /\ BarLimitIsConservative

\* Two executions never cost less than one of both together: the minimum and
\* the cap of the brokerage are per order, and rounding moves each of the six
\* components of the sum by less than a unit and a half (costs.py:52-70).
SplittingNeverPays ==
    \A side \in Side, p \in Printed, q \in Quantities, r \in Quantities :
        Charges(side, q + r, p) <= Charges(side, q, p) + Charges(side, r, p) + 6

\* Backtest and live agree on every minute in which there is a tick, and one
\* execution is charged no more than the two it could be split into.
FillsAreHonest == ticks # <<>> => BarIsHonest /\ SplittingNeverPays
=============================================================================
