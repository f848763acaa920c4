------------------------------ MODULE SimBroker ------------------------------
(***************************************************************************)
(* The simulated broker, paper/broker.py: orders, brackets, positions,     *)
(* cash and round trips, driven by calls of a strategy (place, cancel) and *)
(* of its session (market events, square-off, marks).                      *)
(*                                                                         *)
(* One call runs at a time (the session holds its lock), and a call that   *)
(* loops is a sequence of forced steps: while `phase' is not "idle" only   *)
(* the next iteration of the loop is enabled.  An iteration is the unit at *)
(* which the ledger sees the broker, so a module that adds crashes can     *)
(* place one between two of them.                                          *)
(***************************************************************************)
EXTENDS FillRules, Sequences, FiniteSets, FiniteSetsExt, SequencesExt

CONSTANTS
    Symbols,
    StartingCapital, MaxPositionValue, MaxOpenPositions, AllowShort,
    SquareOff,          \* time of day from which no entry is accepted
    DayLength,          \* a time stamp is day * DayLength + time of day
    \* The inputs offered to the broker, and the bounds of the model.
    Quantities, Levels, Prices, Bars, Brackets,
    MaxOrders,          \* orders placed, the exits of brackets not counted
    MaxEvents,          \* market events in a behaviour
    MaxTime             \* last time stamp

\* The exits attached to an entry, as distances from its fill.
Bracket == [stop : Nat, target : Nat \cup {None}]

ASSUME SymbolsAssumption == IsFiniteSet(Symbols)
ASSUME LimitsAssumption ==
    /\ StartingCapital \in Nat /\ MaxPositionValue \in Nat
    /\ MaxOpenPositions \in Nat /\ AllowShort \in BOOLEAN
ASSUME TimeAssumption ==
    DayLength \in Nat \ {0} /\ SquareOff \in Nat /\ MaxTime \in Nat
ASSUME QuantityAssumption == Quantities \subseteq Nat
ASSUME LevelAssumption == Levels \subseteq Nat
ASSUME PriceAssumption == Prices \subseteq Nat \ {0}
ASSUME BarAssumption == Bars \subseteq Bar(Prices)
ASSUME BracketAssumption ==
    Brackets \subseteq Bracket \cup {None}
ASSUME BoundAssumption == MaxOrders \in Nat /\ MaxEvents \in Nat

VARIABLES
    orders,     \* _orders: id -> order, for the ids in use
    n,          \* _n: the last order id
    pos,        \* _positions: symbol -> [qty (signed), avg]
    trade,      \* _open_trades: symbol -> the open round trip, dir "NONE" if none
    trades,     \* trades: the closed round trips
    cash,
    last,       \* _last: symbol -> last price, or None
    seq,        \* _seq: market events so far
    clock,      \* _clock, or None
    squared,    \* _squared
    fills,      \* the rows of the ledger's fills table, in rowid order
    phase,      \* the call in progress: "idle", "tick" or "square"
    event,      \* on_tick: the market event; None otherwise
    seen,       \* on_tick: ids the loop has visited
    todo        \* square_off: symbols the loop has still to close

book == <<pos, trade, trades, cash, fills>>
time == <<clock, squared>>
call == <<phase, event, seen, todo>>
vars == <<orders, n, book, last, seq, time, call>>

------------------------------------------------------------------------------
(* Orders, positions and queries.                                          *)

Status == {"OPEN", "FILLED", "CANCELLED", "REJECTED"}

\* `oco' is both parent_id and oco_id: the entry an exit belongs to, 0 if none.
Order == [symbol : Symbols, side : Side, qty : Nat, type : OrderType, level : Int,
          bracket : Bracket \cup {None}, oco : Nat,
          status : Status, active : Nat, opening : BOOLEAN]

\* A fill as the books see it; `opening' is not stored but recomputed on resume.
Execution == [symbol : Symbols, side : Side, qty : Nat, price : Int,
              at : Nat \cup {None}, opening : BOOLEAN]

\* The open round trip of a symbol, and the record of a closed one.
Trade == [dir : {"NONE", "LONG", "SHORT"}, entryQty : Int, entryValue : Int,
          exitQty : Int, exitValue : Int, charges : Int]
Closed == [symbol : Symbols, qty : Int, net : Int]
Position == [qty : Int, avg : Int]

NoTrade == [dir |-> "NONE", entryQty |-> 0, entryValue |-> 0,
            exitQty |-> 0, exitValue |-> 0, charges |-> 0]

Abs(i) == IF i < 0 THEN -i ELSE i
Put(f, i, v) == [j \in DOMAIN f \cup {i} |-> IF j = i THEN v ELSE f[j]]

Open == {i \in DOMAIN orders : orders[i].status = "OPEN"}
OpenFor(s) == {i \in Open : orders[i].symbol = s}
Pending == {i \in Open : orders[i].opening}
Held == {s \in Symbols : pos[s].qty # 0}
InUse == Held \cup {orders[i].symbol : i \in Pending}

\* A trade of this side would reduce the position of s.
Reduces(p, side) == \/ p.qty > 0 /\ side = "SELL"
                    \/ p.qty < 0 /\ side = "BUY"

ShortMargin ==
    SumFunction([s \in Symbols |-> IF pos[s].qty < 0 THEN -pos[s].qty * pos[s].avg ELSE 0])
Available == cash - 2 * ShortMargin

------------------------------------------------------------------------------
(* _book: what one execution does to a position, the open round trip and   *)
(* the cash.                                                               *)

PositionAfter(p, x) ==
    IF x.opening
    THEN [qty |-> p.qty + Sign(x.side) * x.qty,
          avg |-> (p.avg * Abs(p.qty) + x.price * x.qty) \div (Abs(p.qty) + x.qty)]
    ELSE LET q == p.qty + Sign(x.side) * x.qty
         IN  [qty |-> q, avg |-> IF q = 0 THEN 0 ELSE p.avg]

TradeAfter(t, x) ==
    LET entered == IF x.opening THEN x.qty ELSE 0
        exited == x.qty - entered
    IN  [dir |-> IF ~x.opening \/ t.dir # "NONE" THEN t.dir
                 ELSE IF x.side = "BUY" THEN "LONG" ELSE "SHORT",
         entryQty |-> t.entryQty + entered,
         entryValue |-> t.entryValue + entered * x.price,
         exitQty |-> t.exitQty + exited,
         exitValue |-> t.exitValue + exited * x.price,
         charges |-> t.charges + Charges(x.side, x.qty, x.price)]

CashAfter(c, x) ==
    c - Sign(x.side) * x.qty * x.price - Charges(x.side, x.qty, x.price)

\* _close_trade: the record appended when the position is flat again.
MutNet(t) ==        \* without the charges
    IF t.dir = "LONG" THEN t.exitValue - t.entryValue ELSE t.entryValue - t.exitValue
Net(t) == (IF t.dir = "LONG" THEN t.exitValue - t.entryValue
                             ELSE t.entryValue - t.exitValue) - t.charges
ClosedTrade(s, t) == [symbol |-> s, qty |-> t.entryQty, net |-> Net(t)]

------------------------------------------------------------------------------
(* _check: whether an order is accepted.                                   *)

\* _ref_price: a 0 level is a missing one.
RefPrice(o) == IF o.type = "MARKET" THEN last[o.symbol] ELSE o.level
Estimate(o) == IF RefPrice(o) = None THEN 0 ELSE o.qty * RefPrice(o)
Reserved(ids) == MapThenSumSet(LAMBDA i : Estimate(orders[i]), ids)

ValueCapped(o) ==
    Abs(pos[o.symbol].qty) * pos[o.symbol].avg + Estimate(o)
        + Reserved({i \in Pending : orders[i].symbol = o.symbol}) <= MaxPositionValue

MutSlotFree(s) ==   \* pending entries take no slot
    s \in Held \/ Cardinality(Held) < MaxOpenPositions
SlotFree(s) == s \in InUse \/ Cardinality(InUse) < MaxOpenPositions

Affordable(o) ==
    Estimate(o) + Charges(o.side, o.qty, RefPrice(o)) <= Available - Reserved(Pending)

MutBeforeSquareOff ==   \* an early square-off does not block
    clock = None \/ clock % DayLength < SquareOff
BeforeSquareOff == ~squared /\ (clock = None \/ clock % DayLength < SquareOff)

EntryAllowed(o) ==
    /\ o.side = "SELL" => AllowShort
    /\ BeforeSquareOff
    /\ RefPrice(o) # None
    /\ ValueCapped(o)
    /\ SlotFree(o.symbol)
    /\ Affordable(o)

Accepted(o) ==
    /\ o.qty > 0
    /\ o.type # "MARKET" => o.level # 0
    /\ IF o.opening THEN EntryAllowed(o) ELSE o.qty <= Abs(pos[o.symbol].qty)

------------------------------------------------------------------------------
(* The strategy's calls.                                                   *)

NewOrder(s, side, q, type, level, bracket) ==
    [symbol |-> s, side |-> side, qty |-> q, type |-> type, level |-> level,
     bracket |-> bracket, oco |-> 0, status |-> "OPEN", active |-> seq + 1,
     opening |-> ~Reduces(pos[s], side)]

\* place_order
PlaceOrder(s, side, q, type, level, bracket) ==
    /\ phase = "idle" /\ Cardinality({i \in DOMAIN orders : orders[i].oco = 0}) < MaxOrders
    /\ LET o == NewOrder(s, side, q, type, level, bracket)
       IN  orders' = Put(orders, n + 1,
                         [o EXCEPT !.status = IF Accepted(o) THEN "OPEN" ELSE "REJECTED"])
    /\ n' = n + 1
    /\ UNCHANGED <<book, last, seq, time, call>>

\* cancel_order
CancelOrder(i) ==
    /\ phase = "idle" /\ i \in Open
    /\ orders' = [orders EXCEPT ![i].status = "CANCELLED"]
    /\ UNCHANGED <<n, book, last, seq, time, call>>

\* mark: the session gives a symbol without a price the close of its bar.
Mark(s, price) ==
    /\ phase = "idle" /\ last[s] = None
    /\ last' = [last EXCEPT ![s] = price]
    /\ UNCHANGED <<orders, n, book, seq, time, call>>

------------------------------------------------------------------------------
(* _execute: an order i (the record o) is offered a price.                 *)

MutCannotExit(o) == ~o.opening /\ ~Reduces(pos[o.symbol], o.side)   \* any quantity
CannotExit(o) == ~o.opening /\ ~(Reduces(pos[o.symbol], o.side)
                                 /\ o.qty <= Abs(pos[o.symbol].qty))
MutAgainstPosition(o) == FALSE      \* not asked again at the fill
AgainstPosition(o) == o.opening /\ Reduces(pos[o.symbol], o.side)
MutUnfunded(o, price) == FALSE      \* only checked at placement
Unfunded(o, price) ==
    o.opening /\ o.qty * price + Charges(o.side, o.qty, price) > Available

\* The order ends without a fill.
Drop(i, status) ==
    /\ orders' = [orders EXCEPT ![i].status = status]
    /\ UNCHANGED <<n, book>>

\* _attach_bracket: the stop and, if it has one, the target.
Exit(o, id, type, level) ==
    [symbol |-> o.symbol, side |-> Opposite(o.side), qty |-> o.qty, type |-> type,
     level |-> level, bracket |-> None, oco |-> id, status |-> "OPEN",
     active |-> seq, opening |-> FALSE]
StopExit(o, id, price) == Exit(o, id, "STOP", StopLevel(o.bracket, price, o.side))
TargetExit(o, id, price) == Exit(o, id, "LIMIT", TargetLevel(o.bracket, price, o.side))

\* An exit fill cancels its sibling, and every exit once the position is flat.
MutSiblingsOnly(o, flat) == {j \in OpenFor(o.symbol) : o.oco # 0 /\ orders[j].oco = o.oco}
MutWhenFlatOnly(o, flat) == {j \in OpenFor(o.symbol) : flat /\ ~orders[j].opening}
CancelledBy(o, flat) ==
    {j \in OpenFor(o.symbol) : \/ o.oco # 0 /\ orders[j].oco = o.oco
                               \/ flat /\ ~orders[j].opening}

OrdersAfterExit(i, o, flat) ==
    [j \in DOMAIN orders \cup {i} |->
        IF j = i THEN [o EXCEPT !.status = "FILLED"]
        ELSE IF j \in CancelledBy(o, flat) THEN [orders[j] EXCEPT !.status = "CANCELLED"]
        ELSE orders[j]]

\* _book and the ledger's fill row.
ExecutionOf(o, price) ==
    [symbol |-> o.symbol, side |-> o.side, qty |-> o.qty, price |-> price,
     at |-> clock, opening |-> o.opening]

Fill(o, price) ==
    LET x == ExecutionOf(o, price)
        p == PositionAfter(pos[o.symbol], x)
        t == TradeAfter(trade[o.symbol], x)
        closed == ~o.opening /\ p.qty = 0
    IN  /\ pos' = [pos EXCEPT ![o.symbol] = p]
        /\ cash' = CashAfter(cash, x)
        /\ fills' = Append(fills, x)
        /\ trade' = [trade EXCEPT ![o.symbol] = IF closed THEN NoTrade ELSE t]
        /\ trades' = IF closed THEN Append(trades, ClosedTrade(o.symbol, t)) ELSE trades

FillEntry(i, o, price) ==
    LET filled == [orders EXCEPT ![i].status = "FILLED"]
    IN  /\ Fill(o, price)
        /\ CASE o.bracket = None -> orders' = filled /\ n' = n
             [] o.bracket # None /\ o.bracket.target = None ->
                  /\ orders' = Put(filled, n + 1, StopExit(o, i, price))
                  /\ n' = n + 1
             [] o.bracket # None /\ o.bracket.target # None ->
                  /\ orders' = Put(Put(filled, n + 1, StopExit(o, i, price)),
                                   n + 2, TargetExit(o, i, price))
                  /\ n' = n + 2

FillExit(i, o, price) ==
    /\ Fill(o, price)
    /\ orders' = OrdersAfterExit(i, o, pos'[o.symbol].qty = 0)

------------------------------------------------------------------------------
(* on_tick: one market event.                                              *)

\* _advance.  Days do not go back, and a time stamp at or before the clock
\* of the same day leaves it alone, so later ones are enough.
Advance(ts) ==
    /\ clock # None => clock <= ts
    /\ squared' = (squared /\ clock # None /\ clock \div DayLength = ts \div DayLength)
    /\ clock' = ts

BeginTick(s, bar, ts) ==
    /\ phase = "idle" /\ seq < MaxEvents
    /\ Advance(ts)
    /\ seq' = seq + 1
    /\ phase' = "tick" /\ event' = [symbol |-> s, bar |-> bar] /\ seen' = {}
    /\ UNCHANGED <<orders, n, book, last, todo>>

\* The orders the loop may still visit, and the one it takes.
MutLive ==      \* the event an order was activated for is over
    {i \in OpenFor(event.symbol) : orders[i].active < seq /\ i \notin seen}
Live == {i \in OpenFor(event.symbol) : orders[i].active <= seq /\ i \notin seen}
Priority(type) == CASE type = "STOP" -> 0 [] type = "MARKET" -> 1 [] type = "LIMIT" -> 2
Before(i, j) ==
    \/ Priority(orders[i].type) < Priority(orders[j].type)
    \/ orders[i].type = orders[j].type /\ i < j
Visited(i) == phase = "tick" /\ i \in Live /\ \A j \in Live \ {i} : Before(i, j)

TouchedBy(o, bar) == Touched(o.side, o.type, o.level, bar)
EventPrice(o) == FillPrice(o.side, o.type, o.level, event.bar)

VisitUntouched(i) ==
    /\ Visited(i) /\ ~TouchedBy(orders[i], event.bar)
    /\ seen' = seen \cup {i}
    /\ UNCHANGED <<orders, n, book, last, seq, time, phase, event, todo>>

Visit(i) ==
    /\ Visited(i) /\ TouchedBy(orders[i], event.bar)
    /\ seen' = seen \cup {i}
    /\ UNCHANGED <<last, seq, time, phase, event, todo>>

\* "position already closed"
ExitTooLate(i) == Visit(i) /\ CannotExit(orders[i]) /\ Drop(i, "CANCELLED")

\* "an opposite position is open"
EntryOpposed(i) == Visit(i) /\ AgainstPosition(orders[i]) /\ Drop(i, "CANCELLED")

\* "insufficient capital at fill"
EntryUnfunded(i) ==
    /\ Visit(i) /\ ~AgainstPosition(orders[i]) /\ Unfunded(orders[i], EventPrice(orders[i]))
    /\ Drop(i, "REJECTED")

EntryFills(i) ==
    LET o == orders[i]
    IN  /\ Visit(i) /\ o.opening /\ ~AgainstPosition(o) /\ ~Unfunded(o, EventPrice(o))
        /\ FillEntry(i, o, EventPrice(o))

ExitFills(i) ==
    LET o == orders[i]
    IN  /\ Visit(i) /\ ~o.opening /\ ~CannotExit(o)
        /\ FillExit(i, o, EventPrice(o))
        /\ n' = n

EndTick ==
    /\ phase = "tick" /\ Live = {}
    /\ last' = [last EXCEPT ![event.symbol] = event.bar.close]
    /\ phase' = "idle" /\ event' = None /\ seen' = {}
    /\ UNCHANGED <<orders, n, book, seq, time, todo>>

------------------------------------------------------------------------------
(* square_off.                                                             *)

BeginSquareOff(ts) ==
    /\ phase = "idle"
    /\ Advance(ts)
    /\ orders' = [i \in DOMAIN orders |->
                     IF i \in Open THEN [orders[i] EXCEPT !.status = "CANCELLED"]
                                   ELSE orders[i]]
    /\ phase' = "square" /\ todo' = Held
    /\ UNCHANGED <<n, book, last, seq, event, seen>>

\* The order that closes s: it is executed at once and logged by its fill.
ClosingOrder(s) ==
    [symbol |-> s, side |-> IF pos[s].qty > 0 THEN "SELL" ELSE "BUY",
     qty |-> Abs(pos[s].qty), type |-> "MARKET", level |-> 0, bracket |-> None,
     oco |-> 0, status |-> "OPEN", active |-> seq, opening |-> FALSE]

ClosePosition(s) ==
    LET o == ClosingOrder(s)
        ref == IF last[s] = None THEN pos[s].avg ELSE last[s]
    IN  /\ phase = "square" /\ s \in todo
        /\ todo' = todo \ {s}
        /\ ~CannotExit(o)
        /\ FillExit(n + 1, o, Slip(ref, o.side))
        /\ n' = n + 1
        /\ UNCHANGED <<last, seq, time, phase, event, seen>>

EndSquareOff ==
    /\ phase = "square" /\ todo = {}
    /\ squared' = TRUE
    /\ phase' = "idle"
    /\ UNCHANGED <<orders, n, book, last, seq, clock, event, seen, todo>>

------------------------------------------------------------------------------

Init ==
    /\ orders = [i \in {} |-> None] /\ n = 0
    /\ pos = [s \in Symbols |-> [qty |-> 0, avg |-> 0]]
    /\ trade = [s \in Symbols |-> NoTrade] /\ trades = <<>>
    /\ cash = StartingCapital /\ fills = <<>>
    /\ last = [s \in Symbols |-> None] /\ seq = 0
    /\ clock = None /\ squared = FALSE
    /\ phase = "idle" /\ event = None /\ seen = {} /\ todo = {}

\* The level of a MARKET order is not read.
Place ==
    \E s \in Symbols, side \in Side, q \in Quantities, bracket \in Brackets :
        \/ PlaceOrder(s, side, q, "MARKET", 0, bracket)
        \/ \E type \in {"LIMIT", "STOP"}, level \in Levels :
              PlaceOrder(s, side, q, type, level, bracket)

Tick ==
    \/ \E s \in Symbols, bar \in Bars, ts \in 0 .. MaxTime : BeginTick(s, bar, ts)
    \/ \E i \in DOMAIN orders :
          VisitUntouched(i) \/ ExitTooLate(i) \/ EntryOpposed(i)
              \/ EntryUnfunded(i) \/ EntryFills(i) \/ ExitFills(i)
    \/ EndTick

SquareOffCall ==
    \/ \E ts \in 0 .. MaxTime : BeginSquareOff(ts)
    \/ \E s \in Symbols : ClosePosition(s)
    \/ EndSquareOff

Next ==
    \/ Place
    \/ \E i \in DOMAIN orders : CancelOrder(i)
    \/ \E s \in Symbols, p \in Prices : Mark(s, p)
    \/ Tick
    \/ SquareOffCall

Spec == Init /\ [][Next]_vars

------------------------------------------------------------------------------
(* Properties.                                                             *)

\* The types of the broker's state, and which variables a call uses.
OrdersTyped ==
    /\ n \in Nat /\ DOMAIN orders \subseteq 1 .. n
    /\ \A i \in DOMAIN orders : orders[i] \in Order
BooksTyped ==
    /\ pos \in [Symbols -> Position]
    /\ trade \in [Symbols -> Trade] /\ trades \in Seq(Closed)
    /\ cash \in Int /\ fills \in Seq(Execution)
CallTyped ==
    /\ last \in [Symbols -> Int \cup {None}]
    /\ seq \in Nat /\ clock \in Nat \cup {None} /\ squared \in BOOLEAN
    /\ phase \in {"idle", "tick", "square"}
    /\ IF phase = "tick" THEN event \in [symbol : Symbols, bar : Bars] ELSE event = None
    /\ seen \subseteq 1 .. n /\ todo \subseteq Symbols
TypeOK == OrdersTyped /\ BooksTyped /\ CallTyped

\* The records of the orders are what the calls rely on: an open order moves
\* at least one share, and an order with a parent is an exit of its symbol
\* whose entry has been filled (broker.py:232-234, 300-301, 338-355).
OrdersWellFormed ==
    \A i \in DOMAIN orders :
        LET o == orders[i]
        IN  /\ o.status = "OPEN" => o.qty > 0
            /\ o.oco # 0 => /\ ~o.opening /\ o.oco \in DOMAIN orders
                            /\ orders[o.oco].symbol = o.symbol
                            /\ orders[o.oco].status = "FILLED"

\* While square_off closes the positions no order is open, and no position
\* escapes the loop: each is still to be closed or flat (broker.py:195-208).
SquareOffClosesAll == phase = "square" => Open = {} /\ Held \subseteq todo

\* An open exit always has something to exit: a position of the other sign.
\* (broker.py:302-307 cancels the rest of the exits when a position closes;
\* an orphan would later fire against a fresh position, or be refused.)
NoOrphanExit ==
    \A i \in Open : ~orders[i].opening => Reduces(pos[orders[i].symbol], orders[i].side)

\* The open round trip of a symbol is the position seen from the reports'
\* side: it exists exactly while a position is held, in its direction, and
\* what has been entered and not exited is the position (broker.py:312-336;
\* an exit without its round trip would be a KeyError in the middle of a fill).
TradeMirrorsPosition ==
    \A s \in Symbols :
        /\ trade[s].dir = "LONG" <=> pos[s].qty > 0
        /\ trade[s].dir = "SHORT" <=> pos[s].qty < 0
        /\ Abs(pos[s].qty) = trade[s].entryQty - trade[s].exitQty

\* One cancels the other: of the two exits of one entry at most one fills,
\* and once one has filled the other is not open (broker.py:304-305).
OneExitPerBracket ==
    \A i, j \in DOMAIN orders :
        i # j /\ orders[i].oco # 0 /\ orders[i].oco = orders[j].oco
              /\ orders[i].status = "FILLED"
        => orders[j].status \notin {"FILLED", "OPEN"}

\* Held and pending-entry symbols never exceed max_open_positions, although
\* the limit is only checked when an order is placed (broker.py:259-261).
SlotLimit == Cardinality(InUse) <= MaxOpenPositions

\* Between the square-off and the next day nothing is held and nothing is
\* open: no order placed or left over can fill (broker.py:27-29, 195-211).
FlatOnceSquared == squared => Held = {} /\ Open = {}

\* Every rupee is in the cash, a closed round trip or an open one
\* (broker.py:312-336, 357-372).
TradeFlow(t) ==
    IF t.dir = "NONE" THEN 0 ELSE Net(t)
CashReconciles ==
    cash = StartingCapital + FoldLeft(LAMBDA a, r : a + r.net, 0, trades)
           + SumFunction([s \in Symbols |-> TradeFlow(trade[s])])

\* resume replays the fills and recomputes which of them opened (broker.py:
\* 385-397): the replay is the state the fills were made in.
ReplayStep(b, x) ==
    LET p == b.pos[x.symbol]
        y == [x EXCEPT !.opening = ~Reduces(p, x.side)]
        q == PositionAfter(p, y)
        t == IF ~y.opening /\ q.qty = 0 THEN NoTrade ELSE TradeAfter(b.trade[x.symbol], y)
    IN  [pos |-> [b.pos EXCEPT ![x.symbol] = q],
         trade |-> [b.trade EXCEPT ![x.symbol] = t],
         cash |-> CashAfter(b.cash, y)]
Replay(rows) ==
    FoldLeft(ReplayStep,
             [pos |-> [s \in Symbols |-> [qty |-> 0, avg |-> 0]],
              trade |-> [s \in Symbols |-> NoTrade], cash |-> StartingCapital],
             rows)
ReplayRebuildsBook == Replay(fills) = [pos |-> pos, trade |-> trade, cash |-> cash]

\* The three ways to the state of the account agree: the running totals, the
\* sum over the round trips, and the replay of the fills.
BooksReconcile == CashReconciles /\ ReplayRebuildsBook

\* A position changes sign only through zero: no execution flips it, whatever
\* the order's quantity and however stale it is (broker.py:15-20, 282-288).
Flipped(p, q) == (p.qty > 0 /\ q.qty < 0) \/ (p.qty < 0 /\ q.qty > 0)
NoFlip == [][\A s \in Symbols : ~Flipped(pos[s], pos'[s])]_vars

\* When one bar touches both exits of a bracket the stop is taken: a target
\* never fills on a bar that touches its open stop (broker.py:15-16).
Fills(i) == i \in Open /\ orders'[i].status = "FILLED"
StopAssumedFirst ==
    [][\A i, j \in Open :
          /\ orders[i].type = "LIMIT" /\ orders[j].type = "STOP"
          /\ orders[i].oco # 0 /\ orders[i].oco = orders[j].oco /\ Fills(i)
          => ~TouchedBy(orders[j], event.bar)]_vars

\* A bar is used up: no order of its symbol that it touches is still open
\* when the call returns, the exits attached on that bar included
\* (broker.py:11-14, 177-190).
EventExhausted ==
    [][phase = "tick" /\ phase' = "idle"
       => \A i \in OpenFor(event.symbol) : ~TouchedBy(orders[i], event.bar)]_vars

\* What a bar does to the orders it touches: the stop before the target, and
\* nothing left over.
BarIsUsedUp == StopAssumedFirst /\ EventExhausted

\* An entry never fills with money that is not there: after it, the cash
\* covers twice the notional of the shorts (broker.py:288-292).
FundedEntries ==
    [][\A i \in Open : orders[i].opening /\ Fills(i) => Available' >= 0]_vars

(* The broker implements the book of positions it promises its callers.    *)
Book == INSTANCE PositionBook
            WITH net <- [s \in Symbols |-> pos[s].qty],
                 slots <- InUse,
                 barred <- squared,
                 MaxSlots <- MaxOpenPositions
ImplementsBook == Book!Spec
==============================================================================
