--------------------------- MODULE SimBrokerProofs ---------------------------
(***************************************************************************)
(* Theorems about SimBroker, for every value of its constants.             *)
(***************************************************************************)
EXTENDS SimBroker, FiniteSets, Functions, FiniteSetTheorems, TLAPS

------------------------------------------------------------------------------
(* The sum of the community modules is a fold of integers.                 *)

PickAny(S) == CHOOSE x \in S : TRUE
Sums == INSTANCE FoldFacts WITH Op <- +, Base <- 0, Pick <- PickAny

LEMMA SumIsFold ==
    ASSUME NEW S, IsFiniteSet(S)
    PROVE  /\ \A f : DOMAIN f = S => SumFunction(f) = Sums!Fold(f, S)
           /\ Sums!Adds /\ \A T \in SUBSET S : Sums!IsFiniteSet(T) /\ Sums!Picks(T)
           /\ Sums!IsFiniteSet(S) /\ Sums!Picks(S)
<1>1. ASSUME NEW f, DOMAIN f = S
      PROVE  SumFunction(f) = Sums!Fold(f, S)
    BY <1>1 DEF SumFunction, SumFunctionOnSet, FoldFunctionOnSet, MapThenFoldSet, Sums!Fold,
                Sums!MapThenFoldSet, PickAny
<1>2. \A T \in SUBSET S : IsFiniteSet(T)
    BY FS_Subset
<1>3. \A T : IsFiniteSet(T) => Sums!IsFiniteSet(T)
    BY DEF IsFiniteSet, Sums!IsFiniteSet
<1>4. Sums!Adds /\ \A T : Sums!Picks(T)
    BY DEF Sums!Picks, PickAny, Sums!Adds
<1> QED BY <1>1, <1>2, <1>3, <1>4

------------------------------------------------------------------------------
(* The arithmetic of prices and charges stays in the integers.             *)

\* Rounding a quotient gives an integer.
LEMMA RoundDivInt ==
    ASSUME NEW a \in Int, NEW b \in Nat \ {0}
    PROVE  RoundDiv(a, b) \in Int
BY DEF RoundDiv

\* The charges of an execution are an integer.
LEMMA ChargesInt ==
    ASSUME NEW side, NEW q \in Int, NEW p \in Int
    PROVE  Charges(side, q, p) \in Int
<1> DEFINE t == Turnover(q, p)
<1>1. t \in Int
  BY DEF Turnover
<1>2. /\ Rates.flat \in Nat /\ Rates.min \in Nat /\ Rates.pct \in Nat /\ Rates.stt \in Nat
      /\ Rates.stamp \in Nat /\ Rates.txn \in Nat /\ Rates.sebi \in Nat
      /\ Rates.ipft \in Nat /\ Rates.gst \in Nat
  BY RateAssumption DEF CostRates
<1>3. RateDen \in Nat \ {0} /\ RateDen * RateDen \in Nat \ {0}
  BY RateAssumption
<1> HIDE DEF t
<1>4. /\ t * Rates.stt \in Int /\ t * Rates.stamp \in Int /\ t * Rates.txn \in Int
      /\ t * Rates.sebi \in Int /\ t * Rates.ipft \in Int /\ t * Rates.pct \in Int
  BY <1>1, <1>2
<1>5. BrokerageNum(t) \in Int
  BY <1>2, <1>3, <1>4 DEF BrokerageNum, Higher, Lower
<1>6. GstNum(t) \in Int
  BY <1>1, <1>2, <1>5 DEF GstNum
<1>7. /\ RoundDiv(BrokerageNum(t), RateDen) \in Int
      /\ RoundDiv(t * Rates.stt, RateDen) \in Int
      /\ RoundDiv(t * Rates.stamp, RateDen) \in Int
      /\ RoundDiv(t * Rates.txn, RateDen) \in Int
      /\ RoundDiv(t * Rates.sebi, RateDen) \in Int
      /\ RoundDiv(t * Rates.ipft, RateDen) \in Int
      /\ RoundDiv(GstNum(t), RateDen * RateDen) \in Int
  BY <1>3, <1>4, <1>5, <1>6, RoundDivInt
<1> QED
  BY <1>7 DEF Charges, t

\* Slippage keeps a price an integer.
LEMMA SlipInt ==
    ASSUME NEW p \in Int, NEW side
    PROVE  Slip(p, side) \in Int
<1>1. RoundDiv(p * SlipNum, SlipDen) \in Int
  BY SlipAssumption, RoundDivInt
<1> QED
  BY <1>1 DEF Slip, Sign

\* An order of the broker that a bar touches fills at an integer price.
LEMMA FillPriceInt ==
    ASSUME NEW side \in Side, NEW type \in OrderType, NEW level \in Int,
           NEW bar \in Bars
    PROVE  FillPrice(side, type, level, bar) \in Int
<1>1. bar.open \in Int
  <2>1. bar \in Bar(Prices)
    BY BarAssumption
  <2>2. bar.open \in Prices
    BY <2>1 DEF Bar
  <2>3. Prices \subseteq Int
    BY PriceAssumption
  <2> QED
    BY <2>2, <2>3
<1>2. RawPrice(side, type, level, bar) \in Int
  BY <1>1 DEF RawPrice, Side, OrderType, Lower, Higher
<1> QED
  BY <1>2, SlipInt DEF FillPrice
------------------------------------------------------------------------------
(* Type correctness.  The quantity of an open order is positive, so the    *)
(* average price of a position never divides by zero: the type invariant   *)
(* is inductive together with OrdersWellFormed.                            *)

\* Changing a status, adding an order and attaching an exit keep the orders typed.
LEMMA PutOrders ==
    ASSUME OrdersTyped, NEW o \in Order, NEW m \in Nat, m >= n, NEW i \in 1 .. m
    PROVE  LET f == Put(orders, i, o)
           IN  DOMAIN f \subseteq 1 .. m /\ \A j \in DOMAIN f : f[j] \in Order
BY DEF OrdersTyped, Put

\* Setting a status keeps the orders typed.
LEMMA StatusChange ==
    ASSUME OrdersTyped, NEW i \in DOMAIN orders, NEW st \in Status
    PROVE  LET f == [orders EXCEPT ![i].status = st]
           IN  /\ DOMAIN f = DOMAIN orders
               /\ \A j \in DOMAIN f : f[j] \in Order
BY DEF OrdersTyped, Order

\* place_order makes an order, whatever status it gives it.
LEMMA NewOrderType ==
    ASSUME CallTyped, NEW s \in Symbols, NEW side \in Side, NEW q \in Nat,
           NEW type \in OrderType, NEW level \in Int, NEW b \in Bracket \cup {None},
           NEW st \in Status
    PROVE  [NewOrder(s, side, q, type, level, b) EXCEPT !.status = st] \in Order
<1>1. seq + 1 \in Nat
  BY DEF CallTyped
<1> DEFINE opens == ~Reduces(pos[s], side)
<1>2. opens \in BOOLEAN
  OBVIOUS
<1> HIDE DEF opens
<1>3. [NewOrder(s, side, q, type, level, b) EXCEPT !.status = st]
        = [symbol |-> s, side |-> side, qty |-> q, type |-> type, level |-> level,
           bracket |-> b, oco |-> 0, status |-> st, active |-> seq + 1, opening |-> opens]
  BY DEF NewOrder, opens
<1> QED
  BY <1>1, <1>2, <1>3 DEF Order

\* _attach_bracket makes an order.
LEMMA ExitType ==
    ASSUME CallTyped, NEW o \in Order, NEW id \in Nat, NEW type \in OrderType,
           NEW level \in Int
    PROVE  Exit(o, id, type, level) \in Order
BY DEF CallTyped, Exit, Order, Status, Side, Opposite

\* Booking an execution keeps the books typed.
LEMMA PositionAfterType ==
    ASSUME NEW p \in Position, NEW x \in Execution, x.qty > 0
    PROVE  PositionAfter(p, x) \in Position
<1>1. /\ p.qty \in Int /\ p.avg \in Int
      /\ x.qty \in Int /\ x.price \in Int /\ Sign(x.side) \in {-1, 1}
  BY DEF Position, Execution, Sign
<1>2. p.qty + Sign(x.side) * x.qty \in Int
  BY <1>1
<1>3. Abs(p.qty) \in Nat /\ Abs(p.qty) + x.qty \in Nat \ {0}
  BY <1>1 DEF Abs
<1>4. p.avg * Abs(p.qty) + x.price * x.qty \in Int
  BY <1>1, <1>3
<1>5. (p.avg * Abs(p.qty) + x.price * x.qty) \div (Abs(p.qty) + x.qty) \in Int
  BY <1>3, <1>4
<1> QED
  BY <1>1, <1>2, <1>5 DEF PositionAfter, Position

\* So does booking it on the open round trip.
LEMMA TradeAfterType ==
    ASSUME NEW t \in Trade, NEW x \in Execution
    PROVE  TradeAfter(t, x) \in Trade
<1>1. /\ t.entryQty \in Int /\ t.entryValue \in Int /\ t.exitQty \in Int
      /\ t.exitValue \in Int /\ t.charges \in Int /\ t.dir \in {"NONE", "LONG", "SHORT"}
      /\ x.qty \in Int /\ x.price \in Int
  BY DEF Trade, Execution
<1>2. Charges(x.side, x.qty, x.price) \in Int
  BY <1>1, ChargesInt
<1>3. \A e \in {0, x.qty} :
        /\ e * x.price \in Int /\ x.qty - e \in Int /\ (x.qty - e) * x.price \in Int
  BY <1>1
<1> QED
  BY <1>1, <1>2, <1>3 DEF TradeAfter, Trade

\* _book keeps the books typed, the ledger's rows included.
LEMMA FillTypes ==
    ASSUME BooksTyped, CallTyped, NEW o \in Order, o.qty > 0, NEW price \in Int,
           Fill(o, price)
    PROVE  /\ pos' \in [Symbols -> Position]
           /\ trade' \in [Symbols -> Trade] /\ trades' \in Seq(Closed)
           /\ cash' \in Int /\ fills' \in Seq(Execution)
<1> DEFINE x == ExecutionOf(o, price)
           p == PositionAfter(pos[o.symbol], x)
           t == TradeAfter(trade[o.symbol], x)
<1>1. x \in Execution /\ x.qty > 0 /\ o.symbol \in Symbols
  BY DEF ExecutionOf, Execution, Order, CallTyped
<1>2. p \in Position
  BY <1>1, PositionAfterType DEF BooksTyped
<1>3. t \in Trade
  BY <1>1, TradeAfterType DEF BooksTyped
<1>4. ClosedTrade(o.symbol, t) \in Closed
  BY <1>1, <1>3 DEF ClosedTrade, Closed, Net, Trade
<1>5. NoTrade \in Trade
  BY DEF NoTrade, Trade
<1>6. CashAfter(cash, x) \in Int
  <2>1. Charges(x.side, x.qty, x.price) \in Int
    BY <1>1, ChargesInt DEF Execution
  <2> QED
    BY <1>1, <2>1 DEF CashAfter, BooksTyped, Execution, Sign
<1> HIDE DEF x, p, t
<1>7. /\ pos' = [pos EXCEPT ![o.symbol] = p]
      /\ cash' = CashAfter(cash, x) /\ fills' = Append(fills, x)
      /\ trade' \in {[trade EXCEPT ![o.symbol] = NoTrade], [trade EXCEPT ![o.symbol] = t]}
      /\ trades' = trades \/ trades' = Append(trades, ClosedTrade(o.symbol, t))
  BY DEF Fill, x, p, t
<1>8. pos' \in [Symbols -> Position]
  BY <1>1, <1>2, <1>7 DEF BooksTyped
<1>9. trade' \in [Symbols -> Trade]
  BY <1>1, <1>3, <1>5, <1>7 DEF BooksTyped
<1>10. trades' \in Seq(Closed)
  <2>1. trades \in Seq(Closed)
    BY DEF BooksTyped
  <2>2. Append(trades, ClosedTrade(o.symbol, t)) \in Seq(Closed)
    BY <1>4, <2>1
  <2> QED
    BY <1>7, <2>1, <2>2
<1>11. fills' \in Seq(Execution)
  BY <1>1, <1>7 DEF BooksTyped
<1> QED
  BY <1>6, <1>7, <1>8, <1>9, <1>10, <1>11

\* The broker starts with typed state.
LEMMA InitType == Init => TypeOK
<1> SUFFICES ASSUME Init PROVE TypeOK
  OBVIOUS
<1>1. OrdersTyped
  BY DEF Init, OrdersTyped
<1>2. BooksTyped
  BY LimitsAssumption DEF Init, BooksTyped, Position, Trade, NoTrade
<1>3. CallTyped
  BY DEF Init, CallTyped
<1> QED
  BY <1>1, <1>2, <1>3 DEF TypeOK

\* The orders after a call of the strategy.
LEMMA PlaceType ==
    ASSUME TypeOK, NEW s \in Symbols, NEW side \in Side, NEW q \in Quantities,
           NEW type \in OrderType, NEW level \in Int, NEW b \in Brackets,
           PlaceOrder(s, side, q, type, level, b)
    PROVE  TypeOK'
<1> USE DEF TypeOK
<1>1. q \in Nat /\ b \in Bracket \cup {None}
  BY QuantityAssumption, BracketAssumption
<1> DEFINE o == NewOrder(s, side, q, type, level, b)
           st == IF Accepted(o) THEN "OPEN" ELSE "REJECTED"
<1>2. [o EXCEPT !.status = st] \in Order
  BY <1>1, NewOrderType DEF Status
<1> HIDE DEF o, st
<1>3. orders' = Put(orders, n + 1, [o EXCEPT !.status = st]) /\ n' = n + 1
  BY DEF PlaceOrder, o, st
<1>4. OrdersTyped'
  <2>1. n \in Nat /\ n + 1 \in Nat /\ n + 1 >= n /\ n + 1 \in 1 .. (n + 1)
    BY DEF OrdersTyped
  <2> QED
    BY <1>2, <1>3, <2>1, PutOrders DEF OrdersTyped
<1>5. BooksTyped' /\ CallTyped'
  BY <1>3 DEF PlaceOrder, BooksTyped, CallTyped, OrdersTyped, book, time, call
<1> QED
  BY <1>4, <1>5

\* An order the loop of on_tick takes is an order of the event's symbol, and
\* its price is an integer.
LEMMA VisitTypes ==
    ASSUME TypeOK, OrdersWellFormed, NEW i \in DOMAIN orders, Visited(i)
    PROVE  /\ i \in 1 .. n /\ orders[i] \in Order /\ orders[i].qty > 0
           /\ orders[i].status = "OPEN" /\ orders[i].symbol = event.symbol
           /\ event.bar \in Bars
           /\ EventPrice(orders[i]) \in Int
<1>1. i \in 1 .. n /\ orders[i] \in Order
  BY DEF TypeOK, OrdersTyped
<1>2. /\ orders[i].status = "OPEN" /\ orders[i].qty > 0
      /\ orders[i].symbol = event.symbol
  BY DEF Visited, Live, OpenFor, Open, OrdersWellFormed
<1>3. event.bar \in Bars
  BY DEF Visited, TypeOK, CallTyped
<1>4. EventPrice(orders[i]) \in Int
  BY <1>1, <1>3, FillPriceInt DEF EventPrice, Order
<1> QED
  BY <1>1, <1>2, <1>3, <1>4

\* An order that ends without a fill changes nothing else.
LEMMA DropType ==
    ASSUME TypeOK, OrdersWellFormed, NEW i \in DOMAIN orders, Visit(i),
           NEW st \in Status, Drop(i, st)
    PROVE  TypeOK'
<1>1. i \in 1 .. n
  BY DEF TypeOK, OrdersTyped
<1>2. OrdersTyped'
  BY StatusChange DEF Drop, TypeOK, OrdersTyped
<1>3. BooksTyped'
  BY DEF Drop, book, TypeOK, BooksTyped
<1>4. CallTyped'
  BY <1>1 DEF Drop, Visit, time, TypeOK, CallTyped
<1> QED
  BY <1>2, <1>3, <1>4 DEF TypeOK

\* The exits attached to an entry are orders, numbered after it.
LEMMA EntryOrders ==
    ASSUME TypeOK, NEW i \in DOMAIN orders, NEW price \in Int,
           FillEntry(i, orders[i], price)
    PROVE  OrdersTyped' /\ n' >= n
<1> DEFINE o == orders[i]
           filled == [orders EXCEPT ![i].status = "FILLED"]
           stop == StopExit(o, i, price)
           target == TargetExit(o, i, price)
<1>1. /\ n \in Nat /\ i \in Nat /\ o \in Order /\ DOMAIN filled = DOMAIN orders
      /\ DOMAIN orders \subseteq 1 .. n /\ \A j \in DOMAIN filled : filled[j] \in Order
  <2>1. OrdersTyped /\ "FILLED" \in Status
    BY DEF TypeOK, Status
  <2>2. DOMAIN filled = DOMAIN orders /\ \A j \in DOMAIN filled : filled[j] \in Order
    BY <2>1, StatusChange
  <2> QED
    BY <2>1, <2>2 DEF OrdersTyped
<1>2. o.bracket \in Bracket \cup {None} /\ Sign(o.side) \in Int
  BY <1>1 DEF Order, Sign
<1>3. CASE o.bracket = None
  BY <1>1, <1>3 DEF FillEntry, OrdersTyped
<1>4. ASSUME o.bracket # None
      PROVE  stop \in Order
  <2>1. StopLevel(o.bracket, price, o.side) \in Int
    BY <1>2, <1>4 DEF StopLevel, Bracket
  <2> QED
    BY <1>1, <2>1, ExitType DEF StopExit, OrderType, TypeOK
<1>5. CASE o.bracket # None /\ o.bracket.target = None
  <2>1. orders' = Put(filled, n + 1, stop) /\ n' = n + 1
    BY <1>5 DEF FillEntry
  <2> HIDE DEF stop, filled
  <2> QED
    BY <1>1, <1>4, <1>5, <2>1 DEF Put, OrdersTyped
<1>6. CASE o.bracket # None /\ o.bracket.target # None
  <2>1. TargetLevel(o.bracket, price, o.side) \in Int
    BY <1>2, <1>6 DEF TargetLevel, Bracket
  <2>2. target \in Order
    BY <1>1, <2>1, ExitType DEF TargetExit, OrderType, TypeOK
  <2>3. orders' = Put(Put(filled, n + 1, stop), n + 2, target) /\ n' = n + 2
    BY <1>6 DEF FillEntry
  <2> HIDE DEF stop, target, filled
  <2> QED
    BY <1>1, <1>4, <1>6, <2>2, <2>3 DEF Put, OrdersTyped
<1> QED
  BY <1>3, <1>5, <1>6

\* The orders after an exit has filled; the order may be a new one.
LEMMA ExitOrders ==
    ASSUME TypeOK, NEW m \in Nat, m >= n, NEW i \in 1 .. m, NEW o \in Order,
           NEW flat \in BOOLEAN
    PROVE  LET f == OrdersAfterExit(i, o, flat)
           IN  /\ DOMAIN f = DOMAIN orders \cup {i} /\ DOMAIN f \subseteq 1 .. m
               /\ \A j \in DOMAIN f : f[j] \in Order
BY DEF OrdersAfterExit, TypeOK, OrdersTyped, Order, Status, CancelledBy, OpenFor, Open

\* One step keeps the types.
LEMMA TypeStep == TypeOK /\ OrdersWellFormed /\ [Next]_vars => TypeOK'
<1> SUFFICES ASSUME TypeOK, OrdersWellFormed, [Next]_vars
             PROVE  TypeOK'
  OBVIOUS
<1>1. ASSUME NEW s \in Symbols, NEW side \in Side, NEW q \in Quantities,
             NEW b \in Brackets, PlaceOrder(s, side, q, "MARKET", 0, b)
      PROVE  TypeOK'
  BY <1>1, PlaceType DEF OrderType
<1>2. ASSUME NEW s \in Symbols, NEW side \in Side, NEW q \in Quantities,
             NEW b \in Brackets, NEW type \in {"LIMIT", "STOP"}, NEW level \in Levels,
             PlaceOrder(s, side, q, type, level, b)
      PROVE  TypeOK'
  <2>1. level \in Int /\ type \in OrderType
    BY LevelAssumption DEF OrderType
  <2> QED
    BY <1>2, <2>1, PlaceType
<1>3. ASSUME NEW i \in DOMAIN orders, CancelOrder(i)
      PROVE  TypeOK'
  <2>1. OrdersTyped'
    BY <1>3, StatusChange DEF CancelOrder, TypeOK, OrdersTyped, Status
  <2> QED
    BY <1>3, <2>1 DEF CancelOrder, TypeOK, BooksTyped, CallTyped, book, time, call
<1>4. ASSUME NEW s \in Symbols, NEW p \in Prices, Mark(s, p)
      PROVE  TypeOK'
  <2>1. p \in Nat
    BY PriceAssumption
  <2>2. last' \in [Symbols -> Int \cup {None}]
    BY <1>4, <2>1 DEF Mark, TypeOK, CallTyped
  <2> QED
    BY <1>4, <2>2 DEF Mark, TypeOK, OrdersTyped, BooksTyped, CallTyped, book, time, call
<1>5. ASSUME NEW s \in Symbols, NEW bar \in Bars, NEW ts \in 0 .. MaxTime,
             BeginTick(s, bar, ts)
      PROVE  TypeOK'
  <2>1. CallTyped'
    BY <1>5 DEF BeginTick, Advance, TypeOK, CallTyped
  <2> QED
    BY <1>5, <2>1 DEF BeginTick, TypeOK, OrdersTyped, BooksTyped, book
<1>6. ASSUME NEW i \in DOMAIN orders, VisitUntouched(i)
      PROVE  TypeOK'
  BY <1>6 DEF VisitUntouched, TypeOK, OrdersTyped, BooksTyped, CallTyped, book, time
<1>7. ASSUME NEW i \in DOMAIN orders,
             ExitTooLate(i) \/ EntryOpposed(i) \/ EntryUnfunded(i)
      PROVE  TypeOK'
  BY <1>7, DropType DEF ExitTooLate, EntryOpposed, EntryUnfunded, Status
<1>8. ASSUME NEW i \in DOMAIN orders, EntryFills(i)
      PROVE  TypeOK'
  <2> DEFINE o == orders[i]
             price == EventPrice(o)
  <2>1. Visit(i) /\ Visited(i) /\ FillEntry(i, o, price) /\ Fill(o, price)
    BY <1>8 DEF EntryFills, Visit, FillEntry
  <2>2. o \in Order /\ o.qty > 0 /\ price \in Int /\ i \in 1 .. n
    BY <2>1, VisitTypes
  <2>3. OrdersTyped' /\ n' >= n
    BY <2>1, <2>2, EntryOrders
  <2>4. BooksTyped'
    BY <2>1, <2>2, FillTypes DEF TypeOK, BooksTyped
  <2>5. CallTyped'
    <3>1. 1 .. n \subseteq 1 .. n'
      BY <2>3 DEF TypeOK, OrdersTyped
    <3>2. seen' \subseteq 1 .. n'
      BY <2>1, <2>2, <3>1 DEF Visit, TypeOK, CallTyped
    <3> QED
      BY <2>1, <3>2 DEF Visit, TypeOK, CallTyped, time
  <2> QED
    BY <2>3, <2>4, <2>5 DEF TypeOK
<1>9. ASSUME NEW i \in DOMAIN orders, ExitFills(i)
      PROVE  TypeOK'
  <2> DEFINE o == orders[i]
             price == EventPrice(o)
             flat == pos'[o.symbol].qty = 0
  <2>1. /\ Visit(i) /\ Visited(i) /\ Fill(o, price) /\ n' = n
        /\ orders' = OrdersAfterExit(i, o, flat)
    BY <1>9 DEF ExitFills, Visit, FillExit
  <2>2. o \in Order /\ o.qty > 0 /\ price \in Int /\ i \in 1 .. n
    BY <2>1, VisitTypes
  <2>3. OrdersTyped'
    <3>1. n \in Nat /\ n >= n /\ flat \in BOOLEAN
      BY DEF TypeOK, OrdersTyped
    <3> QED
      BY <2>1, <2>2, <3>1, ExitOrders DEF OrdersTyped
  <2>4. BooksTyped'
    BY <2>1, <2>2, FillTypes DEF TypeOK, BooksTyped
  <2>5. CallTyped'
    BY <2>1, <2>2 DEF Visit, TypeOK, CallTyped, OrdersTyped, time
  <2> QED
    BY <2>3, <2>4, <2>5 DEF TypeOK
<1>10. CASE EndTick
  <2>1. event.bar \in Bar(Prices)
    BY <1>10, BarAssumption DEF EndTick, TypeOK, CallTyped
  <2>2. event.bar.close \in Prices
    BY <2>1 DEF Bar
  <2>3. Prices \subseteq Int
    BY PriceAssumption
  <2>4. event.bar.close \in Int
    BY <2>2, <2>3
  <2>5. last' \in [Symbols -> Int \cup {None}]
    BY <1>10, <2>4 DEF EndTick, TypeOK, CallTyped
  <2> QED
    BY <1>10, <2>5 DEF EndTick, TypeOK, OrdersTyped, BooksTyped, CallTyped, book, time
<1>11. ASSUME NEW ts \in 0 .. MaxTime, BeginSquareOff(ts)
       PROVE  TypeOK'
  <2>1. OrdersTyped'
    BY <1>11 DEF BeginSquareOff, TypeOK, OrdersTyped, Order, Status, Open
  <2>2. CallTyped'
    BY <1>11 DEF BeginSquareOff, Advance, TypeOK, CallTyped, Held
  <2> QED
    BY <1>11, <2>1, <2>2 DEF BeginSquareOff, TypeOK, BooksTyped, book
<1>12. ASSUME NEW s \in Symbols, ClosePosition(s)
       PROVE  TypeOK'
  <2> DEFINE o == ClosingOrder(s)
             price == Slip(IF last[s] = None THEN pos[s].avg ELSE last[s], o.side)
             flat == pos'[o.symbol].qty = 0
  <2>1. /\ Fill(o, price) /\ n' = n + 1
        /\ orders' = OrdersAfterExit(n + 1, o, flat) /\ ~CannotExit(o)
    BY <1>12 DEF ClosePosition, FillExit
  <2>2. pos[s].qty \in Int /\ pos[s].avg \in Int /\ seq \in Nat /\ n \in Nat
    BY DEF TypeOK, BooksTyped, Position, CallTyped, OrdersTyped
  <2>3. o \in Order
    BY <2>2 DEF ClosingOrder, Order, Side, OrderType, Status, Abs
  <2>4. o.qty > 0
    BY <2>1, <2>2 DEF CannotExit, Reduces, ClosingOrder, Abs
  <2>5. price \in Int
    <3>1. (IF last[s] = None THEN pos[s].avg ELSE last[s]) \in Int
      BY <2>2 DEF TypeOK, CallTyped
    <3> QED
      BY <3>1, SlipInt
  <2>6. OrdersTyped'
    <3>1. n + 1 \in Nat /\ n + 1 >= n /\ n + 1 \in 1 .. (n + 1) /\ flat \in BOOLEAN
      BY <2>2
    <3> QED
      BY <2>1, <2>3, <3>1, ExitOrders DEF OrdersTyped
  <2>7. BooksTyped'
    BY <2>1, <2>3, <2>4, <2>5, FillTypes DEF TypeOK, BooksTyped
  <2>8. CallTyped'
    BY <1>12, <2>1, <2>2 DEF ClosePosition, TypeOK, CallTyped, time
  <2> QED
    BY <2>6, <2>7, <2>8 DEF TypeOK
<1>13. CASE EndSquareOff
  BY <1>13 DEF EndSquareOff, TypeOK, OrdersTyped, BooksTyped, CallTyped, book
<1>14. CASE UNCHANGED vars
  BY <1>14 DEF vars, TypeOK, OrdersTyped, BooksTyped, CallTyped, book, time, call
<1> QED
  BY <1>1, <1>2, <1>3, <1>4, <1>5, <1>6, <1>7, <1>8, <1>9, <1>10, <1>11, <1>12, <1>13,
     <1>14 DEF Next, Place, Tick, SquareOffCall
------------------------------------------------------------------------------
(* What a step does to the orders, the positions and the open round trips: *)
(* six effects cover every action.                                         *)

Ledgers == <<orders, pos, trade>>

\* place_order: accepted orders are backed by a check of what they need.
Placed(o) ==
    /\ o \in Order /\ o.oco = 0 /\ o.status \in {"OPEN", "REJECTED"}
    /\ o.status = "OPEN" =>
          /\ o.qty > 0
          /\ o.opening => ~squared /\ SlotFree(o.symbol)
          /\ ~o.opening => Reduces(pos[o.symbol], o.side)
    /\ phase = "idle"
    /\ orders' = Put(orders, n + 1, o)
    /\ UNCHANGED <<pos, trade, phase, squared, todo>>

\* An open order ends without a fill.
Ended(i) ==
    /\ i \in Open
    /\ \E st \in {"CANCELLED", "REJECTED"} : orders' = [orders EXCEPT ![i].status = st]
    /\ UNCHANGED <<pos, trade, phase, squared, todo>>

\* square_off cancels every open order.
AllCancelled ==
    /\ DOMAIN orders' = DOMAIN orders
    /\ \A j \in DOMAIN orders :
          orders'[j] = IF j \in Open THEN [orders[j] EXCEPT !.status = "CANCELLED"]
                                     ELSE orders[j]
    /\ UNCHANGED <<pos, trade>>
    /\ phase' = "square" /\ todo' = Held /\ (squared' => squared)

\* The execution of o moves the position and the round trip of its symbol.
Moved(o) ==
    LET s == o.symbol
    IN  /\ DOMAIN pos' = Symbols /\ DOMAIN trade' = Symbols
        /\ \A r \in Symbols \ {s} : pos'[r] = pos[r] /\ trade'[r] = trade[r]
        /\ pos'[s].qty = pos[s].qty + Sign(o.side) * o.qty

EntryEffect(i) ==
    LET o == orders[i]
        s == o.symbol
    IN  /\ i \in Open /\ o.opening /\ ~Reduces(pos[s], o.side)
        /\ Moved(o)
        /\ trade'[s].dir = IF trade[s].dir # "NONE" THEN trade[s].dir
                           ELSE IF o.side = "BUY" THEN "LONG" ELSE "SHORT"
        /\ trade'[s].entryQty = trade[s].entryQty + o.qty
        /\ trade'[s].exitQty = trade[s].exitQty
        /\ DOMAIN orders \subseteq DOMAIN orders'
        /\ orders'[i] = [o EXCEPT !.status = "FILLED"]
        /\ \A j \in DOMAIN orders \ {i} : orders'[j] = orders[j]
        /\ \A j \in DOMAIN orders' \ DOMAIN orders :
              \E type \in OrderType, level \in Int :
                  orders'[j] = Exit(o, i, type, level)
        /\ UNCHANGED <<phase, squared, todo>> /\ phase = "tick"

ExitEffect(i, o) ==
    LET s == o.symbol
    IN  /\ o \in Order /\ ~o.opening /\ o.status = "OPEN" /\ o.qty > 0
        /\ Reduces(pos[s], o.side) /\ o.qty <= Abs(pos[s].qty)
        /\ \/ i \in Open /\ o = orders[i] /\ phase = "tick" /\ todo' = todo
           \/ /\ i \notin DOMAIN orders /\ o.oco = 0 /\ phase = "square"
              /\ o.qty = Abs(pos[s].qty) /\ todo' = todo \ {s}
        /\ Moved(o)
        /\ IF pos'[s].qty = 0
           THEN trade'[s] = NoTrade
           ELSE /\ trade'[s].dir = trade[s].dir
                /\ trade'[s].entryQty = trade[s].entryQty
                /\ trade'[s].exitQty = trade[s].exitQty + o.qty
        /\ orders' = OrdersAfterExit(i, o, pos'[s].qty = 0)
        /\ UNCHANGED <<phase, squared>>

\* place_order has the effect Placed.
LEMMA PlacedEffect ==
    ASSUME TypeOK, NEW s \in Symbols, NEW side \in Side, NEW q \in Nat,
           NEW type \in OrderType, NEW level \in Int, NEW b \in Bracket \cup {None},
           PlaceOrder(s, side, q, type, level, b)
    PROVE  \E o \in Order : Placed(o)
<1> DEFINE x == NewOrder(s, side, q, type, level, b)
           st == IF Accepted(x) THEN "OPEN" ELSE "REJECTED"
           o == [x EXCEPT !.status = st]
<1>1. o \in Order
  BY NewOrderType DEF TypeOK, Status
<1>2. /\ x.symbol = s /\ x.side = side /\ x.qty = q /\ x.oco = 0
      /\ x.opening = ~Reduces(pos[s], side)
  BY DEF NewOrder
<1>3. /\ o.symbol = s /\ o.side = side /\ o.qty = q /\ o.oco = 0
      /\ o.opening = x.opening /\ o.status = st
  BY <1>2 DEF NewOrder
<1>4. o.status = "OPEN" => Accepted(x)
  BY <1>3
<1>5. Accepted(x) =>
        /\ q > 0
        /\ x.opening => ~squared /\ SlotFree(s)
  BY <1>2 DEF Accepted, EntryAllowed, BeforeSquareOff
<1>6. ~x.opening => Reduces(pos[s], side)
  BY <1>2
<1>7. o.status \in {"OPEN", "REJECTED"}
  BY <1>3
<1>8. /\ phase = "idle" /\ orders' = Put(orders, n + 1, o)
      /\ UNCHANGED <<pos, trade, phase, squared, todo>>
  BY DEF PlaceOrder, book, time, call
<1> HIDE DEF x, o, st
<1> QED
  BY <1>1, <1>3, <1>4, <1>5, <1>6, <1>7, <1>8 DEF Placed

\* _book moves one position and one round trip.
LEMMA FillMoves ==
    ASSUME TypeOK, NEW o \in Order, o.qty > 0, NEW price \in Int, Fill(o, price)
    PROVE  /\ Moved(o)
           /\ trade'[o.symbol] = IF ~o.opening /\ pos'[o.symbol].qty = 0 THEN NoTrade
                                 ELSE TradeAfter(trade[o.symbol], ExecutionOf(o, price))
<1> DEFINE x == ExecutionOf(o, price)
           p == PositionAfter(pos[o.symbol], x)
           t == TradeAfter(trade[o.symbol], x)
<1>1. o.symbol \in Symbols /\ x.qty = o.qty /\ x.side = o.side
  BY DEF Order, ExecutionOf
<1>2. p.qty = pos[o.symbol].qty + Sign(o.side) * o.qty
  BY <1>1 DEF PositionAfter
<1> HIDE DEF p, t, x
<1>3. /\ pos' = [pos EXCEPT ![o.symbol] = p]
      /\ trade' = [trade EXCEPT ![o.symbol] =
                      IF ~o.opening /\ p.qty = 0 THEN NoTrade ELSE t]
  BY DEF Fill, p, t, x
<1>4. pos \in [Symbols -> Position] /\ trade \in [Symbols -> Trade]
  BY DEF TypeOK, BooksTyped
<1>5. Moved(o)
  BY <1>1, <1>2, <1>3, <1>4 DEF Moved
<1>6. pos'[o.symbol] = p
  BY <1>1, <1>3, <1>4
<1>7. trade'[o.symbol] = IF ~o.opening /\ pos'[o.symbol].qty = 0 THEN NoTrade ELSE t
  BY <1>1, <1>3, <1>4, <1>6
<1> QED
  BY <1>5, <1>7 DEF t, x

\* What the actions that move neither orders nor books may do to a square-off.
Quiet ==
    /\ UNCHANGED Ledgers
    /\ \/ UNCHANGED <<phase, squared, todo>>
       \/ phase' # "square" /\ (squared' => squared)
       \/ phase = "square" /\ todo = {} /\ phase' = "idle" /\ squared'

\* A filled entry has the effect EntryEffect.
LEMMA EntryFilled ==
    ASSUME TypeOK, OrdersWellFormed, NEW i \in DOMAIN orders, EntryFills(i)
    PROVE  EntryEffect(i)
<1> DEFINE o == orders[i]
           s == o.symbol
           price == EventPrice(o)
           filled == [orders EXCEPT ![i].status = "FILLED"]
<1>1. /\ Visit(i) /\ Visited(i) /\ phase = "tick" /\ FillEntry(i, o, price) /\ Fill(o, price)
      /\ o.opening /\ ~Reduces(pos[s], o.side)
  BY DEF EntryFills, Visit, Visited, FillEntry, AgainstPosition
<1>2. /\ o \in Order /\ o.qty > 0 /\ price \in Int /\ i \in 1 .. n
      /\ o.status = "OPEN" /\ i \in Open
  BY <1>1, VisitTypes DEF Open
<1>3. /\ Moved(o)
      /\ trade'[s] = TradeAfter(trade[s], ExecutionOf(o, price))
  BY <1>1, <1>2, FillMoves
<1>4. /\ trade'[s].dir = IF trade[s].dir # "NONE" THEN trade[s].dir
                         ELSE IF o.side = "BUY" THEN "LONG" ELSE "SHORT"
      /\ trade'[s].entryQty = trade[s].entryQty + o.qty
      /\ trade'[s].exitQty = trade[s].exitQty
  <2>1. trade[s] \in Trade /\ o.qty \in Int
    BY <1>2 DEF TypeOK, BooksTyped, Order
  <2> QED
    BY <1>1, <1>3, <2>1 DEF TradeAfter, ExecutionOf, Trade
<1>5. /\ n \in Nat /\ DOMAIN orders \subseteq 1 .. n
      /\ DOMAIN filled = DOMAIN orders
      /\ filled[i] = [o EXCEPT !.status = "FILLED"]
      /\ \A j \in DOMAIN orders \ {i} : filled[j] = orders[j]
  BY DEF TypeOK, OrdersTyped
<1> DEFINE stop == StopExit(o, i, price)
           target == TargetExit(o, i, price)
           isExit(x) == \E type \in OrderType, level \in Int : x = Exit(o, i, type, level)
<1>6. /\ o.bracket # None => isExit(stop)
      /\ o.bracket # None /\ o.bracket.target # None => isExit(target)
  <2>1. o.bracket \in Bracket \cup {None} /\ Sign(o.side) \in Int
    BY <1>2 DEF Order, Sign
  <2>2. o.bracket # None => StopLevel(o.bracket, price, o.side) \in Int
    BY <1>2, <2>1 DEF StopLevel, Bracket
  <2>3. o.bracket # None /\ o.bracket.target # None
          => TargetLevel(o.bracket, price, o.side) \in Int
    BY <1>2, <2>1 DEF TargetLevel, Bracket
  <2> QED
    BY <2>2, <2>3 DEF StopExit, TargetExit, OrderType
<1> DEFINE effect == /\ DOMAIN orders \subseteq DOMAIN orders'
                     /\ orders'[i] = filled[i]
                     /\ \A j \in DOMAIN orders \ {i} : orders'[j] = filled[j]
                     /\ \A j \in DOMAIN orders' \ DOMAIN orders : isExit(orders'[j])
<1>7. effect
  <2>1. CASE o.bracket = None
    <3>1. orders' = filled
      BY <1>1, <2>1 DEF FillEntry
    <3> HIDE DEF filled
    <3> QED
      BY <1>5, <3>1
  <2>2. CASE o.bracket # None /\ o.bracket.target = None
    <3>1. orders' = Put(filled, n + 1, stop) /\ isExit(stop)
      BY <1>1, <1>6, <2>2 DEF FillEntry
    <3> HIDE DEF filled, stop, isExit
    <3> QED
      BY <1>2, <1>5, <3>1 DEF Put
  <2>3. CASE o.bracket # None /\ o.bracket.target # None
    <3>1. /\ orders' = Put(Put(filled, n + 1, stop), n + 2, target)
          /\ isExit(stop) /\ isExit(target)
      BY <1>1, <1>6, <2>3 DEF FillEntry
    <3> HIDE DEF filled, stop, target, isExit
    <3> QED
      BY <1>2, <1>5, <3>1 DEF Put
  <2> QED
    BY <2>1, <2>2, <2>3
<1>8. UNCHANGED <<phase, squared, todo>>
  BY <1>1 DEF Visit, time
<1> QED
  BY <1>1, <1>2, <1>3, <1>4, <1>5, <1>7, <1>8 DEF EntryEffect

\* The part of ExitEffect that its two callers share.
LEMMA ExitMoves ==
    ASSUME TypeOK, NEW o \in Order, o.qty > 0, ~o.opening, NEW price \in Int, Fill(o, price)
    PROVE  /\ Moved(o)
           /\ IF pos'[o.symbol].qty = 0
              THEN trade'[o.symbol] = NoTrade
              ELSE /\ trade'[o.symbol].dir = trade[o.symbol].dir
                   /\ trade'[o.symbol].entryQty = trade[o.symbol].entryQty
                   /\ trade'[o.symbol].exitQty = trade[o.symbol].exitQty + o.qty
<1>1. trade[o.symbol] \in Trade /\ o.qty \in Int
  BY DEF TypeOK, BooksTyped, Order
<1>2. /\ Moved(o)
      /\ trade'[o.symbol] = IF pos'[o.symbol].qty = 0 THEN NoTrade
                            ELSE TradeAfter(trade[o.symbol], ExecutionOf(o, price))
  BY FillMoves
<1> QED
  BY <1>1, <1>2 DEF TradeAfter, ExecutionOf, Trade

\* A filled exit and a position closed by square_off have the effect ExitEffect.
LEMMA ExitFilled ==
    ASSUME TypeOK, OrdersWellFormed, NEW i \in DOMAIN orders, ExitFills(i)
    PROVE  ExitEffect(i, orders[i])
<1> DEFINE o == orders[i]
           price == EventPrice(o)
<1>1. /\ Visit(i) /\ Visited(i) /\ phase = "tick" /\ FillExit(i, o, price) /\ Fill(o, price)
      /\ ~o.opening /\ Reduces(pos[o.symbol], o.side) /\ o.qty <= Abs(pos[o.symbol].qty)
  BY DEF ExitFills, Visit, Visited, FillExit, CannotExit
<1>2. /\ o \in Order /\ o.qty > 0 /\ price \in Int /\ o.status = "OPEN" /\ i \in Open
  BY <1>1, VisitTypes DEF Open
<1>3. orders' = OrdersAfterExit(i, o, pos'[o.symbol].qty = 0)
  BY <1>1 DEF FillExit
<1>4. UNCHANGED <<phase, squared, todo>>
  BY <1>1 DEF Visit, time
<1> HIDE DEF price
<1>5. /\ Moved(o)
      /\ IF pos'[o.symbol].qty = 0
         THEN trade'[o.symbol] = NoTrade
         ELSE /\ trade'[o.symbol].dir = trade[o.symbol].dir
              /\ trade'[o.symbol].entryQty = trade[o.symbol].entryQty
              /\ trade'[o.symbol].exitQty = trade[o.symbol].exitQty + o.qty
  BY <1>1, <1>2, ExitMoves
<1> QED
  BY <1>1, <1>2, <1>3, <1>4, <1>5 DEF ExitEffect

\* square_off's closing order sells a long position and buys a short one back.
LEMMA PositionClosed ==
    ASSUME TypeOK, NEW s \in Symbols, ClosePosition(s)
    PROVE  ExitEffect(n + 1, ClosingOrder(s))
<1> DEFINE o == ClosingOrder(s)
           price == Slip(IF last[s] = None THEN pos[s].avg ELSE last[s], o.side)
<1>1. /\ phase = "square" /\ Fill(o, price) /\ ~CannotExit(o)
      /\ orders' = OrdersAfterExit(n + 1, o, pos'[o.symbol].qty = 0)
      /\ todo' = todo \ {s} /\ UNCHANGED <<phase, squared>>
  BY DEF ClosePosition, FillExit, time
<1>2. pos[s].qty \in Int /\ pos[s].avg \in Int /\ seq \in Nat /\ n \in Nat
  BY DEF TypeOK, BooksTyped, Position, CallTyped, OrdersTyped
<1>3. o \in Order
  BY <1>2 DEF ClosingOrder, Order, Side, OrderType, Status, Abs
<1>4. /\ o.symbol = s /\ o.qty = Abs(pos[s].qty) /\ ~o.opening /\ o.oco = 0
      /\ o.status = "OPEN"
  BY DEF ClosingOrder
<1>5. Reduces(pos[s], o.side) /\ o.qty > 0
  BY <1>1, <1>2, <1>4 DEF CannotExit, Reduces, ClosingOrder, Abs
<1>6. price \in Int
  <2>1. (IF last[s] = None THEN pos[s].avg ELSE last[s]) \in Int
    BY <1>2 DEF TypeOK, CallTyped
  <2> QED
    BY <2>1, SlipInt
<1>7. n + 1 \notin DOMAIN orders
  BY <1>2 DEF TypeOK, OrdersTyped
<1>8. o.qty <= Abs(pos[o.symbol].qty)
  BY <1>2, <1>4 DEF Abs
<1> HIDE DEF o, price
<1>9. /\ Moved(o)
      /\ IF pos'[o.symbol].qty = 0
         THEN trade'[o.symbol] = NoTrade
         ELSE /\ trade'[o.symbol].dir = trade[o.symbol].dir
              /\ trade'[o.symbol].entryQty = trade[o.symbol].entryQty
              /\ trade'[o.symbol].exitQty = trade[o.symbol].exitQty + o.qty
  BY <1>1, <1>3, <1>4, <1>5, <1>6, ExitMoves
<1>10. ExitEffect(n + 1, o)
  BY <1>1, <1>3, <1>4, <1>5, <1>7, <1>8, <1>9 DEF ExitEffect
<1> QED
  BY <1>10 DEF o

\* Every step is quiet or has one of the effects.
LEMMA StepEffects ==
    ASSUME TypeOK, OrdersWellFormed, [Next]_vars
    PROVE  \/ Quiet
           \/ \E o \in Order : Placed(o)
           \/ \E i \in DOMAIN orders : Ended(i)
           \/ AllCancelled
           \/ \E i \in DOMAIN orders : EntryEffect(i)
           \/ \E i \in Nat, o \in Order : ExitEffect(i, o)
<1>1. ASSUME NEW s \in Symbols, NEW side \in Side, NEW q \in Quantities,
             NEW b \in Brackets, NEW type \in OrderType, NEW level \in Int,
             PlaceOrder(s, side, q, type, level, b)
      PROVE  \E o \in Order : Placed(o)
  <2>1. q \in Nat /\ b \in Bracket \cup {None}
    BY QuantityAssumption, BracketAssumption
  <2> QED
    BY <1>1, <2>1, PlacedEffect
<1>2. Place => \E o \in Order : Placed(o)
  <2>1. Levels \subseteq Int
    BY LevelAssumption
  <2> QED
    BY <1>1, <2>1 DEF Place, OrderType
<1>3. ASSUME NEW i \in DOMAIN orders, CancelOrder(i)
      PROVE  Ended(i)
  BY <1>3 DEF CancelOrder, Ended, book, time, call
<1>4. ASSUME NEW i \in DOMAIN orders,
             ExitTooLate(i) \/ EntryOpposed(i) \/ EntryUnfunded(i)
      PROVE  Ended(i)
  <2>1. Visit(i) /\ (Drop(i, "CANCELLED") \/ Drop(i, "REJECTED"))
    BY <1>4 DEF ExitTooLate, EntryOpposed, EntryUnfunded
  <2>2. i \in Open
    BY <2>1 DEF Visit, Visited, Live, OpenFor
  <2> QED
    BY <2>1, <2>2 DEF Visit, Drop, Ended, book, time
<1>5. ASSUME NEW s \in Symbols, NEW p \in Prices, Mark(s, p)
      PROVE  Quiet
  BY <1>5 DEF Mark, Quiet, Ledgers, book, time, call
<1>6. ASSUME NEW s \in Symbols, NEW bar \in Bars, NEW ts \in 0 .. MaxTime,
             BeginTick(s, bar, ts)
      PROVE  Quiet
  BY <1>6 DEF BeginTick, Advance, Quiet, Ledgers, book
<1>7. ASSUME NEW i \in DOMAIN orders, VisitUntouched(i)
      PROVE  Quiet
  BY <1>7 DEF VisitUntouched, Quiet, Ledgers, book, time
<1>8. EndTick => Quiet
  BY DEF EndTick, Quiet, Ledgers, book, time
<1>9. EndSquareOff => Quiet
  BY DEF EndSquareOff, Quiet, Ledgers, book
<1>10. ASSUME NEW ts \in 0 .. MaxTime, BeginSquareOff(ts)
       PROVE  AllCancelled
  BY <1>10 DEF BeginSquareOff, Advance, AllCancelled, book
<1>11. ASSUME NEW i \in DOMAIN orders, EntryFills(i)
       PROVE  EntryEffect(i)
  BY <1>11, EntryFilled
<1>12. ASSUME NEW i \in DOMAIN orders, ExitFills(i)
       PROVE  \E j \in Nat, o \in Order : ExitEffect(j, o)
  <2>1. i \in Nat /\ orders[i] \in Order
    BY DEF TypeOK, OrdersTyped
  <2> QED
    BY <1>12, <2>1, ExitFilled
<1>13. ASSUME NEW s \in Symbols, ClosePosition(s)
       PROVE  \E j \in Nat, o \in Order : ExitEffect(j, o)
  <2>1. n + 1 \in Nat
    BY DEF TypeOK, OrdersTyped
  <2>2. ExitEffect(n + 1, ClosingOrder(s))
    BY <1>13, PositionClosed
  <2>3. ClosingOrder(s) \in Order
    BY <2>2 DEF ExitEffect
  <2> QED
    BY <2>1, <2>2, <2>3
<1>14. CASE UNCHANGED vars
  BY <1>14 DEF vars, Quiet, Ledgers, book, time, call
<1> QED
  BY <1>2, <1>3, <1>4, <1>5, <1>6, <1>7, <1>8, <1>9, <1>10, <1>11, <1>12, <1>13, <1>14
     DEF Next, Tick, SquareOffCall
------------------------------------------------------------------------------
(* The inductive invariant.  No part stands alone: an exit that reduces    *)
(* its position is what makes a closed round trip well defined, and a flat *)
(* book is what keeps everything shut after the square-off.                *)
IInv ==
    /\ TypeOK
    /\ OrdersWellFormed
    /\ SquareOffClosesAll
    /\ NoOrphanExit
    /\ TradeMirrorsPosition
    /\ SlotLimit
    /\ FlatOnceSquared

\* The invariant holds of a broker without orders.
LEMMA InitInv == Init => IInv
<1> SUFFICES ASSUME Init PROVE IInv
  OBVIOUS
<1>1. TypeOK
  BY InitType
<1>2. DOMAIN orders = {} /\ Open = {} /\ Pending = {} /\ Held = {} /\ InUse = {}
  BY DEF Init, Open, Pending, Held, InUse
<1>3. OrdersWellFormed /\ SquareOffClosesAll /\ NoOrphanExit
  BY <1>2 DEF Init, OrdersWellFormed, SquareOffClosesAll, NoOrphanExit
<1>4. TradeMirrorsPosition
  BY DEF Init, TradeMirrorsPosition, NoTrade, Abs
<1>5. SlotLimit
  BY <1>2, FS_EmptySet, LimitsAssumption DEF SlotLimit
<1>6. FlatOnceSquared
  BY DEF Init, FlatOnceSquared
<1> QED
  BY <1>1, <1>3, <1>4, <1>5, <1>6 DEF IInv

\* What an execution of o, order i, does to the orders.
Executes(i, o) ==
    /\ DOMAIN orders' = DOMAIN orders \cup {i}
    /\ orders'[i].status = "FILLED" /\ orders'[i].symbol = o.symbol
    /\ orders'[i].oco = o.oco /\ ~orders'[i].opening
    /\ i \in DOMAIN orders => o = orders[i] /\ orders[i].status = "OPEN"
    /\ o.oco # 0 => i \in DOMAIN orders
    /\ Open' \subseteq Open \ {i}
    /\ \A j \in DOMAIN orders \ {i} :
          \/ /\ j \notin CancelledBy(o, pos'[o.symbol].qty = 0)
             /\ orders'[j] = orders[j]
          \/ /\ j \in CancelledBy(o, pos'[o.symbol].qty = 0)
             /\ orders[j].status = "OPEN" /\ orders'[j].status = "CANCELLED"
             /\ orders'[j].symbol = orders[j].symbol
             /\ orders'[j].oco = orders[j].oco
             /\ orders'[j].opening = orders[j].opening

\* An execution fills its order, cancels some open ones and keeps the rest.
LEMMA AfterExit ==
    ASSUME TypeOK, NEW i \in Nat, NEW o \in Order, ExitEffect(i, o)
    PROVE  Executes(i, o)
<1> DEFINE cut == CancelledBy(o, pos'[o.symbol].qty = 0)
<1>1. orders' = OrdersAfterExit(i, o, pos'[o.symbol].qty = 0)
  BY DEF ExitEffect
<1>2. \A j \in DOMAIN orders : orders[j] \in Order
  BY DEF TypeOK, OrdersTyped
<1>3. i \in DOMAIN orders => o = orders[i] /\ orders[i].status = "OPEN"
  BY DEF ExitEffect, Open
<1>4. o.oco # 0 => i \in DOMAIN orders
  BY DEF ExitEffect, Open
<1>5. \A j \in cut : orders[j].status = "OPEN"
  BY DEF CancelledBy, OpenFor, Open
<1>6. /\ DOMAIN orders' = DOMAIN orders \cup {i}
      /\ orders'[i] = [o EXCEPT !.status = "FILLED"]
      /\ \A j \in DOMAIN orders \ {i} :
                 /\ orders'[j] = IF j \in cut
                                 THEN [orders[j] EXCEPT !.status = "CANCELLED"]
                                 ELSE orders[j]
  BY <1>1 DEF OrdersAfterExit
<1> HIDE DEF cut
<1>7. \A j \in DOMAIN orders \ {i} :
                 \/ j \notin cut /\ orders'[j] = orders[j]
                 \/ /\ j \in cut /\ orders[j].status = "OPEN" /\ orders'[j].status = "CANCELLED"
                    /\ orders'[j].symbol = orders[j].symbol
                    /\ orders'[j].oco = orders[j].oco
                    /\ orders'[j].opening = orders[j].opening
  BY <1>2, <1>5, <1>6 DEF Order
<1>8. ~o.opening
  BY DEF ExitEffect
<1>9. /\ orders'[i].status = "FILLED" /\ orders'[i].symbol = o.symbol
      /\ orders'[i].oco = o.oco /\ ~orders'[i].opening
  BY <1>6, <1>8 DEF Order
<1>10. Open' \subseteq Open \ {i}
  BY <1>6, <1>7, <1>9 DEF Open
<1> QED
  BY <1>3, <1>4, <1>6, <1>7, <1>9, <1>10 DEF cut, Executes

\* An order added under the next id leaves the others where they were.
LEMMA AfterPlace ==
    ASSUME TypeOK, NEW o \in Order, Placed(o)
    PROVE  /\ n + 1 \notin DOMAIN orders
           /\ DOMAIN orders' = DOMAIN orders \cup {n + 1}
           /\ orders'[n + 1] = o
           /\ \A j \in DOMAIN orders : orders'[j] = orders[j]
           /\ Open' = IF o.status = "OPEN" THEN Open \cup {n + 1} ELSE Open
<1>1. n \in Nat /\ DOMAIN orders \subseteq 1 .. n
  BY DEF TypeOK, OrdersTyped
<1>2. n + 1 \notin DOMAIN orders
  BY <1>1
<1>3. /\ DOMAIN orders' = DOMAIN orders \cup {n + 1}
      /\ orders'[n + 1] = o
      /\ \A j \in DOMAIN orders : orders'[j] = orders[j]
  BY <1>2 DEF Placed, Put
<1> QED
  BY <1>2, <1>3 DEF Open

\* An order that ends changes its status only.
LEMMA AfterEnd ==
    ASSUME TypeOK, NEW i \in DOMAIN orders, Ended(i)
    PROVE  /\ DOMAIN orders' = DOMAIN orders
           /\ Open' = Open \ {i}
           /\ \A j \in DOMAIN orders \ {i} : orders'[j] = orders[j]
           /\ orders'[i].status \in {"CANCELLED", "REJECTED"}
           /\ orders'[i].symbol = orders[i].symbol
           /\ orders'[i].oco = orders[i].oco
           /\ orders'[i].opening = orders[i].opening
<1>1. orders[i] \in Order
  BY DEF TypeOK, OrdersTyped
<1>2. PICK st \in {"CANCELLED", "REJECTED"} : orders' = [orders EXCEPT ![i].status = st]
  BY DEF Ended
<1>3. /\ DOMAIN orders' = DOMAIN orders
      /\ \A j \in DOMAIN orders \ {i} : orders'[j] = orders[j]
      /\ orders'[i] = [orders[i] EXCEPT !.status = st]
  BY <1>2
<1>4. orders'[i].status = st /\ orders'[i].symbol = orders[i].symbol
      /\ orders'[i].oco = orders[i].oco /\ orders'[i].opening = orders[i].opening
  BY <1>1, <1>3 DEF Order
<1>5. Open' = Open \ {i}
  BY <1>3, <1>4 DEF Open
<1> QED
  BY <1>3, <1>4, <1>5

\* After square_off has cancelled them no order is open.
LEMMA AfterCancel ==
    ASSUME TypeOK, AllCancelled
    PROVE  /\ DOMAIN orders' = DOMAIN orders
           /\ Open' = {}
           /\ \A j \in DOMAIN orders :
                 /\ orders'[j].symbol = orders[j].symbol
                 /\ orders'[j].oco = orders[j].oco
                 /\ orders'[j].opening = orders[j].opening
                 /\ orders[j].status # "OPEN" => orders'[j] = orders[j]
                 /\ orders'[j].status # "OPEN"
<1>1. \A j \in DOMAIN orders : orders[j] \in Order
  BY DEF TypeOK, OrdersTyped
<1>2. /\ DOMAIN orders' = DOMAIN orders
      /\ \A j \in DOMAIN orders :
            orders'[j] = IF j \in Open THEN [orders[j] EXCEPT !.status = "CANCELLED"]
                                       ELSE orders[j]
  BY DEF AllCancelled
<1>3. \A j \in DOMAIN orders :
                 /\ orders'[j].symbol = orders[j].symbol
                 /\ orders'[j].oco = orders[j].oco
                 /\ orders'[j].opening = orders[j].opening
                 /\ orders[j].status # "OPEN" => orders'[j] = orders[j]
                 /\ orders'[j].status # "OPEN"
  BY <1>1, <1>2 DEF Order, Open
<1> QED
  BY <1>2, <1>3 DEF Open

\* A filled entry leaves its exits open beside what was open before.
LEMMA AfterEntry ==
    ASSUME TypeOK, NEW i \in DOMAIN orders, EntryEffect(i)
    PROVE  /\ orders[i] \in Order /\ orders[i].status = "OPEN"
           /\ DOMAIN orders \subseteq DOMAIN orders'
           /\ orders'[i].status = "FILLED"
           /\ orders'[i].symbol = orders[i].symbol
           /\ orders'[i].oco = orders[i].oco /\ orders'[i].opening
           /\ \A j \in DOMAIN orders \ {i} : orders'[j] = orders[j]
           /\ \A j \in DOMAIN orders' \ DOMAIN orders :
                 /\ orders'[j].symbol = orders[i].symbol
                 /\ orders'[j].side = Opposite(orders[i].side)
                 /\ orders'[j].qty = orders[i].qty
                 /\ orders'[j].oco = i /\ ~orders'[j].opening
                 /\ orders'[j].status = "OPEN"
<1>1. orders[i] \in Order /\ orders[i].status = "OPEN" /\ orders[i].opening
  BY DEF TypeOK, OrdersTyped, EntryEffect, Open
<1>2. /\ orders'[i].status = "FILLED" /\ orders'[i].symbol = orders[i].symbol
      /\ orders'[i].oco = orders[i].oco /\ orders'[i].opening
  BY <1>1 DEF EntryEffect, Order
<1>3. \A j \in DOMAIN orders' \ DOMAIN orders :
                 /\ orders'[j].symbol = orders[i].symbol
                 /\ orders'[j].side = Opposite(orders[i].side)
                 /\ orders'[j].qty = orders[i].qty
                 /\ orders'[j].oco = i /\ ~orders'[j].opening
                 /\ orders'[j].status = "OPEN"
  BY DEF EntryEffect, Exit
<1> QED
  BY <1>1, <1>2, <1>3 DEF EntryEffect

\* OrdersWellFormed survives a step: only filled entries get exits.
LEMMA WellFormedStep == IInv /\ [Next]_vars => OrdersWellFormed'
<1> SUFFICES ASSUME IInv, [Next]_vars PROVE OrdersWellFormed'
  OBVIOUS
<1>a. TypeOK /\ OrdersWellFormed
  BY DEF IInv
<1>1. CASE Quiet
  BY <1>a, <1>1 DEF Quiet, Ledgers, OrdersWellFormed
<1>2. ASSUME NEW o \in Order, Placed(o)
      PROVE  OrdersWellFormed'
  <2>1. o.oco = 0 /\ (o.status = "OPEN" => o.qty > 0)
    BY <1>2 DEF Placed
  <2> QED
    BY <1>a, <1>2, <2>1, AfterPlace DEF OrdersWellFormed
<1>3. ASSUME NEW i \in DOMAIN orders, Ended(i)
      PROVE  OrdersWellFormed'
  <2>1. orders[i].status = "OPEN"
    BY <1>3 DEF Ended, Open
  <2> QED
    BY <1>a, <1>3, <2>1, AfterEnd DEF OrdersWellFormed
<1>4. CASE AllCancelled
  BY <1>a, <1>4, AfterCancel DEF OrdersWellFormed
<1>5. ASSUME NEW i \in DOMAIN orders, EntryEffect(i)
      PROVE  OrdersWellFormed'
  <2>1. orders[i].qty > 0 /\ orders[i].oco = 0 /\ orders[i].opening
    BY <1>a, <1>5, AfterEntry DEF OrdersWellFormed, EntryEffect
  <2>2. \A j \in DOMAIN orders' : orders'[j].status = "OPEN" => orders'[j].qty > 0
    BY <1>a, <1>5, <2>1, AfterEntry DEF OrdersWellFormed
  <2>3. ASSUME NEW j \in DOMAIN orders', orders'[j].oco # 0
        PROVE  /\ ~orders'[j].opening /\ orders'[j].oco \in DOMAIN orders'
               /\ orders'[orders'[j].oco].symbol = orders'[j].symbol
               /\ orders'[orders'[j].oco].status = "FILLED"
    <3>1. CASE j \in DOMAIN orders
      <4>1. j # i /\ orders'[j] = orders[j]
        BY <1>a, <1>5, <2>1, <2>3, <3>1, AfterEntry
      <4> DEFINE k == orders[j].oco
      <4>2. /\ ~orders[j].opening /\ k \in DOMAIN orders
            /\ orders[k].symbol = orders[j].symbol /\ orders[k].status = "FILLED"
        BY <1>a, <2>3, <3>1, <4>1 DEF OrdersWellFormed
      <4>3. k # i /\ orders'[k] = orders[k] /\ k \in DOMAIN orders'
        BY <1>a, <1>5, <4>2, AfterEntry
      <4> QED
        BY <4>1, <4>2, <4>3
    <3>2. CASE j \notin DOMAIN orders
      BY <1>a, <1>5, <2>3, <3>2, AfterEntry
    <3> QED
      BY <3>1, <3>2
  <2> QED
    BY <2>2, <2>3 DEF OrdersWellFormed
<1>6. ASSUME NEW i \in Nat, NEW o \in Order, ExitEffect(i, o)
      PROVE  OrdersWellFormed'
  <2>0. Executes(i, o)
    BY <1>a, <1>6, AfterExit
  <2>1. \A j \in DOMAIN orders' : orders'[j].status = "OPEN" => orders'[j].qty > 0
    BY <1>a, <2>0 DEF OrdersWellFormed, Executes
  <2>2. ASSUME NEW j \in DOMAIN orders', orders'[j].oco # 0
        PROVE  /\ ~orders'[j].opening /\ orders'[j].oco \in DOMAIN orders'
               /\ orders'[orders'[j].oco].symbol = orders'[j].symbol
               /\ orders'[orders'[j].oco].status = "FILLED"
    <3>1. /\ j \in DOMAIN orders /\ orders'[j].oco = orders[j].oco
          /\ orders'[j].symbol = orders[j].symbol
      <4>1. CASE j = i
        BY <2>0, <2>2, <4>1 DEF Executes
      <4>2. CASE j # i
        BY <2>0, <2>2, <4>2 DEF Executes
      <4> QED
        BY <4>1, <4>2
    <3> DEFINE k == orders[j].oco
    <3>2. /\ ~orders[j].opening /\ k \in DOMAIN orders
          /\ orders[k].symbol = orders[j].symbol /\ orders[k].status = "FILLED"
      BY <1>a, <2>2, <3>1 DEF OrdersWellFormed
    <3>3. k # i /\ orders'[k] = orders[k] /\ k \in DOMAIN orders'
      BY <2>0, <3>2 DEF Executes
    <3>4. ~orders'[j].opening
      BY <2>0, <3>1, <3>2 DEF Executes
    <3> QED
      BY <3>1, <3>2, <3>3, <3>4
  <2> QED
    BY <2>1, <2>2 DEF OrdersWellFormed
<1> QED
  BY <1>a, <1>1, <1>2, <1>3, <1>4, <1>5, <1>6, StepEffects

\* SquareOffClosesAll: an execution of the loop flattens the position it takes
\* off its list, and only the loop runs while it has symbols left.
LEMMA SquareOffStep == IInv /\ [Next]_vars => SquareOffClosesAll'
<1> SUFFICES ASSUME IInv, [Next]_vars, phase' = "square"
             PROVE  Open' = {} /\ Held' \subseteq todo'
  BY DEF SquareOffClosesAll
<1>a. TypeOK /\ OrdersWellFormed /\ SquareOffClosesAll
  BY DEF IInv
<1>1. CASE Quiet
  BY <1>a, <1>1 DEF Quiet, Ledgers, SquareOffClosesAll, Open, Held
<1>2. ASSUME NEW o \in Order, Placed(o)
      PROVE  FALSE
  BY <1>2 DEF Placed
<1>3. ASSUME NEW i \in DOMAIN orders, Ended(i)
      PROVE  FALSE
  BY <1>a, <1>3 DEF Ended, SquareOffClosesAll
<1>4. CASE AllCancelled
  <2>1. Open' = {}
    BY <1>a, <1>4, AfterCancel
  <2> QED
    BY <1>4, <2>1 DEF AllCancelled, Held
<1>5. ASSUME NEW i \in DOMAIN orders, EntryEffect(i)
      PROVE  FALSE
  BY <1>5 DEF EntryEffect
<1>6. ASSUME NEW i \in Nat, NEW o \in Order, ExitEffect(i, o)
      PROVE  Open' = {} /\ Held' \subseteq todo'
  <2>1. phase = "square" /\ o.qty = Abs(pos[o.symbol].qty) /\ todo' = todo \ {o.symbol}
    BY <1>6 DEF ExitEffect
  <2>2. Open = {} /\ Held \subseteq todo
    BY <1>a, <2>1 DEF SquareOffClosesAll
  <2>3. Executes(i, o)
    BY <1>a, <1>6, AfterExit
  <2>4. pos'[o.symbol].qty = 0
    <3>1. pos[o.symbol].qty \in Int /\ o.side \in Side
      BY <1>a DEF TypeOK, BooksTyped, Position, Order
    <3>2. /\ pos'[o.symbol].qty = pos[o.symbol].qty + Sign(o.side) * o.qty
          /\ Reduces(pos[o.symbol], o.side)
      BY <1>6 DEF ExitEffect, Moved
    <3> QED
      BY <2>1, <3>1, <3>2 DEF Reduces, Abs, Sign
  <2>5. \A s \in Symbols \ {o.symbol} : pos'[s] = pos[s]
    BY <1>6 DEF ExitEffect, Moved
  <2> QED
    BY <2>1, <2>2, <2>3, <2>4, <2>5 DEF Executes, Held
<1> QED
  BY <1>a, <1>1, <1>2, <1>3, <1>4, <1>5, <1>6, StepEffects

\* FlatOnceSquared: nothing is accepted or filled once the book is shut, and
\* it is shut by the end of a square-off only.
LEMMA FlatStep == IInv /\ [Next]_vars => FlatOnceSquared'
<1> SUFFICES ASSUME IInv, [Next]_vars, squared'
             PROVE  Held' = {} /\ Open' = {}
  BY DEF FlatOnceSquared
<1>a. TypeOK /\ OrdersWellFormed /\ SquareOffClosesAll /\ FlatOnceSquared
  BY DEF IInv
<1>b. squared => Held = {} /\ Open = {}
  BY <1>a DEF FlatOnceSquared
<1>1. CASE Quiet
  <2>1. Held' = Held /\ Open' = Open
    BY <1>1 DEF Quiet, Ledgers, Held, Open
  <2> QED
    BY <1>a, <1>b, <1>1, <2>1 DEF Quiet, SquareOffClosesAll
<1>2. ASSUME NEW o \in Order, Placed(o)
      PROVE  Held' = {} /\ Open' = {}
  <2>1. squared /\ Held' = Held /\ Held = {} /\ Open = {}
    BY <1>b, <1>2 DEF Placed, Held
  <2>2. o.status # "OPEN"
    <3>1. o.symbol \in Symbols
      BY DEF Order
    <3> QED
      BY <1>2, <2>1, <3>1 DEF Placed, Held, Reduces
  <2>3. Open' = Open
    BY <1>a, <1>2, <2>2, AfterPlace
  <2> QED
    BY <2>1, <2>3
<1>3. ASSUME NEW i \in DOMAIN orders, Ended(i)
      PROVE  FALSE
  BY <1>b, <1>3 DEF Ended
<1>4. CASE AllCancelled
  <2>1. Open' = {} /\ Held' = Held
    BY <1>a, <1>4, AfterCancel DEF AllCancelled, Held
  <2> QED
    BY <1>b, <1>4, <2>1 DEF AllCancelled
<1>5. ASSUME NEW i \in DOMAIN orders, EntryEffect(i)
      PROVE  FALSE
  BY <1>b, <1>5 DEF EntryEffect
<1>6. ASSUME NEW i \in Nat, NEW o \in Order, ExitEffect(i, o)
      PROVE  FALSE
  <2>1. squared /\ o.symbol \in Symbols /\ pos[o.symbol].qty # 0
    BY <1>6 DEF ExitEffect, Reduces, Order
  <2> QED
    BY <1>b, <2>1 DEF Held
<1> QED
  BY <1>a, <1>1, <1>2, <1>3, <1>4, <1>5, <1>6, StepEffects

\* A position moves away from zero by an entry and towards it by an exit.
LEMMA Direction ==
    ASSUME TypeOK, NEW o \in Order, Moved(o), o.qty > 0
    PROVE  LET p == pos[o.symbol]
               q == pos'[o.symbol]
           IN  /\ p.qty \in Int /\ q.qty \in Int
               /\ ~Reduces(p, o.side)
                    => IF o.side = "BUY" THEN 0 <= p.qty /\ p.qty < q.qty
                                         ELSE q.qty < p.qty /\ p.qty <= 0
               /\ Reduces(p, o.side) /\ o.qty <= Abs(p.qty)
                    => IF o.side = "BUY" THEN p.qty < q.qty /\ q.qty <= 0
                                         ELSE 0 <= q.qty /\ q.qty < p.qty
<1>1. pos[o.symbol].qty \in Int /\ o.side \in Side /\ o.qty \in Int
  BY DEF TypeOK, BooksTyped, Position, Order
<1>2. pos'[o.symbol].qty = pos[o.symbol].qty + Sign(o.side) * o.qty
  BY DEF Moved
<1>3. Sign(o.side) = IF o.side = "BUY" THEN 1 ELSE -1
  BY DEF Sign
<1> QED
  BY <1>1, <1>2, <1>3 DEF Reduces, Abs, Side

\* NoOrphanExit: an entry only adds to the position its symbol's exits reduce,
\* and an exit that does not leave it on the same side cancels them all.
LEMMA OrphanStep == IInv /\ [Next]_vars => NoOrphanExit'
<1> SUFFICES ASSUME IInv, [Next]_vars, NEW j \in Open', ~orders'[j].opening
             PROVE  Reduces(pos'[orders'[j].symbol], orders'[j].side)
  BY DEF NoOrphanExit
<1>a. TypeOK /\ OrdersWellFormed /\ NoOrphanExit
  BY DEF IInv
<1>b. \A k \in Open : ~orders[k].opening => Reduces(pos[orders[k].symbol], orders[k].side)
  BY <1>a DEF NoOrphanExit
<1>c. j \in DOMAIN orders' /\ orders'[j].status = "OPEN"
  BY DEF Open
<1>1. CASE Quiet
  BY <1>b, <1>1 DEF Quiet, Ledgers, Open
<1>2. ASSUME NEW o \in Order, Placed(o)
      PROVE  Reduces(pos'[orders'[j].symbol], orders'[j].side)
  <2>1. pos' = pos
    BY <1>2 DEF Placed
  <2>2. CASE j = n + 1
    BY <1>a, <1>c, <1>2, <2>1, <2>2, AfterPlace DEF Placed
  <2>3. CASE j # n + 1
    <3>1. j \in DOMAIN orders /\ orders'[j] = orders[j]
      BY <1>a, <1>c, <1>2, <2>3, AfterPlace
    <3> QED
      BY <1>b, <1>c, <2>1, <3>1 DEF Open
  <2> QED
    BY <2>2, <2>3
<1>3. ASSUME NEW i \in DOMAIN orders, Ended(i)
      PROVE  Reduces(pos'[orders'[j].symbol], orders'[j].side)
  <2>1. j \in Open \ {i} /\ orders'[j] = orders[j] /\ pos' = pos
    BY <1>a, <1>3, AfterEnd DEF Ended, Open
  <2> QED
    BY <1>b, <2>1
<1>4. CASE AllCancelled
  BY <1>a, <1>4, AfterCancel
<1>5. ASSUME NEW i \in DOMAIN orders, EntryEffect(i)
      PROVE  Reduces(pos'[orders'[j].symbol], orders'[j].side)
  <2> DEFINE o == orders[i]
             s == o.symbol
  <2>1. /\ o \in Order /\ o.qty > 0 /\ Moved(o) /\ ~Reduces(pos[s], o.side)
        /\ s \in Symbols /\ o.side \in Side
    BY <1>a, <1>5, AfterEntry DEF OrdersWellFormed, EntryEffect, Order
  <2>2. /\ pos[s].qty \in Int /\ pos'[s].qty \in Int
        /\ IF o.side = "BUY" THEN 0 <= pos[s].qty /\ pos[s].qty < pos'[s].qty
                             ELSE pos'[s].qty < pos[s].qty /\ pos[s].qty <= 0
    BY <1>a, <2>1, Direction
  <2>3. CASE j \notin DOMAIN orders
    <3>1. orders'[j].symbol = s /\ orders'[j].side = Opposite(o.side)
      BY <1>a, <1>c, <1>5, <2>3, AfterEntry
    <3> QED
      BY <2>1, <2>2, <3>1 DEF Opposite, Reduces, Side
  <2>4. CASE j \in DOMAIN orders
    <3>1. j # i /\ orders'[j] = orders[j]
      BY <1>a, <1>c, <1>5, <2>4, AfterEntry
    <3>2. Reduces(pos[orders[j].symbol], orders[j].side)
      BY <1>b, <1>c, <2>4, <3>1 DEF Open
    <3>3. orders[j].symbol \in Symbols /\ orders[j].side \in Side
      BY <1>a, <2>4 DEF TypeOK, OrdersTyped, Order
    <3>4. CASE orders[j].symbol = s
      BY <2>1, <2>2, <3>1, <3>2, <3>3, <3>4 DEF Reduces, Side
    <3>5. CASE orders[j].symbol # s
      BY <2>1, <3>1, <3>2, <3>3, <3>5 DEF Moved
    <3> QED
      BY <3>4, <3>5
  <2> QED
    BY <2>3, <2>4
<1>6. ASSUME NEW i \in Nat, NEW o \in Order, ExitEffect(i, o)
      PROVE  Reduces(pos'[orders'[j].symbol], orders'[j].side)
  <2> DEFINE s == o.symbol
  <2>1. Executes(i, o)
    BY <1>a, <1>6, AfterExit
  <2>2. /\ j \in Open /\ j \in DOMAIN orders \ {i} /\ orders'[j] = orders[j]
        /\ j \notin CancelledBy(o, pos'[s].qty = 0)
    BY <1>c, <2>1 DEF Executes, Open
  <2>3. Reduces(pos[orders[j].symbol], orders[j].side)
    BY <1>b, <2>2
  <2>4. /\ o.qty > 0 /\ Moved(o) /\ Reduces(pos[s], o.side) /\ o.qty <= Abs(pos[s].qty)
        /\ s \in Symbols /\ o.side \in Side
    BY <1>6 DEF ExitEffect, Order
  <2>5. /\ pos[s].qty \in Int /\ pos'[s].qty \in Int
        /\ IF o.side = "BUY" THEN pos[s].qty < pos'[s].qty /\ pos'[s].qty <= 0
                             ELSE 0 <= pos'[s].qty /\ pos'[s].qty < pos[s].qty
    BY <1>a, <2>4, Direction
  <2>6. orders[j].symbol \in Symbols /\ orders[j].side \in Side
    BY <1>a, <2>2 DEF TypeOK, OrdersTyped, Order
  <2>7. CASE orders[j].symbol = s
    <3>1. pos'[s].qty # 0
      BY <2>2, <2>7 DEF CancelledBy, OpenFor
    <3> QED
      BY <2>2, <2>3, <2>4, <2>5, <2>6, <2>7, <3>1 DEF Reduces, Side
  <2>8. CASE orders[j].symbol # s
    BY <2>2, <2>3, <2>4, <2>6, <2>8 DEF Moved
  <2> QED
    BY <2>7, <2>8
<1> QED
  BY <1>a, <1>1, <1>2, <1>3, <1>4, <1>5, <1>6, StepEffects

\* TradeMirrorsPosition: both ledgers move by the same quantity, and the round
\* trip is dropped exactly when the position is flat.
LEMMA MirrorStep == IInv /\ [Next]_vars => TradeMirrorsPosition'
<1> SUFFICES ASSUME IInv, [Next]_vars PROVE TradeMirrorsPosition'
  OBVIOUS
<1>a. TypeOK /\ OrdersWellFormed /\ TradeMirrorsPosition
  BY DEF IInv
<1> DEFINE mirror(p, t) == /\ t.dir = "LONG" <=> p.qty > 0
                           /\ t.dir = "SHORT" <=> p.qty < 0
                           /\ Abs(p.qty) = t.entryQty - t.exitQty
<1>b. \A s \in Symbols : mirror(pos[s], trade[s])
  BY <1>a DEF TradeMirrorsPosition
<1>c. ASSUME NEW o \in Order, Moved(o), mirror(pos'[o.symbol], trade'[o.symbol])
      PROVE  TradeMirrorsPosition'
  <2>1. \A s \in Symbols : mirror(pos'[s], trade'[s])
    BY <1>b, <1>c DEF Moved
  <2> QED
    BY <2>1 DEF TradeMirrorsPosition
<1>d. \A s \in Symbols : /\ trade[s].dir \in {"NONE", "LONG", "SHORT"}
                         /\ trade[s].entryQty \in Int /\ trade[s].exitQty \in Int
                         /\ pos[s].qty \in Int
  BY <1>a DEF TypeOK, BooksTyped, Trade, Position
<1>1. CASE UNCHANGED <<pos, trade>>
  BY <1>a, <1>1 DEF TradeMirrorsPosition
<1>2. ASSUME NEW i \in DOMAIN orders, EntryEffect(i)
      PROVE  TradeMirrorsPosition'
  <2> DEFINE o == orders[i]
             s == o.symbol
  <2>1. /\ o \in Order /\ o.qty > 0 /\ o.qty \in Int /\ Moved(o) /\ ~Reduces(pos[s], o.side)
        /\ s \in Symbols /\ o.side \in Side
    BY <1>a, <1>2, AfterEntry DEF OrdersWellFormed, EntryEffect, Order
  <2>2. /\ pos[s].qty \in Int /\ pos'[s].qty \in Int
        /\ IF o.side = "BUY" THEN 0 <= pos[s].qty /\ pos[s].qty < pos'[s].qty
                             ELSE pos'[s].qty < pos[s].qty /\ pos[s].qty <= 0
    BY <1>a, <2>1, Direction
  <2>3. pos'[s].qty = pos[s].qty + (IF o.side = "BUY" THEN 1 ELSE -1) * o.qty
    BY <2>1 DEF Moved, Sign
  <2>4. /\ trade'[s].dir = IF trade[s].dir # "NONE" THEN trade[s].dir
                           ELSE IF o.side = "BUY" THEN "LONG" ELSE "SHORT"
        /\ trade'[s].entryQty = trade[s].entryQty + o.qty
        /\ trade'[s].exitQty = trade[s].exitQty
    BY <1>2 DEF EntryEffect
  <2>5. mirror(pos[s], trade[s])
    BY <1>b, <2>1
  <2>6. mirror(pos'[s], trade'[s])
    BY <1>d, <2>1, <2>2, <2>3, <2>4, <2>5 DEF Abs, Side
  <2> QED
    BY <1>c, <2>1, <2>6
<1>3. ASSUME NEW i \in Nat, NEW o \in Order, ExitEffect(i, o)
      PROVE  TradeMirrorsPosition'
  <2> DEFINE s == o.symbol
  <2>1. /\ o.qty > 0 /\ o.qty \in Int /\ Moved(o) /\ Reduces(pos[s], o.side)
        /\ o.qty <= Abs(pos[s].qty) /\ s \in Symbols /\ o.side \in Side
    BY <1>3 DEF ExitEffect, Order
  <2>2. /\ pos[s].qty \in Int /\ pos'[s].qty \in Int
        /\ IF o.side = "BUY" THEN pos[s].qty < pos'[s].qty /\ pos'[s].qty <= 0
                             ELSE 0 <= pos'[s].qty /\ pos'[s].qty < pos[s].qty
    BY <1>a, <2>1, Direction
  <2>3. pos'[s].qty = pos[s].qty + (IF o.side = "BUY" THEN 1 ELSE -1) * o.qty
    BY <2>1 DEF Moved, Sign
  <2>4. IF pos'[s].qty = 0
        THEN trade'[s] = NoTrade
        ELSE /\ trade'[s].dir = trade[s].dir
             /\ trade'[s].entryQty = trade[s].entryQty
             /\ trade'[s].exitQty = trade[s].exitQty + o.qty
    BY <1>3 DEF ExitEffect
  <2>5. mirror(pos[s], trade[s])
    BY <1>b, <2>1
  <2>6. CASE pos'[s].qty = 0
    BY <1>c, <2>1, <2>4, <2>6 DEF NoTrade, Abs
  <2>7. CASE pos'[s].qty # 0
    <3>1. mirror(pos'[s], trade'[s])
      BY <1>d, <2>1, <2>2, <2>3, <2>4, <2>5, <2>7 DEF Abs, Side
    <3> QED
      BY <1>c, <2>1, <3>1
  <2> QED
    BY <2>6, <2>7
<1> QED
  BY <1>a, <1>1, <1>2, <1>3, StepEffects DEF Quiet, Ledgers, Placed, Ended, AllCancelled

\* OneExitPerBracket: an exit fills only while its siblings are unfilled, and
\* takes those still open with it; a new bracket has no sibling yet.
LEMMA BracketInit == Init => OneExitPerBracket
BY DEF Init, OneExitPerBracket

LEMMA BracketStep == IInv /\ OneExitPerBracket /\ [Next]_vars => OneExitPerBracket'
<1> DEFINE pair(a, b) == /\ orders[a].oco # 0 /\ orders[a].oco = orders[b].oco
                         /\ orders[a].status = "FILLED"
<1> SUFFICES ASSUME IInv, OneExitPerBracket, [Next]_vars,
                    NEW a \in DOMAIN orders', NEW b \in DOMAIN orders', a # b,
                    orders'[a].oco # 0, orders'[a].oco = orders'[b].oco,
                    orders'[a].status = "FILLED"
             PROVE  orders'[b].status \notin {"FILLED", "OPEN"}
  BY DEF OneExitPerBracket
<1>a. TypeOK /\ OrdersWellFormed /\ OneExitPerBracket
  BY DEF IInv
<1>b. \A x, y \in DOMAIN orders :
         x # y /\ pair(x, y) => orders[y].status \notin {"FILLED", "OPEN"}
  BY <1>a DEF OneExitPerBracket
<1>1. CASE UNCHANGED orders
  BY <1>b, <1>1
<1>2. ASSUME NEW o \in Order, Placed(o)
      PROVE  orders'[b].status \notin {"FILLED", "OPEN"}
  <2>1. a # n + 1 /\ b # n + 1
    BY <1>a, <1>2, AfterPlace DEF Placed
  <2> QED
    BY <1>a, <1>b, <1>2, <2>1, AfterPlace
<1>3. ASSUME NEW i \in DOMAIN orders, Ended(i)
      PROVE  orders'[b].status \notin {"FILLED", "OPEN"}
  <2>1. a # i
    BY <1>a, <1>3, AfterEnd
  <2>2. CASE b = i
    BY <1>a, <1>3, <2>2, AfterEnd
  <2>3. CASE b # i
    BY <1>a, <1>b, <1>3, <2>1, <2>3, AfterEnd
  <2> QED
    BY <2>2, <2>3
<1>4. CASE AllCancelled
  <2>1. /\ a \in DOMAIN orders /\ b \in DOMAIN orders
        /\ orders[a].oco = orders'[a].oco /\ orders[b].oco = orders'[b].oco
        /\ orders'[b].status # "OPEN"
        /\ orders[b].status # "OPEN" => orders'[b] = orders[b]
        /\ orders[a].status # "OPEN" => orders'[a] = orders[a]
    BY <1>a, <1>4, AfterCancel
  <2>2. orders'[a].status = "FILLED" => orders[a].status = "FILLED"
    BY <1>a, <1>4, <2>1 DEF AllCancelled, Open, TypeOK, OrdersTyped, Order
  <2>3. orders'[b].status = "FILLED" => orders[b].status = "FILLED"
    BY <1>a, <1>4, <2>1 DEF AllCancelled, Open, TypeOK, OrdersTyped, Order
  <2> QED
    BY <1>b, <2>1, <2>2, <2>3
<1>5. ASSUME NEW i \in DOMAIN orders, EntryEffect(i)
      PROVE  orders'[b].status \notin {"FILLED", "OPEN"}
  <2>1. orders[i].status = "OPEN" /\ orders[i].oco = 0
    BY <1>a, <1>5, AfterEntry DEF OrdersWellFormed, EntryEffect
  <2>2. a # i /\ b # i
    BY <1>a, <1>5, <2>1, AfterEntry
  <2>3. a \in DOMAIN orders /\ orders'[a] = orders[a]
    BY <1>a, <1>5, <2>2, AfterEntry
  <2>4. CASE b \in DOMAIN orders
    <3>1. orders'[b] = orders[b]
      BY <1>a, <1>5, <2>2, <2>4, AfterEntry
    <3> QED
      BY <1>b, <2>3, <2>4, <3>1
  <2>5. CASE b \notin DOMAIN orders
    <3>1. orders[a].oco = i
      BY <1>a, <1>5, <2>3, <2>5, AfterEntry
    <3>2. orders[orders[a].oco].status = "FILLED"
      BY <1>a, <2>3 DEF OrdersWellFormed
    <3> QED
      BY <2>1, <3>1, <3>2
  <2> QED
    BY <2>4, <2>5
<1>6. ASSUME NEW i \in Nat, NEW o \in Order, ExitEffect(i, o)
      PROVE  orders'[b].status \notin {"FILLED", "OPEN"}
  <2>1. Executes(i, o)
    BY <1>a, <1>6, AfterExit
  <2>2. CASE a = i
    <3>1. /\ i \in DOMAIN orders /\ o = orders[i] /\ orders[i].status = "OPEN"
          /\ o.oco # 0 /\ b \in DOMAIN orders \ {i} /\ orders'[b].oco = o.oco
      BY <2>1, <2>2 DEF Executes
    <3>2. orders[b].oco = o.oco
      BY <2>1, <3>1 DEF Executes
    <3>3. orders[b].status # "FILLED"
      BY <1>b, <3>1, <3>2
    <3>4. orders[b].status = "OPEN" => b \in CancelledBy(o, pos'[o.symbol].qty = 0)
      <4>1. orders[b].symbol = o.symbol
        BY <1>a, <3>1, <3>2 DEF OrdersWellFormed
      <4> QED
        BY <3>1, <3>2, <4>1 DEF CancelledBy, OpenFor, Open
    <3> QED
      BY <2>1, <3>1, <3>3, <3>4 DEF Executes
  <2>3. CASE a # i
    <3>1. /\ a \in DOMAIN orders /\ orders[a].oco = orders'[a].oco
          /\ orders[a].status = "FILLED"
      BY <2>1, <2>3 DEF Executes
    <3>2. CASE b = i
      <4>1. i \in DOMAIN orders /\ orders[i].oco = orders'[i].oco /\ orders[i].status = "OPEN"
        BY <2>1, <3>2 DEF Executes
      <4> QED
        BY <1>b, <2>3, <3>1, <3>2, <4>1
    <3>3. CASE b # i
      <4>1. /\ b \in DOMAIN orders /\ orders[b].oco = orders'[b].oco
            /\ orders'[b] = orders[b] \/ orders'[b].status = "CANCELLED"
        BY <2>1, <3>3 DEF Executes
      <4> QED
        BY <1>b, <3>1, <4>1
    <3> QED
      BY <3>2, <3>3
  <2> QED
    BY <2>2, <2>3
<1> QED
  BY <1>a, <1>1, <1>2, <1>3, <1>4, <1>5, <1>6, StepEffects DEF Quiet, Ledgers

\* A step uses no slot it did not use before, except for an accepted entry.
LEMMA SlotsUsed ==
    ASSUME IInv, [Next]_vars
    PROVE  \/ InUse' \subseteq InUse
           \/ \E s \in Symbols : /\ ~squared /\ SlotFree(s) /\ InUse' = InUse \cup {s}
                                 /\ UNCHANGED <<pos, squared>>
<1>a. TypeOK /\ OrdersWellFormed
  BY DEF IInv
<1>b. ASSUME Held' \subseteq InUse,
             \A j \in Open' : orders'[j].opening => j \in Open /\ orders[j].opening
                                                    /\ orders'[j].symbol = orders[j].symbol
      PROVE  InUse' \subseteq InUse
  BY <1>b DEF InUse, Pending
<1>1. CASE Quiet
  BY <1>1 DEF Quiet, Ledgers, InUse, Pending, Held, Open
<1>2. ASSUME NEW o \in Order, Placed(o)
      PROVE  \/ InUse' \subseteq InUse
             \/ \E s \in Symbols : /\ ~squared /\ SlotFree(s) /\ InUse' = InUse \cup {s}
                                   /\ UNCHANGED <<pos, squared>>
  <2>1. /\ Held' = Held /\ UNCHANGED <<pos, squared>> /\ o.symbol \in Symbols
        /\ o.status = "OPEN" /\ o.opening => ~squared /\ SlotFree(o.symbol)
    BY <1>2 DEF Placed, Held, Order
  <2>2. CASE o.status = "OPEN" /\ o.opening
    <3>1. Pending' = Pending \cup {n + 1}
      BY <1>a, <1>2, <2>2, AfterPlace DEF Pending, Open
    <3>2. /\ \A j \in Pending : orders'[j].symbol = orders[j].symbol
          /\ orders'[n + 1].symbol = o.symbol
      BY <1>a, <1>2, AfterPlace DEF Pending, Open
    <3>3. InUse' = InUse \cup {o.symbol}
      BY <2>1, <3>1, <3>2 DEF InUse
    <3> QED
      BY <2>1, <2>2, <3>3
  <2>3. CASE ~(o.status = "OPEN" /\ o.opening)
    <3>1. \A j \in Open' : orders'[j].opening => j \in Open /\ orders[j].opening
                                                 /\ orders'[j].symbol = orders[j].symbol
      BY <1>a, <1>2, <2>3, AfterPlace DEF Open
    <3> QED
      BY <1>b, <2>1, <3>1 DEF InUse
  <2> QED
    BY <2>2, <2>3
<1>3. ASSUME NEW i \in DOMAIN orders, Ended(i)
      PROVE  InUse' \subseteq InUse
  <2>1. \A j \in Open' : j \in Open /\ orders'[j] = orders[j]
    BY <1>a, <1>3, AfterEnd DEF Open
  <2>2. Held' = Held
    BY <1>3 DEF Ended, Held
  <2> QED
    BY <1>b, <2>1, <2>2 DEF InUse
<1>4. CASE AllCancelled
  <2>1. Open' = {} /\ Held' = Held
    BY <1>a, <1>4, AfterCancel DEF AllCancelled, Held
  <2> QED
    BY <1>b, <2>1 DEF InUse
<1>5. ASSUME NEW i \in DOMAIN orders, EntryEffect(i)
      PROVE  InUse' \subseteq InUse
  <2>1. orders[i].symbol \in InUse /\ Moved(orders[i])
    BY <1>5 DEF EntryEffect, InUse, Pending
  <2>2. Held' \subseteq Held \cup {orders[i].symbol}
    BY <2>1 DEF Moved, Held
  <2>3. \A j \in Open' : orders'[j].opening => j \in Open /\ orders'[j] = orders[j]
    BY <1>a, <1>5, AfterEntry DEF Open
  <2> QED
    BY <1>b, <2>1, <2>2, <2>3 DEF InUse
<1>6. ASSUME NEW i \in Nat, NEW o \in Order, ExitEffect(i, o)
      PROVE  InUse' \subseteq InUse
  <2>1. Executes(i, o)
    BY <1>a, <1>6, AfterExit
  <2>2. /\ Reduces(pos[o.symbol], o.side) /\ o.symbol \in Symbols
        /\ \A s \in Symbols \ {o.symbol} : pos'[s] = pos[s]
    BY <1>6 DEF ExitEffect, Moved, Order
  <2>3. o.symbol \in Held
    BY <1>a, <2>2 DEF Reduces, Held, TypeOK, BooksTyped, Position
  <2>4. Held' \subseteq Held
    BY <2>2, <2>3 DEF Held
  <2>5. \A j \in Open' : j \in Open /\ orders'[j] = orders[j]
    BY <2>1 DEF Executes, Open
  <2> QED
    BY <1>b, <2>4, <2>5 DEF InUse
<1> QED
  BY <1>a, <1>1, <1>2, <1>3, <1>4, <1>5, <1>6, StepEffects

\* SlotLimit: a slot is claimed only while one is free.
LEMMA SlotStep == IInv /\ [Next]_vars => SlotLimit'
<1> SUFFICES ASSUME IInv, [Next]_vars PROVE SlotLimit'
  OBVIOUS
<1>a. TypeOK /\ SlotLimit
  BY DEF IInv
<1>1. InUse \subseteq Symbols /\ IsFiniteSet(InUse)
  <2>1. InUse \subseteq Symbols
    BY <1>a DEF InUse, Held, Pending, Open, TypeOK, OrdersTyped, Order
  <2> QED
    BY <2>1, FS_Subset, SymbolsAssumption
<1>2. Cardinality(InUse) \in Nat /\ Cardinality(InUse) <= MaxOpenPositions
  BY <1>a, <1>1, FS_CardinalityType DEF SlotLimit
<1>3. CASE InUse' \subseteq InUse
  <2>1. Cardinality(InUse') <= Cardinality(InUse) /\ Cardinality(InUse') \in Nat
    BY <1>1, <1>3, FS_Subset, FS_CardinalityType
  <2> QED
    BY <1>2, <2>1, LimitsAssumption DEF SlotLimit
<1>4. ASSUME NEW s \in Symbols, SlotFree(s), InUse' = InUse \cup {s}
      PROVE  SlotLimit'
  <2>1. CASE s \in InUse
    <3>1. InUse' = InUse
      BY <1>4, <2>1
    <3> QED
      BY <1>2, <3>1 DEF SlotLimit
  <2>2. CASE s \notin InUse
    <3>1. Cardinality(InUse) < MaxOpenPositions
      BY <1>4, <2>2 DEF SlotFree
    <3>2. Cardinality(InUse \cup {s}) = Cardinality(InUse) + 1
      BY <1>1, <2>2, FS_AddElement
    <3> QED
      BY <1>2, <1>4, <3>1, <3>2, LimitsAssumption DEF SlotLimit
  <2> QED
    BY <2>1, <2>2
<1> QED
  BY <1>3, <1>4, SlotsUsed
------------------------------------------------------------------------------
(* The theorems.                                                           *)

\* Every step of the broker preserves the invariant.
LEMMA InvStep == IInv /\ [Next]_vars => IInv'
<1>1. IInv => TypeOK /\ OrdersWellFormed
  BY DEF IInv
<1> QED
  BY <1>1, TypeStep, WellFormedStep, SquareOffStep, OrphanStep, MirrorStep,
     SlotStep, FlatStep DEF IInv

\* Every reachable state of the broker satisfies the inductive invariant.
THEOREM Inductive == Spec => []IInv
BY InvStep, InitInv, PTL DEF Spec

\* The broker's state stays typed: every price, charge and average it computes
\* is an integer, and no average divides by an empty position.
THEOREM TypeCorrect == Spec => []TypeOK
<1>1. IInv => TypeOK
  BY DEF IInv
<1> QED
  BY <1>1, Inductive, PTL

\* An open exit always has a position to exit.
THEOREM NoOrphans == Spec => []NoOrphanExit
<1>1. IInv => NoOrphanExit
  BY DEF IInv
<1> QED
  BY <1>1, Inductive, PTL

\* Of the exits of one entry at most one fills, and it closes the others.
THEOREM OneExit == Spec => []OneExitPerBracket
BY BracketStep, BracketInit, Inductive, PTL DEF Spec

\* The round trips reported to the strategy mirror the positions.
THEOREM TradesMirror == Spec => []TradeMirrorsPosition
<1>1. IInv => TradeMirrorsPosition
  BY DEF IInv
<1> QED
  BY <1>1, Inductive, PTL

\* However the entries and their fills interleave, max_open_positions holds.
THEOREM SlotsBounded == Spec => []SlotLimit
<1>1. IInv => SlotLimit
  BY DEF IInv
<1> QED
  BY <1>1, Inductive, PTL

\* From the square-off to the next day nothing is held and nothing is open.
THEOREM FlatAfterSquareOff == Spec => []FlatOnceSquared
<1>1. IInv => FlatOnceSquared
  BY DEF IInv
<1> QED
  BY <1>1, Inductive, PTL

\* The effect of a step on one position, for the theorems about steps.
LEMMA PositionStep ==
    ASSUME IInv, [Next]_vars
    PROVE  \/ UNCHANGED pos
           \/ \E s \in Symbols :
                 /\ ~squared /\ s \in InUse /\ s \in InUse' /\ UNCHANGED squared
                 /\ \A r \in Symbols \ {s} : pos'[r] = pos[r]
                 /\ InUse' = InUse
                 /\ pos[s].qty \in Int /\ pos'[s].qty \in Int
                 /\ \/ 0 <= pos[s].qty /\ pos[s].qty < pos'[s].qty
                    \/ pos'[s].qty < pos[s].qty /\ pos[s].qty <= 0
           \/ \E s \in Symbols :
                 /\ UNCHANGED squared
                 /\ \A r \in Symbols \ {s} : pos'[r] = pos[r]
                 /\ InUse' = InUse \/ (pos'[s].qty = 0 /\ InUse' = InUse \ {s})
                 /\ pos[s].qty \in Int /\ pos'[s].qty \in Int
                 /\ \/ 0 <= pos'[s].qty /\ pos'[s].qty < pos[s].qty
                    \/ pos[s].qty < pos'[s].qty /\ pos'[s].qty <= 0
<1>a. TypeOK /\ OrdersWellFormed
  BY DEF IInv
<1>1. ASSUME NEW i \in DOMAIN orders, EntryEffect(i)
      PROVE  \E s \in Symbols :
                 /\ ~squared /\ s \in InUse /\ s \in InUse' /\ UNCHANGED squared
                 /\ \A r \in Symbols \ {s} : pos'[r] = pos[r]
                 /\ InUse' = InUse
                 /\ pos[s].qty \in Int /\ pos'[s].qty \in Int
                 /\ \/ 0 <= pos[s].qty /\ pos[s].qty < pos'[s].qty
                    \/ pos'[s].qty < pos[s].qty /\ pos[s].qty <= 0
  <2> DEFINE o == orders[i]
             s == o.symbol
  <2>1. /\ o \in Order /\ o.qty > 0 /\ Moved(o) /\ ~Reduces(pos[s], o.side)
        /\ s \in Symbols /\ i \in Open /\ o.opening
    BY <1>a, <1>1, AfterEntry DEF OrdersWellFormed, EntryEffect, Order
  <2>2. /\ pos[s].qty \in Int /\ pos'[s].qty \in Int
        /\ IF o.side = "BUY" THEN 0 <= pos[s].qty /\ pos[s].qty < pos'[s].qty
                             ELSE pos'[s].qty < pos[s].qty /\ pos[s].qty <= 0
    BY <1>a, <2>1, Direction
  <2>3. ~squared /\ UNCHANGED squared
    BY <1>1, <2>1 DEF IInv, FlatOnceSquared, EntryEffect
  <2>4. s \in InUse
    BY <2>1 DEF InUse, Pending
  <2>5. \A r \in Symbols \ {s} : pos'[r] = pos[r]
    BY <2>1 DEF Moved
  <2>6. Pending' = Pending \ {i}
    BY <1>a, <1>1, AfterEntry DEF Pending, Open
  <2>7. \A j \in Pending \ {i} : orders'[j].symbol = orders[j].symbol
    BY <1>a, <1>1, AfterEntry DEF Pending, Open
  <2>8. Held' = Held \cup {s}
    BY <2>1, <2>2, <2>5 DEF Held
  <2>9. InUse' = InUse
    BY <2>1, <2>6, <2>7, <2>8 DEF InUse, Pending
  <2> QED
    BY <2>1, <2>2, <2>3, <2>4, <2>5, <2>9
<1>2. ASSUME NEW i \in Nat, NEW o \in Order, ExitEffect(i, o)
      PROVE  \E s \in Symbols :
                 /\ UNCHANGED squared
                 /\ \A r \in Symbols \ {s} : pos'[r] = pos[r]
                 /\ InUse' = InUse \/ (pos'[s].qty = 0 /\ InUse' = InUse \ {s})
                 /\ pos[s].qty \in Int /\ pos'[s].qty \in Int
                 /\ \/ 0 <= pos'[s].qty /\ pos'[s].qty < pos[s].qty
                    \/ pos[s].qty < pos'[s].qty /\ pos'[s].qty <= 0
  <2> DEFINE s == o.symbol
  <2>1. /\ o.qty > 0 /\ Moved(o) /\ Reduces(pos[s], o.side) /\ o.qty <= Abs(pos[s].qty)
        /\ s \in Symbols /\ UNCHANGED squared
        /\ \A r \in Symbols \ {s} : pos'[r] = pos[r]
    BY <1>2 DEF ExitEffect, Order, Moved
  <2>2. /\ pos[s].qty \in Int /\ pos'[s].qty \in Int
        /\ IF o.side = "BUY" THEN pos[s].qty < pos'[s].qty /\ pos'[s].qty <= 0
                             ELSE 0 <= pos'[s].qty /\ pos'[s].qty < pos[s].qty
    BY <1>a, <2>1, Direction
  <2>3. Executes(i, o)
    BY <1>a, <1>2, AfterExit
  <2>4. /\ Pending' = Pending
        /\ \A j \in Pending : orders'[j].symbol = orders[j].symbol
    <3>1. i \in DOMAIN orders => ~orders[i].opening
      BY <1>2, <2>3 DEF Executes, ExitEffect
    <3>2. \A j \in Pending : j \notin CancelledBy(o, pos'[s].qty = 0)
      <4>1. ASSUME NEW j \in Pending, o.oco # 0, orders[j].oco = o.oco
            PROVE  FALSE
        BY <1>a, <4>1 DEF Pending, Open, OrdersWellFormed
      <4> QED
        BY <4>1 DEF CancelledBy, Pending
    <3>3. \A j \in Pending : j \in DOMAIN orders \ {i} /\ orders'[j] = orders[j]
      BY <2>3, <3>1, <3>2 DEF Executes, Pending, Open
    <3>4. \A j \in Open' : j \in Open /\ orders'[j] = orders[j]
      BY <2>3 DEF Executes, Open
    <3>5. Pending' = Pending
      BY <2>3, <3>3, <3>4 DEF Pending, Open, Executes
    <3> QED
      BY <3>3, <3>5
  <2>5. s \in Held
    BY <2>1, <2>2 DEF Held, Reduces
  <2>6. Held' = IF pos'[s].qty = 0 THEN Held \ {s} ELSE Held
    BY <2>1, <2>5 DEF Held
  <2>7. InUse' = InUse \/ (pos'[s].qty = 0 /\ InUse' = InUse \ {s})
    BY <2>4, <2>5, <2>6 DEF InUse
  <2> QED
    BY <2>1, <2>2, <2>7
<1> QED
  BY <1>a, <1>1, <1>2, StepEffects DEF Quiet, Ledgers, Placed, Ended, AllCancelled

\* No execution flips a position: it changes sign through zero only.
THEOREM NeverFlips == Spec => NoFlip
<1>1. IInv /\ [Next]_vars => [\A s \in Symbols : ~Flipped(pos[s], pos'[s])]_vars
  <2> SUFFICES ASSUME IInv, [Next]_vars, NEW s \in Symbols
               PROVE  ~Flipped(pos[s], pos'[s])
    OBVIOUS
  <2>1. pos[s].qty \in Int
    BY DEF IInv, TypeOK, BooksTyped, Position
  <2> QED
    BY <2>1, PositionStep DEF Flipped
<1> QED
  BY <1>1, Inductive, PTL DEF NoFlip, Spec

\* Every step of the broker is a step of the abstract book, or leaves it alone.
LEMMA BookStep == IInv /\ IInv' /\ [Next]_vars => [Book!Next]_(Book!vars)
<1> SUFFICES ASSUME IInv, IInv', [Next]_vars
             PROVE  Book!Next \/ UNCHANGED Book!vars
  OBVIOUS
<1> DEFINE net == [s \in Symbols |-> pos[s].qty]
<1>a. TypeOK /\ OrdersWellFormed /\ FlatOnceSquared
  BY DEF IInv
<1>b. squared => Held = {} /\ Open = {} /\ InUse = {}
  BY <1>a DEF FlatOnceSquared, InUse, Pending
<1>c. ASSUME NEW s \in Symbols, \A r \in Symbols \ {s} : pos'[r] = pos[r]
      PROVE  net' = [net EXCEPT ![s] = net'[s]]
  BY <1>c
<1>d. ASSUME UNCHANGED <<pos, squared>>, InUse' \subseteq InUse
      PROVE  Book!Next
  <2>1. net' = net /\ Held' = Held
    BY <1>d DEF Held
  <2>2. \A s \in InUse \ InUse' : s \in Symbols /\ net[s] = 0
    <3>1. InUse \subseteq Symbols
      BY <1>a DEF InUse, Held, Pending, Open, TypeOK, OrdersTyped, Order
    <3> QED
      BY <2>1, <3>1 DEF InUse, Held
  <2>3. Book!Release
    BY <1>d, <2>1, <2>2 DEF Book!Release
  <2> QED
    BY <2>3 DEF Book!Next
<1>1. CASE Quiet
  <2>1. UNCHANGED <<pos, orders>> /\ net' = net /\ Held' = Held /\ InUse' = InUse
    BY <1>1 DEF Quiet, Ledgers, Held, InUse, Pending, Open
  <2>2. CASE UNCHANGED squared
    BY <2>1, <2>2 DEF Book!vars
  <2>3. CASE squared /\ ~squared'
    <3>1. squared' = FALSE
      BY <1>a, <2>3, TypeStep DEF TypeOK, CallTyped
    <3>2. Book!NewDay
      BY <2>1, <3>1 DEF Book!NewDay
    <3> QED
      BY <3>2 DEF Book!Next
  <2>4. CASE ~squared /\ squared'
    <3>1. squared' = TRUE
      BY <1>a, <2>4, TypeStep DEF TypeOK, CallTyped
    <3>2. Held' = {} /\ Open' = {}
      BY <2>4 DEF IInv, FlatOnceSquared
    <3>3. InUse = {} /\ \A s \in Symbols : net[s] = 0
      BY <2>1, <3>2 DEF InUse, Pending, Held, Open
    <3>4. Book!Close
      BY <2>1, <3>1, <3>3 DEF Book!Close
    <3> QED
      BY <3>4 DEF Book!Next
  <2>5. squared \in BOOLEAN /\ squared' \in BOOLEAN
    BY <1>a, TypeStep DEF TypeOK, CallTyped
  <2> QED
    BY <2>2, <2>3, <2>4, <2>5
<1>2. CASE AllCancelled
  <2>1. pos' = pos /\ Held' = Held /\ Open' = {} /\ (squared' => squared)
    BY <1>a, <1>2, AfterCancel DEF AllCancelled, Held
  <2>2. InUse' \subseteq InUse
    BY <2>1 DEF InUse, Pending
  <2>3. CASE UNCHANGED squared
    BY <1>d, <2>1, <2>2, <2>3
  <2>4. CASE squared /\ ~squared'
    <3>1. squared' = FALSE
      BY <1>a, <2>4, TypeStep DEF TypeOK, CallTyped
    <3>2. InUse' = InUse /\ net' = net
      BY <1>b, <2>1, <2>2, <2>4
    <3>3. Book!NewDay
      BY <3>1, <3>2 DEF Book!NewDay
    <3> QED
      BY <3>3 DEF Book!Next
  <2>5. squared \in BOOLEAN /\ squared' \in BOOLEAN
    BY <1>a, TypeStep DEF TypeOK, CallTyped
  <2> QED
    BY <2>1, <2>3, <2>4, <2>5
<1>3. CASE UNCHANGED <<pos, squared>>
  <2>1. CASE InUse' \subseteq InUse
    BY <1>d, <1>3, <2>1
  <2>2. ASSUME NEW s \in Symbols, ~squared, SlotFree(s), InUse' = InUse \cup {s}
        PROVE  Book!Next \/ UNCHANGED Book!vars
    <3>1. CASE s \in InUse
      <4>1. InUse' \subseteq InUse
        BY <2>2, <3>1
      <4> QED
        BY <1>d, <1>3, <4>1
    <3>2. CASE s \notin InUse
      <4>1. net' = net
        BY <1>3
      <4>2. Book!Cardinality(InUse) = Cardinality(InUse)
        BY DEF Cardinality, Book!Cardinality
      <4>3. Book!Claim(s)
        BY <1>3, <2>2, <3>2, <4>1, <4>2 DEF Book!Claim, SlotFree
      <4> QED
        BY <4>3 DEF Book!Next
    <3> QED
      BY <3>1, <3>2
  <2> QED
    BY <2>1, <2>2, SlotsUsed
<1>4. ASSUME NEW s \in Symbols,
             ~squared, s \in InUse, UNCHANGED squared, InUse' = InUse,
             \A r \in Symbols \ {s} : pos'[r] = pos[r],
             \/ 0 <= pos[s].qty /\ pos[s].qty < pos'[s].qty
             \/ pos'[s].qty < pos[s].qty /\ pos[s].qty <= 0
      PROVE  Book!Next
  <2>1. net' = [net EXCEPT ![s] = net'[s]] /\ net[s] = pos[s].qty /\ net'[s] = pos'[s].qty
    BY <1>4, <1>c
  <2>2. Book!Grow(s)
    BY <1>4, <2>1 DEF Book!Grow
  <2> QED
    BY <2>2 DEF Book!Next
<1>5. ASSUME NEW s \in Symbols,
             UNCHANGED squared, \A r \in Symbols \ {s} : pos'[r] = pos[r],
             InUse' = InUse \/ (pos'[s].qty = 0 /\ InUse' = InUse \ {s}),
             \/ 0 <= pos'[s].qty /\ pos'[s].qty < pos[s].qty
             \/ pos[s].qty < pos'[s].qty /\ pos'[s].qty <= 0
      PROVE  Book!Next
  <2>1. net' = [net EXCEPT ![s] = net'[s]] /\ net[s] = pos[s].qty /\ net'[s] = pos'[s].qty
    BY <1>5, <1>c
  <2>2. Book!Shrink(s)
    BY <1>5, <2>1 DEF Book!Shrink
  <2> QED
    BY <2>2 DEF Book!Next
<1>6. CASE \E o \in Order : Placed(o)
  BY <1>3, <1>6 DEF Placed
<1>7. CASE \E i \in DOMAIN orders : Ended(i)
  BY <1>3, <1>7 DEF Ended
<1>8. CASE ~UNCHANGED pos
  BY <1>4, <1>5, <1>8, PositionStep
<1>9. CASE UNCHANGED pos /\ (\/ \E i \in DOMAIN orders : EntryEffect(i)
                             \/ \E i \in Nat, o \in Order : ExitEffect(i, o))
  BY <1>3, <1>9 DEF EntryEffect, ExitEffect
<1> QED
  BY <1>a, <1>1, <1>2, <1>6, <1>7, <1>8, <1>9, StepEffects

\* The simulated broker implements the abstract book: whatever the orders, the
\* bars and the calls, its callers see positions move, slots being used and the
\* day being closed as PositionBook allows.
THEOREM Implements == Spec => ImplementsBook
<1>1. Init => Book!Init
  BY DEF Init, Book!Init, InUse, Held, Pending, Open
<1> QED
  BY <1>1, BookStep, Inductive, PTL DEF Spec, ImplementsBook, Book!Spec

------------------------------------------------------------------------------
(* One market event.  An order is visited once, so what on_tick has        *)
(* visited and left open was not touched; and it takes stops first.        *)

\* No open order is activated later than by the next event, in a call by none.
ActiveInTime == \A i \in Open : orders[i].active <= IF phase = "idle" THEN seq + 1 ELSE seq

SeenUntouched ==
    phase = "tick" => \A i \in OpenFor(event.symbol) \cap seen : ~TouchedBy(orders[i], event.bar)

EventInv == ActiveInTime /\ SeenUntouched /\ seen \subseteq DOMAIN orders

\* A step of on_tick that changes the orders closes the one it visits, and opens
\* none that it has visited.
LEMMA VisitedCloses ==
    ASSUME TypeOK, OrdersWellFormed, NEW i \in DOMAIN orders,
           ExitTooLate(i) \/ EntryOpposed(i) \/ EntryUnfunded(i) \/ EntryFills(i) \/ ExitFills(i)
    PROVE  /\ Visit(i) /\ i \in Open /\ i \notin Open' /\ DOMAIN orders \subseteq DOMAIN orders'
           /\ \A j \in Open' : \/ j \in Open /\ j # i /\ orders'[j] = orders[j]
                               \/ j \notin DOMAIN orders /\ orders'[j].active = seq
<1>1. Visit(i) /\ i \in Open
    BY DEF ExitTooLate, EntryOpposed, EntryUnfunded, EntryFills, ExitFills, Visit, Visited, Live,
           OpenFor
<1>2. CASE ExitTooLate(i) \/ EntryOpposed(i) \/ EntryUnfunded(i)
    <2>1. Drop(i, "CANCELLED") \/ Drop(i, "REJECTED")
        BY <1>2 DEF ExitTooLate, EntryOpposed, EntryUnfunded
    <2>2. Ended(i)
        BY <1>1, <2>1 DEF Visit, Drop, Ended, book, time
    <2>3. /\ Open' = Open \ {i} /\ DOMAIN orders' = DOMAIN orders
          /\ \A j \in DOMAIN orders \ {i} : orders'[j] = orders[j]
        BY <2>2, AfterEnd
    <2> QED BY <1>1, <2>3 DEF Open
<1>3. CASE EntryFills(i)
    <2>1. EntryEffect(i)
        BY <1>3, EntryFilled
    <2>2. /\ orders'[i].status = "FILLED" /\ DOMAIN orders \subseteq DOMAIN orders'
          /\ \A j \in DOMAIN orders \ {i} : orders'[j] = orders[j]
        BY <2>1, AfterEntry
    <2>3. \A j \in DOMAIN orders' \ DOMAIN orders : orders'[j].active = seq
        BY <2>1 DEF EntryEffect, Exit
    <2> QED BY <1>1, <2>2, <2>3 DEF Open
<1>4. CASE ExitFills(i)
    <2>1. ExitEffect(i, orders[i]) /\ orders[i] \in Order /\ i \in Nat
        BY <1>4, ExitFilled DEF TypeOK, OrdersTyped
    <2>2. Executes(i, orders[i])
        BY <2>1, AfterExit
    <2> QED BY <1>1, <2>2 DEF Executes, Open
<1> QED BY <1>1, <1>2, <1>3, <1>4

LEMMA EventStep == IInv /\ EventInv /\ [Next]_vars => EventInv'
<1> SUFFICES ASSUME IInv, EventInv, [Next]_vars PROVE EventInv'
    OBVIOUS
<1>0. /\ TypeOK /\ OrdersWellFormed /\ SquareOffClosesAll /\ ActiveInTime /\ SeenUntouched
      /\ seen \subseteq DOMAIN orders /\ seq \in Nat /\ n \in Nat /\ DOMAIN orders \subseteq 1 .. n
      /\ phase \in {"idle", "tick", "square"}
      /\ \A i \in DOMAIN orders : orders[i] \in Order /\ orders[i].active \in Nat
    BY DEF IInv, TypeOK, OrdersTyped, CallTyped, EventInv, Order
<1>1. ASSUME NEW s \in Symbols, NEW side, NEW q, NEW b, NEW type, NEW level,
             PlaceOrder(s, side, q, type, level, b)
      PROVE  EventInv'
    <2> DEFINE o == NewOrder(s, side, q, type, level, b)
               st == IF Accepted(o) THEN "OPEN" ELSE "REJECTED"
               placed == [o EXCEPT !.status = st]
    <2>1. placed.active = seq + 1
        BY DEF NewOrder
    <2>2. phase = "idle" /\ orders' = Put(orders, n + 1, placed) /\ UNCHANGED <<seq, phase, seen>>
        BY <1>1 DEF PlaceOrder, call
    <2> HIDE DEF o, st, placed
    <2>3. /\ \A j \in Open' : orders'[j] = placed \/ (j \in Open /\ orders'[j] = orders[j])
          /\ DOMAIN orders \subseteq DOMAIN orders'
        BY <2>2 DEF Put, Open
    <2> QED BY <1>0, <2>1, <2>2, <2>3 DEF EventInv, ActiveInTime, SeenUntouched
<1>2. CASE Place
    BY <1>1, <1>2 DEF Place
<1>3. ASSUME NEW i \in DOMAIN orders, CancelOrder(i)
      PROVE  EventInv'
    <2>1. Ended(i)
        BY <1>3 DEF CancelOrder, Ended, book, time, call
    <2>2. /\ Open' = Open \ {i} /\ DOMAIN orders' = DOMAIN orders
          /\ \A j \in DOMAIN orders \ {i} : orders'[j] = orders[j]
        BY <1>0, <2>1, AfterEnd
    <2>3. phase = "idle" /\ UNCHANGED <<phase, seq, seen>>
        BY <1>3 DEF CancelOrder, call
    <2> QED BY <1>0, <2>2, <2>3 DEF EventInv, ActiveInTime, SeenUntouched, Open
<1>4. CASE \E s \in Symbols, p \in Prices : Mark(s, p)
    BY <1>0, <1>4 DEF Mark, call, EventInv, ActiveInTime, SeenUntouched, Open
<1>5. CASE \E s \in Symbols, bar \in Bars, ts \in 0 .. MaxTime : BeginTick(s, bar, ts)
    <2>1. /\ orders' = orders /\ phase = "idle" /\ phase' = "tick" /\ seq' = seq + 1 /\ seen' = {}
        BY <1>5 DEF BeginTick
    <2>2. Open' = Open
        BY <2>1 DEF Open
    <2> QED BY <1>0, <2>1, <2>2 DEF EventInv, ActiveInTime, SeenUntouched
<1>6. ASSUME NEW i \in DOMAIN orders, VisitUntouched(i)
      PROVE  EventInv'
    <2>1. /\ UNCHANGED <<orders, seq, phase, event>> /\ seen' = seen \cup {i}
          /\ ~TouchedBy(orders[i], event.bar)
        BY <1>6 DEF VisitUntouched
    <2>2. Open' = Open /\ OpenFor(event.symbol)' = OpenFor(event.symbol)
        BY <2>1 DEF Open, OpenFor
    <2>3. \A j \in Open : TouchedBy(orders[j], event.bar)' = TouchedBy(orders[j], event.bar)
        BY <2>1 DEF TouchedBy
    <2> QED BY <1>0, <2>1, <2>2, <2>3 DEF EventInv, ActiveInTime, SeenUntouched, OpenFor
<1>7. ASSUME NEW i \in DOMAIN orders,
             ExitTooLate(i) \/ EntryOpposed(i) \/ EntryUnfunded(i) \/ EntryFills(i) \/ ExitFills(i)
      PROVE  EventInv'
    <2>1. /\ Visit(i) /\ i \notin Open' /\ DOMAIN orders \subseteq DOMAIN orders'
          /\ \A j \in Open' : \/ j \in Open /\ j # i /\ orders'[j] = orders[j]
                              \/ j \notin DOMAIN orders /\ orders'[j].active = seq
        BY <1>0, <1>7, VisitedCloses
    <2>2. UNCHANGED <<seq, phase, event>> /\ seen' = seen \cup {i} /\ phase = "tick"
        BY <2>1 DEF Visit, Visited
    <2>3. ActiveInTime'
        BY <1>0, <2>1, <2>2 DEF ActiveInTime
    <2>4. ASSUME NEW j \in OpenFor(event.symbol)' \cap seen'
          PROVE  ~TouchedBy(orders[j], event.bar)'
        <3>1. j \in Open' /\ j # i /\ j \in seen
            BY <2>1, <2>2 DEF OpenFor
        <3>2. j \in Open /\ orders'[j] = orders[j]
            BY <1>0, <2>1, <3>1
        <3>3. j \in OpenFor(event.symbol) \cap seen
            BY <2>2, <3>1, <3>2 DEF OpenFor
        <3> QED BY <1>0, <2>2, <3>2, <3>3 DEF SeenUntouched, TouchedBy
    <2> QED BY <1>0, <2>1, <2>2, <2>3, <2>4 DEF EventInv, SeenUntouched
<1>8. CASE EndTick
    <2>1. UNCHANGED <<orders, seq>> /\ phase' = "idle" /\ phase = "tick" /\ seen' = {}
        BY <1>8 DEF EndTick
    <2>2. Open' = Open
        BY <2>1 DEF Open
    <2>3. \A i \in Open : orders[i].active <= seq + 1
        BY <1>0, <2>1 DEF ActiveInTime, Open
    <2> QED BY <1>0, <2>1, <2>2, <2>3 DEF EventInv, ActiveInTime, SeenUntouched
<1>9. CASE \E ts \in 0 .. MaxTime : BeginSquareOff(ts)
    <2>1. AllCancelled /\ phase' = "square" /\ seen' = seen
        BY <1>9 DEF BeginSquareOff, Advance, AllCancelled, book
    <2>2. Open' = {} /\ DOMAIN orders' = DOMAIN orders
        BY <1>0, <2>1, AfterCancel
    <2> QED BY <1>0, <2>1, <2>2 DEF EventInv, ActiveInTime, SeenUntouched
<1>10. ASSUME NEW s \in Symbols, ClosePosition(s)
       PROVE  EventInv'
    <2>1. ExitEffect(n + 1, ClosingOrder(s)) /\ n + 1 \in Nat /\ ClosingOrder(s) \in Order
        BY <1>0, <1>10, PositionClosed DEF ExitEffect
    <2>2. Executes(n + 1, ClosingOrder(s))
        BY <1>0, <2>1, AfterExit
    <2>3. phase = "square" /\ phase' = "square" /\ seen' = seen
        BY <1>10 DEF ClosePosition
    <2>4. Open' = {}
        BY <1>0, <2>2, <2>3 DEF Executes, SquareOffClosesAll
    <2> QED BY <1>0, <2>2, <2>3, <2>4 DEF EventInv, ActiveInTime, SeenUntouched, Executes
<1>11. CASE EndSquareOff
    <2>1. phase = "square" /\ phase' = "idle" /\ UNCHANGED <<orders, seen>>
        BY <1>11 DEF EndSquareOff
    <2>2. Open' = {}
        BY <1>0, <2>1 DEF SquareOffClosesAll, Open
    <2> QED BY <1>0, <2>1, <2>2 DEF EventInv, ActiveInTime, SeenUntouched
<1>12. CASE UNCHANGED vars
    <2>1. UNCHANGED <<orders, seq, phase, event, seen>>
        BY <1>12 DEF vars, call
    <2>2. Open' = Open /\ OpenFor(event.symbol)' = OpenFor(event.symbol)
        BY <2>1 DEF Open, OpenFor
    <2> QED BY <1>0, <2>1, <2>2 DEF EventInv, ActiveInTime, SeenUntouched, TouchedBy
<1> QED
    BY <1>2, <1>3, <1>4, <1>5, <1>6, <1>7, <1>8, <1>9, <1>10, <1>11, <1>12
       DEF Next, Tick, SquareOffCall

LEMMA EventInit == Init => EventInv
BY DEF Init, EventInv, ActiveInTime, SeenUntouched, Open

\* When a call of on_tick is over no order that its bar touches is open.
LEMMA Exhausted ==
    ASSUME IInv, EventInv, [Next]_vars, phase = "tick", phase' = "idle",
           NEW i \in OpenFor(event.symbol)
    PROVE  ~TouchedBy(orders[i], event.bar)
<1>1. Live = {}
    BY DEF Next, Place, PlaceOrder, CancelOrder, Mark, Tick, BeginTick, VisitUntouched, ExitTooLate,
           EntryOpposed, EntryUnfunded, EntryFills, ExitFills, Visit, EndTick, SquareOffCall,
           BeginSquareOff, ClosePosition, EndSquareOff, vars, call
<1>2. i \in Open /\ orders[i].active <= seq
    BY DEF EventInv, ActiveInTime, OpenFor
<1>3. i \in seen
    BY <1>1, <1>2 DEF Live
<1> QED BY <1>3 DEF EventInv, SeenUntouched

\* An order fills in a visit of on_tick only.
LEMMA FilledInVisit ==
    ASSUME IInv, [Next]_vars, NEW i \in Open, Fills(i)
    PROVE  Visited(i) /\ (EntryFills(i) \/ ExitFills(i))
<1>0. /\ TypeOK /\ OrdersWellFormed /\ SquareOffClosesAll
      /\ n \in Nat /\ DOMAIN orders \subseteq 1 .. n /\ i \in DOMAIN orders
      /\ orders[i].status = "OPEN" /\ orders[i] \in Order
    BY DEF IInv, TypeOK, OrdersTyped, Open
<1>1. orders'[i].status = "FILLED" /\ orders'[i] # orders[i]
    BY <1>0 DEF Fills
<1>2. CASE Place
    <2>1. ASSUME NEW s, NEW side, NEW q, NEW b, NEW type, NEW level,
                 PlaceOrder(s, side, q, type, level, b)
          PROVE  orders'[i] = orders[i]
        BY <1>0, <2>1 DEF PlaceOrder, Put
    <2> QED BY <1>1, <1>2, <2>1 DEF Place
<1>3. ASSUME NEW j \in DOMAIN orders,
             CancelOrder(j) \/ ExitTooLate(j) \/ EntryOpposed(j) \/ EntryUnfunded(j)
      PROVE  FALSE
    <2>1. \E st \in {"CANCELLED", "REJECTED"} : orders' = [orders EXCEPT ![j].status = st]
        BY <1>3 DEF CancelOrder, ExitTooLate, EntryOpposed, EntryUnfunded, Drop
    <2> QED BY <1>0, <1>1, <2>1 DEF Order
<1>4. ASSUME NEW j \in DOMAIN orders, EntryFills(j) \/ ExitFills(j), j # i
      PROVE  FALSE
    <2>1. i \in Open' => orders'[i].status = "OPEN"
        BY DEF Open
    <2>2. CASE EntryFills(j)
        <3>1. EntryEffect(j)
            BY <1>0, <2>2, EntryFilled
        <3> QED BY <1>0, <1>1, <1>4, <3>1 DEF EntryEffect
    <2>3. CASE ExitFills(j)
        <3>1. ExitEffect(j, orders[j]) /\ orders[j] \in Order /\ j \in Nat
            BY <1>0, <2>3, ExitFilled DEF TypeOK, OrdersTyped
        <3>2. Executes(j, orders[j])
            BY <1>0, <3>1, AfterExit
        <3> QED BY <1>0, <1>1, <1>4, <3>2 DEF Executes
    <2> QED BY <1>4, <2>2, <2>3
<1>5. CASE \E ts \in 0 .. MaxTime : BeginSquareOff(ts)
    <2>1. orders'[i] = [orders[i] EXCEPT !.status = "CANCELLED"]
        BY <1>0, <1>5 DEF BeginSquareOff
    <2> QED BY <1>0, <1>1, <2>1 DEF Order
<1>6. ASSUME NEW s \in Symbols, ClosePosition(s)
      PROVE  FALSE
    BY <1>0, <1>6 DEF ClosePosition, SquareOffClosesAll
<1>7. CASE UNCHANGED orders
    BY <1>1, <1>7
<1> QED
    BY <1>0, <1>2, <1>3, <1>4, <1>5, <1>6, <1>7
       DEF Next, Mark, Tick, BeginTick, VisitUntouched, EndTick, SquareOffCall, EndSquareOff, vars,
           EntryFills, ExitFills, Visit

\* A bar is used up: the stop before the target, and nothing left over.
THEOREM BarsAreUsedUp == Spec => BarIsUsedUp
<1>1. IInv /\ EventInv /\ [Next]_vars =>
          [\A i, j \in Open :
              /\ orders[i].type = "LIMIT" /\ orders[j].type = "STOP"
              /\ orders[i].oco # 0 /\ orders[i].oco = orders[j].oco /\ Fills(i)
              => ~TouchedBy(orders[j], event.bar)]_vars
    <2> SUFFICES ASSUME IInv, EventInv, [Next]_vars, NEW i \in Open, NEW j \in Open,
                        orders[i].type = "LIMIT", orders[j].type = "STOP",
                        orders[i].oco # 0, orders[i].oco = orders[j].oco, Fills(i)
                 PROVE  ~TouchedBy(orders[j], event.bar)
        OBVIOUS
    <2>1. Visited(i)
        BY FilledInVisit
    <2>2. phase = "tick" /\ i \in Live /\ \A k \in Live \ {i} : Before(i, k)
        BY <2>1 DEF Visited
    <2>3. orders[i].symbol = orders[j].symbol /\ orders[i].symbol = event.symbol
        BY <2>2 DEF IInv, OrdersWellFormed, Open, Live, OpenFor
    <2>4. ~Before(i, j) /\ i # j
        BY DEF Before, Priority
    <2>5. j \notin Live
        BY <2>2, <2>4
    <2>6. j \in seen
        BY <2>2, <2>3, <2>5 DEF Live, OpenFor, EventInv, ActiveInTime
    <2> QED BY <2>2, <2>3, <2>6 DEF EventInv, SeenUntouched, OpenFor
<1>2. IInv /\ EventInv /\ [Next]_vars =>
          [phase = "tick" /\ phase' = "idle"
           => \A i \in OpenFor(event.symbol) : ~TouchedBy(orders[i], event.bar)]_vars
    BY Exhausted
<1>3. IInv /\ EventInv /\ [Next]_vars => EventInv'
    BY EventStep
<1> QED
    BY <1>1, <1>2, <1>3, EventInit, Inductive, PTL
       DEF Spec, BarIsUsedUp, StopAssumedFirst, EventExhausted

------------------------------------------------------------------------------
(* Money.  Seen from the books a step is nothing or one execution.         *)

\* What a fill is, seen from the books.
Booked(o, price) ==
    /\ o.qty > 0 /\ Fill(o, price)
    /\ o.opening <=> ~Reduces(pos[o.symbol], o.side)

Books == <<pos, trade, trades, cash, fills>>

LEMMA StepBooks ==
    ASSUME IInv, [Next]_vars
    PROVE  UNCHANGED Books \/ \E o \in Order, price \in Int : Booked(o, price)
<1>0. TypeOK /\ OrdersWellFormed
    BY DEF IInv
<1>1. ASSUME NEW i \in DOMAIN orders, EntryFills(i)
      PROVE  \E o \in Order, price \in Int : Booked(o, price)
    <2>1. Visited(i) /\ Fill(orders[i], EventPrice(orders[i])) /\ orders[i].opening
          /\ ~Reduces(pos[orders[i].symbol], orders[i].side)
        BY <1>1 DEF EntryFills, Visit, FillEntry, AgainstPosition
    <2> QED BY <1>0, <2>1, VisitTypes DEF Booked
<1>2. ASSUME NEW i \in DOMAIN orders, ExitFills(i)
      PROVE  \E o \in Order, price \in Int : Booked(o, price)
    <2>1. Visited(i) /\ Fill(orders[i], EventPrice(orders[i])) /\ ~orders[i].opening
          /\ Reduces(pos[orders[i].symbol], orders[i].side)
        BY <1>2 DEF ExitFills, Visit, FillExit, CannotExit
    <2> QED BY <1>0, <2>1, VisitTypes DEF Booked
<1>3. ASSUME NEW s \in Symbols, ClosePosition(s)
      PROVE  \E o \in Order, price \in Int : Booked(o, price)
    <2> DEFINE o == ClosingOrder(s)
               ref == IF last[s] = None THEN pos[s].avg ELSE last[s]
               price == Slip(ref, o.side)
    <2>1. Fill(o, price) /\ ~o.opening /\ Reduces(pos[o.symbol], o.side)
        BY <1>3 DEF ClosePosition, FillExit, CannotExit, ClosingOrder
    <2>2. ref \in Int
        BY <1>0 DEF TypeOK, BooksTyped, CallTyped, Position
    <2>3. price \in Int
        BY <2>2, SlipInt
    <2>4. o \in Order /\ o.qty > 0
        BY <1>0, <1>3, PositionClosed DEF ExitEffect
    <2> HIDE DEF o, price
    <2> QED BY <2>1, <2>3, <2>4 DEF Booked
<1>4. ASSUME NEW i \in DOMAIN orders, ExitTooLate(i) \/ EntryOpposed(i) \/ EntryUnfunded(i)
      PROVE  UNCHANGED Books
    BY <1>4 DEF ExitTooLate, EntryOpposed, EntryUnfunded, Drop, book, Books
<1>5. CASE \/ Place \/ (\E i \in DOMAIN orders : CancelOrder(i))
            \/ (\E s \in Symbols, p \in Prices : Mark(s, p)) \/ EndTick \/ EndSquareOff
            \/ (\E s \in Symbols, bar \in Bars, ts \in 0 .. MaxTime : BeginTick(s, bar, ts))
            \/ (\E i \in DOMAIN orders : VisitUntouched(i))
            \/ (\E ts \in 0 .. MaxTime : BeginSquareOff(ts)) \/ UNCHANGED vars
    <2>1. UNCHANGED book
        BY <1>5 DEF Place, PlaceOrder, CancelOrder, Mark, BeginTick, VisitUntouched, EndTick,
                    BeginSquareOff, EndSquareOff, vars
    <2> QED BY <2>1 DEF book, Books
<1> QED BY <1>1, <1>2, <1>3, <1>4, <1>5 DEF Next, Tick, SquareOffCall

\* The numbers of an execution.
LEMMA FillNumbers ==
    ASSUME TypeOK, NEW o \in Order, NEW price \in Int, Booked(o, price)
    PROVE  LET s == o.symbol
               x == ExecutionOf(o, price)
               p == PositionAfter(pos[s], x)
               t == TradeAfter(trade[s], x)
               closed == ~o.opening /\ p.qty = 0
           IN  /\ s \in Symbols /\ o.side \in Side /\ o.qty \in Nat /\ o.qty > 0
               /\ x \in Execution /\ x.qty = o.qty /\ x.side = o.side /\ x.price = price
               /\ x.symbol = s /\ x.opening = o.opening /\ o.opening \in BOOLEAN
               /\ pos[s] \in Position /\ trade[s] \in Trade /\ p \in Position /\ t \in Trade
               /\ pos' = [pos EXCEPT ![s] = p]
               /\ trade' = [trade EXCEPT ![s] = IF closed THEN NoTrade ELSE t]
               /\ cash' = CashAfter(cash, x) /\ fills' = Append(fills, x)
               /\ trades' = IF closed THEN Append(trades, ClosedTrade(s, t)) ELSE trades
               /\ Charges(o.side, o.qty, price) \in Int
<1> DEFINE s == o.symbol
           x == ExecutionOf(o, price)
           p == PositionAfter(pos[s], x)
           t == TradeAfter(trade[s], x)
<1>1. s \in Symbols /\ o.side \in Side /\ o.qty \in Nat /\ o.qty > 0 /\ o.opening \in BOOLEAN
    BY DEF Order, Booked
<1>2. /\ x.qty = o.qty /\ x.side = o.side /\ x.price = price /\ x.symbol = s
      /\ x.opening = o.opening
    BY DEF ExecutionOf
<1>3. x \in Execution
    BY <1>1 DEF ExecutionOf, Execution, TypeOK, CallTyped
<1>4. pos[s] \in Position /\ trade[s] \in Trade
    BY <1>1 DEF TypeOK, BooksTyped
<1>5. p \in Position /\ t \in Trade
    BY <1>1, <1>2, <1>3, <1>4, PositionAfterType, TradeAfterType
<1>6. Charges(o.side, o.qty, price) \in Int
    BY <1>1, ChargesInt
<1> QED BY <1>1, <1>2, <1>3, <1>4, <1>5, <1>6 DEF Booked, Fill

------------------------------------------------------------------------------
(* An entry is paid for.                                                   *)

Short(p) == IF p.qty < 0 THEN -p.qty * p.avg ELSE 0

\* An average is rounded down, so that the margin grows at most by what was sold.
LEMMA AverageBelow ==
    ASSUME NEW a \in Int, NEW b \in Nat \ {0}
    PROVE  b * (a \div b) <= a
OBVIOUS

LEMMA MarginMoves ==
    ASSUME TypeOK, NEW o \in Order, NEW price \in Int, Booked(o, price)
    PROVE  /\ ShortMargin \in Int /\ Short(pos[o.symbol]) \in Int /\ Short(pos'[o.symbol]) \in Int
           /\ ShortMargin' = ShortMargin + (Short(pos'[o.symbol]) - Short(pos[o.symbol]))
<1> DEFINE s == o.symbol
           f == [r \in Symbols |-> Short(pos[r])]
           h == [r \in Symbols |-> Short(pos'[r])]
           p == PositionAfter(pos[s], ExecutionOf(o, price))
<1>1. s \in Symbols /\ p \in Position /\ pos' = [pos EXCEPT ![s] = p]
    BY FillNumbers
<1> HIDE DEF p
<1>2. pos \in [Symbols -> Position] /\ pos' \in [Symbols -> Position]
    BY <1>1 DEF TypeOK, BooksTyped
<1>3. \A q \in Position : Short(q) \in Int
    BY DEF Short, Position
<1>4. f \in [Symbols -> Int] /\ h \in [Symbols -> Int]
    BY <1>2, <1>3
<1>5. \A r \in Symbols \ {s} : h[r] = f[r]
    BY <1>1, <1>2
<1>6. h[s] = Short(pos'[s]) /\ f[s] = Short(pos[s])
    BY <1>1
<1>7. ShortMargin = SumFunction(f) /\ ShortMargin' = SumFunction(h)
    BY DEF ShortMargin, Short
<1> HIDE DEF f, h
<1>8. SumFunction(h) = SumFunction(f) + (h[s] - f[s]) /\ SumFunction(f) \in Int
    BY <1>1, <1>4, <1>5, SymbolsAssumption, SumIsFold, Sums!SumMoves, Sums!SumType
<1>9. f[s] \in Int /\ h[s] \in Int
    BY <1>1, <1>4
<1> QED BY <1>6, <1>7, <1>8, <1>9

LEMMA EntryPaid ==
    ASSUME IInv, NEW o \in Order, NEW price \in Int, Booked(o, price), o.opening,
           o.qty * price + Charges(o.side, o.qty, price) <= Available
    PROVE  Available' >= 0
<1> DEFINE s == o.symbol
           x == ExecutionOf(o, price)
           p == PositionAfter(pos[s], x)
           q == pos[s].qty
           a == pos[s].avg
           paid == o.qty * price
           fee == Charges(o.side, o.qty, price)
<1>0. TypeOK
    BY DEF IInv
<1>1. /\ s \in Symbols /\ o.side \in Side /\ o.qty \in Nat /\ o.qty > 0 /\ pos[s] \in Position
      /\ x.qty = o.qty /\ x.side = o.side /\ x.price = price /\ x.opening
      /\ p \in Position /\ pos' = [pos EXCEPT ![s] = p] /\ cash' = CashAfter(cash, x)
      /\ fee \in Int
    BY <1>0, FillNumbers
<1>2. q \in Int /\ a \in Int /\ paid \in Int /\ cash \in Int
    BY <1>0, <1>1 DEF Position, TypeOK, BooksTyped
<1>3. pos'[s] = p
    BY <1>0, <1>1 DEF TypeOK, BooksTyped
<1>4. /\ ShortMargin \in Int /\ Short(pos[s]) \in Int /\ Short(p) \in Int
      /\ ShortMargin' = ShortMargin + (Short(p) - Short(pos[s]))
    BY <1>0, <1>3, MarginMoves
<1>5. /\ p.qty = q + Sign(o.side) * o.qty
      /\ p.avg = (a * Abs(q) + price * o.qty) \div (Abs(q) + o.qty)
    BY <1>1 DEF PositionAfter
<1>6. ~Reduces(pos[s], o.side)
    BY DEF Booked
<1>7. cash' = cash - Sign(o.side) * o.qty * price - fee
    BY <1>1 DEF CashAfter
<1>8. paid + fee <= cash - 2 * ShortMargin
    BY DEF Available
<1> HIDE DEF x, p, fee
<1>11. p.qty \in Int /\ p.avg \in Int
    BY <1>1 DEF Position
<1>9. CASE o.side = "BUY"
    <2>1. q >= 0 /\ Sign(o.side) = 1
        BY <1>2, <1>6, <1>9 DEF Reduces, Sign
    <2>2. p.qty >= 0
        BY <1>1, <1>2, <1>5, <2>1
    <2>3. Short(p) = 0 /\ Short(pos[s]) = 0
        BY <1>2, <1>11, <2>1, <2>2 DEF Short
    <2>4. cash' = cash - paid - fee
        BY <1>1, <1>2, <1>7, <2>1
    <2> QED BY <1>1, <1>2, <1>4, <1>8, <2>3, <2>4 DEF Available
<1>10. CASE o.side = "SELL"
    <2>1. q <= 0 /\ Sign(o.side) = -1 /\ Abs(q) = -q
        BY <1>2, <1>6, <1>10 DEF Reduces, Sign, Abs
    <2>2. p.qty = q - o.qty /\ p.qty < 0
        <3>1. p.qty = q + (-1) * o.qty
            BY <1>5, <2>1
        <3>2. o.qty \in Int /\ o.qty > 0 /\ q \in Int /\ q <= 0
            BY <1>1, <1>2, <2>1
        <3> HIDE DEF q
        <3> QED BY <3>1, <3>2
    <2> DEFINE num == a * (-q) + price * o.qty
               den == -q + o.qty
    <2>3. num \in Int /\ den \in Nat \ {0} /\ p.avg = num \div den /\ den = -p.qty
        BY <1>1, <1>2, <1>5, <2>1, <2>2
    <2> HIDE DEF num, den
    <2>4. Short(p) <= num
        <3>1. den * (num \div den) <= num
            BY <2>3, AverageBelow
        <3>2. Short(p) = -p.qty * p.avg
            BY <2>2 DEF Short
        <3>3. \A k, m \in Int : -k * m = (-k) * m
            OBVIOUS
        <3>4. Short(p) = den * p.avg
            BY <1>11, <2>3, <3>2, <3>3
        <3> QED BY <2>3, <3>1, <3>4
    <2>5. num = Short(pos[s]) + paid
        <3>1. Short(pos[s]) = a * (-q)
            BY <1>2, <2>1 DEF Short
        <3> QED BY <1>1, <1>2, <3>1 DEF num
    <2>6. cash' = cash + paid - fee
        BY <1>1, <1>2, <1>7, <2>1
    <2> HIDE DEF paid, q, a
    <2> QED BY <1>1, <1>2, <1>4, <1>8, <2>4, <2>5, <2>6 DEF Available
<1> QED BY <1>1, <1>9, <1>10 DEF Side

\* An entry that fills is paid for: the cash covers the shorts twice after it,
\* whatever was bought between its placement and its fill.
THEOREM EntriesAreFunded == Spec => FundedEntries
<1>1. IInv /\ [Next]_vars => [\A i \in Open : orders[i].opening /\ Fills(i) => Available' >= 0]_vars
    <2> SUFFICES ASSUME IInv, [Next]_vars, NEW i \in Open, orders[i].opening, Fills(i)
                 PROVE  Available' >= 0
        OBVIOUS
    <2>1. Visited(i) /\ EntryFills(i)
        BY FilledInVisit DEF ExitFills
    <2> DEFINE o == orders[i]
               price == EventPrice(o)
    <2>2. o \in Order /\ o.qty > 0 /\ price \in Int
        BY <2>1, VisitTypes DEF IInv, Open
    <2>3. /\ Fill(o, price) /\ ~Reduces(pos[o.symbol], o.side)
          /\ ~(o.qty * price + Charges(o.side, o.qty, price) > Available)
        BY <2>1 DEF EntryFills, FillEntry, AgainstPosition, Unfunded
    <2>4. Booked(o, price)
        BY <2>2, <2>3 DEF Booked
    <2>5. Charges(o.side, o.qty, price) \in Int /\ o.qty \in Nat /\ Available \in Int
        <3>1. TypeOK
            BY DEF IInv
        <3>2. ShortMargin \in Int /\ cash \in Int
            BY <2>2, <2>4, <3>1, MarginMoves DEF TypeOK, BooksTyped
        <3> QED BY <2>2, <2>4, <3>1, <3>2, FillNumbers DEF Available
    <2> HIDE DEF o, price
    <2>6. o.qty * price + Charges(o.side, o.qty, price) <= Available
        BY <2>2, <2>3, <2>5
    <2>7. o.opening
        BY DEF o
    <2> QED BY <2>2, <2>4, <2>6, <2>7, EntryPaid
<1> QED BY <1>1, Inductive, PTL DEF Spec, FundedEntries

------------------------------------------------------------------------------
(* The books.  The sum over the round trips and the replay of the fills    *)
(* are folds of sequences, which take their last row first.                *)

Latest(S) == Max(S)
AddNet(r, a) == a + r.net
ReplayRow(x, b) == ReplayStep(b, x)
NewBook == [pos |-> [s \in Symbols |-> [qty |-> 0, avg |-> 0]],
            trade |-> [s \in Symbols |-> NoTrade], cash |-> StartingCapital]
Nets == INSTANCE FoldFacts WITH Op <- AddNet, Base <- 0, Pick <- Latest
Rows == INSTANCE FoldFacts WITH Op <- ReplayRow, Base <- NewBook, Pick <- Latest

NetSum(rows) == FoldLeft(LAMBDA a, r : a + r.net, 0, rows)

LEMMA LatestRow ==
    ASSUME NEW k \in Nat
    PROVE  /\ \A T \in SUBSET (1 .. k) : T # {} => Latest(T) \in T
           /\ k # 0 => Latest(1 .. k) = k
<1>1. ASSUME NEW T \in SUBSET (1 .. k), T # {}
      PROVE  Latest(T) \in T /\ \A i \in T : Latest(T) >= i
    <2>1. \E m \in T : \A i \in T : i <= m
        BY <1>1, Nets!LastPosition
    <2>2. \E m \in T : \A i \in T : m >= i
        BY <2>1
    <2> QED BY <2>2 DEF Latest, Max
<1>2. k # 0 => /\ k \in 1 .. k
               /\ Latest(1 .. k) \in 1 .. k /\ Latest(1 .. k) >= k
    <2>1. k # 0 => k \in 1 .. k /\ 1 .. k # {} /\ 1 .. k \in SUBSET (1 .. k)
        OBVIOUS
    <2> QED BY <1>1, <2>1
<1>3. k # 0 => Latest(1 .. k) = k
    BY <1>2
<1> QED BY <1>1, <1>3

LEMMA FoldsAreSequential ==
    ASSUME NEW k \in Nat
    PROVE  /\ Nets!IsFiniteSet(1 .. k) /\ Nets!Picks(1 .. k)
           /\ Rows!IsFiniteSet(1 .. k) /\ Rows!Picks(1 .. k)
<1>1. IsFiniteSet(1 .. k)
    BY FS_Interval
<1>2. \A T : IsFiniteSet(T) => Nets!IsFiniteSet(T) /\ Rows!IsFiniteSet(T)
    BY DEF IsFiniteSet, Nets!IsFiniteSet, Rows!IsFiniteSet
<1>3. \A T \in SUBSET (1 .. k) : T # {} => Latest(T) \in T
    BY LatestRow
<1>4. Nets!Picks(1 .. k) /\ Rows!Picks(1 .. k)
    BY <1>3 DEF Nets!Picks, Rows!Picks
<1> QED BY <1>1, <1>2, <1>4

\* What one more row adds to either.
LEMMA NetsAppend ==
    ASSUME NEW rows \in Seq(Closed), NEW r \in Closed
    PROVE  NetSum(rows) \in Int /\ NetSum(Append(rows, r)) = NetSum(rows) + r.net
<1> DEFINE k == Len(rows)
           more == Append(rows, r)
<1>1. /\ k \in Nat /\ DOMAIN rows = 1 .. k /\ DOMAIN more = 1 .. k + 1 /\ k + 1 \in Nat
      /\ more[k + 1] = r /\ \A i \in 1 .. k : more[i] = rows[i] /\ rows[i] \in Closed
    OBVIOUS
<1>2. \A q : NetSum(q) = Nets!Fold(q, DOMAIN q)
    BY DEF NetSum, FoldLeft, MapThenFoldSet, Nets!Fold, Nets!MapThenFoldSet, AddNet, Latest
<1> HIDE DEF k, more
<1>3. Latest(1 .. k + 1) = k + 1 /\ Nets!Picks(1 .. k + 1)
    BY <1>1, LatestRow, FoldsAreSequential
<1>4. Nets!Fold(more, 1 .. k + 1) = AddNet(more[k + 1], Nets!Fold(rows, 1 .. k))
    BY <1>1, <1>3, Nets!FoldAppend
<1>5. \A i \in 1 .. k, v \in Int : AddNet(rows[i], v) \in Int
    BY <1>1 DEF AddNet, Closed
<1>6. Nets!Fold(rows, 1 .. k) \in Int
    BY <1>1, <1>5, FoldsAreSequential, Nets!FoldType
<1>7. NetSum(more) = AddNet(r, NetSum(rows)) /\ NetSum(rows) \in Int
    BY <1>1, <1>2, <1>4, <1>6
<1> QED BY <1>7 DEF AddNet, more

LEMMA ReplayAppend ==
    ASSUME NEW rows \in Seq(Execution), NEW x \in Execution
    PROVE  Replay(Append(rows, x)) = ReplayStep(Replay(rows), x)
<1> DEFINE k == Len(rows)
           more == Append(rows, x)
<1>1. /\ k \in Nat /\ DOMAIN rows = 1 .. k /\ DOMAIN more = 1 .. k + 1 /\ k + 1 \in Nat
      /\ more[k + 1] = x /\ \A i \in 1 .. k : more[i] = rows[i]
    OBVIOUS
<1>2. \A q : Replay(q) = Rows!Fold(q, DOMAIN q)
    BY DEF Replay, FoldLeft, MapThenFoldSet, Rows!Fold, Rows!MapThenFoldSet, ReplayRow, Latest,
           NewBook
<1> HIDE DEF k, more
<1>3. Latest(1 .. k + 1) = k + 1 /\ Rows!Picks(1 .. k + 1)
    BY <1>1, LatestRow, FoldsAreSequential
<1>4. Rows!Fold(more, 1 .. k + 1) = ReplayRow(more[k + 1], Rows!Fold(rows, 1 .. k))
    BY <1>1, <1>3, Rows!FoldAppend
<1>5. Replay(more) = ReplayStep(Replay(rows), x)
    BY <1>1, <1>2, <1>4 DEF ReplayRow
<1> QED BY <1>5 DEF more

\* Without rows there is nothing.
LEMMA NoRows == NetSum(<<>>) = 0 /\ Replay(<<>>) = NewBook
<1>1. DOMAIN <<>> = 1 .. 0 /\ 1 .. 0 = {} /\ 0 \in Nat
    OBVIOUS
<1>2. Nets!Fold(<<>>, 1 .. 0) = 0
    BY <1>1, FoldsAreSequential, Nets!FoldEquation
<1>3. Rows!Fold(<<>>, 1 .. 0) = NewBook
    BY <1>1, FoldsAreSequential, Rows!FoldEquation
<1>4. NetSum(<<>>) = Nets!Fold(<<>>, DOMAIN <<>>)
    BY DEF NetSum, FoldLeft, MapThenFoldSet, Nets!Fold, Nets!MapThenFoldSet, AddNet, Latest
<1>5. Replay(<<>>) = Rows!Fold(<<>>, DOMAIN <<>>)
    BY DEF Replay, FoldLeft, MapThenFoldSet, Rows!Fold, Rows!MapThenFoldSet, ReplayRow, Latest,
           NewBook
<1> QED BY <1>1, <1>2, <1>3, <1>4, <1>5

\* A symbol without a round trip owes nothing, and the replay is the books: both hold
\* of any fills.  That the running totals agree needs the round trips of all of them.
NoneIsEmpty == \A s \in Symbols : trade[s].dir = "NONE" => trade[s] = NoTrade
Flows == [s \in Symbols |-> TradeFlow(trade[s])]
AccountInv == NoneIsEmpty /\ ReplayRebuildsBook

LEMMA FlowInt == ASSUME NEW t \in Trade PROVE Net(t) \in Int /\ TradeFlow(t) \in Int
BY DEF Trade, Net, TradeFlow

LEMMA CashForm == CashReconciles <=> cash = StartingCapital + NetSum(trades) + SumFunction(Flows)
BY DEF CashReconciles, NetSum, Flows

\* What an execution changes of its round trip is what it takes from the cash.
LEMMA FlowMoves ==
    ASSUME TypeOK, TradeMirrorsPosition, NoneIsEmpty,
           NEW o \in Order, NEW price \in Int, Booked(o, price)
    PROVE  LET t == TradeAfter(trade[o.symbol], ExecutionOf(o, price))
           IN  /\ t.dir # "NONE"
               /\ Net(t) = TradeFlow(trade[o.symbol]) - Sign(o.side) * o.qty * price
                                - Charges(o.side, o.qty, price)
<1> DEFINE s == o.symbol
           u == trade[s]
           x == ExecutionOf(o, price)
           t == TradeAfter(u, x)
           fee == Charges(o.side, o.qty, price)
           paid == o.qty * price
           moved == Sign(o.side) * o.qty * price
<1> SUFFICES t.dir # "NONE" /\ Net(t) = TradeFlow(u) - moved - fee
    OBVIOUS
<1>1. /\ s \in Symbols /\ o.side \in Side /\ o.qty \in Nat /\ o.qty > 0
      /\ x.qty = o.qty /\ x.side = o.side /\ x.price = price /\ x.opening = o.opening
      /\ o.opening \in BOOLEAN /\ pos[s] \in Position /\ u \in Trade /\ fee \in Int
    BY FillNumbers
<1>2. /\ u.entryValue \in Int /\ u.exitValue \in Int /\ u.charges \in Int
      /\ u.dir \in {"NONE", "LONG", "SHORT"} /\ paid \in Int /\ pos[s].qty \in Int
    BY <1>1 DEF Trade, Position
<1>3. /\ u.dir = "LONG" <=> pos[s].qty > 0
      /\ u.dir = "SHORT" <=> pos[s].qty < 0
      /\ u.dir = "NONE" => u = NoTrade
      /\ o.opening <=> ~Reduces(pos[s], o.side)
    BY <1>1 DEF TradeMirrorsPosition, NoneIsEmpty, Booked
<1>4. CASE o.opening
    <2>1. /\ t.dir = IF u.dir # "NONE" THEN u.dir ELSE IF o.side = "BUY" THEN "LONG" ELSE "SHORT"
          /\ t.entryValue = u.entryValue + o.qty * price
          /\ t.exitValue = u.exitValue + (o.qty - o.qty) * price
          /\ t.charges = u.charges + fee
        BY <1>1, <1>4 DEF TradeAfter
    <2>2. (o.qty - o.qty) * price = 0
        BY <1>1
    <2>3. t.entryValue = u.entryValue + paid /\ t.exitValue = u.exitValue
        BY <1>2, <2>1, <2>2
    <2>4. IF o.side = "BUY" THEN t.dir = "LONG" ELSE t.dir = "SHORT"
        BY <1>1, <1>2, <1>3, <1>4, <2>1 DEF Reduces, Side
    <2>5. Net(t) = (IF o.side = "BUY" THEN u.exitValue - (u.entryValue + paid)
                                      ELSE (u.entryValue + paid) - u.exitValue)
                       - (u.charges + fee)
        BY <2>1, <2>3, <2>4 DEF Net
    <2>6. TradeFlow(u) = (IF o.side = "BUY" THEN u.exitValue - u.entryValue
                                            ELSE u.entryValue - u.exitValue) - u.charges
        <3>1. CASE u.dir = "NONE"
            BY <1>3, <3>1 DEF TradeFlow, NoTrade
        <3>2. CASE u.dir # "NONE"
            <4>1. TradeFlow(u) = Net(u) /\ t.dir = u.dir
                BY <2>1, <3>2 DEF TradeFlow
            <4> QED BY <2>4, <4>1 DEF Net
        <3> QED BY <3>1, <3>2
    <2>7. moved = IF o.side = "BUY" THEN paid ELSE -paid
        BY <1>1, <1>2 DEF Sign
    <2>8. t.dir # "NONE"
        BY <2>4
    <2> HIDE DEF t, u, paid, fee, moved
    <2>9. CASE o.side = "BUY"
        BY <1>1, <1>2, <2>5, <2>6, <2>7, <2>8, <2>9
    <2>10. CASE o.side # "BUY"
        BY <1>1, <1>2, <2>5, <2>6, <2>7, <2>8, <2>10
    <2> QED BY <2>9, <2>10
<1>5. CASE ~o.opening
    <2>1. /\ t.dir = u.dir
          /\ t.entryValue = u.entryValue + 0 * price
          /\ t.exitValue = u.exitValue + (o.qty - 0) * price
          /\ t.charges = u.charges + fee
        BY <1>1, <1>5 DEF TradeAfter
    <2>2. t.entryValue = u.entryValue /\ t.exitValue = u.exitValue + paid
        BY <1>1, <1>2, <2>1
    <2>4. IF o.side = "BUY" THEN u.dir = "SHORT" ELSE u.dir = "LONG"
        BY <1>1, <1>2, <1>3, <1>5 DEF Reduces, Side
    <2>5. Net(t) = (IF o.side = "BUY" THEN u.entryValue - (u.exitValue + paid)
                                      ELSE (u.exitValue + paid) - u.entryValue)
                       - (u.charges + fee)
        BY <2>1, <2>2, <2>4 DEF Net
    <2>6. TradeFlow(u) = (IF o.side = "BUY" THEN u.entryValue - u.exitValue
                                            ELSE u.exitValue - u.entryValue) - u.charges
        BY <2>4 DEF TradeFlow, Net
    <2>7. moved = IF o.side = "BUY" THEN paid ELSE -paid
        BY <1>1, <1>2 DEF Sign
    <2>8. t.dir # "NONE"
        BY <2>1, <2>4
    <2> HIDE DEF t, u, paid, fee, moved
    <2>9. CASE o.side = "BUY"
        BY <1>1, <1>2, <2>5, <2>6, <2>7, <2>8, <2>9
    <2>10. CASE o.side # "BUY"
        BY <1>1, <1>2, <2>5, <2>6, <2>7, <2>8, <2>10
    <2> QED BY <2>9, <2>10
<1> QED BY <1>1, <1>4, <1>5

LEMMA NoneMoves ==
    ASSUME TypeOK, TradeMirrorsPosition, NoneIsEmpty,
           NEW o \in Order, NEW price \in Int, Booked(o, price)
    PROVE  NoneIsEmpty'
<1> DEFINE s == o.symbol
           x == ExecutionOf(o, price)
           t == TradeAfter(trade[s], x)
           closed == ~o.opening /\ PositionAfter(pos[s], x).qty = 0
<1>1. s \in Symbols /\ trade' = [trade EXCEPT ![s] = IF closed THEN NoTrade ELSE t]
    BY FillNumbers
<1>2. t.dir # "NONE"
    BY FlowMoves
<1>3. trade \in [Symbols -> Trade]
    BY DEF TypeOK, BooksTyped
<1> HIDE DEF t, x, closed
<1> QED BY <1>1, <1>2, <1>3 DEF NoneIsEmpty

LEMMA CashMoves ==
    ASSUME TypeOK, TradeMirrorsPosition, NoneIsEmpty, CashReconciles,
           NEW o \in Order, NEW price \in Int, Booked(o, price)
    PROVE  CashReconciles'
<1> DEFINE s == o.symbol
           x == ExecutionOf(o, price)
           t == TradeAfter(trade[s], x)
           closed == ~o.opening /\ PositionAfter(pos[s], x).qty = 0
           gained == -(Sign(o.side) * o.qty * price) - Charges(o.side, o.qty, price)
<1>1. /\ s \in Symbols /\ o.side \in Side /\ o.qty \in Nat /\ t \in Trade
      /\ trade' = [trade EXCEPT ![s] = IF closed THEN NoTrade ELSE t]
      /\ trades' = IF closed THEN Append(trades, ClosedTrade(s, t)) ELSE trades
      /\ cash' = CashAfter(cash, x) /\ x.qty = o.qty /\ x.side = o.side /\ x.price = price
      /\ Charges(o.side, o.qty, price) \in Int
    BY FillNumbers
<1>2. trade \in [Symbols -> Trade] /\ trades \in Seq(Closed) /\ cash \in Int
    BY DEF TypeOK, BooksTyped
<1>3. Sign(o.side) * o.qty * price \in Int
    <2>1. Sign(o.side) \in Int
        BY DEF Sign
    <2> QED BY <1>1, <2>1
<1>4. gained \in Int /\ cash' = cash + gained
    BY <1>1, <1>2, <1>3 DEF CashAfter
<1>5. t.dir # "NONE" /\ Net(t) = TradeFlow(trade[s]) + gained
    <2>1. TradeFlow(trade[s]) \in Int
        BY <1>1, <1>2, FlowInt
    <2>2. /\ t.dir # "NONE"
          /\ Net(t) = TradeFlow(trade[s]) - Sign(o.side) * o.qty * price
                           - Charges(o.side, o.qty, price)
        BY FlowMoves
    <2> HIDE DEF t
    <2> QED BY <1>1, <1>3, <2>1, <2>2
<1> HIDE DEF gained, t, x, closed
<1>6. NoTrade \in Trade /\ NoTrade.dir = "NONE"
    BY DEF NoTrade, Trade
<1>7. trade' \in [Symbols -> Trade] /\ (\A r \in Symbols \ {s} : trade'[r] = trade[r])
      /\ trade'[s] = IF closed THEN NoTrade ELSE t
    BY <1>1, <1>2, <1>6
<1>9. /\ Flows \in [Symbols -> Int] /\ Flows' \in [Symbols -> Int]
      /\ \A r \in Symbols \ {s} : Flows'[r] = Flows[r]
      /\ Flows[s] = TradeFlow(trade[s]) /\ Flows'[s] = TradeFlow(trade'[s])
    <2>1. \A r \in Symbols : TradeFlow(trade[r]) \in Int /\ TradeFlow(trade'[r]) \in Int
        BY <1>2, <1>7, FlowInt
    <2> QED BY <1>1, <1>7, <2>1 DEF Flows
<1>10. /\ SumFunction(Flows) \in Int
       /\ SumFunction(Flows') = SumFunction(Flows) + (Flows'[s] - Flows[s])
    <2> DEFINE f == Flows
               h == Flows'
    <2>1. /\ f \in [Symbols -> Int] /\ h \in [Symbols -> Int] /\ s \in Symbols
          /\ \A r \in Symbols \ {s} : h[r] = f[r]
        BY <1>1, <1>9
    <2> HIDE DEF f, h, s
    <2>2. SumFunction(f) \in Int /\ SumFunction(h) = SumFunction(f) + (h[s] - f[s])
        BY <2>1, SymbolsAssumption, SumIsFold, Sums!SumMoves, Sums!SumType
    <2> QED BY <2>2 DEF f, h, s
<1>11. ClosedTrade(s, t) \in Closed /\ ClosedTrade(s, t).net = Net(t) /\ Net(t) \in Int
    BY <1>1, FlowInt DEF ClosedTrade, Closed, Trade
<1>12. NetSum(trades) \in Int
       /\ NetSum(trades') = IF closed THEN NetSum(trades) + Net(t) ELSE NetSum(trades)
    BY <1>1, <1>2, <1>11, NetsAppend
<1>13. Flows'[s] = IF closed THEN 0 ELSE Net(t)
    BY <1>5, <1>6, <1>7, <1>9 DEF TradeFlow
<1>14. cash = StartingCapital + NetSum(trades) + SumFunction(Flows)
    BY CashForm
<1>15. StartingCapital \in Int /\ TradeFlow(trade[s]) \in Int
    BY <1>1, <1>2, FlowInt, LimitsAssumption
<1>16. cash' = StartingCapital + NetSum(trades') + SumFunction(Flows')
    <2>1. CASE closed
        BY <1>4, <1>5, <1>9, <1>10, <1>11, <1>12, <1>13, <1>14, <1>15, <2>1
    <2>2. CASE ~closed
        BY <1>4, <1>5, <1>9, <1>10, <1>11, <1>12, <1>13, <1>14, <1>15, <2>2
    <2> QED BY <2>1, <2>2
<1>17. (cash = StartingCapital + NetSum(trades) + SumFunction(Flows))'
    BY <1>16
<1> QED BY <1>17, CashForm, PTL

\* The replay recomputes which fills opened, and reaches the same books.
LEMMA ReplayMoves ==
    ASSUME TypeOK, ReplayRebuildsBook, NEW o \in Order, NEW price \in Int, Booked(o, price)
    PROVE  ReplayRebuildsBook'
<1> DEFINE s == o.symbol
           x == ExecutionOf(o, price)
           p == PositionAfter(pos[s], x)
           t == TradeAfter(trade[s], x)
           b == [pos |-> pos, trade |-> trade, cash |-> cash]
<1>1. /\ s \in Symbols /\ x \in Execution /\ x.symbol = s /\ x.side = o.side
      /\ x.opening = o.opening /\ o.opening \in BOOLEAN
      /\ pos' = [pos EXCEPT ![s] = p] /\ cash' = CashAfter(cash, x) /\ fills' = Append(fills, x)
      /\ trade' = [trade EXCEPT ![s] = IF ~o.opening /\ p.qty = 0 THEN NoTrade ELSE t]
    BY FillNumbers
<1>2. x.opening = ~Reduces(pos[s], x.side)
    BY <1>1 DEF Booked, Reduces
<1> HIDE DEF x
<1>3. [x EXCEPT !.opening = ~Reduces(pos[s], x.side)] = x
    BY <1>1, <1>2 DEF Execution
<1>4. ReplayStep(b, x) = [pos |-> pos', trade |-> trade', cash |-> cash']
    BY <1>1, <1>3 DEF ReplayStep
<1>5. Replay(fills) = b /\ fills \in Seq(Execution)
    BY DEF ReplayRebuildsBook, TypeOK, BooksTyped
<1> HIDE DEF b, p, t
<1>6. Replay(Append(fills, x)) = ReplayStep(Replay(fills), x)
    BY <1>1, <1>5, ReplayAppend
<1>7. Replay(fills') = [pos |-> pos', trade |-> trade', cash |-> cash']
    BY <1>1, <1>4, <1>5, <1>6
<1> QED BY <1>7 DEF ReplayRebuildsBook, Replay

LEMMA AccountInit == Init => AccountInv
<1> SUFFICES ASSUME Init PROVE AccountInv
    OBVIOUS
<1>1. trade = [s \in Symbols |-> NoTrade] /\ fills = <<>>
      /\ cash = StartingCapital /\ pos = [s \in Symbols |-> [qty |-> 0, avg |-> 0]]
    BY DEF Init
<1>2. ReplayRebuildsBook
    BY <1>1, NoRows DEF ReplayRebuildsBook, NewBook
<1> QED BY <1>1, <1>2 DEF AccountInv, NoneIsEmpty

LEMMA CashInit == Init => CashReconciles
<1> SUFFICES ASSUME Init PROVE CashReconciles
    OBVIOUS
<1>1. trade = [s \in Symbols |-> NoTrade] /\ trades = <<>> /\ cash = StartingCapital
    BY DEF Init
<1>2. Flows = [s \in Symbols |-> 0]
    BY <1>1 DEF Flows, TradeFlow, NoTrade
<1>3. SumFunction([s \in Symbols |-> 0]) = 0
    <2> DEFINE zero == [s \in Symbols |-> 0]
    <2>1. \A r \in Symbols, v \in {0} : zero[r] + v \in {0}
        OBVIOUS
    <2>2. SumFunction(zero) = Sums!Fold(zero, Symbols) /\ Sums!IsFiniteSet(Symbols)
          /\ Sums!Picks(Symbols)
        BY SymbolsAssumption, SumIsFold
    <2> HIDE DEF zero
    <2>3. Sums!Fold(zero, Symbols) \in {0}
        BY <2>1, <2>2, Sums!FoldType
    <2>4. SumFunction(zero) = 0
        BY <2>2, <2>3
    <2> QED BY <2>4 DEF zero
<1> QED BY <1>1, <1>2, <1>3, NoRows, CashForm, LimitsAssumption

\* A step that leaves the books alone or executes an order keeps the account.
LEMMA AccountStep == IInv /\ AccountInv /\ [Next]_vars => AccountInv'
<1> SUFFICES ASSUME IInv, AccountInv, [Next]_vars PROVE AccountInv'
    OBVIOUS
<1>1. TypeOK /\ TradeMirrorsPosition /\ NoneIsEmpty /\ ReplayRebuildsBook
    BY DEF IInv, AccountInv
<1>2. CASE UNCHANGED Books
    <2>1. UNCHANGED <<pos, trade, trades, cash, fills>>
        BY <1>2 DEF Books
    <2>2. NoneIsEmpty'
        BY <1>1, <2>1 DEF NoneIsEmpty
    <2>3. ReplayRebuildsBook'
        BY <1>1, <2>1 DEF ReplayRebuildsBook, Replay
    <2> QED BY <2>2, <2>3 DEF AccountInv
<1>3. CASE \E o \in Order, price \in Int : Booked(o, price)
    BY <1>1, <1>3, NoneMoves, ReplayMoves DEF AccountInv
<1> QED BY <1>2, <1>3, StepBooks

\* And what it takes from the cash it adds to a round trip.
LEMMA CashStep == IInv /\ AccountInv /\ CashReconciles /\ [Next]_vars => CashReconciles'
<1> SUFFICES ASSUME IInv, AccountInv, CashReconciles, [Next]_vars PROVE CashReconciles'
    OBVIOUS
<1>1. TypeOK /\ TradeMirrorsPosition /\ NoneIsEmpty
    BY DEF IInv, AccountInv
<1>2. CASE UNCHANGED Books
    <2>1. UNCHANGED <<trade, trades, cash>>
        BY <1>2 DEF Books
    <2>2. cash' = cash /\ NetSum(trades') = NetSum(trades) /\ Flows' = Flows
        BY <2>1 DEF Flows
    <2>3. (cash = StartingCapital + NetSum(trades) + SumFunction(Flows))'
        BY <2>2, CashForm
    <2> QED BY <2>3, CashForm, PTL
<1>3. CASE \E o \in Order, price \in Int : Booked(o, price)
    BY <1>1, <1>3, CashMoves
<1> QED BY <1>2, <1>3, StepBooks

\* The running totals, the round trips and the replay of the fills agree.
THEOREM BooksAgree == Spec => []BooksReconcile
<1>1. AccountInv /\ CashReconciles => BooksReconcile
    BY DEF AccountInv, BooksReconcile
<1> QED BY <1>1, AccountStep, AccountInit, CashStep, CashInit, Inductive, PTL DEF Spec

==============================================================================
